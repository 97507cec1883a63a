------------------------- MODULE InteractionsProofs -------------------------
(***************************************************************************)
(* Proofs about Interactions, for every set of asks, routes, requests and  *)
(* decisions and any number of crashes: what the ledger records as the     *)
(* answer is what the worker was handed, a closed interaction stays as it  *)
(* is, and the prompts fit.                                                *)
(*                                                                         *)
(* Four coroutines send replies and any of them may be cut by a crash or a *)
(* timeout, so AnsweredAsRecorded is far from inductive.  IInv says who may*)
(* be sending what: an ask that is resolving has one reply that still      *)
(* counts, its own, at most one coroutine that sends it, and one that is   *)
(* absent or pending has none.  HeardOnce says what that leaves at the     *)
(* worker: a request the provider still keeps was written to only by a     *)
(* coroutine that has yet to remove it, or by one that was cut off there.  *)
(***************************************************************************)
EXTENDS Interactions, TLAPS

Busy(s) == sender[s].at \in {"sending", "written", "taken"}

\* A reply that may still resolve its ask, or has reached the worker.
Counts(i, m) == command[i][m].state \in {"pending", "sending", "sent"}

\* The worker was handed d, and will be handed nothing else.
Handed(i, d) == native[i] \in {"settled", "gone"} /\ given[i] = d

\* A coroutine sends a reply of the ledger, to an ask that has begun to be
\* resolved; while the ask is resolving the command is known to be on its way.
SenderOK(s) ==
    Busy(s) =>
        LET i == sender[s].ask
            m == sender[s].reply
        IN /\ i \in Asks /\ m \in Replies
           /\ sender[s].at = "taken" => native[i] \in {"settled", "gone"}
           /\ sender[s].at \in {"written", "taken"} /\ ask[i].state = "resolving"
                => given[i] = Says[m]
           /\ ask[i].state \in {"resolving"} \cup Closed
           /\ command[i][m].state # "absent"
           /\ ask[i].state = "resolving" => command[i][m].state = "sending"

\* Who may send which reply; only the expirer's loop has asks left to visit.
RolesOK ==
    /\ Busy("user") => /\ sender["user"].reply \in Turns
                       /\ told[sender["user"].reply] = "nothing"
    /\ Busy("reducer") => sender["reducer"].reply \in {"policy", "plan"}
    /\ Busy("expirer") => sender["expirer"].reply = "expiry"
    /\ ~Busy("expirer") => left = {}

\* The coordinator is asked about an ask that was reduced.
PlanningOK ==
    sender["reducer"].at = "planning"
        => /\ sender["reducer"].ask \in Asks
           /\ event[sender["reducer"].ask] \notin {"none", "stream"}

\* Two coroutines send to one ask only when it is closed.
SoloOK ==
    \A s1, s2 \in Senders :
        Busy(s1) /\ Busy(s2) /\ s1 # s2 /\ sender[s1].ask = sender[s2].ask
            => ask[sender[s1].ask].state \in Closed

CommandOK(i, m) ==
    /\ command[i][m].state # "absent" => command[i][m].decision = Says[m]
    /\ command[i][m].state = "sent" /\ ask[i].state = "resolving"
         => Handed(i, Says[m])
    /\ Counts(i, m) => ask[i].state \notin {"absent", "pending"}
    /\ Counts(i, m) /\ ask[i].state = "resolving"
         => /\ ask[i].decision = Says[m]
            /\ \A n \in Replies : Counts(i, n) => n = m

AskOK(i) ==
    /\ event[i] \in {"none", "stream"} => ask[i].state = "absent" /\ prompt[i] = "none"
    /\ native[i] = "none" => event[i] = "none"
    /\ ask[i].state = "resolved" => Handed(i, ask[i].decision)
    /\ command[i]["expiry"].state # "absent" => ask[i].state = "expired"
    /\ i \in left => ask[i].state = "expired"
    /\ \A m \in Replies : CommandOK(i, m)

PhaseOK ==
    /\ phase = "down" => \A s \in Senders : sender[s] = Idle
    /\ crashes = 0 => phase = "serving"

\* In a process that never died a prompt is withdrawn only with its ask.
PromptOK == crashes = 0 => \A i \in Asks : prompt[i] = "withdrawn" => ask[i].state \in Closed

IInv ==
    /\ TypeOK
    /\ \A s \in Senders : SenderOK(s)
    /\ RolesOK /\ SoloOK /\ PlanningOK
    /\ \A i \in Asks : AskOK(i)
    /\ PhaseOK /\ PromptOK /\ PromptsFit

USE PermissionsAssumption, RoutesAssumption, DecisionsAssumption, TurnsAssumption,
    CrashAssumption, SaysAssumption

AskStates == Closed \cup {"absent", "pending", "resolving"}
AskRecords == [state : AskStates, decision : Decided]
CommandRecords == [state : {"absent", "pending", "sending", "sent", "failed"},
                   decision : Decided]
SenderRecords == [at : {"idle", "planning", "sending", "written", "taken"},
                  ask : Asks \cup {"none"}, reply : Replies \cup {"nobody"}]

\* The types of the next state, one variable at a time.
LEMMA NextTyped ==
    ASSUME ask' \in [Asks -> AskRecords],
           event' \in [Asks -> {"none", "stream", "logged", "processed"}],
           command' \in [Asks -> [Replies -> CommandRecords]],
           prompt' \in [Asks -> {"none", "open", "withdrawn"}],
           over' \in BOOLEAN,
           phase' \in {"down", "starting", "opening", "replaying", "serving"},
           sender' \in [Senders -> SenderRecords],
           left' \subseteq Asks,
           native' \in [Asks -> {"none", "waiting", "settled", "gone"}],
           heard' \in [Asks -> Decided], given' \in [Asks -> Decided],
           cut' \subseteq Asks,
           told' \in [Turns -> {"nothing", "accepted", "refused"}],
           crashes' \in 0..MaxCrashes
    PROVE  TypeOK'
BY DEF TypeOK, AskRecords, AskStates, CommandRecords, SenderRecords

\* The types of this state, in the same form.
LEMMA Typed ==
    ASSUME TypeOK
    PROVE  /\ ask \in [Asks -> AskRecords]
           /\ event \in [Asks -> {"none", "stream", "logged", "processed"}]
           /\ command \in [Asks -> [Replies -> CommandRecords]]
           /\ prompt \in [Asks -> {"none", "open", "withdrawn"}]
           /\ over \in BOOLEAN
           /\ phase \in {"down", "starting", "opening", "replaying", "serving"}
           /\ sender \in [Senders -> SenderRecords]
           /\ left \subseteq Asks
           /\ native \in [Asks -> {"none", "waiting", "settled", "gone"}]
           /\ heard \in [Asks -> Decided] /\ given \in [Asks -> Decided]
           /\ cut \subseteq Asks
           /\ told \in [Turns -> {"nothing", "accepted", "refused"}]
           /\ crashes \in 0..MaxCrashes
BY DEF TypeOK, AskRecords, AskStates, CommandRecords, SenderRecords

\* What replies there are, and that each carries a decision.
LEMMA SaysTyped == /\ \A m \in Replies : Says[m] \in Decided
                   /\ "expiry" \in Replies /\ "policy" \in Replies /\ "plan" \in Replies
                   /\ Turns \subseteq Replies /\ Says["expiry"] = "deny"
                   /\ "deny" \in Decided /\ "none" \in Decided
BY DEF Replies, Decided

-----------------------------------------------------------------------------
(* The helpers keep their types. *)

\* What a death of the process leaves.
LEMMA DieTyped ==
    ASSUME TypeOK, Die
    PROVE  /\ phase' = "down" /\ crashes' \in 0..MaxCrashes /\ crashes' # 0
           /\ sender' \in [Senders -> SenderRecords]
           /\ left' = {} /\ told' = told
           /\ heard' = heard /\ given' = given /\ cut' = cut
           /\ native' \in [Asks -> {"none", "waiting", "settled", "gone"}]
           /\ \A i \in Asks : native[i] \in {"settled", "gone"}
                               => native'[i] \in {"settled", "gone"}
           /\ \A i \in Asks : (native'[i] = "none") = (native[i] = "none")
           /\ \A s \in Senders : sender'[s] = Idle
<1>1. /\ crashes < MaxCrashes /\ crashes' = crashes + 1 /\ phase' = "down"
      /\ sender' = [s \in Senders |-> Idle] /\ left' = {}
      /\ native' = [i \in Asks |-> IF native[i] = "none" THEN "none" ELSE "gone"]
      /\ heard' = heard /\ given' = given /\ cut' = cut /\ told' = told
  BY DEF Die
<1>2. Idle \in SenderRecords
  BY DEF Idle, SenderRecords
<1>3. native \in [Asks -> {"none", "waiting", "settled", "gone"}] /\ crashes \in 0..MaxCrashes
  BY Typed
<1>4. native' \in [Asks -> {"none", "waiting", "settled", "gone"}]
  BY <1>1, <1>3
<1> QED BY <1>1, <1>2, <1>3, <1>4

\* The commands after those of some asks are revoked.
LEMMA RevokedTyped ==
    ASSUME TypeOK, NEW S \in SUBSET Asks
    PROVE  /\ Revoked(S) \in [Asks -> [Replies -> CommandRecords]]
           /\ \A i \in Asks, m \in Replies :
                /\ Revoked(S)[i][m].decision = command[i][m].decision
                /\ Revoked(S)[i][m].state =
                     IF i \in S /\ Unsent(i, m) THEN "failed" ELSE command[i][m].state
<1>1. \A i \in Asks, m \in Replies : command[i][m] \in CommandRecords
  BY Typed
<1>2. \A i \in Asks, m \in Replies :
        [command[i][m] EXCEPT !.state = "failed"] \in CommandRecords
  BY <1>1 DEF CommandRecords
<1> QED BY <1>1, <1>2 DEF Revoked, CommandRecords

\* The prompts after those of some asks are withdrawn.
LEMMA WithdrawnTyped ==
    ASSUME TypeOK, NEW S \in SUBSET Asks
    PROVE  /\ Withdrawn(S) \in [Asks -> {"none", "open", "withdrawn"}]
           /\ \A i \in Asks :
                Withdrawn(S)[i] =
                  IF i \in S /\ prompt[i] = "open" THEN "withdrawn" ELSE prompt[i]
<1>1. prompt \in [Asks -> {"none", "open", "withdrawn"}]
  BY Typed
<1> QED BY <1>1 DEF Withdrawn

\* The prompts after one ask is put to the user.
LEMMA PromptedTyped ==
    ASSUME TypeOK, NEW i \in Asks
    PROVE  /\ Prompted(i) \in [Asks -> {"none", "open", "withdrawn"}]
           /\ Prompted(i)[i] = IF prompt[i] = "none" THEN "open" ELSE prompt[i]
           /\ \A j \in Asks \ {i} : Prompted(i)[j] = prompt[j]
<1>1. prompt \in [Asks -> {"none", "open", "withdrawn"}]
  BY Typed
<1> QED BY <1>1 DEF Prompted

\* The commands after a reply enters the outbox.
LEMMA EnqueuedTyped ==
    ASSUME TypeOK, NEW i \in Asks, NEW m \in Replies, NEW s \in {"pending", "sending"}
    PROVE  /\ Enqueued(i, m, s) \in [Asks -> [Replies -> CommandRecords]]
           /\ Enqueued(i, m, s)[i][m].state = s
           /\ Enqueued(i, m, s)[i][m].decision = Says[m]
           /\ \A n \in Replies \ {m} : Enqueued(i, m, s)[i][n] = command[i][n]
           /\ \A j \in Asks \ {i} : Enqueued(i, m, s)[j] = command[j]
<1>1. command \in [Asks -> [Replies -> CommandRecords]]
  BY Typed
<1>2. [state |-> s, decision |-> Says[m]] \in CommandRecords
  BY SaysTyped DEF CommandRecords
<1> QED BY <1>1, <1>2 DEF Enqueued

\* The same as a step, which may also leave the outbox alone.
LEMMA EnqueuedStep ==
    ASSUME TypeOK, NEW i \in Asks, NEW m \in Replies,
           \/ command' = command
           \/ \E s \in {"pending", "sending"} : command' = Enqueued(i, m, s)
    PROVE  /\ command' \in [Asks -> [Replies -> CommandRecords]]
           /\ \A n \in Replies \ {m} : command'[i][n] = command[i][n]
           /\ \A j \in Asks \ {i} : command'[j] = command[j]
           /\ \/ command'[i][m] = command[i][m]
              \/ /\ command'[i][m].state \in {"pending", "sending"}
                 /\ command'[i][m].decision = Says[m]
<1>1. CASE command' = command
  BY <1>1, Typed
<1>2. ASSUME NEW s \in {"pending", "sending"}, command' = Enqueued(i, m, s)
      PROVE  /\ command' \in [Asks -> [Replies -> CommandRecords]]
             /\ \A n \in Replies \ {m} : command'[i][n] = command[i][n]
             /\ \A j \in Asks \ {i} : command'[j] = command[j]
             /\ command'[i][m].state = s
             /\ command'[i][m].decision = Says[m]
  BY <1>2, EnqueuedTyped
<1> QED BY <1>1, <1>2

\* The commands after the outcome of a send is marked.
LEMMA MarkedTyped ==
    ASSUME TypeOK, NEW i \in Asks, NEW m \in Replies, NEW ok \in BOOLEAN
    PROVE  /\ Marked(i, m, ok) \in [Asks -> [Replies -> CommandRecords]]
           /\ Marked(i, m, ok)[i][m].state = IF ok THEN "sent" ELSE "failed"
           /\ Marked(i, m, ok)[i][m].decision = command[i][m].decision
           /\ \A n \in Replies \ {m} : Marked(i, m, ok)[i][n] = command[i][n]
           /\ \A j \in Asks \ {i} : Marked(i, m, ok)[j] = command[j]
<1>1. command \in [Asks -> [Replies -> CommandRecords]]
  BY Typed
<1>7. command[i][m] \in CommandRecords
  BY <1>1
<1>2. \A s \in {"sent", "failed"} :
        [command[i][m] EXCEPT !.state = s] \in CommandRecords
  BY <1>7 DEF CommandRecords
<1>3. [command[i] EXCEPT ![m] = [command[i][m] EXCEPT !.state = IF ok THEN "sent" ELSE "failed"]]
        \in [Replies -> CommandRecords]
  BY <1>1, <1>2
<1>4. Marked(i, m, ok) = [command EXCEPT ![i] =
         [command[i] EXCEPT ![m] = [command[i][m] EXCEPT !.state = IF ok THEN "sent" ELSE "failed"]]]
  BY <1>1 DEF Marked
<1>5. Marked(i, m, ok) \in [Asks -> [Replies -> CommandRecords]]
  BY <1>1, <1>3, <1>4
<1>6. /\ Marked(i, m, ok)[i][m] =
           [command[i][m] EXCEPT !.state = IF ok THEN "sent" ELSE "failed"]
      /\ \A n \in Replies \ {m} : Marked(i, m, ok)[i][n] = command[i][n]
      /\ \A j \in Asks \ {i} : Marked(i, m, ok)[j] = command[j]
  BY <1>1, <1>4
<1> QED BY <1>5, <1>6, <1>7 DEF CommandRecords

\* The asks after one begins to be resolved.
LEMMA BegunStep ==
    ASSUME TypeOK, NEW i \in Asks, NEW m \in Replies, ask' = Begun(i, m)
    PROVE  /\ ask' \in [Asks -> AskRecords]
           /\ ask'[i] = [state |-> "resolving", decision |-> Says[m]]
           /\ \A j \in Asks \ {i} : ask'[j] = ask[j]
<1>1. ask \in [Asks -> AskRecords]
  BY Typed
<1>2. [state |-> "resolving", decision |-> Says[m]] \in AskRecords
  BY SaysTyped DEF AskRecords, AskStates
<1> QED BY <1>1, <1>2 DEF Begun

\* The asks after finish_interaction_resolution for one of them.
LEMMA FinishedTyped ==
    ASSUME TypeOK, NEW i \in Asks, NEW ok \in BOOLEAN
    PROVE  /\ Finished(i, ok) \in [Asks -> AskRecords]
           /\ \A j \in Asks \ {i} : Finished(i, ok)[j] = ask[j]
           /\ ask[i].state # "resolving" => Finished(i, ok) = ask
           /\ ask[i].state = "resolving" /\ ok
                => /\ Finished(i, ok)[i].state = "resolved"
                   /\ Finished(i, ok)[i].decision = ask[i].decision
           /\ ask[i].state = "resolving" /\ ~ok
                => Finished(i, ok)[i].state = "pending"
<1>1. ask \in [Asks -> AskRecords]
  BY Typed
<1>2. ask[i] \in AskRecords
  BY <1>1
<1>3. /\ [ask[i] EXCEPT !.state = "resolved"] \in AskRecords
      /\ [state |-> "pending", decision |-> "none"] \in AskRecords
  BY <1>2, SaysTyped DEF AskRecords, AskStates, Closed
<1>4. /\ [ask[i] EXCEPT !.state = "resolved"].state = "resolved"
      /\ [ask[i] EXCEPT !.state = "resolved"].decision = ask[i].decision
  BY <1>2 DEF AskRecords
<1>5. Finished(i, ok) \in [Asks -> AskRecords]
  BY <1>1, <1>3 DEF Finished
<1>6. ASSUME ask[i].state = "resolving"
      PROVE  /\ \A j \in Asks \ {i} : Finished(i, ok)[j] = ask[j]
             /\ ok => Finished(i, ok)[i] = [ask[i] EXCEPT !.state = "resolved"]
             /\ ~ok => Finished(i, ok)[i] = [state |-> "pending", decision |-> "none"]
  BY <1>1, <1>6 DEF Finished
<1>7. CASE ask[i].state # "resolving"
  BY <1>1, <1>7 DEF Finished
<1>8. CASE ask[i].state = "resolving" /\ ok
  BY <1>4, <1>5, <1>6, <1>8
<1>9. CASE ask[i].state = "resolving" /\ ~ok
  BY <1>5, <1>6, <1>9
<1> QED BY <1>7, <1>8, <1>9

\* The coroutines after one begins to send.
LEMMA SendingTyped ==
    ASSUME TypeOK, NEW s \in Senders, NEW i \in Asks, NEW m \in Replies
    PROVE  [sender EXCEPT ![s] = Sending(i, m)] \in [Senders -> SenderRecords]
<1>1. sender \in [Senders -> SenderRecords] /\ Sending(i, m) \in SenderRecords
  BY Typed DEF Sending, SenderRecords
<1> QED BY <1>1

\* The coroutines after one is done.
LEMMA IdleTyped ==
    ASSUME TypeOK, NEW s \in Senders
    PROVE  [sender EXCEPT ![s] = Idle] \in [Senders -> SenderRecords]
<1>1. sender \in [Senders -> SenderRecords] /\ Idle \in SenderRecords
  BY Typed DEF Idle, SenderRecords
<1> QED BY <1>1

-----------------------------------------------------------------------------
(* Facts about steps. *)

\* After a death only what the ledger holds matters.
LEMMA DieLeaves ==
    ASSUME IInv, Die, TypeOK', \A i \in Asks : AskOK(i)'
    PROVE  IInv'
<1>1. crashes' # 0 /\ phase' = "down" /\ \A s \in Senders : sender'[s] = Idle
  BY DieTyped DEF IInv
<1>2. \A s \in Senders : ~Busy(s)'
  BY <1>1 DEF Busy, Idle
<1>3. \A s \in Senders : SenderOK(s)'
  BY <1>2 DEF SenderOK
<1>4. RolesOK' /\ SoloOK'
  BY <1>2, DieTyped DEF IInv, RolesOK, SoloOK, Senders
<1>7. PlanningOK'
  BY <1>1 DEF PlanningOK, Senders, Idle
<1>5. PhaseOK'
  BY <1>1 DEF PhaseOK
<1>6. PromptOK' /\ PromptsFit'
  BY <1>1 DEF PromptOK, PromptsFit, NoStalePrompt, PendingIsAsked
<1> QED BY <1>3, <1>4, <1>5, <1>6, <1>7 DEF IInv

\* What a step may leave alone.
LEMMA SameAsk ==
    ASSUME IInv, NEW i \in Asks,
           ask'[i] = ask[i], command'[i] = command[i],
           event'[i] \in {"none", "stream"} => event[i] \in {"none", "stream"},
           event'[i] \in {"none", "stream"} => prompt'[i] = prompt[i],
           native'[i] = "none" => event'[i] = "none",
           i \in left' => i \in left,
           native[i] \in {"settled", "gone"} => native'[i] \in {"settled", "gone"} /\ given'[i] = given[i]
    PROVE  AskOK(i)'
<1>1. AskOK(i)
  BY DEF IInv
<1>2. \A m \in Replies : CommandOK(i, m)'
  BY <1>1 DEF AskOK, CommandOK, Counts, Handed
<1> QED BY <1>1, <1>2 DEF AskOK, Handed

\* The ledger's view of an ask that begins to be resolved.
LEMMA BegunAskOK ==
    ASSUME IInv, NEW i \in Asks, NEW m \in Replies \ {"expiry"},
           ask[i].state = "pending" \/ ask[i].state = "absent",
           ask'[i] = [state |-> "resolving", decision |-> Says[m]],
           \A n \in Replies \ {m} : command'[i][n] = command[i][n],
           \/ command'[i][m] = command[i][m]
           \/ command'[i][m].state \in {"pending", "sending"}
              /\ command'[i][m].decision = Says[m],
           event'[i] \notin {"none", "stream"}, native'[i] # "none", left' \subseteq left,
           native[i] \in {"settled", "gone"} => native'[i] \in {"settled", "gone"} /\ given'[i] = given[i]
    PROVE  AskOK(i)'
<1>1. AskOK(i)
  BY DEF IInv
<1>2. \A n \in Replies : ~Counts(i, n)
  BY <1>1 DEF AskOK, CommandOK
<1>3. \A n \in Replies : Counts(i, n)' => n = m
  BY <1>2 DEF Counts
<1>4. \A n \in Replies : CommandOK(i, n)'
  BY <1>1, <1>2, <1>3 DEF AskOK, CommandOK, Counts, Handed
<1>5. command'[i]["expiry"].state = "absent" /\ i \notin left'
  BY <1>1, SaysTyped DEF AskOK
<1> QED BY <1>4, <1>5 DEF AskOK

\* The coordinator's turn is about an ask in the log, and stays so.
LEMMA PlanningStep ==
    ASSUME IInv,
           sender'["reducer"] = sender["reducer"] \/ sender'["reducer"].at # "planning",
           \A i \in Asks : event[i] \notin {"none", "stream"} => event'[i] \notin {"none", "stream"}
    PROVE  PlanningOK'
BY DEF IInv, PlanningOK

\* The user answers, in whole or cut by a crash.
LEMMA ReplySafe ==
    ASSUME IInv, NEW i \in Asks, NEW m \in Turns, NEW k \in 1..3, Reply(i, m, k)
    PROVE  IInv'
<1>0. TypeOK /\ m \in Replies /\ m # "expiry"
  BY SaysTyped DEF IInv
<1>1. /\ Up /\ sender["user"].at = "idle" /\ sender["reducer"].reply # "plan"
      /\ ask[i].state = "pending" /\ told[m] = "nothing"
      /\ ask' = Begun(i, m) /\ event' = event /\ over' = over
  BY DEF Reply
<1>a. command' = command \/ \E s \in {"pending", "sending"} : command' = Enqueued(i, m, s)
  BY DEF Reply
<1>2. /\ command' \in [Asks -> [Replies -> CommandRecords]]
      /\ \A n \in Replies \ {m} : command'[i][n] = command[i][n]
      /\ \A j \in Asks \ {i} : command'[j] = command[j]
  BY <1>0, <1>a, EnqueuedStep
<1>3. \/ command'[i][m] = command[i][m]
      \/ command'[i][m].state \in {"pending", "sending"}
         /\ command'[i][m].decision = Says[m]
  BY <1>0, <1>a, EnqueuedStep
<1>b. prompt' = prompt \/ prompt' = Withdrawn({i})
  BY DEF Reply
<1>4. /\ prompt' \in [Asks -> {"none", "open", "withdrawn"}]
      /\ \A j \in Asks : prompt'[j] # prompt[j] => j = i
  BY <1>0, <1>b, WithdrawnTyped, Typed
<1>5. \A j \in Asks : j # i => ask'[j] = ask[j]
  BY <1>0, <1>1, BegunStep
<1>6. ask'[i] = [state |-> "resolving", decision |-> Says[m]]
  BY <1>0, <1>1, BegunStep
<1>7. event[i] \notin {"none", "stream"} /\ native[i] # "none"
  BY <1>1 DEF IInv, AskOK
<1>9. ASSUME left' \subseteq left,
             \A j \in Asks : native[j] \in {"settled", "gone"} => native'[j] \in {"settled", "gone"},
             \A j \in Asks : native'[j] = "none" => native[j] = "none",
             given' = given
      PROVE  \A j \in Asks : AskOK(j)'
  <2>1. AskOK(i)'
    BY <1>0, <1>1, <1>2, <1>3, <1>6, <1>7, <1>9, BegunAskOK
  <2>2. ASSUME NEW j \in Asks, j # i
        PROVE  AskOK(j)'
    <3>1. native'[j] = "none" => event'[j] = "none"
      BY <1>1, <1>9 DEF IInv, AskOK
    <3> QED BY <1>1, <1>4, <1>5, <1>2, <1>9, <2>2, <3>1, SameAsk
  <2> QED BY <2>1, <2>2
<1>10. CASE k # 3
  <2>1. Die
    BY <1>10 DEF Reply
  <2>2. TypeOK'
    BY <1>0, <1>1, <1>2, <1>4, <2>1, DieTyped, BegunStep, Typed, NextTyped, ZenonT(60)
  <2> QED BY <1>0, <1>9, <2>1, <2>2, DieTyped, DieLeaves
<1>11. CASE k = 3 /\ ~Registered
  <2>1. /\ told' = [told EXCEPT ![m] = "accepted"] /\ sender' = sender
        /\ UNCHANGED <<left, native, heard, given, cut, phase, crashes>>
    BY <1>11 DEF Reply, worker, handed, Live
  <2>2. TypeOK'
    BY <1>0, <1>1, <1>2, <1>4, <2>1, BegunStep, Typed, NextTyped
  <2>3. \A j \in Asks : AskOK(j)'
    BY <1>9, <2>1
  <2>4. \A s \in Senders : Busy(s) => sender[s].ask # i
    BY <1>1 DEF IInv, SenderOK, Closed
  <2>5. \A s \in Senders : SenderOK(s)'
    BY <1>2, <1>5, <2>1, <2>4 DEF IInv, SenderOK, Busy, Handed
  <2>6. RolesOK'
    BY <1>0, <1>1, <2>1, Typed DEF IInv, RolesOK, Busy
  <2>7. SoloOK'
    BY <1>5, <2>1, <2>4 DEF IInv, SoloOK, SenderOK, Busy
  <2>8. crashes # 0
    BY <1>11 DEF IInv, PhaseOK, Registered
  <2>9. PhaseOK' /\ PromptOK' /\ PromptsFit'
    BY <2>1, <2>8 DEF IInv, PhaseOK, PromptOK, PromptsFit, NoStalePrompt, PendingIsAsked
  <2>10. PlanningOK'
    BY <1>1, <2>1, PlanningStep
  <2> QED BY <2>2, <2>3, <2>5, <2>6, <2>7, <2>9, <2>10 DEF IInv
<1>12. CASE k = 3 /\ Registered
  <2>1. /\ sender' = [sender EXCEPT !["user"] = Sending(i, m)] /\ prompt' = prompt
        /\ command' = Enqueued(i, m, "sending")
        /\ UNCHANGED <<left, native, heard, given, cut, told, phase, crashes>>
    BY <1>12 DEF Reply, worker, handed, Live
  <2>2. TypeOK'
    BY <1>0, <1>1, <1>2, <1>4, <2>1, BegunStep, SendingTyped, Typed, NextTyped DEF Senders
  <2>3. \A j \in Asks : AskOK(j)'
    BY <1>9, <2>1
  <2>4. \A s \in Senders : Busy(s) => sender[s].ask # i
    BY <1>1 DEF IInv, SenderOK, Closed
  <2>5. /\ sender'["user"] = Sending(i, m)
        /\ \A s \in Senders : s # "user" => sender'[s] = sender[s]
    BY <1>0, <2>1, Typed DEF Senders
  <2>6. command'[i][m].state = "sending"
    BY <1>0, <2>1, EnqueuedTyped
  <2>7. \A s \in Senders : SenderOK(s)'
    BY <1>0, <1>2, <1>5, <1>6, <2>1, <2>4, <2>5, <2>6
       DEF IInv, SenderOK, Busy, Handed, Sending
  <2>8. RolesOK'
    BY <1>1, <2>1, <2>5 DEF IInv, RolesOK, Busy, Senders, Sending
  <2>9. SoloOK'
    BY <1>5, <2>1, <2>4, <2>5 DEF IInv, SoloOK, SenderOK, Busy, Sending
  <2>10. PhaseOK' /\ PromptOK'
    BY <1>1, <1>5, <2>1, <2>5 DEF IInv, PhaseOK, PromptOK, Up, Closed
  <2>11. NoStalePrompt'
    BY <1>5, <1>6, <2>1 DEF IInv, PromptsFit, NoStalePrompt, Closed
  <2>12. PendingIsAsked'
    BY <1>1, <1>5, <1>6, <1>2, <2>1 DEF IInv, PromptsFit, PendingIsAsked
  <2>13. PlanningOK'
    BY <1>1, <2>5, PlanningStep DEF Senders
  <2> QED BY <2>2, <2>3, <2>7, <2>8, <2>9, <2>10, <2>11, <2>12, <2>13 DEF IInv, PromptsFit
<1> QED BY <1>10, <1>11, <1>12

\* The worker asks.
LEMMA RaiseSafe ==
    ASSUME IInv, NEW i \in Asks, Raise(i)
    PROVE  IInv'
<1>0. TypeOK
  BY DEF IInv
<1>1. /\ native[i] = "none" /\ native' = [native EXCEPT ![i] = "waiting"]
      /\ event' = [event EXCEPT ![i] = "stream"]
      /\ UNCHANGED <<ask, command, prompt, over, sender, left, heard, given, cut, told, phase, crashes>>
  BY DEF Raise, Live
<1>2. TypeOK'
  BY <1>0, <1>1, Typed, NextTyped
<1>3. event[i] = "none"
  BY <1>1 DEF IInv, AskOK
<1>4. \A j \in Asks : native[j] \in {"settled", "gone"} => native'[j] \in {"settled", "gone"}
  BY <1>0, <1>1, Typed
<1>5. ASSUME NEW j \in Asks
      PROVE  AskOK(j)'
  <2>1. event'[j] \in {"none", "stream"} => event[j] \in {"none", "stream"}
    BY <1>0, <1>1, <1>3, Typed
  <2>2. native'[j] = "none" => event'[j] = "none"
    BY <1>0, <1>1, Typed DEF IInv, AskOK
  <2> QED BY <1>1, <1>4, <2>1, <2>2, SameAsk
<1>6. \A s \in Senders : SenderOK(s)'
  BY <1>1, <1>4 DEF IInv, SenderOK, Busy, Handed
<1>7. RolesOK' /\ SoloOK' /\ PhaseOK' /\ PromptOK'
  BY <1>1 DEF IInv, RolesOK, SoloOK, PhaseOK, PromptOK, Busy
<1>8. PromptsFit'
  <2>1. \A j \in Asks : event'[j] = "processed" => event[j] = "processed"
    BY <1>0, <1>1, Typed
  <2> QED BY <1>1, <2>1 DEF IInv, PromptsFit, NoStalePrompt, PendingIsAsked
<1>9. PlanningOK'
  BY <1>0, <1>1, <1>3, Typed, PlanningStep
<1> QED BY <1>2, <1>5, <1>6, <1>7, <1>8, <1>9 DEF IInv

\* A sender moves on, and the provider's requests with it, while the ledger
\* stays as it is: nothing but the sender's own standing is at stake.
LEMMA AtSafe ==
    ASSUME IInv, NEW s \in Senders, Busy(s), NEW a \in {"written", "taken"},
           sender' = [sender EXCEPT ![s].at = a],
           UNCHANGED <<ask, event, command, prompt, over, left, cut, told, phase, crashes>>,
           native' \in [Asks -> {"none", "waiting", "settled", "gone"}],
           heard' \in [Asks -> Decided], given' \in [Asks -> Decided],
           \A j \in Asks : native'[j] = "none" => native[j] = "none",
           \A j \in Asks : native[j] \in {"settled", "gone"}
               => native'[j] \in {"settled", "gone"} /\ given'[j] = given[j],
           \A j \in Asks : given'[j] # given[j] => j = sender[s].ask,
           SenderOK(s)'
    PROVE  IInv'
<1> DEFINE i == sender[s].ask
           m == sender[s].reply
<1>0. TypeOK
  BY DEF IInv
<1>1. i \in Asks /\ m \in Replies
  BY DEF IInv, SenderOK
<1>2. /\ sender' \in [Senders -> SenderRecords]
      /\ \A t \in Senders \ {s} : sender'[t] = sender[t]
      /\ sender'[s].at = a /\ sender'[s].ask = i /\ sender'[s].reply = m
  <2>1. sender \in [Senders -> SenderRecords] /\ sender[s] \in SenderRecords
    BY <1>0, Typed
  <2>2. [sender[s] EXCEPT !.at = a] \in SenderRecords
    BY <2>1 DEF SenderRecords
  <2> QED BY <2>1, <2>2 DEF SenderRecords
<1>3. TypeOK'
  BY <1>0, <1>2, Typed, NextTyped
<1>4. \A j \in Asks : AskOK(j)'
  <2>1. \A j \in Asks : native'[j] = "none" => event'[j] = "none"
    BY DEF IInv, AskOK
  <2> QED BY <2>1, SameAsk
<1>5. ASSUME NEW t \in Senders, t # s
      PROVE  SenderOK(t)'
  <2>1. sender'[t] = sender[t] /\ SenderOK(t)
    BY <1>2, <1>5 DEF IInv
  <2>2. SUFFICES ASSUME Busy(t)
                 PROVE  SenderOK(t)'
    BY <2>1 DEF SenderOK, Busy
  <2>3. PICK j \in Asks, n \in Replies : j = sender[t].ask /\ n = sender[t].reply
    BY <2>1, <2>2 DEF SenderOK
  <2>4. ask[j].state = "resolving" => given'[j] = given[j]
    <3>1. ask[j].state = "resolving" => j # i
      BY <1>1, <1>5, <2>2, <2>3 DEF IInv, SoloOK, Closed
    <3> QED BY <3>1
  <2> QED BY <2>1, <2>2, <2>3, <2>4 DEF SenderOK
<1>6. RolesOK' /\ SoloOK'
  <2>1. /\ \A t \in Senders : sender'[t].ask = sender[t].ask /\ sender'[t].reply = sender[t].reply
        /\ \A t \in Senders : Busy(t)' <=> Busy(t)
    BY <1>2 DEF Busy
  <2>2. RolesOK'
    BY <2>1 DEF IInv, RolesOK, Senders
  <2>3. SoloOK'
    BY <2>1 DEF IInv, SoloOK
  <2> QED BY <2>2, <2>3
<1>7. PhaseOK' /\ PromptOK' /\ PromptsFit'
  BY DEF IInv, PhaseOK, PromptOK, PromptsFit, NoStalePrompt, PendingIsAsked, Busy, Idle
<1>8. PlanningOK'
  BY <1>2, PlanningStep DEF Senders
<1> QED BY <1>3, <1>4, <1>5, <1>6, <1>7, <1>8 DEF IInv

\* A reply is written to the request the provider still keeps.
LEMMA WriteSafe ==
    ASSUME IInv, NEW s \in Senders, Write(s)
    PROVE  IInv'
<1> DEFINE i == sender[s].ask
           m == sender[s].reply
<1>0. TypeOK /\ Busy(s) /\ SenderOK(s)
  BY DEF IInv, Write, Busy
<1>1. i \in Asks /\ m \in Replies /\ command[i][m].decision = Says[m]
  BY <1>0 DEF IInv, SenderOK, AskOK, CommandOK
<1>2. /\ sender[s].at = "sending" /\ native[i] = "waiting"
      /\ UNCHANGED <<ask, event, command, prompt, over, left, native, cut, told, phase, crashes>>
      /\ sender' = [sender EXCEPT ![s].at = "written"]
      /\ given' = [given EXCEPT ![i] = Says[m]]
      /\ heard' = [heard EXCEPT ![i] = IF heard[i] = "none" THEN Says[m] ELSE heard[i]]
  BY <1>1 DEF Write, ledger, Live
<1>3. /\ heard' \in [Asks -> Decided] /\ given' \in [Asks -> Decided]
      /\ given'[i] = Says[m] /\ \A j \in Asks \ {i} : given'[j] = given[j]
      /\ native' \in [Asks -> {"none", "waiting", "settled", "gone"}]
  BY <1>0, <1>1, <1>2, Typed, SaysTyped
<1>4. SenderOK(s)'
  <2>1. sender'[s].at = "written" /\ sender'[s].ask = i /\ sender'[s].reply = m
    <3>1. sender \in [Senders -> SenderRecords] /\ sender[s] \in SenderRecords
      BY <1>0, Typed
    <3> QED BY <1>2, <3>1 DEF SenderRecords
  <2> QED BY <1>0, <1>1, <1>2, <1>3, <2>1 DEF SenderOK
<1>5. ASSUME NEW j \in Asks, native[j] \in {"settled", "gone"}
      PROVE  native'[j] \in {"settled", "gone"} /\ given'[j] = given[j]
  BY <1>2, <1>3, <1>5
<1>6. \A j \in Asks : given'[j] # given[j] => j = i
  BY <1>3
<1> QED BY <1>0, <1>2, <1>3, <1>4, <1>5, <1>6, AtSafe

\* The provider removes the request, or finds that it has let go of it.
LEMMA TakeSafe ==
    ASSUME IInv, NEW s \in Senders, Take(s)
    PROVE  IInv'
<1> DEFINE i == sender[s].ask
           m == sender[s].reply
<1>0. TypeOK /\ Busy(s) /\ SenderOK(s)
  BY DEF IInv, Take, Busy
<1>1. i \in Asks /\ m \in Replies
  BY <1>0 DEF SenderOK
<1>2. /\ sender[s].at = "written"
      /\ UNCHANGED <<ask, event, command, prompt, over, left, heard, given, cut, told,
                     phase, crashes>>
      /\ sender' = [sender EXCEPT ![s].at = "taken"]
      /\ native' = [native EXCEPT ![i] = "settled"]
  BY DEF Take, ledger, Live
<1>3. /\ native' \in [Asks -> {"none", "waiting", "settled", "gone"}]
      /\ native'[i] = "settled" /\ \A j \in Asks \ {i} : native'[j] = native[j]
      /\ heard' \in [Asks -> Decided] /\ given' \in [Asks -> Decided]
  BY <1>0, <1>1, <1>2, Typed
<1>4. SenderOK(s)'
  <2>1. sender'[s].at = "taken" /\ sender'[s].ask = i /\ sender'[s].reply = m
    <3>1. sender \in [Senders -> SenderRecords] /\ sender[s] \in SenderRecords
      BY <1>0, Typed
    <3> QED BY <1>2, <3>1 DEF SenderRecords
  <2> QED BY <1>0, <1>1, <1>2, <1>3, <2>1 DEF SenderOK
<1>5. /\ \A j \in Asks : native'[j] = "none" => native[j] = "none"
      /\ \A j \in Asks : native[j] \in {"settled", "gone"}
            => native'[j] \in {"settled", "gone"} /\ given'[j] = given[j]
  BY <1>2, <1>3
<1> QED BY <1>0, <1>2, <1>3, <1>4, <1>5, AtSafe

\* The provider lets go of a request.
LEMMA DroppedSafe ==
    ASSUME IInv, NEW i \in Asks, Dropped(i)
    PROVE  IInv'
<1>0. TypeOK
  BY DEF IInv
<1>1. /\ native[i] = "waiting" /\ native' = [native EXCEPT ![i] = "settled"]
      /\ UNCHANGED <<ask, event, command, prompt, over, sender, left, heard, given, cut, told,
                     phase, crashes>>
  BY DEF Dropped, ledger, Live
<1>2. TypeOK'
  BY <1>0, <1>1, Typed, NextTyped
<1>3. /\ \A j \in Asks : native[j] \in {"settled", "gone"} => native'[j] \in {"settled", "gone"}
      /\ \A j \in Asks : native'[j] = "none" => native[j] = "none"
  BY <1>0, <1>1, Typed
<1>4. \A j \in Asks : AskOK(j)'
  <2>1. \A j \in Asks : native'[j] = "none" => event'[j] = "none"
    BY <1>1, <1>3 DEF IInv, AskOK
  <2> QED BY <1>1, <1>3, <2>1, SameAsk
<1>5. \A s \in Senders : SenderOK(s)'
  BY <1>1, <1>3 DEF IInv, SenderOK, Busy
<1>6. RolesOK' /\ SoloOK' /\ PhaseOK' /\ PromptOK'
  BY <1>1 DEF IInv, RolesOK, SoloOK, PhaseOK, PromptOK, Busy
<1>7. PromptsFit' /\ PlanningOK'
  BY <1>1 DEF IInv, PromptsFit, NoStalePrompt, PendingIsAsked, PlanningOK
<1> QED BY <1>2, <1>4, <1>5, <1>6, <1>7 DEF IInv

\* An ask that is, or has become, pending and to which no reply counts.
LEMMA PendingAskOK ==
    ASSUME IInv, NEW i \in Asks, ask[i].state \in {"absent", "pending"},
           ask'[i].state \in {"absent", "pending"}, command'[i] = command[i],
           event'[i] \in {"none", "stream"} => ask'[i].state = "absent" /\ prompt'[i] = "none",
           native'[i] = "none" => event'[i] = "none", left' \subseteq left,
           native[i] \in {"settled", "gone"} => native'[i] \in {"settled", "gone"} /\ given'[i] = given[i]
    PROVE  AskOK(i)'
<1>1. AskOK(i)
  BY DEF IInv
<1>2. \A m \in Replies : ~Counts(i, m) /\ ~Counts(i, m)'
  BY <1>1 DEF AskOK, CommandOK, Counts
<1>3. \A m \in Replies : CommandOK(i, m)'
  BY <1>1, <1>2 DEF AskOK, CommandOK, Counts
<1> QED BY <1>1, <1>3, SaysTyped DEF AskOK

\* The coroutines, when a step moves one of them that was not sending, and
\* changes no ask that another is sending to.
LEMMA OthersOK ==
    ASSUME IInv, NEW s \in Senders, ~Busy(s),
           \A t \in Senders \ {s} : sender'[t] = sender[t],
           \A t \in Senders : Busy(t) => /\ ask'[sender[t].ask] = ask[sender[t].ask]
                                        /\ command'[sender[t].ask] = command[sender[t].ask],
           native' = native, given' = given, told' = told,
           SenderOK(s)', Busy(s)' => ~\E t \in Senders : Busy(t) /\ sender[t].ask = sender'[s].ask,
           Busy("user")' /\ s = "user" => /\ sender'["user"].reply \in Turns
                                          /\ told[sender'["user"].reply] = "nothing",
           Busy("reducer")' /\ s = "reducer" => sender'["reducer"].reply \in {"policy", "plan"},
           s # "expirer", left' = left
    PROVE  (\A t \in Senders : SenderOK(t)') /\ RolesOK' /\ SoloOK'
<1>1. ASSUME NEW t \in Senders, t # s
      PROVE  SenderOK(t)'
  <2>1. Busy(t)' => Busy(t)
    BY <1>1 DEF Busy
  <2> QED BY <1>1, <2>1 DEF IInv, SenderOK, Busy, Handed
<1>2. RolesOK'
  BY DEF IInv, RolesOK, Busy, Senders
<1>3. SoloOK'
  BY DEF IInv, SoloOK, Busy
<1> QED BY <1>1, <1>2, <1>3

\* An ask to which nobody is sending.
LEMMA Unsought ==
    ASSUME IInv, NEW i \in Asks, ask[i].state \in {"absent", "pending"}
    PROVE  \A s \in Senders : Busy(s) => sender[s].ask # i /\ sender[s].ask \in Asks
BY DEF IInv, SenderOK, Closed

\* The reducer ingests an ask, on each route, in whole or cut by a crash.
LEMMA IngestSafe ==
    ASSUME IInv, NEW i \in Asks, NEW k \in 1..4, NEW route \in Routes[i], Ingest(i, route, k)
    PROVE  IInv'
<1>0. TypeOK /\ "policy" \in Replies /\ "policy" # "expiry"
  BY SaysTyped DEF IInv
<1>1. /\ phase = "serving" /\ event[i] = "stream" /\ native[i] # "none"
      /\ ~Busy("reducer") /\ ask[i].state = "absent" /\ prompt[i] = "none"
  BY DEF Ingest, IInv, AskOK, Busy
<1>2. CASE over
  <2>1. /\ event' = [event EXCEPT ![i] = "none"]
        /\ UNCHANGED <<ask, command, prompt, over, sender, left, native, heard, given, cut, told,
                       phase, crashes>>
    BY <1>2 DEF Ingest, worker, handed, Live
  <2>2. TypeOK'
    BY <1>0, <2>1, Typed, NextTyped
  <2>3. \A j \in Asks : AskOK(j)'
    <3>1. \A j \in Asks : event'[j] \in {"none", "stream"} => event[j] \in {"none", "stream"}
      BY <1>0, <1>1, <2>1, Typed
    <3>2. \A j \in Asks : native'[j] = "none" => event'[j] = "none"
      BY <1>0, <2>1, Typed DEF IInv, AskOK
    <3> QED BY <2>1, <3>1, <3>2, SameAsk
  <2>4. \A t \in Senders : SenderOK(t)'
    BY <2>1 DEF IInv, SenderOK, Busy, Handed
  <2>5. RolesOK' /\ SoloOK' /\ PhaseOK' /\ PromptOK'
    BY <2>1 DEF IInv, RolesOK, SoloOK, PhaseOK, PromptOK, Busy
  <2>6. PromptsFit'
    <3>1. \A j \in Asks : event'[j] = "processed" => event[j] = "processed"
      BY <1>0, <2>1, Typed
    <3> QED BY <2>1, <3>1 DEF IInv, PromptsFit, NoStalePrompt, PendingIsAsked
  <2>7. PlanningOK'
    <3>1. \A j \in Asks : event[j] \notin {"none", "stream"} => event'[j] \notin {"none", "stream"}
      BY <1>0, <1>1, <2>1, Typed
    <3> QED BY <2>1, <3>1, PlanningStep
  <2> QED BY <2>2, <2>3, <2>4, <2>5, <2>6, <2>7 DEF IInv
<1>3. CASE ~over
  <2> DEFINE Opens == [state |-> "pending", decision |-> "none"]
             Begins == [state |-> "resolving", decision |-> Says["policy"]]
  <2>1. /\ over' = over
        /\ event' = [event EXCEPT ![i] =
                        IF k = 4 /\ route = "user" THEN "processed" ELSE "logged"]
        /\ prompt' = IF k >= 3 /\ route = "user" THEN Prompted(i) ELSE prompt
        /\ k = 1 => ask' = ask
        /\ k # 1 => ask' = [ask EXCEPT ![i] = IF k = 2 \/ route # "policy" THEN Opens ELSE Begins]
        /\ command' = IF k = 4 /\ route = "policy"
                      THEN Enqueued(i, "policy", "sending") ELSE command
    BY <1>3 DEF Ingest
  <2>2. /\ event' \in [Asks -> {"none", "stream", "logged", "processed"}]
        /\ event'[i] = IF k = 4 /\ route = "user" THEN "processed" ELSE "logged"
        /\ \A j \in Asks \ {i} : event'[j] = event[j]
    BY <1>0, <2>1, Typed
  <2>3. /\ prompt' \in [Asks -> {"none", "open", "withdrawn"}]
        /\ prompt'[i] = IF k >= 3 /\ route = "user" THEN "open" ELSE "none"
        /\ \A j \in Asks \ {i} : prompt'[j] = prompt[j]
    BY <1>0, <1>1, <2>1, PromptedTyped, Typed
  <2>4. CASE k = 1
    <3>1. ask' = ask /\ command' = command /\ Die
      BY <2>1, <1>3, <2>4 DEF Ingest
    <3>2. TypeOK'
      BY <1>0, <2>1, <2>2, <2>3, <3>1, DieTyped, Typed, NextTyped
    <3>3. AskOK(i)'
      BY <1>0, <1>1, <2>2, <2>4, <3>1, DieTyped, PendingAskOK
    <3>4. ASSUME NEW j \in Asks, j # i
          PROVE  AskOK(j)'
      <4>1. native'[j] = "none" => event'[j] = "none"
        BY <1>0, <2>2, <3>1, <3>4, DieTyped DEF IInv, AskOK
      <4> QED BY <1>0, <2>2, <2>3, <3>1, <3>4, <4>1, DieTyped, SameAsk
    <3> QED BY <3>1, <3>2, <3>3, <3>4, DieLeaves
  <2>5. CASE k # 1 /\ (k = 2 \/ route # "policy")
    <3>1. ask' = [ask EXCEPT ![i] = Opens] /\ command' = command
      <4> HIDE DEF Opens, Begins
      <4> QED BY <2>1, <2>5
    <3>2. /\ ask' \in [Asks -> AskRecords] /\ ask'[i].state = "pending"
          /\ \A j \in Asks \ {i} : ask'[j] = ask[j]
      <4>1. [state |-> "pending", decision |-> "none"] \in AskRecords
        BY SaysTyped DEF AskRecords, AskStates
      <4> QED BY <1>0, <3>1, <4>1, Typed
    <3>3. ASSUME left' \subseteq left, given' = given,
                 \A j \in Asks : native[j] \in {"settled", "gone"} => native'[j] \in {"settled", "gone"},
                 \A j \in Asks : native'[j] = "none" => native[j] = "none"
          PROVE  \A j \in Asks : AskOK(j)'
      <4>1. AskOK(i)'
        BY <1>1, <2>2, <3>1, <3>2, <3>3, PendingAskOK
      <4>2. ASSUME NEW j \in Asks, j # i
            PROVE  AskOK(j)'
        <5>1. native'[j] = "none" => event'[j] = "none"
          BY <2>2, <3>3, <4>2 DEF IInv, AskOK
        <5> QED BY <2>2, <2>3, <3>1, <3>2, <3>3, <4>2, <5>1, SameAsk
      <4> QED BY <4>1, <4>2
    <3>4. CASE k # 4
      <4>1. Die
        BY <1>3, <3>4 DEF Ingest
      <4>2. TypeOK'
        BY <1>0, <2>1, <2>2, <2>3, <3>1, <3>2, <4>1, DieTyped, Typed, NextTyped
      <4> QED BY <1>0, <3>3, <4>1, <4>2, DieTyped, DieLeaves
    <3>5. CASE k = 4
      <4>1. /\ sender' = [sender EXCEPT !["reducer"] =
                   IF route = "user" THEN Idle
                   ELSE [at |-> "planning", ask |-> i, reply |-> "nobody"]]
            /\ UNCHANGED <<left, native, heard, given, cut, told, phase, crashes>>
        BY <1>3, <2>5, <3>5 DEF Ingest, worker, handed, Live
      <4>2. /\ sender' \in [Senders -> SenderRecords] /\ ~Busy("reducer")'
            /\ \A t \in Senders \ {"reducer"} : sender'[t] = sender[t]
        BY <1>0, <4>1, Typed DEF Senders, SenderRecords, Idle, Busy
      <4>3. TypeOK'
        BY <1>0, <2>1, <2>2, <2>3, <3>1, <3>2, <4>1, <4>2, Typed, NextTyped
      <4>4. \A j \in Asks : AskOK(j)'
        BY <3>3, <4>1
      <4>a. \A t \in Senders : Busy(t) => sender[t].ask \in Asks \ {i}
        BY <1>1, Unsought
      <4>b. SenderOK("reducer")' /\ "reducer" \in Senders
        BY <4>2 DEF SenderOK, Senders
      <4>5. (\A t \in Senders : SenderOK(t)') /\ RolesOK' /\ SoloOK'
        BY <1>1, <3>1, <3>2, <4>1, <4>2, <4>a, <4>b, OthersOK
      <4>6. PhaseOK' /\ PromptOK'
        BY <1>1, <2>3, <3>2, <4>1 DEF IInv, PhaseOK, PromptOK
      <4>7. NoStalePrompt'
        BY <2>3, <3>2, <4>1 DEF IInv, PromptsFit, NoStalePrompt, Closed
      <4>8. PendingIsAsked'
        BY <2>2, <2>3, <3>1, <3>2, <3>5, <4>1 DEF IInv, PromptsFit, PendingIsAsked
      <4>9. PlanningOK'
        <5>1. sender'["reducer"] = Idle
              \/ sender'["reducer"] = [at |-> "planning", ask |-> i, reply |-> "nobody"]
          BY <1>0, <4>1, Typed DEF Senders
        <5> QED BY <2>2, <5>1 DEF PlanningOK, Idle
      <4> QED BY <4>3, <4>4, <4>5, <4>6, <4>7, <4>8, <4>9 DEF IInv, PromptsFit
    <3> QED BY <3>4, <3>5
  <2>6. CASE k \in {3, 4} /\ route = "policy"
    <3>1. ask' = [ask EXCEPT ![i] = Begins]
          /\ (command' = command \/ command' = Enqueued(i, "policy", "sending"))
      <4> HIDE DEF Opens, Begins
      <4> QED BY <2>1, <2>6
    <3>2. /\ ask' \in [Asks -> AskRecords]
          /\ ask'[i] = [state |-> "resolving", decision |-> Says["policy"]]
          /\ \A j \in Asks \ {i} : ask'[j] = ask[j]
      <4>1. [state |-> "resolving", decision |-> Says["policy"]] \in AskRecords
        BY SaysTyped DEF AskRecords, AskStates
      <4> QED BY <1>0, <3>1, <4>1, Typed
    <3>3. /\ command' \in [Asks -> [Replies -> CommandRecords]]
          /\ \A n \in Replies \ {"policy"} : command'[i][n] = command[i][n]
          /\ \A j \in Asks \ {i} : command'[j] = command[j]
          /\ \/ command'[i]["policy"] = command[i]["policy"]
             \/ /\ command'[i]["policy"].state \in {"pending", "sending"}
                /\ command'[i]["policy"].decision = Says["policy"]
      BY <1>0, <3>1, EnqueuedStep
    <3>4. ASSUME left' \subseteq left, given' = given,
                 \A j \in Asks : native[j] \in {"settled", "gone"} => native'[j] \in {"settled", "gone"},
                 \A j \in Asks : native'[j] = "none" => native[j] = "none"
          PROVE  \A j \in Asks : AskOK(j)'
      <4>1. AskOK(i)'
        BY <1>0, <1>1, <2>2, <3>2, <3>3, <3>4, BegunAskOK
      <4>2. ASSUME NEW j \in Asks, j # i
            PROVE  AskOK(j)'
        <5>1. native'[j] = "none" => event'[j] = "none"
          BY <2>2, <3>4, <4>2 DEF IInv, AskOK
        <5> QED BY <2>2, <2>3, <3>2, <3>3, <3>4, <4>2, <5>1, SameAsk
      <4> QED BY <4>1, <4>2
    <3>5. CASE k # 4
      <4>1. Die
        BY <1>3, <3>5 DEF Ingest
      <4>2. TypeOK'
        BY <1>0, <2>1, <2>2, <2>3, <3>2, <3>3, <4>1, DieTyped, Typed, NextTyped
      <4> QED BY <1>0, <3>4, <4>1, <4>2, DieTyped, DieLeaves
    <3>6. CASE k = 4
      <4>1. /\ sender' = [sender EXCEPT !["reducer"] = Sending(i, "policy")]
            /\ command' = Enqueued(i, "policy", "sending")
            /\ UNCHANGED <<left, native, heard, given, cut, told, phase, crashes>>
        BY <1>3, <2>6, <3>6, <2>1 DEF Ingest, worker, handed, Live
      <4>2. /\ sender' \in [Senders -> SenderRecords]
            /\ sender'["reducer"] = Sending(i, "policy")
            /\ \A t \in Senders \ {"reducer"} : sender'[t] = sender[t]
        BY <1>0, <4>1, SendingTyped, Typed DEF Senders
      <4>3. TypeOK'
        BY <1>0, <2>1, <2>2, <2>3, <3>2, <3>3, <4>1, <4>2, Typed, NextTyped
      <4>4. \A j \in Asks : AskOK(j)'
        BY <3>4, <4>1
      <4>5. command'[i]["policy"].state = "sending"
        BY <1>0, <4>1, EnqueuedTyped
      <4>6. SenderOK("reducer")'
        BY <1>0, <3>2, <4>2, <4>5 DEF SenderOK, Sending
      <4>7. (\A t \in Senders : SenderOK(t)') /\ RolesOK' /\ SoloOK'
        BY <1>1, <3>2, <3>3, <4>1, <4>2, <4>6, Unsought, OthersOK DEF Senders, Sending
      <4>8. PhaseOK' /\ PromptOK'
        BY <1>1, <2>3, <3>2, <4>1, <2>6 DEF IInv, PhaseOK, PromptOK
      <4>9. NoStalePrompt'
        BY <2>3, <3>2, <4>1 DEF IInv, PromptsFit, NoStalePrompt, Closed
      <4>10. PendingIsAsked'
        BY <2>2, <2>3, <3>2, <3>3, <4>1, SMTT(30) DEF IInv, PromptsFit, PendingIsAsked
      <4>11. PlanningOK'
        BY <4>2 DEF PlanningOK, Sending
      <4> QED BY <4>3, <4>4, <4>7, <4>8, <4>9, <4>10, <4>11 DEF IInv, PromptsFit
    <3> QED BY <3>5, <3>6
  <2> QED BY <2>4, <2>5, <2>6
<1> QED BY <1>2, <1>3

\* What the end of a plan that resolved nothing does.
LEMMA PromotedSafe ==
    ASSUME IInv, NEW i \in Asks, Planning(i),
           prompt' = Promoted(i), event' = [event EXCEPT ![i] = "processed"],
           sender' = [sender EXCEPT !["reducer"] = Idle],
           UNCHANGED <<ask, command, over, left, native, heard, given, cut, told, phase, crashes>>
    PROVE  IInv'
<1>0. TypeOK
  BY DEF IInv
<1>1. Up /\ ~Busy("reducer")
  BY DEF Planning, Busy
<1>2. /\ prompt' \in [Asks -> {"none", "open", "withdrawn"}]
      /\ \A j \in Asks : \/ prompt'[j] = prompt[j]
                         \/ j = i /\ ask[i].state = "pending" /\ prompt'[i] = "open"
      /\ ask[i].state = "pending" => prompt'[i] # "none"
  BY <1>0, PromptedTyped, Typed DEF Promoted
<1>3. /\ event' \in [Asks -> {"none", "stream", "logged", "processed"}]
      /\ event'[i] = "processed" /\ \A j \in Asks \ {i} : event'[j] = event[j]
  BY <1>0, Typed
<1>4. /\ sender' \in [Senders -> SenderRecords] /\ ~Busy("reducer")'
      /\ \A t \in Senders \ {"reducer"} : sender'[t] = sender[t]
  BY <1>0, IdleTyped, Typed DEF Senders, Idle, Busy
<1>5. TypeOK'
  BY <1>0, <1>2, <1>3, <1>4, Typed, NextTyped
<1>6. ASSUME NEW j \in Asks
      PROVE  AskOK(j)'
  <2>1. native'[j] = "none" => event'[j] = "none"
    <3>1. native[i] # "none"
      <4>1. sender["reducer"].at = "planning" /\ sender["reducer"].ask = i
        BY DEF Planning
      <4> QED BY <4>1 DEF IInv, PlanningOK, AskOK
    <3> QED BY <1>3, <3>1 DEF IInv, AskOK
  <2>2. event'[j] \in {"none", "stream"} => event[j] \in {"none", "stream"} /\ j # i
    BY <1>3
  <2>3. event'[j] \in {"none", "stream"} => prompt'[j] = prompt[j]
    BY <1>2, <2>2
  <2> QED BY <2>1, <2>2, <2>3, SameAsk
<1>7. (\A t \in Senders : SenderOK(t)') /\ RolesOK' /\ SoloOK'
  <2>1. SenderOK("reducer")' /\ "reducer" \in Senders
    BY <1>4 DEF SenderOK, Senders
  <2> QED BY <1>1, <1>4, <2>1, OthersOK
<1>8. PhaseOK' /\ PromptOK'
  BY <1>1, <1>2 DEF IInv, PhaseOK, PromptOK, Up
<1>9. NoStalePrompt'
  BY <1>2 DEF IInv, PromptsFit, NoStalePrompt, Closed
<1>10. PendingIsAsked'
  <2>1. ASSUME crashes = 0, ask[i].state = "pending"
        PROVE  prompt'[i] = "open"
    BY <1>2, <2>1 DEF IInv, PromptOK, Closed
  <2> QED BY <1>2, <1>3, <2>1 DEF IInv, PromptsFit, PendingIsAsked
<1>11. PlanningOK'
  BY <1>3, <1>4, PlanningStep, <1>0, Typed DEF PlanningOK, Idle
<1> QED BY <1>5, <1>6, <1>7, <1>8, <1>9, <1>10, <1>11 DEF IInv, PromptsFit

\* The coordinator's plan arrives, or its model fails.
LEMMA PlanSafe ==
    ASSUME IInv, NEW i \in Asks, Plan(i) \/ PlanFails(i)
    PROVE  IInv'
<1>0. TypeOK /\ "plan" \in Replies /\ "plan" # "expiry" /\ "reducer" \in Senders
  BY SaysTyped DEF IInv, Senders
<1>1. CASE /\ Planning(i) /\ ask[i].state = "pending" /\ ask' = Begun(i, "plan")
           /\ command' = Enqueued(i, "plan", "sending")
           /\ sender' = [sender EXCEPT !["reducer"] = Sending(i, "plan")]
           /\ UNCHANGED <<event, prompt, over, left, native, heard, given, cut, told, phase, crashes>>
  <2>1. Up /\ ~Busy("reducer") /\ sender["reducer"].at = "planning"
        /\ sender["reducer"].ask = i
    BY <1>1 DEF Planning, Busy
  <2>2. /\ ask' \in [Asks -> AskRecords]
        /\ ask'[i] = [state |-> "resolving", decision |-> Says["plan"]]
        /\ \A j \in Asks \ {i} : ask'[j] = ask[j]
    BY <1>0, <1>1, BegunStep
  <2>3. /\ command' \in [Asks -> [Replies -> CommandRecords]]
        /\ \A n \in Replies \ {"plan"} : command'[i][n] = command[i][n]
        /\ \A j \in Asks \ {i} : command'[j] = command[j]
        /\ command'[i]["plan"].state = "sending"
        /\ command'[i]["plan"].decision = Says["plan"]
    BY <1>0, <1>1, EnqueuedTyped
  <2>4. /\ sender' \in [Senders -> SenderRecords]
        /\ sender'["reducer"] = Sending(i, "plan")
        /\ \A t \in Senders \ {"reducer"} : sender'[t] = sender[t]
    BY <1>0, <1>1, SendingTyped, Typed
  <2>5. TypeOK'
    BY <1>0, <1>1, <2>2, <2>3, <2>4, Typed, NextTyped
  <2>6. AskOK(i)'
    <3>1. event[i] \notin {"none", "stream"} /\ native[i] # "none"
      BY <1>1 DEF IInv, AskOK
    <3> QED BY <1>0, <1>1, <2>2, <2>3, <3>1, BegunAskOK
  <2>7. ASSUME NEW j \in Asks, j # i
        PROVE  AskOK(j)'
    BY <1>1, <2>2, <2>3, <2>7, SameAsk DEF IInv, AskOK
  <2>8. SenderOK("reducer")'
    BY <1>0, <2>2, <2>3, <2>4 DEF SenderOK, Sending
  <2>9. \A t \in Senders : Busy(t) => sender[t].ask \in Asks \ {i}
    BY <1>1, Unsought
  <2>10. (\A t \in Senders : SenderOK(t)') /\ RolesOK' /\ SoloOK'
    <3>1. sender'["reducer"].ask = i /\ sender'["reducer"].reply = "plan"
      BY <2>4 DEF Sending
    <3> QED BY <1>0, <1>1, <2>1, <2>2, <2>3, <2>4, <2>8, <2>9, <3>1, OthersOK
  <2>11. PhaseOK' /\ PromptOK'
    BY <1>1, <2>1, <2>2 DEF IInv, PhaseOK, PromptOK, Up, Closed
  <2>12. NoStalePrompt'
    BY <1>1, <2>2 DEF IInv, PromptsFit, NoStalePrompt, Closed
  <2>13. PendingIsAsked'
    BY <1>1, <2>2, <2>3 DEF IInv, PromptsFit, PendingIsAsked
  <2>14. PlanningOK'
    BY <2>4 DEF PlanningOK, Sending
  <2> QED BY <2>5, <2>6, <2>7, <2>10, <2>11, <2>12, <2>13, <2>14 DEF IInv, PromptsFit
<1>2. CASE /\ Planning(i) /\ prompt' = Promoted(i)
           /\ event' = [event EXCEPT ![i] = "processed"]
           /\ sender' = [sender EXCEPT !["reducer"] = Idle]
           /\ UNCHANGED <<ask, command, over, left, native, heard, given, cut, told, phase, crashes>>
  BY <1>2, PromotedSafe
<1> QED BY <1>1, <1>2 DEF Plan, PlanFails, worker, handed, Live

\* The replayer takes up a command that waits.
LEMMA ReplaySafe ==
    ASSUME IInv, NEW i \in Asks, NEW m \in Replies, Replay(i, m)
    PROVE  IInv'
<1>0. TypeOK /\ "replayer" \in Senders
  BY DEF IInv, Senders
<1>1. /\ phase = "replaying" /\ ~Busy("replayer") /\ command[i][m].state = "pending"
      /\ command' = [command EXCEPT ![i][m].state = "sending"]
      /\ sender' = [sender EXCEPT !["replayer"] = Sending(i, m)]
      /\ UNCHANGED <<ask, event, prompt, over, left, native, heard, given, cut, told, phase, crashes>>
  BY DEF Replay, Busy, worker, handed, Live
<1>2. /\ command' \in [Asks -> [Replies -> CommandRecords]]
      /\ \A n \in Replies \ {m} : command'[i][n] = command[i][n]
      /\ \A j \in Asks \ {i} : command'[j] = command[j]
      /\ command'[i][m].state = "sending"
      /\ command'[i][m].decision = command[i][m].decision
  <2>1. command[i][m] \in CommandRecords /\ command[i] \in [Replies -> CommandRecords]
    BY <1>0, Typed
  <2>2. [command[i][m] EXCEPT !.state = "sending"] \in CommandRecords
    BY <2>1 DEF CommandRecords
  <2>3. /\ [command[i][m] EXCEPT !.state = "sending"].state = "sending"
        /\ [command[i][m] EXCEPT !.state = "sending"].decision = command[i][m].decision
    BY <2>1 DEF CommandRecords
  <2>4. command' = [command EXCEPT ![i] =
           [command[i] EXCEPT ![m] = [command[i][m] EXCEPT !.state = "sending"]]]
    BY <1>1
  <2>5. [command[i] EXCEPT ![m] = [command[i][m] EXCEPT !.state = "sending"]]
          \in [Replies -> CommandRecords]
    BY <2>1, <2>2
  <2> QED BY <1>0, <2>1, <2>3, <2>4, <2>5, Typed
<1>3. /\ sender' \in [Senders -> SenderRecords]
      /\ sender'["replayer"] = Sending(i, m)
      /\ \A t \in Senders \ {"replayer"} : sender'[t] = sender[t]
  BY <1>0, <1>1, SendingTyped, Typed
<1>4. TypeOK'
  BY <1>0, <1>1, <1>2, <1>3, Typed, NextTyped
<1>5. AskOK(i)'
  <2>1. AskOK(i) /\ Counts(i, m)
    BY <1>1 DEF IInv, Counts
  <2>2. \A n \in Replies : Counts(i, n)' = Counts(i, n)
    BY <1>1, <1>2 DEF Counts
  <2>3. \A n \in Replies : CommandOK(i, n)'
    BY <1>1, <1>2, <2>1, <2>2 DEF AskOK, CommandOK, Handed
  <2>4. command'[i]["expiry"].state # "absent" => ask[i].state = "expired"
    BY <1>1, <1>2, <2>1, SaysTyped DEF AskOK
  <2> QED BY <1>1, <2>1, <2>3, <2>4 DEF AskOK, Handed
<1>6. ASSUME NEW j \in Asks, j # i
      PROVE  AskOK(j)'
  BY <1>1, <1>2, <1>6, SameAsk DEF IInv, AskOK
<1>7. ask[i].state \in {"resolving"} \cup Closed
  BY <1>0, <1>1, Typed DEF IInv, AskOK, CommandOK, Counts, AskRecords, AskStates
<1>8. \A t \in Senders : Busy(t) /\ sender[t].ask = i => ask[i].state \in Closed
  BY <1>1, <1>7 DEF IInv, SenderOK, AskOK, CommandOK, Counts
<1>9. ASSUME NEW t \in Senders
      PROVE  SenderOK(t)'
  <2>1. CASE t = "replayer"
    BY <1>1, <1>2, <1>3, <1>7, <2>1 DEF SenderOK, Sending
  <2>2. CASE t # "replayer"
    BY <1>1, <1>2, <1>3, <1>8, <2>2 DEF IInv, SenderOK, Busy, Handed, Closed
  <2> QED BY <2>1, <2>2
<1>10. RolesOK' /\ SoloOK'
  BY <1>1, <1>3, <1>8 DEF IInv, RolesOK, SoloOK, Busy, Senders, Sending
<1>11. PhaseOK' /\ PromptOK' /\ PromptsFit'
  BY <1>1 DEF IInv, PhaseOK, PromptOK, PromptsFit, NoStalePrompt, PendingIsAsked
<1>12. PlanningOK'
  BY <1>1, <1>3, PlanningStep DEF Senders
<1> QED BY <1>4, <1>5, <1>6, <1>9, <1>10, <1>11, <1>12 DEF IInv

-----------------------------------------------------------------------------
(* What a coroutine does with the outcome of its send. *)

\* The commands after one of them is marked.
LEMMA MarkedStep ==
    ASSUME TypeOK, NEW i \in Asks, NEW m \in Replies, NEW ok \in BOOLEAN,
           command' = Marked(i, m, ok)
    PROVE  /\ command' \in [Asks -> [Replies -> CommandRecords]]
           /\ ok => command'[i][m].state = "sent"
           /\ ~ok => command'[i][m].state = "failed"
           /\ command'[i][m].decision = command[i][m].decision
           /\ \A n \in Replies \ {m} : command'[i][n] = command[i][n]
           /\ \A j \in Asks \ {i} : command'[j] = command[j]
BY MarkedTyped

\* The asks after one of them is finished.
LEMMA FinishedStep ==
    ASSUME TypeOK, NEW i \in Asks, NEW ok \in BOOLEAN, ask' = Finished(i, ok)
    PROVE  /\ ask' \in [Asks -> AskRecords]
           /\ \A j \in Asks \ {i} : ask'[j] = ask[j]
           /\ ask[i].state # "resolving" => ask' = ask
           /\ ask[i].state = "resolving" /\ ok
                => ask'[i].state = "resolved" /\ ask'[i].decision = ask[i].decision
           /\ ask[i].state = "resolving" /\ ~ok => ask'[i].state = "pending"
BY FinishedTyped

\* What the provider keeps of the request when its send is over.
LEMMA EndedTyped ==
    ASSUME TypeOK, NEW s \in Senders, sender[s].ask \in Asks, Ended(s)
    PROVE  UNCHANGED <<native, heard, given>> /\ cut' \subseteq Asks
BY Typed DEF Ended, handed

\* The ask and its commands stay in order when the outcome is recorded, in
\* whole or in part.
LEMMA OutcomeAskOK ==
    ASSUME IInv, NEW s \in Senders, NEW ok \in BOOLEAN, Outcome(s, ok),
           NEW i \in Asks, i = sender[s].ask, NEW m \in Replies, m = sender[s].reply,
           command' = Marked(i, m, ok),
           \/ ask' = ask
           \/ ask' = Finished(i, ok),
           \A j \in Asks \ {i} : event'[j] = event[j] /\ prompt'[j] = prompt[j],
           event'[i] = event[i] \/ event'[i] = "processed",
           left' \subseteq left, given' = given,
           \A j \in Asks : native[j] \in {"settled", "gone"} => native'[j] \in {"settled", "gone"},
           \A j \in Asks : native'[j] = "none" => native[j] = "none"
    PROVE  \A j \in Asks : AskOK(j)'
<1>0. TypeOK
  BY DEF IInv
<1>1. /\ ok /\ ask[i].state = "resolving" => Handed(i, Says[m])
      /\ ask[i].state \in {"resolving"} \cup Closed
      /\ command[i][m].state # "absent"
      /\ ask[i].state = "resolving" => command[i][m].state = "sending"
  BY DEF Outcome, IInv, SenderOK, Busy, Handed
<1>2. /\ ok => command'[i][m].state = "sent"
      /\ ~ok => command'[i][m].state = "failed"
      /\ command'[i][m].decision = command[i][m].decision
      /\ \A n \in Replies \ {m} : command'[i][n] = command[i][n]
      /\ \A j \in Asks \ {i} : command'[j] = command[j]
  <2>1. TypeOK /\ i \in Asks /\ m \in Replies /\ ok \in BOOLEAN
        /\ command' = Marked(i, m, ok)
    BY <1>0
  <2>2. /\ Marked(i, m, ok)[i][m].state = IF ok THEN "sent" ELSE "failed"
        /\ Marked(i, m, ok)[i][m].decision = command[i][m].decision
        /\ \A n \in Replies \ {m} : Marked(i, m, ok)[i][n] = command[i][n]
        /\ \A j \in Asks \ {i} : Marked(i, m, ok)[j] = command[j]
    BY <1>0, MarkedTyped
  <2>3. /\ command'[i] = Marked(i, m, ok)[i]
        /\ command'[i][m] = Marked(i, m, ok)[i][m]
        /\ \A j \in Asks \ {i} : command'[j] = Marked(i, m, ok)[j]
        /\ \A n \in Replies \ {m} : command'[i][n] = Marked(i, m, ok)[i][n]
    BY <2>1
  <2>4. command'[i][m].state = IF ok THEN "sent" ELSE "failed"
    BY <2>2, <2>3
  <2> QED BY <2>2, <2>3, <2>4
<1>3. /\ \A j \in Asks \ {i} : ask'[j] = ask[j]
      /\ \/ ask' = ask
         \/ /\ ask[i].state = "resolving" /\ ok
            /\ ask'[i].state = "resolved" /\ ask'[i].decision = ask[i].decision
         \/ ask[i].state = "resolving" /\ ~ok /\ ask'[i].state = "pending"
  <2>1. CASE ask' = ask
    BY <2>1
  <2>2. CASE ask' = Finished(i, ok)
    BY <1>0, <1>1, <2>2, FinishedStep
  <2> QED BY <2>1, <2>2
<1>4. AskOK(i) /\ event[i] \notin {"none", "stream"} /\ native[i] # "none"
  BY <1>1 DEF IInv, AskOK, Closed
<1>5. ok /\ ask[i].state = "resolving" => Handed(i, Says[m])'
  BY <1>1 DEF Handed
<1>6. /\ native[i] \in {"settled", "gone"} => native'[i] \in {"settled", "gone"}
      /\ given'[i] = given[i]
  OBVIOUS
<1>7. AskOK(i)'
  <2>1. event'[i] \notin {"none", "stream"} /\ native'[i] # "none"
    BY <1>1, <1>4
  <2>2. CASE ask' = ask /\ ask[i].state # "resolving"
    <3>1. ASSUME NEW n \in Replies
          PROVE  CommandOK(i, n)'
      <4>1. ask[i].state \in Closed /\ ask'[i].state \in Closed
        BY <1>1, <2>2
      <4>2. CASE n # m
        <5>1. CommandOK(i, n) /\ command'[i][n] = command[i][n]
          BY <1>2, <1>4, <3>1, <4>2 DEF AskOK
        <5> QED BY <1>6, <4>1, <5>1 DEF CommandOK, Counts, Handed, Closed
      <4>3. CASE n = m /\ ok
        BY <1>1, <1>2, <1>4, <1>5, <4>1, <4>3 DEF AskOK, CommandOK, Counts, Closed
      <4>4. CASE n = m /\ ~ok
        BY <1>1, <1>2, <1>4, <4>1, <4>4 DEF AskOK, CommandOK, Counts, Closed
      <4> QED BY <4>2, <4>3, <4>4
    <3>2. command'[i]["expiry"].state # "absent" => ask[i].state = "expired"
      BY <1>1, <1>2, <1>4, SaysTyped, ZenonT(60) DEF AskOK
    <3> QED BY <1>4, <1>6, <2>1, <2>2, <3>1, <3>2 DEF AskOK, Handed
  <2>3. CASE ask[i].state = "resolving"
    <3>1. /\ m # "expiry" /\ command'[i]["expiry"].state = "absent"
          /\ ask[i].decision = Says[m]
          /\ \A n \in Replies : Counts(i, n)' => n = m /\ ok
      <4>1. Counts(i, m) /\ CommandOK(i, m)
        BY <1>1, <1>4, <2>3 DEF AskOK, Counts
      <4>2. ask[i].decision = Says[m] /\ \A n \in Replies : Counts(i, n) => n = m
        BY <2>3, <4>1 DEF CommandOK
      <4>3. command[i]["expiry"].state = "absent"
        BY <1>4, <2>3 DEF AskOK
      <4>4. m # "expiry" /\ command'[i]["expiry"].state = "absent"
        BY <1>1, <1>2, <4>3, SaysTyped, ZenonT(60)
      <4>5. ASSUME NEW n \in Replies, Counts(i, n)'
            PROVE  n = m /\ ok
        <5>1. CASE n = m
          BY <1>2, <4>5, <5>1 DEF Counts
        <5>2. CASE n # m
          <6>1. command'[i][n] = command[i][n]
            BY <1>2, <5>2
          <6>2. Counts(i, n)
            BY <4>5, <6>1 DEF Counts
          <6> QED BY <4>2, <5>2, <6>2
        <5> QED BY <5>1, <5>2
      <4> QED BY <4>2, <4>4, <4>5
    <3>2. ASSUME NEW n \in Replies
          PROVE  CommandOK(i, n)'
      <4>1. CASE n # m
        <5>1. CommandOK(i, n) /\ command'[i][n] = command[i][n] /\ ~Counts(i, n)'
          BY <1>2, <1>4, <3>1, <3>2, <4>1, ZenonT(60) DEF AskOK
        <5> QED BY <1>6, <5>1 DEF CommandOK, Counts, Handed
      <4>2. CASE n = m /\ ok
        <5>1. CommandOK(i, m)
          BY <1>1, <1>4 DEF AskOK
        <5>2. ask'[i].state \notin {"absent", "pending"}
          BY <1>1, <1>3, <2>3, <4>2
        <5>3. ask'[i].state = "resolving" => ask'[i].decision = Says[m]
          BY <1>3, <2>3, <3>1, <4>2
        <5>4. \A r \in Replies : Counts(i, r)' => r = m
          BY <3>1
        <5> QED BY <1>1, <1>2, <1>5, <2>3, <4>2, <5>1, <5>2, <5>3, <5>4 DEF CommandOK
      <4>3. CASE n = m /\ ~ok
        <5>1. CommandOK(i, m) /\ ~Counts(i, m)' /\ command'[i][m].state = "failed"
          BY <1>1, <1>2, <1>4, <3>1, <4>3 DEF AskOK, Counts
        <5> QED BY <1>1, <1>2, <4>3, <5>1 DEF CommandOK
      <4> QED BY <4>1, <4>2, <4>3
    <3>3. i \notin left'
      BY <1>4, <2>3 DEF AskOK
    <3> QED BY <1>1, <1>3, <1>5, <2>1, <2>3, <3>1, <3>2, <3>3 DEF AskOK
  <2> QED BY <1>3, <2>2, <2>3
<1>8. ASSUME NEW j \in Asks, j # i
      PROVE  AskOK(j)'
  <2>1. native'[j] = "none" => event'[j] = "none"
    BY <1>8 DEF IInv, AskOK
  <2>2. /\ ask'[j] = ask[j] /\ command'[j] = command[j]
        /\ event'[j] = event[j] /\ prompt'[j] = prompt[j]
    BY <1>2, <1>3, <1>8
  <2>3. /\ j \in left' => j \in left
        /\ native[j] \in {"settled", "gone"} => native'[j] \in {"settled", "gone"} /\ given'[j] = given[j]
    OBVIOUS
  <2> QED BY <2>1, <2>2, <2>3, SameAsk
<1> QED BY <1>7, <1>8

\* ... and so do the coroutines, when the one that recorded it is done.
LEMMA OutcomeSendersOK ==
    ASSUME IInv, NEW s \in Senders, NEW ok \in BOOLEAN, Outcome(s, ok),
           command' = Marked(sender[s].ask, sender[s].reply, ok),
           \/ ask' = ask
           \/ ask' = Finished(sender[s].ask, ok),
           sender' = [sender EXCEPT ![s] = Idle],
           s # "user" => told' = told, s # "expirer", left' = left,
           \A i \in Asks : event[i] \notin {"none", "stream"} => event'[i] \notin {"none", "stream"},
           UNCHANGED <<native, given>>
    PROVE  /\ sender' \in [Senders -> SenderRecords]
           /\ \A t \in Senders : SenderOK(t)'
           /\ RolesOK' /\ SoloOK' /\ PlanningOK'
<1> DEFINE i == sender[s].ask
           m == sender[s].reply
<1>0. TypeOK /\ Busy(s) /\ i \in Asks /\ m \in Replies
  BY DEF IInv, Outcome, Busy, SenderOK
<1>1. /\ sender' \in [Senders -> SenderRecords]
      /\ ~Busy(s)' /\ sender'[s].at # "planning"
      /\ \A t \in Senders \ {s} : sender'[t] = sender[t]
  BY <1>0, IdleTyped, Typed DEF Busy, Idle
<1>2. /\ command'[i][m].state # "absent"
      /\ \A n \in Replies \ {m} : command'[i][n] = command[i][n]
      /\ \A j \in Asks \ {i} : command'[j] = command[j]
  BY <1>0, MarkedStep
<1>3. /\ \A j \in Asks \ {i} : ask'[j] = ask[j]
      /\ ask[i].state # "resolving" => ask' = ask
  <2>1. CASE ask' = ask
    BY <2>1
  <2>2. CASE ask' = Finished(i, ok)
    BY <1>0, <2>2, FinishedStep
  <2> QED BY <2>1, <2>2
<1>4. \A t \in Senders \ {s} : Busy(t) /\ sender[t].ask = i => ask[i].state \in Closed
  BY <1>0 DEF IInv, SoloOK
<1>5. ASSUME NEW t \in Senders, t # s
      PROVE  SenderOK(t)'
  <2>1. SenderOK(t) /\ sender'[t] = sender[t] /\ UNCHANGED <<native, given>>
    BY <1>1, <1>5 DEF IInv
  <2>2. CASE ~Busy(t)
    BY <2>1, <2>2 DEF SenderOK, Busy
  <2>3. CASE Busy(t) /\ sender[t].ask # i
    <3>1. /\ ask'[sender[t].ask] = ask[sender[t].ask]
          /\ command'[sender[t].ask] = command[sender[t].ask]
      BY <1>2, <1>3, <2>1, <2>3 DEF SenderOK
    <3> QED BY <2>1, <2>3, <3>1 DEF SenderOK, Handed
  <2>4. CASE Busy(t) /\ sender[t].ask = i
    <3>1. ask[i].state \in Closed /\ ask' = ask
      BY <1>3, <1>4, <1>5, <2>4 DEF Closed
    <3>2. command'[i][sender[t].reply].state # "absent"
      BY <1>2, <2>1, <2>4 DEF SenderOK
    <3> QED BY <2>1, <2>4, <3>1, <3>2 DEF SenderOK, Handed, Closed
  <2> QED BY <2>2, <2>3, <2>4
<1>6. SenderOK(s)'
  BY <1>1 DEF SenderOK
<1>7. RolesOK'
  BY <1>1 DEF IInv, RolesOK, Busy, Senders
<1>8. SoloOK'
  BY <1>1, <1>3, <1>4 DEF IInv, SoloOK, Busy, SenderOK, Closed
<1>9. PlanningOK'
  BY <1>1, PlanningStep DEF Senders
<1> QED BY <1>1, <1>5, <1>6, <1>7, <1>8, <1>9

\* The user's reply has an outcome.
LEMMA AnsweredSafe ==
    ASSUME IInv, NEW ok \in BOOLEAN, NEW k \in 1..3, Answered(ok, k)
    PROVE  IInv'
<1>a. sender["user"].ask \in Asks /\ sender["user"].reply \in Replies
  BY DEF Answered, Outcome, IInv, Busy, SenderOK, Senders
<1>b. PICK i \in Asks, m \in Replies : i = sender["user"].ask /\ m = sender["user"].reply
  BY <1>a
<1>0. /\ TypeOK /\ "user" \in Senders /\ Busy("user") /\ i \in Asks /\ m \in Replies
      /\ m \in Turns /\ told[m] = "nothing"
      /\ ask[i].state \in {"resolving"} \cup Closed
  BY <1>b DEF Answered, Outcome, IInv, Busy, SenderOK, Senders, RolesOK
<1>1. /\ Outcome("user", ok) /\ command' = Marked(i, m, ok)
      /\ ask' = (IF k >= 2 THEN Finished(i, ok) ELSE ask)
      /\ prompt' = (IF k = 3 /\ ok /\ ask[i].state = "resolving" THEN Withdrawn({i}) ELSE prompt)
      /\ UNCHANGED <<event, over>>
  BY <1>b DEF Answered
<1>2. command' \in [Asks -> [Replies -> CommandRecords]]
  BY <1>0, <1>1, MarkedStep
<1>3. ask' \in [Asks -> AskRecords]
  BY <1>0, <1>1, FinishedStep, Typed
<1>4. /\ prompt' \in [Asks -> {"none", "open", "withdrawn"}]
      /\ \A j \in Asks : j # i => prompt'[j] = prompt[j]
  <2>1. prompt \in [Asks -> {"none", "open", "withdrawn"}]
    BY <1>0, Typed
  <2>2. /\ Withdrawn({i}) \in [Asks -> {"none", "open", "withdrawn"}]
        /\ \A j \in Asks : j # i => Withdrawn({i})[j] = prompt[j]
    BY <1>0, WithdrawnTyped
  <2>3. prompt' = Withdrawn({i}) \/ prompt' = prompt
    BY <1>1
  <2> QED BY <2>1, <2>2, <2>3
<1>5. CASE k # 3
  <2>1. Die
    BY <1>5 DEF Answered
  <2>2. TypeOK'
    BY <1>0, <1>1, <1>2, <1>3, <1>4, <2>1, DieTyped, Typed, NextTyped
  <2>3. \A j \in Asks : AskOK(j)'
    <3>1. ask' = ask \/ ask' = Finished(i, ok)
      BY <1>1
    <3>2. /\ \A j \in Asks : native[j] \in {"settled", "gone"} => native'[j] \in {"settled", "gone"}
          /\ \A j \in Asks : native'[j] = "none" => native[j] = "none"
          /\ left' \subseteq left /\ given' = given
      BY <1>0, <2>1, DieTyped
    <3>3. /\ \A j \in Asks \ {i} : event'[j] = event[j] /\ prompt'[j] = prompt[j]
          /\ event'[i] = event[i]
      BY <1>1, <1>4
    <3>4. Outcome("user", ok) /\ command' = Marked(i, m, ok)
      BY <1>1
    <3> QED BY <1>b, <1>0, <3>1, <3>2, <3>3, <3>4, OutcomeAskOK
  <2> QED BY <2>1, <2>2, <2>3, DieLeaves
<1>6. CASE k = 3
  <2>1. /\ told' = [told EXCEPT ![m] = IF ok /\ ask[i].state = "resolving" THEN "accepted"
                                       ELSE "refused"]
        /\ sender' = [sender EXCEPT !["user"] = Idle] /\ ask' = Finished(i, ok)
        /\ UNCHANGED <<left, native, heard, given, phase, crashes>> /\ cut' \subseteq Asks
    <3>1. Ended("user")
      BY <1>6 DEF Answered
    <3> QED BY <1>a, <1>b, <1>0, <1>1, <1>6, <3>1, EndedTyped DEF Answered, Live
  <2>2. \A j \in Asks : AskOK(j)'
    <3>1. /\ \A j \in Asks \ {i} : event'[j] = event[j] /\ prompt'[j] = prompt[j]
          /\ event'[i] = event[i]
      BY <1>1, <1>4
    <3>2. Outcome("user", ok) /\ command' = Marked(i, m, ok)
      BY <1>1
    <3> QED BY <1>b, <1>0, <2>1, <3>1, <3>2, OutcomeAskOK
  <2>3. /\ sender' \in [Senders -> SenderRecords]
        /\ \A t \in Senders : SenderOK(t)'
        /\ RolesOK' /\ SoloOK' /\ PlanningOK'
    BY <1>b, <1>0, <1>1, <2>1, OutcomeSendersOK
  <2>4. TypeOK'
    BY <1>0, <1>1, <1>2, <1>3, <1>4, <2>1, <2>3, Typed, NextTyped
  <2>5. /\ \A j \in Asks \ {i} : ask'[j] = ask[j]
        /\ ask[i].state # "resolving" => ask' = ask
        /\ ask[i].state = "resolving" /\ ok => ask'[i].state = "resolved"
        /\ ask[i].state = "resolving" /\ ~ok => ask'[i].state = "pending"
    BY <1>0, <2>1, FinishedStep
  <2>6. prompt'[i] = IF ok /\ ask[i].state = "resolving" /\ prompt[i] = "open"
                     THEN "withdrawn" ELSE prompt[i]
    BY <1>0, <1>1, <1>6, WithdrawnTyped
  <2>7. PhaseOK'
    BY <1>0, <2>1 DEF IInv, PhaseOK, Busy, Idle
  <2>8. PromptOK'
    BY <1>0, <1>4, <2>1, <2>5, <2>6 DEF IInv, PromptOK, Closed
  <2>9. NoStalePrompt'
    <3>1. ASSUME NEW j \in Asks, j \notin left', ask'[j].state \in Closed, crashes = 0
          PROVE  prompt'[j] # "open"
      BY <1>0, <1>4, <2>1, <2>5, <2>6, <3>1 DEF IInv, PromptsFit, NoStalePrompt, Closed
    <3> QED BY <2>1, <3>1 DEF NoStalePrompt
  <2>10. PendingIsAsked'
    <3>1. /\ ok => command'[i][m].state = "sent"
          /\ ~ok => command'[i][m].state = "failed"
          /\ \A n \in Replies \ {m} : command'[i][n] = command[i][n]
          /\ \A j \in Asks \ {i} : command'[j] = command[j]
      BY <1>0, <1>1, MarkedStep
    <3>2. ASSUME NEW n \in Turns
          PROVE  told[n] = "refused" => told'[n] = "refused" /\ n # m
      BY <1>0, <2>1, Typed
    <3>3. told'[m] = IF ok /\ ask[i].state = "resolving" THEN "accepted" ELSE "refused"
      BY <1>0, <2>1, Typed
    <3>4. ASSUME NEW j \in Asks, crashes = 0, ask'[j].state = "pending",
                 event'[j] = "processed", command'[j]["policy"].state = "absent"
          PROVE  \/ prompt'[j] = "open"
                 \/ \E n \in Turns : told'[n] = "refused" /\ command'[j][n].state = "failed"
      <4>1. CASE j = i
        BY <1>0, <2>5, <3>1, <3>3, <3>4, <4>1 DEF Closed
      <4>2. CASE j # i
        <5>1. /\ ask'[j] = ask[j] /\ command'[j] = command[j]
              /\ event'[j] = event[j] /\ prompt'[j] = prompt[j]
          BY <1>1, <1>4, <2>5, <3>1, <3>4, <4>2
        <5>2. \/ prompt[j] = "open"
              \/ \E n \in Turns : told[n] = "refused" /\ command[j][n].state = "failed"
          BY <3>4, <5>1 DEF IInv, PromptsFit, PendingIsAsked
        <5> QED BY <3>2, <5>1, <5>2
      <4> QED BY <4>1, <4>2
    <3> QED BY <2>1, <3>4 DEF PendingIsAsked
  <2> QED BY <2>2, <2>3, <2>4, <2>7, <2>8, <2>9, <2>10 DEF IInv, PromptsFit
<1> QED BY <1>5, <1>6

\* The answer of the policy or of the coordinator has one.
LEMMA ReducedSafe ==
    ASSUME IInv, NEW ok \in BOOLEAN, NEW k \in 1..4, Reduced(ok, k)
    PROVE  IInv'
<1>a. sender["reducer"].ask \in Asks /\ sender["reducer"].reply \in Replies
  BY DEF Reduced, Outcome, IInv, Busy, SenderOK, Senders
<1>b. PICK i \in Asks, m \in Replies : i = sender["reducer"].ask /\ m = sender["reducer"].reply
  BY <1>a
<1>0. /\ TypeOK /\ "reducer" \in Senders /\ Busy("reducer") /\ m \in {"policy", "plan"}
      /\ ask[i].state \in {"resolving"} \cup Closed
  BY <1>b DEF Reduced, Outcome, IInv, Busy, SenderOK, Senders, RolesOK
<1>1. /\ Outcome("reducer", ok) /\ command' = Marked(i, m, ok)
      /\ ask' = (IF k >= 2 THEN Finished(i, ok) ELSE ask)
      /\ prompt' = (IF k >= 3 /\ ask[i].state = "resolving"
                    THEN IF ok THEN Withdrawn({i})
                         ELSE IF m = "plan" THEN Prompted(i) ELSE prompt
                    ELSE prompt)
      /\ event' = [event EXCEPT ![i] =
                     IF k = 4 /\ (ask[i].state = "resolving" \/ m = "plan")
                     THEN "processed" ELSE event[i]]
      /\ over' = over
  BY <1>b DEF Reduced
<1>2. command' \in [Asks -> [Replies -> CommandRecords]]
  BY <1>0, <1>1, MarkedStep
<1>3. ask' \in [Asks -> AskRecords] /\ (ask' = ask \/ ask' = Finished(i, ok))
  BY <1>0, <1>1, FinishedStep, Typed
<1>4. /\ prompt' \in [Asks -> {"none", "open", "withdrawn"}]
      /\ \A j \in Asks \ {i} : prompt'[j] = prompt[j]
  <2>1. prompt' = prompt \/ prompt' = Withdrawn({i}) \/ prompt' = Prompted(i)
    BY <1>1
  <2> QED BY <1>0, <2>1, WithdrawnTyped, PromptedTyped, Typed
<1>5. /\ event' \in [Asks -> {"none", "stream", "logged", "processed"}]
      /\ \A j \in Asks \ {i} : event'[j] = event[j]
      /\ event'[i] = event[i] \/ event'[i] = "processed"
  BY <1>0, <1>1, Typed
<1>6. CASE k # 4
  <2>1. Die
    BY <1>6 DEF Reduced
  <2>2. TypeOK'
    <3>1. /\ ask' \in [Asks -> AskRecords]
          /\ event' \in [Asks -> {"none", "stream", "logged", "processed"}]
          /\ prompt' \in [Asks -> {"none", "open", "withdrawn"}]
          /\ over' = over
      BY <1>1, <1>3, <1>4, <1>5
    <3> QED BY <1>0, <1>2, <2>1, <3>1, DieTyped, Typed, NextTyped
  <2>3. /\ \A j \in Asks : native[j] \in {"settled", "gone"} => native'[j] \in {"settled", "gone"}
        /\ \A j \in Asks : native'[j] = "none" => native[j] = "none"
        /\ left' \subseteq left /\ given' = given
    BY <1>0, <2>1, DieTyped
  <2>4. \A j \in Asks : AskOK(j)'
    <3>1. /\ \A j \in Asks \ {i} : event'[j] = event[j] /\ prompt'[j] = prompt[j]
          /\ event'[i] = event[i] \/ event'[i] = "processed"
      BY <1>4, <1>5
    <3>2. Outcome("reducer", ok) /\ command' = Marked(i, m, ok)
      BY <1>1
    <3>3. ask' = ask \/ ask' = Finished(i, ok)
      BY <1>3
    <3> QED BY <1>b, <1>0, <2>3, <3>1, <3>2, <3>3, OutcomeAskOK
  <2> QED BY <2>1, <2>2, <2>4, DieLeaves
<1>7. CASE k = 4
  <2>1. /\ sender' = [sender EXCEPT !["reducer"] = Idle] /\ ask' = Finished(i, ok)
        /\ UNCHANGED <<left, told, native, heard, given, phase, crashes>>
        /\ cut' \subseteq Asks
    <3>1. Ended("reducer")
      BY <1>7 DEF Reduced
    <3> QED BY <1>a, <1>0, <1>1, <1>7, <3>1, EndedTyped DEF Reduced, Live
  <2>2. \A j \in Asks : AskOK(j)'
    <3>1. /\ \A j \in Asks \ {i} : event'[j] = event[j] /\ prompt'[j] = prompt[j]
          /\ event'[i] = event[i] \/ event'[i] = "processed"
      BY <1>4, <1>5
    <3>2. Outcome("reducer", ok) /\ command' = Marked(i, m, ok)
      BY <1>1
    <3> QED BY <1>b, <1>0, <2>1, <3>1, <3>2, OutcomeAskOK
  <2>3. /\ sender' \in [Senders -> SenderRecords]
        /\ \A t \in Senders : SenderOK(t)'
        /\ RolesOK' /\ SoloOK' /\ PlanningOK'
    <3>1. \A j \in Asks : event[j] \notin {"none", "stream"} => event'[j] \notin {"none", "stream"}
      BY <1>5
    <3> QED BY <1>b, <1>0, <1>1, <2>1, <3>1, OutcomeSendersOK
  <2>4. TypeOK'
    BY <1>0, <1>1, <1>2, <1>3, <1>4, <1>5, <2>1, <2>3, Typed, NextTyped
  <2>5. /\ \A j \in Asks \ {i} : ask'[j] = ask[j]
        /\ ask[i].state # "resolving" => ask' = ask
        /\ ask[i].state = "resolving" /\ ok => ask'[i].state = "resolved"
        /\ ask[i].state = "resolving" /\ ~ok => ask'[i].state = "pending"
    BY <1>0, <2>1, FinishedStep
  <2>6. /\ ask[i].state # "resolving" => prompt' = prompt
        /\ ask[i].state = "resolving" /\ ok
             => prompt'[i] = IF prompt[i] = "open" THEN "withdrawn" ELSE prompt[i]
        /\ ask[i].state = "resolving" /\ ~ok /\ m = "plan"
             => prompt'[i] = IF prompt[i] = "none" THEN "open" ELSE prompt[i]
        /\ ask[i].state = "resolving" /\ ~ok /\ m # "plan" => prompt' = prompt
    BY <1>0, <1>1, <1>7, WithdrawnTyped, PromptedTyped
  <2>7. PhaseOK'
    BY <1>0, <2>1 DEF IInv, PhaseOK, Busy, Idle
  <2>8. ASSUME crashes = 0, NEW j \in Asks, prompt'[j] = "withdrawn"
        PROVE  ask'[j].state \in Closed
    <3>1. prompt[j] = "withdrawn" => ask[j].state \in Closed
      BY <2>8 DEF IInv, PromptOK
    <3>2. CASE j # i
      BY <1>4, <2>5, <2>8, <3>1, <3>2
    <3>3. CASE j = i
      BY <1>0, <2>5, <2>6, <2>8, <3>1, <3>3 DEF Closed
    <3> QED BY <3>2, <3>3
  <2>9. PromptOK'
    BY <2>1, <2>8 DEF PromptOK
  <2>10. NoStalePrompt'
    <3>1. ASSUME NEW j \in Asks, j \notin left', ask'[j].state \in Closed, crashes = 0
          PROVE  prompt'[j] # "open"
      <4>1. ask[j].state \in Closed => prompt[j] # "open"
        BY <2>1, <3>1 DEF IInv, PromptsFit, NoStalePrompt
      <4>2. CASE j # i
        BY <1>4, <2>5, <3>1, <4>1, <4>2
      <4>3. CASE j = i
        BY <1>0, <2>5, <2>6, <3>1, <4>1, <4>3 DEF Closed
      <4> QED BY <4>2, <4>3
    <3> QED BY <2>1, <3>1 DEF NoStalePrompt
  <2>11. PendingIsAsked'
    <3>1. /\ ok => command'[i][m].state = "sent"
          /\ ~ok => command'[i][m].state = "failed"
          /\ \A j \in Asks \ {i} : command'[j] = command[j]
      BY <1>0, <1>1, MarkedStep
    <3>4. ASSUME NEW j \in Asks, crashes = 0, ask'[j].state = "pending",
                 event'[j] = "processed", command'[j]["policy"].state = "absent"
          PROVE  \/ prompt'[j] = "open"
                 \/ \E n \in Turns : told'[n] = "refused" /\ command'[j][n].state = "failed"
      <4>1. CASE j = i
        <5>1. ask[i].state = "resolving" /\ ~ok
          BY <1>0, <2>5, <3>4, <4>1 DEF Closed
        <5>2. m = "plan"
          BY <1>0, <3>1, <3>4, <4>1, <5>1
        <5>3. prompt[i] # "withdrawn"
          BY <3>4, <5>1 DEF IInv, PromptOK, Closed
        <5> QED BY <1>0, <2>6, <4>1, <5>1, <5>2, <5>3, Typed
      <4>2. CASE j # i
        <5>1. /\ ask'[j] = ask[j] /\ command'[j] = command[j]
              /\ event'[j] = event[j] /\ prompt'[j] = prompt[j]
          BY <1>4, <1>5, <2>5, <3>1, <3>4, <4>2
        <5>2. \/ prompt[j] = "open"
              \/ \E n \in Turns : told[n] = "refused" /\ command[j][n].state = "failed"
          BY <3>4, <5>1 DEF IInv, PromptsFit, PendingIsAsked
        <5> QED BY <2>1, <5>1, <5>2
      <4> QED BY <4>1, <4>2
    <3> QED BY <2>1, <3>4 DEF PendingIsAsked
  <2> QED BY <2>2, <2>3, <2>4, <2>7, <2>9, <2>10, <2>11 DEF IInv, PromptsFit
<1> QED BY <1>6, <1>7

\* A replayed reply has one.
LEMMA ReplayedSafe ==
    ASSUME IInv, NEW ok \in BOOLEAN, Replayed(ok)
    PROVE  IInv'
<1>a. sender["replayer"].ask \in Asks /\ sender["replayer"].reply \in Replies
  BY DEF Replayed, Outcome, IInv, Busy, SenderOK, Senders
<1>b. PICK i \in Asks, m \in Replies : i = sender["replayer"].ask /\ m = sender["replayer"].reply
  BY <1>a
<1>0. /\ TypeOK /\ "replayer" \in Senders /\ Busy("replayer")
      /\ ask[i].state \in {"resolving"} \cup Closed
  BY <1>b DEF Replayed, Outcome, IInv, Busy, SenderOK, Senders
<1>1. /\ Outcome("replayer", ok) /\ command' = Marked(i, m, ok)
      /\ ask' = (IF ok THEN Finished(i, TRUE) ELSE ask)
      /\ prompt' = (IF ok /\ ask[i].state = "resolving" THEN Withdrawn({i}) ELSE prompt)
      /\ sender' = [sender EXCEPT !["replayer"] = Idle]
      /\ UNCHANGED <<event, over, left, native, heard, given, told, phase, crashes>>
      /\ cut' \subseteq Asks
  BY <1>a, <1>b, <1>0, EndedTyped DEF Replayed, Live
<1>2. command' \in [Asks -> [Replies -> CommandRecords]]
  BY <1>0, <1>1, MarkedStep
<1>3. /\ ask' \in [Asks -> AskRecords] /\ (ask' = ask \/ ask' = Finished(i, ok))
      /\ \A j \in Asks \ {i} : ask'[j] = ask[j]
      /\ \/ ask'[i] = ask[i]
         \/ ok /\ ask[i].state = "resolving" /\ ask'[i].state = "resolved"
  <2>1. CASE ok
    <3>1. ok = TRUE
      BY <2>1
    <3>2. ask' = Finished(i, TRUE)
      BY <1>1, <2>1
    <3>3. ask' = Finished(i, ok)
      BY <3>1, <3>2
    <3> QED BY <1>0, <2>1, <3>3, FinishedStep
  <2>2. CASE ~ok
    BY <1>0, <1>1, <2>2, Typed
  <2> QED BY <2>1, <2>2
<1>4. /\ prompt' \in [Asks -> {"none", "open", "withdrawn"}]
      /\ \A j \in Asks \ {i} : prompt'[j] = prompt[j]
      /\ ok /\ ask[i].state = "resolving" =>
           prompt'[i] = IF prompt[i] = "open" THEN "withdrawn" ELSE prompt[i]
      /\ ~(ok /\ ask[i].state = "resolving") => prompt' = prompt
  BY <1>0, <1>1, WithdrawnTyped, Typed, ZenonT(60)
<1>5. \A j \in Asks : AskOK(j)'
  <2>1. /\ \A j \in Asks \ {i} : event'[j] = event[j] /\ prompt'[j] = prompt[j]
        /\ event'[i] = event[i]
    BY <1>1, <1>4
  <2>2. Outcome("replayer", ok) /\ command' = Marked(i, m, ok)
    BY <1>1
  <2>3. ask' = ask \/ ask' = Finished(i, ok)
    BY <1>3
  <2>4. UNCHANGED <<left, native, given>>
    BY <1>1
  <2> QED BY <1>b, <1>0, <2>1, <2>2, <2>3, <2>4, OutcomeAskOK
<1>6. /\ sender' \in [Senders -> SenderRecords]
      /\ \A t \in Senders : SenderOK(t)'
      /\ RolesOK' /\ SoloOK' /\ PlanningOK'
  BY <1>b, <1>0, <1>1, <1>3, OutcomeSendersOK
<1>7. TypeOK'
  BY <1>0, <1>1, <1>2, <1>3, <1>4, <1>6, Typed, NextTyped
<1>8. PhaseOK'
  BY <1>0, <1>1 DEF IInv, PhaseOK, Busy, Idle
<1>9. PromptOK'
  <2>1. ASSUME crashes = 0, NEW j \in Asks, prompt'[j] = "withdrawn"
        PROVE  ask'[j].state \in Closed
    <3>1. prompt[j] = "withdrawn" => ask[j].state \in Closed
      BY <2>1 DEF IInv, PromptOK
    <3>2. CASE j # i
      BY <1>3, <1>4, <2>1, <3>1, <3>2
    <3>3. CASE j = i /\ ok /\ ask[i].state = "resolving"
      BY <1>0, <1>1, <3>3, FinishedTyped DEF Closed
    <3>4. CASE j = i /\ ~(ok /\ ask[i].state = "resolving")
      BY <1>3, <1>4, <2>1, <3>1, <3>4
    <3> QED BY <3>2, <3>3, <3>4
  <2> QED BY <1>1, <2>1 DEF PromptOK
<1>10. NoStalePrompt'
  <2>1. ASSUME NEW j \in Asks, j \notin left', ask'[j].state \in Closed, crashes = 0
        PROVE  prompt'[j] # "open"
    <3>1. ask[j].state \in Closed => prompt[j] # "open"
      BY <1>1, <2>1 DEF IInv, PromptsFit, NoStalePrompt
    <3>2. CASE j # i
      BY <1>3, <1>4, <2>1, <3>1, <3>2
    <3>3. CASE j = i /\ ok /\ ask[i].state = "resolving"
      BY <1>4, <3>3
    <3>4. CASE j = i /\ ~(ok /\ ask[i].state = "resolving")
      BY <1>3, <1>4, <2>1, <3>1, <3>4
    <3> QED BY <3>2, <3>3, <3>4
  <2> QED BY <1>1, <2>1 DEF NoStalePrompt
<1>11. PendingIsAsked'
  <2>1. \A j \in Asks \ {i} : command'[j] = command[j]
    BY <1>0, <1>1, MarkedStep
  <2>2. ASSUME NEW j \in Asks, crashes = 0, ask'[j].state = "pending",
               event'[j] = "processed", command'[j]["policy"].state = "absent"
        PROVE  \/ prompt'[j] = "open"
               \/ \E n \in Turns : told'[n] = "refused" /\ command'[j][n].state = "failed"
    <3>1. j # i
      BY <1>0, <1>3, <2>2 DEF Closed
    <3>2. /\ ask'[j] = ask[j] /\ command'[j] = command[j]
          /\ event'[j] = event[j] /\ prompt'[j] = prompt[j]
      BY <1>1, <1>3, <1>4, <2>1, <2>2, <3>1
    <3>3. \/ prompt[j] = "open"
          \/ \E n \in Turns : told[n] = "refused" /\ command[j][n].state = "failed"
      BY <2>2, <3>2 DEF IInv, PromptsFit, PendingIsAsked
    <3> QED BY <1>1, <3>2, <3>3
  <2> QED BY <1>1, <2>2 DEF PendingIsAsked
<1> QED BY <1>5, <1>6, <1>7, <1>8, <1>9, <1>10, <1>11 DEF IInv, PromptsFit

-----------------------------------------------------------------------------
(* The expiry loop. *)

\* What a round of the loop, or all of it, leaves of the asks L and the commands c.
RoundDone(L, c) ==
    /\ command' \in [Asks -> [Replies -> CommandRecords]]
    /\ prompt' \in [Asks -> {"none", "open", "withdrawn"}]
    /\ sender' \in [Senders -> SenderRecords]
    /\ left' \subseteq L
    /\ \A j \in Asks \ L : command'[j] = c[j] /\ prompt'[j] = prompt[j]
    /\ \A j \in L : \A n \in Replies \ {"expiry"} : command'[j][n] = c[j][n]
    /\ \A j \in L : \/ command'[j]["expiry"] = c[j]["expiry"]
                    \/ /\ command'[j]["expiry"].state \in {"sending", "pending"}
                       /\ command'[j]["expiry"].decision = "deny"
    /\ \A j \in L : prompt'[j] \in {prompt[j], "withdrawn"}
    /\ \A j \in L \ left' : prompt'[j] # "open"
    /\ \A t \in Senders \ {"expirer"} : sender'[t] = sender[t]
    /\ \/ sender'["expirer"] = Idle /\ left' = {}
       \/ \E i \in L : /\ sender'["expirer"] = Sending(i, "expiry")
                       /\ command'[i]["expiry"].state = "sending"

\* A round of the loop does that.
LEMMA ExpireRestStep ==
    ASSUME TypeOK, NEW L \in SUBSET Asks,
           NEW c \in [Asks -> [Replies -> CommandRecords]], ExpireRest(L, c)
    PROVE  RoundDone(L, c)
<1> "expirer" \in Senders
  BY DEF Senders
<1>1. /\ [state |-> "sending", decision |-> "deny"] \in CommandRecords
      /\ [state |-> "pending", decision |-> "deny"] \in CommandRecords
  BY SaysTyped DEF CommandRecords
<1>2. CASE L # {} /\ Registered
  <2>1. PICK i \in L :
          /\ command' = [c EXCEPT ![i]["expiry"] = [state |-> "sending", decision |-> "deny"]]
          /\ prompt' = Withdrawn({i})
          /\ sender' = [sender EXCEPT !["expirer"] = Sending(i, "expiry")]
          /\ left' = L \ {i}
    BY <1>2 DEF ExpireRest
  <2>2. /\ command' \in [Asks -> [Replies -> CommandRecords]]
        /\ \A j \in Asks \ {i} : command'[j] = c[j]
        /\ \A n \in Replies \ {"expiry"} : command'[i][n] = c[i][n]
        /\ command'[i]["expiry"].state = "sending" /\ command'[i]["expiry"].decision = "deny"
    <3>1. command' = [c EXCEPT ![i] =
             [c[i] EXCEPT !["expiry"] = [state |-> "sending", decision |-> "deny"]]]
      BY <2>1
    <3>2. /\ [c[i] EXCEPT !["expiry"] = [state |-> "sending", decision |-> "deny"]]
               \in [Replies -> CommandRecords]
          /\ [c[i] EXCEPT !["expiry"] = [state |-> "sending", decision |-> "deny"]]["expiry"]
               = [state |-> "sending", decision |-> "deny"]
      BY <1>1, <2>1, SaysTyped
    <3> QED BY <2>1, <3>1, <3>2
  <2>3. /\ prompt' \in [Asks -> {"none", "open", "withdrawn"}]
        /\ \A j \in Asks \ {i} : prompt'[j] = prompt[j]
        /\ prompt'[i] = IF prompt[i] = "open" THEN "withdrawn" ELSE prompt[i]
    BY <2>1, WithdrawnTyped
  <2>4. /\ sender' \in [Senders -> SenderRecords]
        /\ sender'["expirer"] = Sending(i, "expiry")
        /\ \A t \in Senders \ {"expirer"} : sender'[t] = sender[t]
    BY <2>1, SendingTyped, SaysTyped, Typed
  <2>5. /\ left' \subseteq L /\ L \ left' = {i}
        /\ \E j \in L : /\ sender'["expirer"] = Sending(j, "expiry")
                       /\ command'[j]["expiry"].state = "sending"
    BY <2>1, <2>2, <2>4
  <2> QED BY <2>2, <2>3, <2>4, <2>5 DEF RoundDone
<1>3. CASE ~(L # {} /\ Registered)
  <2>1. /\ command' = [i \in Asks |-> IF i \notin L THEN c[i] ELSE
                          [c[i] EXCEPT !["expiry"] = [state |-> "pending", decision |-> "deny"]]]
        /\ prompt' = Withdrawn(L)
        /\ sender' = [sender EXCEPT !["expirer"] = Idle]
        /\ left' = {}
    BY <1>3 DEF ExpireRest
  <2>2. ASSUME NEW j \in L
        PROVE  /\ command'[j] \in [Replies -> CommandRecords]
               /\ \A n \in Replies \ {"expiry"} : command'[j][n] = c[j][n]
               /\ command'[j]["expiry"].state = "pending"
               /\ command'[j]["expiry"].decision = "deny"
    <3>1. command'[j] = [c[j] EXCEPT !["expiry"] = [state |-> "pending", decision |-> "deny"]]
      BY <2>1, <2>2
    <3>2. c[j] \in [Replies -> CommandRecords]
      BY <2>2
    <3> QED BY <1>1, <3>1, <3>2, SaysTyped
  <2>3. \A j \in Asks \ L : command'[j] = c[j]
    BY <2>1
  <2>4. command' \in [Asks -> [Replies -> CommandRecords]]
    <3>1. \A j \in Asks : command'[j] \in [Replies -> CommandRecords]
      BY <2>2, <2>3
    <3> QED BY <2>1, <3>1
  <2>5. /\ prompt' \in [Asks -> {"none", "open", "withdrawn"}]
        /\ \A j \in Asks \ L : prompt'[j] = prompt[j]
        /\ \A j \in L : prompt'[j] = IF prompt[j] = "open" THEN "withdrawn" ELSE prompt[j]
    BY <2>1, WithdrawnTyped
  <2>6. /\ sender' \in [Senders -> SenderRecords]
        /\ sender'["expirer"] = Idle
        /\ \A t \in Senders \ {"expirer"} : sender'[t] = sender[t]
    BY <2>1, IdleTyped, Typed
  <2> QED BY <2>1, <2>2, <2>3, <2>4, <2>5, <2>6 DEF RoundDone
<1> QED BY <1>2, <1>3

\* What the loop starts from: its asks L and those of D, one of which may have a
\* send that is over, are expired, and c holds what became of that send.
RoundReady(L, c, D) ==
    /\ L \subseteq D /\ left \subseteq D /\ phase # "down"
    /\ \A j \in D : /\ ask'[j].state = "expired" /\ event[j] \notin {"none", "stream"}
                   /\ native[j] # "none"
    /\ \A j \in Asks \ D : ask'[j] = ask[j] /\ c[j] = command[j]
    /\ \A j \in D : ask[j].state \in Closed \/ (L = D /\ ask[j].state = "pending")
    /\ \A j \in D : \A n \in Replies :
         /\ c[j][n].decision = command[j][n].decision
         /\ c[j][n].state = "absent" <=> command[j][n].state = "absent"
    /\ \A j \in D \ L : prompt[j] # "open" \/ crashes # 0
    /\ UNCHANGED <<event, over, native, given, told, phase, crashes>>

\* From there the rest of the loop keeps the invariant.
LEMMA ExpireRestSafe ==
    ASSUME IInv, TypeOK', NEW L \in SUBSET Asks,
           NEW c \in [Asks -> [Replies -> CommandRecords]], ExpireRest(L, c),
           NEW D \in SUBSET Asks, RoundReady(L, c, D)
    PROVE  IInv'
<1> USE DEF RoundReady
<1>0. TypeOK
  BY DEF IInv
<1>a. RoundDone(L, c)
  BY <1>0, ExpireRestStep
<1>1. /\ left' \subseteq L
      /\ \A j \in Asks \ L : command'[j] = c[j] /\ prompt'[j] = prompt[j]
      /\ \A j \in L : \A n \in Replies \ {"expiry"} : command'[j][n] = c[j][n]
  BY <1>a DEF RoundDone
<1>2. /\ \A j \in L : \/ command'[j]["expiry"] = c[j]["expiry"]
                      \/ /\ command'[j]["expiry"].state \in {"sending", "pending"}
                         /\ command'[j]["expiry"].decision = "deny"
      /\ \A j \in L : prompt'[j] \in {prompt[j], "withdrawn"}
      /\ \A j \in L \ left' : prompt'[j] # "open"
      /\ \A t \in Senders \ {"expirer"} : sender'[t] = sender[t]
  BY <1>a DEF RoundDone
<1>3. \/ sender'["expirer"] = Idle /\ left' = {}
      \/ \E i \in L : /\ sender'["expirer"] = Sending(i, "expiry")
                      /\ command'[i]["expiry"].state = "sending"
  BY <1>a DEF RoundDone
<1>4. ASSUME NEW j \in Asks \ D
      PROVE  /\ ask'[j] = ask[j] /\ command'[j] = command[j] /\ prompt'[j] = prompt[j]
             /\ j \notin left' /\ j \notin left /\ j \in Asks
  BY <1>1, <1>4
<1>5. ASSUME NEW j \in D, NEW n \in Replies
      PROVE  /\ command'[j][n].state # "absent" => command'[j][n].decision = Says[n]
             /\ command[j][n].state # "absent" => command'[j][n].state # "absent"
  <2>1. CommandOK(j, n)
    BY <1>5 DEF IInv, AskOK
  <2>2. CASE command'[j][n] = c[j][n]
    BY <1>5, <2>1, <2>2 DEF CommandOK
  <2>3. CASE /\ command'[j][n].state \in {"sending", "pending"}
             /\ command'[j][n].decision = "deny" /\ n = "expiry"
    BY <2>3, SaysTyped
  <2>4. j \in Asks \ L \/ (j \in L /\ n # "expiry") \/ (j \in L /\ n = "expiry")
    BY <1>5
  <2> QED BY <1>1, <1>2, <1>5, <2>2, <2>3, <2>4
<1>6. ASSUME NEW j \in Asks
      PROVE  AskOK(j)'
  <2>1. CASE j \notin D
    BY <1>4, <1>6, <2>1, SameAsk DEF IInv, AskOK
  <2>2. CASE j \in D
    <3>1. ask'[j].state = "expired" /\ event'[j] \notin {"none", "stream"} /\ native'[j] # "none"
      BY <2>2
    <3>2. ASSUME NEW n \in Replies
          PROVE  CommandOK(j, n)'
      BY <1>5, <2>2, <3>1, <3>2 DEF CommandOK, Handed
    <3> QED BY <3>1, <3>2 DEF AskOK
  <2> QED BY <2>1, <2>2
<1>7. ASSUME NEW t \in Senders, t # "expirer"
      PROVE  SenderOK(t)'
  <2>1. sender'[t] = sender[t]
    BY <1>2, <1>7
  <2>2. SUFFICES ASSUME Busy(t)
                 PROVE  SenderOK(t)'
    BY <2>1 DEF SenderOK, Busy
  <2>3. PICK i \in Asks, m \in Replies : i = sender[t].ask /\ m = sender[t].reply
    BY <1>7, <2>2 DEF IInv, SenderOK
  <2>4. /\ sender[t].at = "taken" => native[i] \in {"settled", "gone"}
        /\ sender[t].at \in {"written", "taken"} /\ ask[i].state = "resolving"
             => given[i] = Says[m]
        /\ ask[i].state \in {"resolving"} \cup Closed
        /\ command[i][m].state # "absent"
        /\ ask[i].state = "resolving" => command[i][m].state = "sending"
    BY <1>7, <2>2, <2>3 DEF IInv, SenderOK
  <2>5. CASE i \in D
    <3>1. ask'[i].state = "expired" /\ command'[i][m].state # "absent"
      BY <1>5, <2>4, <2>5
    <3> QED BY <2>1, <2>3, <2>4, <3>1 DEF SenderOK, Handed, Closed
  <2>6. CASE i \notin D
    BY <1>4, <2>1, <2>3, <2>4, <2>6 DEF SenderOK, Handed
  <2> QED BY <2>5, <2>6
<1>8. SenderOK("expirer")'
  <2>1. CASE sender'["expirer"] = Idle
    BY <2>1 DEF SenderOK, Busy, Idle
  <2>2. ASSUME NEW i \in L, sender'["expirer"] = Sending(i, "expiry"),
               command'[i]["expiry"].state = "sending"
        PROVE  SenderOK("expirer")'
    <3>1. /\ sender'["expirer"].at = "sending" /\ sender'["expirer"].ask = i
          /\ sender'["expirer"].reply = "expiry"
      BY <2>2 DEF Sending
    <3>2. ask'[i].state = "expired" /\ i \in Asks
      BY <2>2
    <3> QED BY <2>2, <3>1, <3>2, SaysTyped DEF SenderOK, Closed
  <2> QED BY <1>3, <2>1, <2>2
<1>9. RolesOK'
  <2>1. /\ Busy("expirer")' => sender'["expirer"].reply = "expiry"
        /\ ~Busy("expirer")' => left' = {}
    <3>1. CASE sender'["expirer"] = Idle /\ left' = {}
      BY <3>1 DEF Idle, Busy
    <3>2. ASSUME NEW i \in L, sender'["expirer"] = Sending(i, "expiry")
          PROVE  Busy("expirer")' /\ sender'["expirer"].reply = "expiry"
      BY <3>2 DEF Sending, Busy
    <3> QED BY <1>3, <3>1, <3>2
  <2>2. /\ sender'["user"] = sender["user"] /\ sender'["reducer"] = sender["reducer"]
        /\ told' = told
    BY <1>2 DEF Senders
  <2> QED BY <2>1, <2>2 DEF IInv, RolesOK, Busy
<1>10. SoloOK'
  <2>1. ASSUME NEW i \in Asks, ask[i].state \in Closed
        PROVE  ask'[i].state \in Closed
    BY <1>4, <2>1 DEF Closed
  <2>2. Busy("expirer")' => /\ sender'["expirer"].ask \in Asks
                            /\ ask'[sender'["expirer"].ask].state \in Closed
    <3>1. CASE sender'["expirer"] = Idle
      BY <3>1 DEF Idle, Busy
    <3>2. ASSUME NEW i \in L, sender'["expirer"] = Sending(i, "expiry")
          PROVE  /\ sender'["expirer"].ask \in Asks
                 /\ ask'[sender'["expirer"].ask].state \in Closed
      <4>1. sender'["expirer"].ask = i
        BY <3>2 DEF Sending
      <4> QED BY <3>2, <4>1 DEF Closed
    <3> QED BY <1>3, <3>1, <3>2
  <2>3. ASSUME NEW s1 \in Senders, NEW s2 \in Senders, s1 # s2, Busy(s1)', Busy(s2)',
               sender'[s1].ask = sender'[s2].ask
        PROVE  ask'[sender'[s1].ask].state \in Closed
    <3>1. CASE s1 = "expirer" \/ s2 = "expirer"
      BY <2>2, <2>3, <3>1
    <3>2. CASE s1 # "expirer" /\ s2 # "expirer"
      <4>1. sender'[s1] = sender[s1] /\ sender'[s2] = sender[s2]
        BY <1>2, <2>3, <3>2
      <4>2. Busy(s1) /\ Busy(s2) /\ sender[s1].ask = sender[s2].ask /\ sender[s1].ask \in Asks
        BY <2>3, <4>1 DEF Busy, IInv, SenderOK
      <4>3. ask[sender[s1].ask].state \in Closed
        BY <2>3, <4>2 DEF IInv, SoloOK
      <4> QED BY <2>1, <4>1, <4>2, <4>3
    <3> QED BY <3>1, <3>2
  <2> QED BY <2>3 DEF SoloOK
<1>11. PlanningOK' /\ PhaseOK'
  <2>1. sender'["reducer"] = sender["reducer"]
    BY <1>2 DEF Senders
  <2>2. PlanningOK'
    BY <2>1, PlanningStep
  <2> QED BY <2>2 DEF IInv, PhaseOK
<1>12. PromptOK'
  <2>1. ASSUME crashes = 0, NEW j \in Asks, prompt'[j] = "withdrawn"
        PROVE  ask'[j].state \in Closed
    BY <1>4, <2>1 DEF IInv, PromptOK, Closed
  <2> QED BY <2>1 DEF PromptOK
<1>13. NoStalePrompt'
  <2>1. ASSUME NEW j \in Asks, j \notin left', ask'[j].state \in Closed, crashes = 0
        PROVE  prompt'[j] # "open"
    <3>1. CASE j \in L
      BY <1>2, <2>1, <3>1
    <3>2. CASE j \in D \ L
      BY <1>1, <2>1, <3>2
    <3>3. CASE j \notin D
      BY <1>4, <2>1, <3>3 DEF IInv, PromptsFit, NoStalePrompt
    <3> QED BY <3>1, <3>2, <3>3
  <2> QED BY <2>1 DEF NoStalePrompt
<1>14. PendingIsAsked'
  <2>1. ASSUME NEW j \in Asks, crashes = 0, ask'[j].state = "pending",
               event'[j] = "processed", command'[j]["policy"].state = "absent"
        PROVE  \/ prompt'[j] = "open"
               \/ \E n \in Turns : told'[n] = "refused" /\ command'[j][n].state = "failed"
    <3>1. j \notin D
      BY <2>1
    <3>2. \/ prompt[j] = "open"
          \/ \E n \in Turns : told[n] = "refused" /\ command[j][n].state = "failed"
      BY <1>4, <2>1, <3>1 DEF IInv, PromptsFit, PendingIsAsked
    <3> QED BY <1>4, <3>1, <3>2
  <2> QED BY <2>1 DEF PendingIsAsked
<1> QED BY <1>6, <1>7, <1>8, <1>9, <1>10, <1>11, <1>12, <1>13, <1>14 DEF IInv, PromptsFit

\* The transaction that expires the asks S.
LEMMA ExpiresStep ==
    ASSUME TypeOK, NEW S \in SUBSET Asks,
           ask' = [i \in Asks |-> IF i \in S THEN [state |-> "expired", decision |-> "deny"]
                                             ELSE ask[i]]
    PROVE  /\ ask' \in [Asks -> AskRecords]
           /\ \A j \in S : ask'[j].state = "expired" /\ ask'[j].decision = "deny"
           /\ \A j \in Asks \ S : ask'[j] = ask[j]
<1>1. [state |-> "expired", decision |-> "deny"] \in AskRecords
  BY SaysTyped DEF AskRecords, AskStates, Closed
<1>2. ask \in [Asks -> AskRecords]
  BY Typed
<1> QED BY <1>1, <1>2

\* An ask that the user, a policy or the coordinator could still answer was
\* raised and is in the log.
LEMMA ReducedAsk ==
    ASSUME IInv, NEW j \in Asks, ask[j].state # "absent"
    PROVE  event[j] \notin {"none", "stream"} /\ native[j] # "none"
BY DEF IInv, AskOK

\* Due permissions expire and the loop starts.
LEMMA ExpireSafe ==
    ASSUME IInv, NEW S \in SUBSET Permissions, Expire(S)
    PROVE  IInv'
<1>0. /\ TypeOK /\ S \in SUBSET Asks /\ Up /\ \A j \in S : ask[j].state = "pending"
      /\ ExpireRest(S, command) /\ UNCHANGED <<event, over, native, heard, given, cut, told, phase, crashes>>
  BY DEF IInv, Expire, Due, worker, handed, Live
<1>1. /\ ask' \in [Asks -> AskRecords]
      /\ \A j \in S : ask'[j].state = "expired" /\ ask'[j].decision = "deny"
      /\ \A j \in Asks \ S : ask'[j] = ask[j]
  BY <1>0, ExpiresStep DEF Expire
<1>2. command \in [Asks -> [Replies -> CommandRecords]]
  BY <1>0, Typed
<1>3. RoundDone(S, command)
  BY <1>0, <1>2, ExpireRestStep
<1>4. TypeOK'
  BY <1>0, <1>1, <1>3, Typed, NextTyped DEF RoundDone
<1>5. left = {}
  BY DEF IInv, RolesOK, Busy, Expire
<1>6. \A j \in S : /\ ask'[j].state = "expired" /\ event[j] \notin {"none", "stream"}
                   /\ native[j] # "none"
  BY <1>0, <1>1, ReducedAsk
<1>8. \A j \in S : \A n \in Replies :
         /\ command[j][n].decision = command[j][n].decision
         /\ command[j][n].state = "absent" <=> command[j][n].state = "absent"
  OBVIOUS
<1>9. \A j \in S : ask[j].state \in Closed \/ (S = S /\ ask[j].state = "pending")
  BY <1>0
<1>10. \A j \in Asks \ S : ask'[j] = ask[j] /\ command[j] = command[j]
  BY <1>1
<1>11. left \subseteq S /\ \A j \in S \ S : prompt[j] # "open" \/ crashes # 0
  BY <1>5
<1>12. phase # "down" /\ S \subseteq S
  BY <1>0 DEF Up
<1>13. RoundReady(S, command, S)
  BY <1>0, <1>6, <1>8, <1>9, <1>10, <1>11, <1>12 DEF RoundReady
<1> QED BY <1>0, <1>2, <1>4, <1>13, ExpireRestSafe

\* The loop's send has an outcome and the loop goes on.
LEMMA ExpiredSafe ==
    ASSUME IInv, NEW ok \in BOOLEAN, Expired(ok)
    PROVE  IInv'
<1>1. PICK i \in Asks : i = sender["expirer"].ask
  BY DEF Expired, Outcome, IInv, Busy, SenderOK, Senders
<1>2. /\ TypeOK /\ Busy("expirer") /\ sender["expirer"].reply = "expiry"
      /\ command[i]["expiry"].state # "absent" /\ "expiry" \in Replies
  BY <1>1, SaysTyped DEF Expired, Outcome, IInv, Busy, SenderOK, Senders, RolesOK
<1>3. ask[i].state = "expired" /\ \A j \in left : j \in Asks /\ ask[j].state = "expired"
  BY <1>2, Typed DEF IInv, AskOK
<1> DEFINE c == Marked(i, "expiry", ok)
           D == left \cup {i}
<1>4. /\ ExpireRest(left, c) /\ Ended("expirer")
      /\ UNCHANGED <<ask, event, over, told>> /\ UNCHANGED <<phase, crashes>>
  BY <1>1 DEF Expired, Live
<1>e. UNCHANGED <<native, heard, given>> /\ cut' \subseteq Asks
  BY <1>1, <1>2, <1>4, EndedTyped DEF Senders
<1>5. /\ c \in [Asks -> [Replies -> CommandRecords]]
      /\ c[i]["expiry"].state = IF ok THEN "sent" ELSE "failed"
      /\ c[i]["expiry"].decision = command[i]["expiry"].decision
      /\ \A n \in Replies \ {"expiry"} : c[i][n] = command[i][n]
      /\ \A j \in Asks \ {i} : c[j] = command[j]
  BY <1>2, MarkedTyped
<1> HIDE DEF c
<1>6. left \in SUBSET Asks /\ D \in SUBSET Asks
  BY <1>3
<1>7. RoundDone(left, c)
  BY <1>2, <1>4, <1>5, <1>6, ExpireRestStep
<1>8. TypeOK'
  <2>1. left' \subseteq Asks
    BY <1>6, <1>7 DEF RoundDone
  <2> QED BY <1>2, <1>4, <1>e, <1>7, <2>1, Typed, NextTyped DEF RoundDone
<1>9. \A j \in D : /\ ask'[j].state = "expired" /\ event[j] \notin {"none", "stream"}
                   /\ native[j] # "none"
  BY <1>3, <1>4, <1>6, ReducedAsk
<1>10. \A j \in Asks \ D : ask'[j] = ask[j] /\ c[j] = command[j]
  BY <1>4, <1>5
<1>11. \A j \in D : ask[j].state \in Closed
  BY <1>3 DEF Closed
<1>12. ASSUME NEW j \in D, NEW n \in Replies
       PROVE  /\ c[j][n].decision = command[j][n].decision
              /\ c[j][n].state = "absent" <=> command[j][n].state = "absent"
  <2>1. CASE j = i /\ n = "expiry"
    BY <1>2, <1>5, <2>1
  <2>2. CASE ~(j = i /\ n = "expiry")
    BY <1>5, <1>6, <1>12, <2>2
  <2> QED BY <2>1, <2>2
<1>13. \A j \in D \ left : prompt[j] # "open" \/ crashes # 0
  <2>1. ASSUME i \notin left, crashes = 0
        PROVE  prompt[i] # "open"
    BY <1>3, <2>1 DEF IInv, PromptsFit, NoStalePrompt, Closed
  <2> QED BY <2>1
<1>14. phase # "down" /\ left \subseteq D
  BY <1>2 DEF IInv, PhaseOK, Busy, Idle, Senders
<1>15. \A j \in D : ask[j].state \in Closed \/ (left = D /\ ask[j].state = "pending")
  BY <1>11
<1> HIDE DEF D
<1>16. RoundReady(left, c, D)
  BY <1>4, <1>e, <1>9, <1>10, <1>12, <1>13, <1>14, <1>15 DEF RoundReady
<1> QED BY <1>4, <1>5, <1>6, <1>8, <1>16, ExpireRestSafe

\* The process dies before the loop starts.
LEMMA ExpireCutSafe ==
    ASSUME IInv, NEW S \in SUBSET Permissions, ExpireCut(S)
    PROVE  IInv'
<1>0. /\ TypeOK /\ S \in SUBSET Asks /\ \A j \in S : ask[j].state = "pending"
      /\ Die /\ UNCHANGED <<event, command, prompt, over>>
  BY DEF IInv, ExpireCut, Due
<1>1. /\ ask' \in [Asks -> AskRecords]
      /\ \A j \in S : ask'[j].state = "expired" /\ ask'[j].decision = "deny"
      /\ \A j \in Asks \ S : ask'[j] = ask[j]
  BY <1>0, ExpiresStep DEF ExpireCut
<1>2. TypeOK'
  BY <1>0, <1>1, DieTyped, Typed, NextTyped
<1>3. ASSUME NEW j \in Asks, j \in S
      PROVE  AskOK(j)'
  <2>1. event'[j] \notin {"none", "stream"} /\ native'[j] # "none" /\ left' = {}
    BY <1>0, <1>3, ReducedAsk, DieTyped
  <2>2. \A n \in Replies : CommandOK(j, n) /\ ~Counts(j, n)
    BY <1>0, <1>3 DEF IInv, AskOK, CommandOK
  <2>3. \A n \in Replies : CommandOK(j, n)'
    BY <1>0, <2>2 DEF CommandOK, Counts
  <2> QED BY <1>1, <1>3, <2>1, <2>3 DEF AskOK
<1>4. ASSUME NEW j \in Asks, j \notin S
      PROVE  AskOK(j)'
  <2>1. native'[j] = "none" => event'[j] = "none"
    BY <1>0, <1>4, DieTyped DEF IInv, AskOK
  <2>2. native[j] \in {"settled", "gone"} => native'[j] \in {"settled", "gone"} /\ given'[j] = given[j]
    BY <1>0, <1>4, DieTyped
  <2> QED BY <1>0, <1>1, <1>4, <2>1, <2>2, DieTyped, SameAsk
<1> QED BY <1>0, <1>2, <1>3, <1>4, DieLeaves

-----------------------------------------------------------------------------
(* The end of the task, a crash, and what a restart makes of the ledger. *)

\* A crash that wrote nothing.
LEMMA CrashSafe ==
    ASSUME IInv, Die, UNCHANGED <<ask, event, command, prompt>>, over' \in BOOLEAN
    PROVE  IInv'
<1>0. TypeOK
  BY DEF IInv
<1>1. TypeOK'
  BY <1>0, DieTyped, Typed, NextTyped
<1>2. ASSUME NEW j \in Asks
      PROVE  AskOK(j)'
  <2>1. /\ native'[j] = "none" => event'[j] = "none"
        /\ native[j] \in {"settled", "gone"} => native'[j] \in {"settled", "gone"} /\ given'[j] = given[j]
        /\ j \notin left'
    BY <1>0, <1>2, DieTyped DEF IInv, AskOK
  <2> QED BY <1>2, <2>1, SameAsk
<1> QED BY <1>1, <1>2, DieLeaves

\* The task ends, in whole or cut by a crash.
LEMMA TaskEndsSafe ==
    ASSUME IInv, NEW k \in 1..2, TaskEnds(k)
    PROVE  IInv'
<1> DEFINE open == {i \in Asks : ask[i].state \in {"pending", "resolving"}}
<1>0. TypeOK /\ phase # "down" /\ over' = TRUE /\ event' = event
  BY DEF IInv, TaskEnds
<1>1. CASE k # 2
  BY <1>0, <1>1, CrashSafe DEF TaskEnds
<1>2. CASE k = 2
  <2>1. /\ ask' = [i \in Asks |-> IF i \in open THEN [ask[i] EXCEPT !.state = "cancelled"]
                                                ELSE ask[i]]
        /\ command' = Revoked(Asks) /\ prompt' = Withdrawn(open)
        /\ UNCHANGED <<sender, left, native, heard, given, cut, told, phase, crashes>>
    BY <1>2 DEF TaskEnds, worker, handed, Live
  <2>2. ASSUME NEW i \in Asks
        PROVE  /\ [ask[i] EXCEPT !.state = "cancelled"] \in AskRecords
               /\ [ask[i] EXCEPT !.state = "cancelled"].state = "cancelled"
    <3>1. ask[i] \in AskRecords
      BY <1>0, <2>2, Typed
    <3> QED BY <3>1 DEF AskRecords, AskStates, Closed
  <2>3. /\ ask' \in [Asks -> AskRecords]
        /\ \A j \in Asks : j \in open => ask'[j].state = "cancelled"
        /\ \A j \in Asks : j \notin open => ask'[j] = ask[j]
    BY <1>0, <2>1, <2>2, Typed
  <2>4. /\ command' \in [Asks -> [Replies -> CommandRecords]]
        /\ \A j \in Asks, n \in Replies :
             /\ command'[j][n].decision = command[j][n].decision
             /\ command'[j][n].state = IF Unsent(j, n) THEN "failed" ELSE command[j][n].state
    BY <1>0, <2>1, RevokedTyped
  <2>5. /\ prompt' \in [Asks -> {"none", "open", "withdrawn"}]
        /\ \A j \in Asks :
             prompt'[j] = IF j \in open /\ prompt[j] = "open" THEN "withdrawn" ELSE prompt[j]
    BY <1>0, <2>1, WithdrawnTyped
  <2>6. TypeOK'
    BY <1>0, <2>1, <2>3, <2>4, <2>5, Typed, NextTyped
  <2>7. \A j \in Asks : /\ j \in open <=> ask[j].state \in {"pending", "resolving"}
                        /\ ask'[j].state \in Closed \cup {"absent"}
                        /\ ask[j].state \in Closed => ask'[j] = ask[j]
                        /\ ask[j].state # "absent" => ask'[j].state \in Closed
    <3>1. \A j \in Asks : ask[j].state \in AskStates
      BY <1>0, Typed DEF AskRecords
    <3> QED BY <2>3, <3>1 DEF AskStates, Closed
  <2> HIDE DEF open
  <2>8. ASSUME NEW j \in Asks
        PROVE  AskOK(j)'
    <3>1. AskOK(j)
      BY DEF IInv
    <3>2. ASSUME NEW n \in Replies
          PROVE  CommandOK(j, n)'
      <4>1. CommandOK(j, n) /\ ask'[j].state # "resolving" /\ ask'[j].state # "pending"
        BY <2>7, <3>1, <3>2 DEF AskOK, Closed
      <4>2. ask'[j].state = "absent" => ask[j].state = "absent"
        BY <2>7 DEF Closed
      <4>3. /\ command'[j][n].decision = command[j][n].decision
            /\ command'[j][n].state = IF Unsent(j, n) THEN "failed" ELSE command[j][n].state
        BY <2>4, <3>2
      <4> QED BY <2>1, <4>1, <4>2, <4>3 DEF CommandOK, Counts, Unsent, Handed
    <3>3. command'[j]["expiry"].state # "absent" => ask'[j].state = "expired"
      BY <2>4, <2>7, <3>1, SaysTyped DEF AskOK, Unsent, Closed
    <3>4. ask'[j].state = "resolved" => Handed(j, ask[j].decision)'
      BY <2>1, <2>3, <3>1 DEF AskOK, Handed
    <3>5. /\ event'[j] \in {"none", "stream"} => ask'[j].state = "absent" /\ prompt'[j] = "none"
          /\ native'[j] = "none" => event'[j] = "none"
          /\ j \in left' => ask'[j].state = "expired"
      BY <1>0, <2>1, <2>3, <2>5, <2>7, <3>1 DEF AskOK, Closed
    <3> QED BY <3>2, <3>3, <3>4, <3>5 DEF AskOK
  <2>9. ASSUME NEW t \in Senders
        PROVE  SenderOK(t)'
    <3>1. SUFFICES ASSUME Busy(t)
                   PROVE  SenderOK(t)'
      BY <2>1 DEF SenderOK, Busy
    <3>2. PICK i \in Asks, m \in Replies : i = sender[t].ask /\ m = sender[t].reply
      BY <2>9, <3>1 DEF IInv, SenderOK
    <3>3. /\ sender[t].at = "taken" => native[i] \in {"settled", "gone"}
          /\ ask[i].state \in {"resolving"} \cup Closed
          /\ command[i][m].state # "absent"
      BY <2>9, <3>1, <3>2 DEF IInv, SenderOK
    <3>4. ask'[i].state \in Closed /\ command'[i][m].state # "absent"
      BY <2>4, <2>7, <3>2, <3>3, ZenonT(60) DEF Closed
    <3> QED BY <2>1, <3>2, <3>3, <3>4 DEF SenderOK, Handed, Closed
  <2>10. RolesOK' /\ PhaseOK'
    BY <2>1 DEF IInv, RolesOK, PhaseOK, Busy
  <2>11. SoloOK'
    BY <2>1, <2>7 DEF IInv, SoloOK, SenderOK, Busy
  <2>12. PlanningOK'
    BY <1>0, <2>1, PlanningStep
  <2>13. PromptOK'
    <3>1. ASSUME crashes = 0, NEW j \in Asks, prompt'[j] = "withdrawn"
          PROVE  ask'[j].state \in Closed
      BY <2>3, <2>5, <2>7, <3>1 DEF IInv, PromptOK, Closed
    <3> QED BY <2>1, <3>1 DEF PromptOK
  <2>14. NoStalePrompt'
    <3>1. ASSUME NEW j \in Asks, j \notin left', ask'[j].state \in Closed, crashes = 0
          PROVE  prompt'[j] # "open"
      BY <2>1, <2>3, <2>5, <3>1 DEF IInv, PromptsFit, NoStalePrompt
    <3> QED BY <2>1, <3>1 DEF NoStalePrompt
  <2>15. PendingIsAsked'
    BY <2>7 DEF PendingIsAsked, Closed
  <2> QED BY <2>6, <2>8, <2>9, <2>10, <2>11, <2>12, <2>13, <2>14, <2>15 DEF IInv, PromptsFit
<1> QED BY <1>1, <1>2

\* The gateway moves on, and nothing else changes.
LEMMA PhaseSafe ==
    ASSUME IInv, crashes # 0 \/ phase = "serving", phase # "down",
           UNCHANGED <<ledger, sender, left, worker, told, crashes>>,
           phase' \in {"opening", "replaying", "serving"},
           crashes = 0 => phase' = "serving"
    PROVE  IInv'
<1>0. TypeOK /\ UNCHANGED <<ask, event, command, prompt, over, sender, left, native, heard, given, cut,
                            told, crashes>>
  BY DEF IInv, ledger, worker, handed
<1>1. TypeOK'
  BY <1>0, Typed, NextTyped
<1>2. \A j \in Asks : AskOK(j)'
  BY <1>0, SameAsk DEF IInv, AskOK
<1>3. \A t \in Senders : SenderOK(t)'
  BY <1>0 DEF IInv, SenderOK, Busy, Handed
<1>4. RolesOK' /\ SoloOK'
  BY <1>0 DEF IInv, RolesOK, SoloOK, Busy
<1>5. PlanningOK' /\ PhaseOK' /\ PromptOK'
  BY <1>0 DEF IInv, PlanningOK, PhaseOK, PromptOK
<1>6. PromptsFit'
  BY <1>0 DEF IInv, PromptsFit, NoStalePrompt, PendingIsAsked
<1> QED BY <1>1, <1>2, <1>3, <1>4, <1>5, <1>6 DEF IInv

\* What the ledger says after a restart: no ask is expired twice, no reply that
\* was sent is forgotten, and none counts for an ask that is pending again.
LEMMA RecoverSafe ==
    ASSUME IInv, Recover
    PROVE  IInv'
<1> DEFINE sent(i) == \E m \in Replies : command[i][m].state = "sent"
           waits(i) == \E m \in Replies : Unsent(i, m)
           gone == {i \in Asks : Invalid(i) \/ (ask[i].state = "resolving" /\ sent(i))}
<1>0. /\ TypeOK /\ phase = "down" /\ phase' = "starting" /\ crashes # 0
      /\ UNCHANGED <<event, over, sender, left, native, heard, given, cut, told, crashes>>
      /\ \A s \in Senders : sender[s] = Idle
  BY DEF IInv, Recover, PhaseOK, worker, handed
<1>1. ASSUME NEW j \in Asks
      PROVE  /\ ask[j] \in AskRecords
             /\ \A m \in Replies : command[j][m] \in CommandRecords
             /\ AskOK(j)
  BY <1>0, <1>1, Typed DEF IInv
<1>2. ASSUME NEW j \in Asks, NEW m \in Replies
      PROVE  /\ [command[j][m] EXCEPT !.state = "pending"] \in CommandRecords
             /\ [command[j][m] EXCEPT !.state = "failed"] \in CommandRecords
             /\ [command[j][m] EXCEPT !.state = "pending"].state = "pending"
             /\ [command[j][m] EXCEPT !.state = "failed"].state = "failed"
             /\ [command[j][m] EXCEPT !.state = "pending"].decision = command[j][m].decision
             /\ [command[j][m] EXCEPT !.state = "failed"].decision = command[j][m].decision
  <2>1. command[j][m] \in CommandRecords
    BY <1>1, <1>2
  <2> QED BY <2>1 DEF CommandRecords
<1>3. ASSUME NEW j \in Asks, NEW m \in Replies
      PROVE  command'[j][m] =
               IF ~Invalid(j)
               THEN IF command[j][m].state = "sending"
                    THEN [command[j][m] EXCEPT !.state = "pending"] ELSE command[j][m]
               ELSE IF m = "expiry" THEN [state |-> "pending", decision |-> "deny"]
               ELSE IF Unsent(j, m) THEN [command[j][m] EXCEPT !.state = "failed"]
               ELSE command[j][m]
  BY <1>3 DEF Recover
<1>4. /\ ask' = [i \in Asks |->
            IF Invalid(i) THEN [state |-> "expired", decision |-> "deny"]
            ELSE IF ask[i].state # "resolving" THEN ask[i]
            ELSE IF sent(i) THEN [ask[i] EXCEPT !.state = "resolved"]
            ELSE IF waits(i) THEN ask[i]
            ELSE [state |-> "pending", decision |-> "none"]]
      /\ prompt' = Withdrawn(gone)
  BY DEF Recover
<1>5. [state |-> "pending", decision |-> "deny"] \in CommandRecords
  BY SaysTyped DEF CommandRecords
<1>6. command' \in [Asks -> [Replies -> CommandRecords]]
  <2>1. ASSUME NEW j \in Asks, NEW m \in Replies
        PROVE  command'[j][m] \in CommandRecords
    <3>1. /\ command[j][m] \in CommandRecords
          /\ [command[j][m] EXCEPT !.state = "pending"] \in CommandRecords
          /\ [command[j][m] EXCEPT !.state = "failed"] \in CommandRecords
      BY <1>1, <1>2, <2>1
    <3> QED BY <1>3, <1>5, <2>1, <3>1
  <2> QED BY <2>1 DEF Recover
<1>7. ASSUME NEW j \in Asks
      PROVE  /\ [ask[j] EXCEPT !.state = "resolved"] \in AskRecords
             /\ [ask[j] EXCEPT !.state = "resolved"].state = "resolved"
             /\ [ask[j] EXCEPT !.state = "resolved"].decision = ask[j].decision
  <2>1. ask[j] \in AskRecords
    BY <1>1, <1>7
  <2> QED BY <2>1 DEF AskRecords, AskStates, Closed
<1>8. ASSUME NEW j \in Asks
      PROVE  /\ Invalid(j) => ask'[j] = [state |-> "expired", decision |-> "deny"]
             /\ ~Invalid(j) /\ ask[j].state = "resolving" /\ sent(j)
                  => ask'[j] = [ask[j] EXCEPT !.state = "resolved"]
             /\ ~Invalid(j) /\ ask[j].state = "resolving" /\ ~sent(j) /\ ~waits(j)
                  => ask'[j] = [state |-> "pending", decision |-> "none"]
             /\ ~Invalid(j) /\ ~(ask[j].state = "resolving" /\ (sent(j) \/ ~waits(j)))
                  => ask'[j] = ask[j]
  BY <1>4, <1>8
<1>9. ask' \in [Asks -> AskRecords]
  <2>1. /\ [state |-> "expired", decision |-> "deny"] \in AskRecords
        /\ [state |-> "pending", decision |-> "none"] \in AskRecords
    BY SaysTyped DEF AskRecords, AskStates, Closed
  <2>2. \A j \in Asks : ask'[j] \in AskRecords
    BY <1>1, <1>7, <1>8, <2>1
  <2> QED BY <1>4, <2>2
<1>10. /\ prompt' \in [Asks -> {"none", "open", "withdrawn"}]
       /\ \A j \in Asks :
            prompt'[j] = IF j \in gone /\ prompt[j] = "open" THEN "withdrawn" ELSE prompt[j]
  BY <1>0, <1>4, WithdrawnTyped
<1>11. TypeOK'
  BY <1>0, <1>6, <1>9, <1>10, Typed, NextTyped
<1>12. ASSUME NEW j \in Asks
       PROVE  AskOK(j)'
  <2>1. CASE Invalid(j)
    <3>a. ask[j].state \in {"pending", "resolving"}
      BY <2>1 DEF Invalid
    <3>b. ask'[j] = [state |-> "expired", decision |-> "deny"]
      BY <1>8, <1>12, <2>1
    <3>1. ask[j].state \in {"pending", "resolving"} /\ ask'[j].state = "expired"
      BY <3>a, <3>b
    <3>2. event'[j] \notin {"none", "stream"} /\ native'[j] # "none"
      BY <1>0, <1>12, <3>1, ReducedAsk
    <3>3. ASSUME NEW n \in Replies
          PROVE  CommandOK(j, n)'
      <4>1. CommandOK(j, n)
        BY <1>1, <1>12, <3>3 DEF AskOK
      <4>2. CASE n = "expiry"
        <5>1. command'[j][n] = [state |-> "pending", decision |-> "deny"]
          BY <1>3, <1>12, <2>1, <3>3, <4>2
        <5> QED BY <3>1, <4>2, <5>1, SaysTyped DEF CommandOK
      <4>3. CASE n # "expiry" /\ Unsent(j, n)
        <5>1. command'[j][n] = [command[j][n] EXCEPT !.state = "failed"]
          BY <1>3, <1>12, <2>1, <3>3, <4>3
        <5> QED BY <1>2, <1>12, <3>1, <3>3, <4>1, <4>3, <5>1 DEF CommandOK, Unsent
      <4>4. CASE n # "expiry" /\ ~Unsent(j, n)
        <5>1. command'[j][n] = command[j][n]
          BY <1>3, <1>12, <2>1, <3>3, <4>4 DEF Unsent
        <5> QED BY <1>0, <3>1, <4>1, <5>1 DEF CommandOK, Handed
      <4> QED BY <4>2, <4>3, <4>4
    <3>4. j \notin left'
      BY <1>0, <1>1, <1>12, <3>1 DEF AskOK
    <3> QED BY <3>1, <3>2, <3>3, <3>4 DEF AskOK
  <2>2. CASE ~Invalid(j)
    <3>1. ASSUME NEW n \in Replies
          PROVE  /\ command'[j][n].decision = command[j][n].decision
                 /\ command'[j][n].state = IF command[j][n].state = "sending" THEN "pending"
                                           ELSE command[j][n].state
                 /\ Counts(j, n)' = Counts(j, n)
      <4>1. command'[j][n] = IF command[j][n].state = "sending"
                             THEN [command[j][n] EXCEPT !.state = "pending"]
                             ELSE command[j][n]
        BY <1>3, <1>12, <2>2, <3>1
      <4>2. /\ command'[j][n].decision = command[j][n].decision
            /\ command'[j][n].state = IF command[j][n].state = "sending" THEN "pending"
                                      ELSE command[j][n].state
        BY <1>2, <1>12, <3>1, <4>1
      <4> QED BY <4>2 DEF Counts
    <3>2. \A n \in Replies : CommandOK(j, n)
      BY <1>1, <1>12 DEF AskOK
    <3>3. CASE ask[j].state = "resolving" /\ sent(j)
      <4>1. PICK m \in Replies : command[j][m].state = "sent"
        BY <3>3
      <4>2. Handed(j, ask[j].decision)
        BY <3>2, <3>3, <4>1 DEF CommandOK, Counts
      <4>3. ask'[j].state = "resolved" /\ ask'[j].decision = ask[j].decision
        BY <1>7, <1>8, <1>12, <2>2, <3>3
      <4>4. \A n \in Replies : CommandOK(j, n)'
        BY <1>0, <3>1, <3>2, <4>3 DEF CommandOK, Handed
      <4>5. /\ event'[j] \notin {"none", "stream"} /\ native'[j] # "none" /\ j \notin left'
            /\ command[j]["expiry"].state = "absent"
        BY <1>0, <1>1, <1>12, <3>3, ReducedAsk DEF AskOK
      <4>6. command'[j]["expiry"].state = "absent"
        BY <3>1, <4>5, SaysTyped
      <4> QED BY <1>0, <4>2, <4>3, <4>4, <4>5, <4>6 DEF AskOK, Handed
    <3>4. CASE ask[j].state = "resolving" /\ ~sent(j) /\ ~waits(j)
      <4>1. \A n \in Replies : ~Counts(j, n)
        BY <3>4 DEF Counts, Unsent
      <4>a. ask'[j] = [state |-> "pending", decision |-> "none"]
        BY <1>8, <1>12, <2>2, <3>4
      <4>2. ask'[j].state = "pending"
        BY <4>a
      <4>3. \A n \in Replies : CommandOK(j, n)'
        BY <1>0, <3>1, <3>2, <4>1 DEF CommandOK, Counts, Handed
      <4>5. /\ event'[j] \notin {"none", "stream"} /\ native'[j] # "none" /\ j \notin left'
            /\ command[j]["expiry"].state = "absent"
        BY <1>0, <1>1, <1>12, <3>4, ReducedAsk DEF AskOK
      <4>6. command'[j]["expiry"].state = "absent"
        BY <3>1, <4>5, SaysTyped
      <4> QED BY <4>2, <4>3, <4>5, <4>6 DEF AskOK
    <3>5. CASE ~(ask[j].state = "resolving" /\ (sent(j) \/ ~waits(j)))
      <4>1. ask'[j] = ask[j]
        BY <1>8, <1>12, <2>2, <3>5
      <4>2. \A n \in Replies : CommandOK(j, n)'
        BY <1>0, <3>1, <3>2, <4>1 DEF CommandOK, Handed
      <4>3. command'[j]["expiry"].state # "absent" => command[j]["expiry"].state # "absent"
        BY <3>1, SaysTyped
      <4>4. ask[j].state = "absent" => prompt'[j] = prompt[j]
        BY <1>10, <1>12 DEF Invalid
      <4> QED BY <1>0, <1>1, <1>12, <4>1, <4>2, <4>3, <4>4 DEF AskOK, Handed
    <3> QED BY <3>3, <3>4, <3>5
  <2> QED BY <2>1, <2>2
<1>13. /\ \A t \in Senders : ~Busy(t)' /\ sender'[t].at # "planning"
       /\ RolesOK' /\ SoloOK' /\ PlanningOK'
  BY <1>0 DEF IInv, RolesOK, SoloOK, PlanningOK, Busy, Idle, Senders
<1>14. \A t \in Senders : SenderOK(t)'
  BY <1>13 DEF SenderOK
<1>15. PhaseOK' /\ PromptOK' /\ PromptsFit'
  BY <1>0 DEF PhaseOK, PromptOK, PromptsFit, NoStalePrompt, PendingIsAsked
<1> QED BY <1>11, <1>12, <1>13, <1>14, <1>15 DEF IInv

\* The process dies again in the middle of a restart.
LEMMA RecoverCutSafe ==
    ASSUME IInv, RecoverCut
    PROVE  IInv'
<1> DEFINE S == {i \in Asks : Invalid(i)}
<1>0. /\ TypeOK /\ Die /\ UNCHANGED <<event, command, prompt, over>>
      /\ \A j \in S : ask[j].state \in {"pending", "resolving"}
      /\ S \in SUBSET Asks
  BY DEF IInv, RecoverCut, Invalid
<1>1. /\ ask' \in [Asks -> AskRecords]
      /\ \A j \in S : ask'[j].state = "expired" /\ ask'[j].decision = "deny"
      /\ \A j \in Asks \ S : ask'[j] = ask[j]
  <2>1. ask' = [i \in Asks |-> IF i \in S THEN [state |-> "expired", decision |-> "deny"]
                                          ELSE ask[i]]
    BY DEF RecoverCut
  <2> HIDE DEF S
  <2> QED BY <1>0, <2>1, ExpiresStep
<1> HIDE DEF S
<1>2. TypeOK'
  BY <1>0, <1>1, DieTyped, Typed, NextTyped
<1>3. ASSUME NEW j \in Asks, j \in S
      PROVE  AskOK(j)'
  <2>1. event'[j] \notin {"none", "stream"} /\ native'[j] # "none" /\ left' = {}
    BY <1>0, <1>3, ReducedAsk, DieTyped
  <2>2. \A n \in Replies : CommandOK(j, n)
    BY <1>3 DEF IInv, AskOK
  <2>3. /\ native[j] \in {"settled", "gone"} => native'[j] \in {"settled", "gone"}
        /\ given' = given
    BY <1>0, <1>3, DieTyped
  <2>4. \A n \in Replies : CommandOK(j, n)'
    BY <1>0, <1>1, <1>3, <2>2, <2>3 DEF CommandOK, Counts, Handed
  <2> QED BY <1>1, <1>3, <2>1, <2>4 DEF AskOK
<1>4. ASSUME NEW j \in Asks, j \notin S
      PROVE  AskOK(j)'
  <2>1. native'[j] = "none" => event'[j] = "none"
    BY <1>0, <1>4, DieTyped DEF IInv, AskOK
  <2>2. native[j] \in {"settled", "gone"} => native'[j] \in {"settled", "gone"} /\ given'[j] = given[j]
    BY <1>0, <1>4, DieTyped
  <2> QED BY <1>0, <1>1, <1>4, <2>1, <2>2, DieTyped, SameAsk
<1> QED BY <1>0, <1>2, <1>3, <1>4, DieLeaves

\* An ask that was logged is reduced again.
LEMMA RecoverEventSafe ==
    ASSUME IInv, NEW i \in Asks, RecoverEvent(i)
    PROVE  IInv'
<1>0. /\ TypeOK /\ event[i] = "logged" /\ crashes # 0 /\ phase # "down"
      /\ ask' = (IF ask[i].state = "absent"
                 THEN [ask EXCEPT ![i] = [state |-> "pending", decision |-> "none"]] ELSE ask)
      /\ prompt' = Prompted(i) /\ event' = [event EXCEPT ![i] = "processed"]
      /\ UNCHANGED <<command, over, sender, left, native, heard, given, cut, told, phase, crashes>>
  BY DEF IInv, RecoverEvent, PhaseOK, worker, handed, Live
<1>1. /\ ask' \in [Asks -> AskRecords]
      /\ \A j \in Asks \ {i} : ask'[j] = ask[j]
      /\ ask[i].state # "absent" => ask' = ask
      /\ ask[i].state = "absent" => ask'[i].state = "pending"
  <2>1. [state |-> "pending", decision |-> "none"] \in AskRecords
    BY SaysTyped DEF AskRecords, AskStates
  <2>2. ask \in [Asks -> AskRecords]
    BY <1>0, Typed
  <2> QED BY <1>0, <2>1, <2>2
<1>2. /\ event' \in [Asks -> {"none", "stream", "logged", "processed"}]
      /\ event'[i] = "processed" /\ \A j \in Asks \ {i} : event'[j] = event[j]
  BY <1>0, Typed
<1>3. /\ prompt' \in [Asks -> {"none", "open", "withdrawn"}]
      /\ \A j \in Asks \ {i} : prompt'[j] = prompt[j]
  BY <1>0, PromptedTyped
<1>4. TypeOK'
  BY <1>0, <1>1, <1>2, <1>3, Typed, NextTyped
<1>5. native[i] # "none"
  BY <1>0 DEF IInv, AskOK
<1>6. AskOK(i)'
  <2>1. CASE ask[i].state = "absent"
    BY <1>0, <1>1, <1>2, <1>5, <2>1, PendingAskOK
  <2>2. CASE ask[i].state # "absent"
    BY <1>0, <1>1, <1>2, <1>5, <2>2, SameAsk
  <2> QED BY <2>1, <2>2
<1>7. ASSUME NEW j \in Asks, j # i
      PROVE  AskOK(j)'
  <2>1. native'[j] = "none" => event'[j] = "none"
    BY <1>0, <1>2, <1>7 DEF IInv, AskOK
  <2> QED BY <1>0, <1>1, <1>2, <1>3, <1>7, <2>1, SameAsk
<1>8. ASSUME NEW t \in Senders, Busy(t)
      PROVE  ask'[sender[t].ask] = ask[sender[t].ask]
  <2>1. sender[t].ask \in Asks /\ ask[sender[t].ask].state # "absent"
    BY <1>8 DEF IInv, SenderOK, Closed
  <2> QED BY <1>1, <2>1
<1>9. \A t \in Senders : SenderOK(t)'
  BY <1>0, <1>8 DEF IInv, SenderOK, Busy, Handed
<1>10. SoloOK'
  BY <1>0, <1>8 DEF IInv, SoloOK, Busy
<1>11. RolesOK' /\ PhaseOK'
  BY <1>0 DEF IInv, RolesOK, PhaseOK, Busy
<1>12. PlanningOK'
  <2>1. \A j \in Asks : event[j] \notin {"none", "stream"} => event'[j] \notin {"none", "stream"}
    BY <1>2
  <2> QED BY <1>0, <2>1, PlanningStep
<1>13. PromptOK' /\ PromptsFit'
  BY <1>0 DEF PromptOK, PromptsFit, NoStalePrompt, PendingIsAsked
<1> QED BY <1>4, <1>6, <1>7, <1>9, <1>10, <1>11, <1>12, <1>13 DEF IInv

-----------------------------------------------------------------------------
(* The inductive invariant. *)

\* No interaction was raised yet.
LEMMA InitSafe ==
    ASSUME Init
    PROVE  IInv
<1>1. TypeOK
  <2>1. /\ [state |-> "absent", decision |-> "none"] \in AskRecords
        /\ [state |-> "absent", decision |-> "none"] \in CommandRecords
        /\ Idle \in SenderRecords
    BY SaysTyped DEF AskRecords, AskStates, CommandRecords, SenderRecords, Idle
  <2>2. /\ ask \in [Asks -> AskRecords] /\ command \in [Asks -> [Replies -> CommandRecords]]
        /\ sender \in [Senders -> SenderRecords]
    BY <2>1 DEF Init
  <2>3. /\ event \in [Asks -> {"none", "stream", "logged", "processed"}]
        /\ prompt \in [Asks -> {"none", "open", "withdrawn"}]
        /\ over \in BOOLEAN
        /\ phase \in {"down", "starting", "opening", "replaying", "serving"}
        /\ left \subseteq Asks
        /\ native \in [Asks -> {"none", "waiting", "settled", "gone"}]
        /\ heard \in [Asks -> Decided] /\ given \in [Asks -> Decided]
        /\ cut \subseteq Asks
    BY SaysTyped DEF Init
  <2>4. /\ told \in [Turns -> {"nothing", "accepted", "refused"}]
        /\ crashes \in 0..MaxCrashes
    BY DEF Init
  <2> QED BY <2>2, <2>3, <2>4 DEF TypeOK, AskRecords, AskStates, CommandRecords, SenderRecords
<1>2. /\ \A j \in Asks : /\ ask[j].state = "absent" /\ event[j] = "none"
                         /\ prompt[j] = "none" /\ \A n \in Replies : command[j][n].state = "absent"
      /\ \A s \in Senders : sender[s].at = "idle"
      /\ left = {} /\ phase = "serving"
  BY DEF Init, Idle
<1>3. \A s \in Senders : ~Busy(s)
  BY <1>2 DEF Busy
<1>4. \A j \in Asks : AskOK(j)
  BY <1>2, SaysTyped DEF AskOK, CommandOK, Counts
<1>5. /\ \A s \in Senders : SenderOK(s)
      /\ RolesOK /\ SoloOK /\ PlanningOK /\ PhaseOK
  BY <1>2, <1>3 DEF SenderOK, RolesOK, SoloOK, PlanningOK, PhaseOK, Senders
<1>6. PromptOK /\ PromptsFit
  BY <1>2 DEF PromptOK, PromptsFit, NoStalePrompt, PendingIsAsked, Closed
<1> QED BY <1>1, <1>4, <1>5, <1>6 DEF IInv

\* Every step keeps the invariant.
LEMMA NextSafe ==
    ASSUME IInv, [Next]_vars
    PROVE  IInv'
<1>1. ASSUME NEW i \in Asks, Raise(i) \/ Dropped(i)
      PROVE  IInv'
  BY <1>1, RaiseSafe, DroppedSafe
<1>2. ASSUME NEW i \in Asks, NEW k \in 1..4, NEW route \in Routes[i], Ingest(i, route, k)
      PROVE  IInv'
  BY <1>2, IngestSafe
<1>3. ASSUME NEW i \in Asks, Plan(i) \/ PlanFails(i)
      PROVE  IInv'
  BY <1>3, PlanSafe
<1>4. ASSUME NEW i \in Asks, NEW m \in Turns, NEW k \in 1..3, Reply(i, m, k)
      PROVE  IInv'
  BY <1>4, ReplySafe
<1>5. ASSUME NEW s \in Senders, Write(s) \/ Take(s)
      PROVE  IInv'
  BY <1>5, WriteSafe, TakeSafe
<1>6. ASSUME NEW ok \in BOOLEAN, NEW k \in 1..3, Answered(ok, k)
      PROVE  IInv'
  BY <1>6, AnsweredSafe
<1>7. ASSUME NEW ok \in BOOLEAN, NEW k \in 1..4, Reduced(ok, k)
      PROVE  IInv'
  BY <1>7, ReducedSafe
<1>8. ASSUME NEW ok \in BOOLEAN, Expired(ok) \/ Replayed(ok)
      PROVE  IInv'
  BY <1>8, ExpiredSafe, ReplayedSafe
<1>9. ASSUME NEW S \in SUBSET Permissions, Expire(S) \/ ExpireCut(S)
      PROVE  IInv'
  BY <1>9, ExpireSafe, ExpireCutSafe
<1>10. ASSUME NEW k \in 1..2, TaskEnds(k)
       PROVE  IInv'
  BY <1>10, TaskEndsSafe
<1>11. CASE Crash
  <2>1. Die /\ UNCHANGED <<ask, event, command, prompt>> /\ over' \in BOOLEAN
    BY <1>11, Typed DEF Crash, ledger, IInv
  <2> QED BY <2>1, CrashSafe
<1>12. CASE Recover \/ RecoverCut
  BY <1>12, RecoverSafe, RecoverCutSafe
<1>13. ASSUME NEW i \in Asks, RecoverEvent(i)
       PROVE  IInv'
  BY <1>13, RecoverEventSafe
<1>14. CASE Started \/ Open \/ Serve
  <2>1. /\ crashes # 0 /\ phase # "down" /\ phase' \in {"opening", "replaying", "serving"}
        /\ UNCHANGED <<ledger, sender, left, worker, told, crashes>>
    BY <1>14 DEF Started, Open, Serve, IInv, PhaseOK
  <2> QED BY <2>1, PhaseSafe
<1>15. ASSUME NEW i \in Asks, NEW m \in Replies, Replay(i, m)
       PROVE  IInv'
  BY <1>15, ReplaySafe
<1>16. CASE UNCHANGED vars
  <2>1. /\ UNCHANGED <<ledger, sender, left, worker, told, crashes>> /\ phase' = phase
    BY <1>16 DEF vars
  <2>2. CASE phase \in {"opening", "replaying", "serving"}
    <3>1. crashes = 0 => phase = "serving"
      BY DEF IInv, PhaseOK
    <3> QED BY <2>1, <2>2, <3>1, PhaseSafe
  <2>3. CASE phase \notin {"opening", "replaying", "serving"}
    BY <1>16, SMTT(30) DEF vars, ledger, worker, handed, IInv, TypeOK, SenderOK, RolesOK, SoloOK, PlanningOK,
                 AskOK, CommandOK, Counts, Handed, Busy, PhaseOK, PromptOK, PromptsFit,
                 NoStalePrompt, PendingIsAsked
  <2> QED BY <2>2, <2>3
<1> QED BY <1>1, <1>2, <1>3, <1>4, <1>5, <1>6, <1>7, <1>8, <1>9, <1>10, <1>11, <1>12, <1>13,
           <1>14, <1>15, <1>16 DEF Next, Resolve

\* A step that leaves every closed interaction as it is.
Settled == \A i \in Asks : ask[i].state \in Closed => ask'[i] = ask[i]

\* No step of the system touches a closed interaction.
LEMMA SettledStep ==
    ASSUME IInv, Next
    PROVE  Settled
<1>0. TypeOK /\ ask \in [Asks -> AskRecords]
  BY Typed DEF IInv
<1>1. ASSUME NEW i \in Asks, NEW k \in 1..4, NEW route \in Routes[i], Ingest(i, route, k)
      PROVE  Settled
  <2>1. ask[i].state = "absent"
    BY <1>1 DEF Ingest, IInv, AskOK
  <2>2. ask' = ask \/ \E r : ask' = [ask EXCEPT ![i] = r]
    BY <1>1 DEF Ingest
  <2>3. \A j \in Asks \ {i} : ask'[j] = ask[j]
    BY <1>0, <2>2
  <2> QED BY <2>1, <2>3 DEF Settled, Closed
<1>2. ASSUME NEW i \in Asks, NEW m \in Replies, ask' = Begun(i, m), ask[i].state = "pending"
      PROVE  Settled
  BY <1>0, <1>2, BegunStep DEF Settled, Closed
<1>3. ASSUME NEW i \in Asks, Plan(i)
      PROVE  Settled
  BY <1>2, <1>3, SaysTyped DEF Plan, Settled
<1>4. ASSUME NEW i \in Asks, NEW m \in Turns, NEW k \in 1..3, Reply(i, m, k)
      PROVE  Settled
  BY <1>2, <1>4, SaysTyped DEF Reply
<1>5. ASSUME NEW s \in Senders, NEW ok \in BOOLEAN, Outcome(s, ok),
             ask' = Finished(sender[s].ask, ok)
      PROVE  Settled
  <2>1. sender[s].ask \in Asks
    BY <1>5 DEF IInv, SenderOK, Outcome, Busy
  <2> QED BY <1>0, <1>5, <2>1, FinishedStep DEF Settled, Closed
<1>6. ASSUME NEW ok \in BOOLEAN,
             \/ \E k \in 1..3 : Answered(ok, k)
             \/ \E k \in 1..4 : Reduced(ok, k)
             \/ Replayed(ok)
      PROVE  Settled
  <2>1. CASE ask' = ask
    BY <2>1 DEF Settled
  <2>2. CASE ask' # ask
    <3>1. \E s \in Senders : Outcome(s, ok) /\ ask' = Finished(sender[s].ask, ok)
      <4>1. CASE ok
        <5>1. ok = TRUE
          BY <4>1
        <5> QED BY <1>6, <2>2, <5>1 DEF Answered, Reduced, Replayed, Senders
      <4>2. CASE ~ok
        BY <1>6, <2>2, <4>2 DEF Answered, Reduced, Replayed, Senders
      <4> QED BY <4>1, <4>2
    <3> QED BY <1>5, <3>1
  <2> QED BY <2>1, <2>2
<1>7. ASSUME NEW S \in SUBSET Permissions, Expire(S) \/ ExpireCut(S)
      PROVE  Settled
  <2>1. \A j \in S : ask[j].state = "pending"
    BY <1>7 DEF Expire, ExpireCut, Due
  <2>2. \A j \in Asks \ S : ask'[j] = ask[j]
    BY <1>7 DEF Expire, ExpireCut
  <2> QED BY <2>1, <2>2 DEF Settled, Closed
<1>8. ASSUME NEW k \in 1..2, TaskEnds(k)
      PROVE  Settled
  <2>1. CASE k = 2
    <3>1. \A j \in Asks : ask[j].state \notin {"pending", "resolving"} => ask'[j] = ask[j]
      BY <1>8, <2>1 DEF TaskEnds
    <3> QED BY <3>1 DEF Settled, Closed
  <2>2. CASE k # 2
    BY <1>8, <2>2 DEF TaskEnds, Settled
  <2> QED BY <2>1, <2>2
<1>9. CASE Recover \/ RecoverCut
  <2>1. ASSUME NEW j \in Asks, ask[j].state \in Closed
        PROVE  ~Invalid(j) /\ ask[j].state # "resolving"
    BY <2>1 DEF Invalid, Closed
  <2>2. CASE RecoverCut
    BY <2>1, <2>2 DEF RecoverCut, Settled
  <2>3. CASE Recover
    BY <2>1, <2>3 DEF Recover, Settled
  <2> QED BY <1>9, <2>2, <2>3
<1>10. ASSUME NEW i \in Asks, RecoverEvent(i)
       PROVE  Settled
  <2>1. CASE ask[i].state = "absent"
    <3>1. \A j \in Asks \ {i} : ask'[j] = ask[j]
      BY <1>0, <1>10, <2>1 DEF RecoverEvent
    <3> QED BY <2>1, <3>1 DEF Settled, Closed
  <2>2. CASE ask[i].state # "absent"
    BY <1>10, <2>2 DEF RecoverEvent, Settled
  <2> QED BY <2>1, <2>2
<1>11. ASSUME ask' = ask
       PROVE  Settled
  BY <1>11 DEF Settled
<1>12. ASSUME \/ \E i \in Asks : Raise(i) \/ Dropped(i) \/ PlanFails(i)
              \/ \E s \in Senders : Write(s) \/ Take(s)
              \/ \E ok \in BOOLEAN : Expired(ok)
              \/ \E i \in Asks, m \in Replies : Replay(i, m)
              \/ Crash \/ Started \/ Open \/ Serve
       PROVE  ask' = ask
  BY <1>12 DEF Raise, Dropped, PlanFails, Write, Take, Expired, Replay, Crash, Started, Open, Serve, ledger
<1> QED BY <1>1, <1>3, <1>4, <1>6, <1>7, <1>8, <1>9, <1>10, <1>11, <1>12 DEF Next, Resolve

-----------------------------------------------------------------------------
(* What the worker heard first. *)

\* The reply to i is written, and the request not yet removed.
Writing(i) == \E s \in Senders : sender[s].at = "written" /\ sender[s].ask = i

Dead == {"expired", "cancelled"}

HeardOK(i) ==
    i \notin cut =>
        /\ ask[i].state \in Dead \/ heard[i] = given[i]
        /\ native[i] = "none" => given[i] = "none"
        /\ native[i] = "waiting" /\ given[i] # "none"
             => ask[i].state \in Dead \/ Writing(i)

HeardOnce == \A i \in Asks : HeardOK(i)

\* A request that nobody writes to, or that the provider has let go of, in a
\* step that lets the writers be.
LEMMA HeardKept ==
    ASSUME HeardOnce, NEW i \in Asks, cut \subseteq cut',
           ask[i].state \in Dead => ask'[i].state \in Dead,
           heard'[i] = heard[i], given'[i] = given[i],
           native'[i] = "none" => native[i] = "none",
           native'[i] = "waiting" => \/ native[i] = "waiting" /\ (Writing(i) => Writing(i)')
                                     \/ given[i] = "none"
    PROVE  HeardOK(i)'
<1>1. HeardOK(i)
  BY DEF HeardOnce
<1> QED BY <1>1 DEF HeardOK

\* After a death the provider keeps nothing.
LEMMA DieHeard ==
    ASSUME IInv, HeardOnce, Die,
           \A i \in Asks : ask[i].state \in Dead => ask'[i].state \in Dead
    PROVE  HeardOnce'
<1>1. /\ heard' = heard /\ given' = given /\ cut' = cut
      /\ native' = [i \in Asks |-> IF native[i] = "none" THEN "none" ELSE "gone"]
  BY DEF Die
<1>2. \A i \in Asks : HeardOK(i)'
  BY <1>1, HeardKept
<1> QED BY <1>2 DEF HeardOnce

\* An ask that is dead stays so.
LEMMA DeadStays ==
    ASSUME IInv, Next, NEW i \in Asks, ask[i].state \in Dead
    PROVE  ask'[i].state \in Dead
<1>1. Settled
  BY SettledStep
<1> QED BY <1>1 DEF Settled, Dead, Closed

\* The coroutine s is done with its send.
LEMMA EndedHeard ==
    ASSUME IInv, HeardOnce, Next, NEW s \in Senders, NEW ok \in BOOLEAN, Outcome(s, ok),
           Ended(s), \A t \in Senders \ {s} : sender'[t] = sender[t]
    PROVE  HeardOnce'
<1>1. UNCHANGED <<native, heard, given>> /\ cut \subseteq cut'
  BY DEF Ended, handed
<1>2. ASSUME NEW i \in Asks
      PROVE  HeardOK(i)'
  <2>1. CASE sender[s].at = "written" /\ sender[s].ask = i
    BY <2>1 DEF Ended, HeardOK
  <2>2. CASE ~(sender[s].at = "written" /\ sender[s].ask = i)
    <3>1. Writing(i) => Writing(i)'
      <4>1. ASSUME NEW t \in Senders, sender[t].at = "written", sender[t].ask = i
            PROVE  sender'[t].at = "written" /\ sender'[t].ask = i
        BY <2>2, <4>1
      <4> QED BY <4>1 DEF Writing
    <3> QED BY <1>1, <3>1, DeadStays, HeardKept
  <2> QED BY <2>1, <2>2
<1> QED BY <1>2 DEF HeardOnce

\* A reply is written: to a request nobody has written to, or one whose writer
\* was cut off.
LEMMA WriteHeard ==
    ASSUME IInv, HeardOnce, Next, NEW s \in Senders, Write(s)
    PROVE  HeardOnce'
<1> DEFINE m == sender[s].reply
<1>0. TypeOK /\ Busy(s) /\ SenderOK(s)
  BY DEF IInv, Write, Busy
<1>a. /\ sender[s].ask \in Asks /\ m \in Replies
      /\ ask[sender[s].ask].state \in {"resolving"} \cup Closed
  BY <1>0 DEF SenderOK
<1>b. PICK i \in Asks : i = sender[s].ask
  BY <1>a
<1>1. m \in Replies /\ ask[i].state \in {"resolving"} \cup Closed
  BY <1>a, <1>b
<1>2. /\ sender[s].at = "sending" /\ native[i] = "waiting" /\ UNCHANGED <<ask, native, cut>>
      /\ sender' = [sender EXCEPT ![s].at = "written"]
      /\ given' = [given EXCEPT ![i] = command[i][m].decision]
      /\ heard' = [heard EXCEPT ![i] = IF heard[i] = "none" THEN command[i][m].decision
                                       ELSE heard[i]]
  BY <1>b DEF Write, ledger
<1>3. /\ sender'[s].at = "written" /\ sender'[s].ask = i
      /\ \A t \in Senders \ {s} : sender'[t] = sender[t]
  <2>1. sender \in [Senders -> SenderRecords] /\ sender[s] \in SenderRecords
    BY <1>0, Typed
  <2> QED BY <1>2, <1>b, <2>1 DEF SenderRecords
<1>4. HeardOK(i)'
  <2>1. Writing(i)'
    BY <1>3 DEF Writing
  <2>2. i \notin cut /\ ask[i].state \notin Dead => heard[i] = "none"
    <3>1. HeardOK(i)
      BY <1>1 DEF HeardOnce
    <3>2. SUFFICES ASSUME i \notin cut, ask[i].state \notin Dead, given[i] # "none"
                   PROVE  FALSE
      BY <3>1 DEF HeardOK
    <3>3. PICK t \in Senders : sender[t].at = "written" /\ sender[t].ask = i
      BY <1>2, <3>1, <3>2 DEF HeardOK, Writing
    <3>4. ask[i].state \in Closed
      BY <1>0, <1>2, <1>b, <3>3 DEF IInv, SoloOK, Busy
    <3>5. ask[i].state = "resolved"
      BY <3>2, <3>4 DEF Dead, Closed
    <3> QED BY <1>1, <1>2, <3>5 DEF IInv, AskOK, Handed
  <2>3. /\ given'[i] = command[i][m].decision
        /\ heard'[i] = IF heard[i] = "none" THEN command[i][m].decision ELSE heard[i]
    BY <1>0, <1>1, <1>2, Typed
  <2>4. ask'[i] = ask[i] /\ cut' = cut /\ native'[i] = "waiting"
    BY <1>2
  <2> QED BY <2>1, <2>2, <2>3, <2>4 DEF HeardOK
<1>5. ASSUME NEW j \in Asks, j # i
      PROVE  HeardOK(j)'
  <2>1. Writing(j) => Writing(j)'
    <3>1. ASSUME NEW t \in Senders, sender[t].at = "written", sender[t].ask = j
          PROVE  sender'[t].at = "written" /\ sender'[t].ask = j
      BY <1>2, <1>3, <3>1
    <3> QED BY <3>1 DEF Writing
  <2>2. heard'[j] = heard[j] /\ given'[j] = given[j]
    BY <1>0, <1>2, <1>5, Typed
  <2> QED BY <1>2, <2>1, <2>2, HeardKept
<1> QED BY <1>4, <1>5 DEF HeardOnce

\* The request is removed, or raised.
LEMMA NativeHeard ==
    ASSUME IInv, HeardOnce, Next,
           \/ \E s \in Senders : Take(s)
           \/ \E i \in Asks : Raise(i) \/ Dropped(i)
    PROVE  HeardOnce'
<1>0. TypeOK /\ UNCHANGED <<ask, heard, given, cut>>
  BY DEF IInv, Take, Raise, Dropped, ledger
<1>1. ASSUME NEW s \in Senders, Take(s)
      PROVE  HeardOnce'
  <2> DEFINE i == sender[s].ask
  <2>0. i \in Asks
    BY <1>1 DEF IInv, SenderOK, Busy, Take
  <2>1. native' = [native EXCEPT ![i] = "settled"]
        /\ sender' = [sender EXCEPT ![s].at = "taken"]
    BY <1>1 DEF Take
  <2>2. /\ native'[i] = "settled" /\ \A j \in Asks \ {i} : native'[j] = native[j]
        /\ \A t \in Senders \ {s} : sender'[t] = sender[t]
    BY <1>0, <2>0, <2>1, Typed
  <2>3. ASSUME NEW j \in Asks
        PROVE  HeardOK(j)'
    <3>1. CASE j = i
      BY <1>0, <2>2, <3>1, HeardKept
    <3>2. CASE j # i
      <4>1. Writing(j) => Writing(j)'
        <5>1. ASSUME NEW t \in Senders, sender[t].at = "written", sender[t].ask = j
              PROVE  sender'[t].at = "written" /\ sender'[t].ask = j
          BY <2>2, <3>2, <5>1
        <5> QED BY <5>1 DEF Writing
      <4>2. native'[j] = native[j]
        BY <2>2, <3>2
      <4> QED BY <1>0, <4>1, <4>2, HeardKept
    <3> QED BY <3>1, <3>2
  <2> QED BY <2>3 DEF HeardOnce
<1>2. ASSUME NEW i \in Asks, Raise(i) \/ Dropped(i)
      PROVE  HeardOnce'
  <2>1. /\ sender' = sender /\ \A j \in Asks \ {i} : native'[j] = native[j]
        /\ \/ native[i] = "none" /\ native'[i] = "waiting"
           \/ native'[i] = "settled" /\ native[i] = "waiting"
    BY <1>0, <1>2, Typed DEF Raise, Dropped
  <2>2. ASSUME NEW j \in Asks
        PROVE  HeardOK(j)'
    <3>1. Writing(j) => Writing(j)'
      BY <2>1 DEF Writing
    <3>2. CASE j # i
      BY <1>0, <2>1, <3>1, <3>2, HeardKept
    <3>3. CASE j = i /\ native'[i] = "settled"
      BY <1>0, <2>1, <3>3, HeardKept
    <3>4. CASE j = i /\ native[i] = "none"
      BY <1>0, <2>1, <3>4 DEF HeardOnce, HeardOK
    <3> QED BY <2>1, <3>2, <3>3, <3>4
  <2> QED BY <2>2 DEF HeardOnce
<1> QED BY <1>1, <1>2

\* A step of the gateway that writes to nobody, and lets the writers be.
LEMMA HeardAlone ==
    ASSUME IInv, HeardOnce, Next, UNCHANGED worker,
           \A t \in Senders : Busy(t) => sender'[t] = sender[t]
    PROVE  HeardOnce'
<1>1. UNCHANGED <<native, heard, given, cut>>
  BY DEF worker, handed
<1>2. ASSUME NEW i \in Asks
      PROVE  HeardOK(i)'
  <2>1. Writing(i) => Writing(i)'
    BY DEF Writing, Busy
  <2> QED BY <1>1, <2>1, DeadStays, HeardKept
<1> QED BY <1>2 DEF HeardOnce

\* Every step keeps it.
LEMMA HeardStep ==
    ASSUME IInv, HeardOnce, Next
    PROVE  HeardOnce'
<1>a. \A i \in Asks : ask[i].state \in Dead => ask'[i].state \in Dead
  BY DeadStays
<1>b. CASE Die
  BY <1>a, <1>b, DieHeard
<1>c. ASSUME NEW s \in Senders, ~Busy(s), UNCHANGED worker,
             \A t \in Senders \ {s} : sender'[t] = sender[t]
      PROVE  HeardOnce'
  <2>1. \A t \in Senders : Busy(t) => sender'[t] = sender[t]
    BY <1>c
  <2> QED BY <1>c, <2>1, HeardAlone
<1>d. ASSUME NEW s \in Senders, NEW r, sender' = [sender EXCEPT ![s] = r]
      PROVE  \A t \in Senders \ {s} : sender'[t] = sender[t]
  BY <1>d, Typed DEF IInv
<1>e. /\ "user" \in Senders /\ "reducer" \in Senders /\ "expirer" \in Senders
      /\ "replayer" \in Senders
  BY DEF Senders
<1>f. ASSUME NEW s \in Senders, NEW ok \in BOOLEAN, Outcome(s, ok), Ended(s),
             NEW r, sender' = [sender EXCEPT ![s] = r]
      PROVE  HeardOnce'
  <2>1. \A t \in Senders \ {s} : sender'[t] = sender[t]
    BY <1>d, <1>f
  <2> QED BY <1>f, <2>1, EndedHeard
<1>g. ASSUME NEW L, NEW c, ExpireRest(L, c)
      PROVE  \E r : sender' = [sender EXCEPT !["expirer"] = r]
  BY <1>g DEF ExpireRest
<1>1. ASSUME NEW i \in Asks, NEW k \in 1..4, NEW route \in Routes[i], Ingest(i, route, k), ~Die
      PROVE  HeardOnce'
  <2>1. UNCHANGED worker /\ ~Busy("reducer")
    BY <1>1 DEF Ingest, Busy
  <2>2. sender' = sender \/ \E r : sender' = [sender EXCEPT !["reducer"] = r]
    BY <1>1 DEF Ingest
  <2>3. \A t \in Senders \ {"reducer"} : sender'[t] = sender[t]
    BY <1>d, <1>e, <2>2
  <2> QED BY <1>c, <1>e, <2>1, <2>3
<1>2. ASSUME NEW i \in Asks, Plan(i) \/ PlanFails(i)
      PROVE  HeardOnce'
  <2>1. UNCHANGED worker /\ ~Busy("reducer")
    BY <1>2 DEF Plan, PlanFails, Planning, Busy
  <2>2. \E r : sender' = [sender EXCEPT !["reducer"] = r]
    BY <1>2 DEF Plan, PlanFails
  <2>3. \A t \in Senders \ {"reducer"} : sender'[t] = sender[t]
    BY <1>d, <1>e, <2>2
  <2> QED BY <1>c, <1>e, <2>1, <2>3
<1>3. ASSUME NEW i \in Asks, NEW m \in Turns, NEW k \in 1..3, Reply(i, m, k), ~Die
      PROVE  HeardOnce'
  <2>1. UNCHANGED worker /\ ~Busy("user")
    BY <1>3 DEF Reply, Busy
  <2>2. sender' = sender \/ \E r : sender' = [sender EXCEPT !["user"] = r]
    BY <1>3 DEF Reply
  <2>3. \A t \in Senders \ {"user"} : sender'[t] = sender[t]
    BY <1>d, <1>e, <2>2
  <2> QED BY <1>c, <1>e, <2>1, <2>3
<1>4. ASSUME NEW ok \in BOOLEAN, NEW k \in 1..3, Answered(ok, k), ~Die
      PROVE  HeardOnce'
  <2>1. Outcome("user", ok) /\ Ended("user") /\ sender' = [sender EXCEPT !["user"] = Idle]
    BY <1>4 DEF Answered
  <2> QED BY <1>e, <1>f, <2>1
<1>5. ASSUME NEW ok \in BOOLEAN, NEW k \in 1..4, Reduced(ok, k), ~Die
      PROVE  HeardOnce'
  <2>1. /\ Outcome("reducer", ok) /\ Ended("reducer")
        /\ sender' = [sender EXCEPT !["reducer"] = Idle]
    BY <1>5 DEF Reduced
  <2> QED BY <1>e, <1>f, <2>1
<1>6. ASSUME NEW ok \in BOOLEAN, Replayed(ok)
      PROVE  HeardOnce'
  <2>1. /\ Outcome("replayer", ok) /\ Ended("replayer")
        /\ sender' = [sender EXCEPT !["replayer"] = Idle]
    BY <1>6 DEF Replayed
  <2> QED BY <1>e, <1>f, <2>1
<1>7. ASSUME NEW ok \in BOOLEAN, Expired(ok)
      PROVE  HeardOnce'
  <2>1. /\ Outcome("expirer", ok) /\ Ended("expirer")
        /\ ExpireRest(left, Marked(sender["expirer"].ask, "expiry", ok))
    BY <1>7 DEF Expired
  <2>2. \E r : sender' = [sender EXCEPT !["expirer"] = r]
    BY <1>g, <2>1
  <2> QED BY <1>e, <1>f, <2>1, <2>2
<1>8. ASSUME NEW S \in SUBSET Permissions, Expire(S)
      PROVE  HeardOnce'
  <2>1. UNCHANGED worker /\ ~Busy("expirer") /\ ExpireRest(S, command)
    BY <1>8 DEF Expire, Busy
  <2>2. \E r : sender' = [sender EXCEPT !["expirer"] = r]
    BY <1>g, <2>1
  <2>3. \A t \in Senders \ {"expirer"} : sender'[t] = sender[t]
    BY <1>d, <1>e, <2>2
  <2> QED BY <1>c, <1>e, <2>1, <2>3
<1>9. CASE Recover \/ Started \/ Open \/ Serve
  <2>1. UNCHANGED <<worker, sender>>
    BY <1>9 DEF Recover, Started, Open, Serve
  <2> QED BY <2>1, HeardAlone
<1>10. ASSUME NEW i \in Asks, RecoverEvent(i)
       PROVE  HeardOnce'
  BY <1>10, HeardAlone DEF RecoverEvent
<1>11. ASSUME NEW i \in Asks, NEW m \in Replies, Replay(i, m)
       PROVE  HeardOnce'
  <2>1. UNCHANGED worker /\ ~Busy("replayer")
    BY <1>11 DEF Replay, Busy
  <2>2. \E r : sender' = [sender EXCEPT !["replayer"] = r]
    BY <1>11 DEF Replay
  <2>3. \A t \in Senders \ {"replayer"} : sender'[t] = sender[t]
    BY <1>d, <1>e, <2>2
  <2> QED BY <1>c, <1>e, <2>1, <2>3
<1>12. ASSUME NEW k \in 1..2, TaskEnds(k), ~Die
       PROVE  HeardOnce'
  <2>1. UNCHANGED <<worker, sender>>
    BY <1>12 DEF TaskEnds
  <2> QED BY <2>1, HeardAlone
<1>13. CASE Crash \/ RecoverCut \/ \E S \in SUBSET Permissions : ExpireCut(S)
  BY <1>13, <1>b DEF Crash, RecoverCut, ExpireCut
<1> QED BY <1>b, <1>1, <1>2, <1>3, <1>4, <1>5, <1>6, <1>7, <1>8, <1>9, <1>10, <1>11, <1>12,
           <1>13, WriteHeard, NativeHeard DEF Next, Resolve

-----------------------------------------------------------------------------
(* What follows. *)

\* Every reachable state satisfies the invariants.
THEOREM Inductive == Spec => [](IInv /\ HeardOnce)
<1>1. Init => IInv /\ HeardOnce
  BY InitSafe DEF Init, HeardOnce, HeardOK
<1>2. IInv /\ HeardOnce /\ [Next]_vars => IInv' /\ HeardOnce'
  <2>1. ASSUME HeardOnce, UNCHANGED vars
        PROVE  HeardOnce'
    BY <2>1 DEF vars, ledger, worker, handed, HeardOnce, HeardOK, Writing
  <2> QED BY <2>1, NextSafe, HeardStep
<1> QED BY <1>1, <1>2, PTL DEF Spec

\* Every variable keeps its type: no handler writes a state or a decision the
\* ledger's tables do not know.
THEOREM TypeCorrect == Spec => []TypeOK
<1>1. IInv => TypeOK
  BY DEF IInv
<1> QED BY <1>1, Inductive, PTL

\* What the ledger records as the answer is what the worker was handed last, and
\* first too unless a reply was cut off between its write and the removal of the
\* request, whatever timeouts, second answers, replays and restarts lay between
\* (_resolve_interaction, finish_interaction_resolution, CodexRun.respond,
\* GanderGateway.start).
THEOREM RecordedWasHanded == Spec => []AnsweredAsRecorded
<1>1. IInv /\ HeardOnce => AnsweredAsRecorded
  BY DEF IInv, AskOK, Handed, AnsweredAsRecorded, HeardOnce, HeardOK, Dead
<1> QED BY <1>1, Inductive, PTL

\* In a process that did not crash nobody is asked what is settled, and what is
\* still open to an answer is asked of the user or was refused to their face.
THEOREM PromptsStayFit == Spec => []PromptsFit
<1>1. IInv => PromptsFit
  BY DEF IInv
<1> QED BY <1>1, Inductive, PTL

\* A closed interaction keeps its state and its decision for ever: no late
\* answer, promotion, replay or recovery reopens or rewrites it.
THEOREM ClosedIsClosed == Spec => SettledStays
<1>1. IInv /\ [Next]_vars => [Settled]_vars
  BY SettledStep
<1>2. [][Settled]_vars => SettledStays
  BY PTL DEF SettledStays, Settled
<1> QED BY <1>1, <1>2, Inductive, PTL DEF Spec
=============================================================================
