---------------------------- MODULE Interactions ----------------------------
(***************************************************************************)
(* What a worker asks while it runs, and how the answer reaches it:        *)
(* GanderGateway._reduce_event for interaction events, _resolve_interaction,*)
(* expire_interactions, the provider command outbox and its replay, and    *)
(* what GanderGateway.start makes of the rows a dead process left.         *)
(*                                                                         *)
(* One task and its run.  A step is the code between two awaits; the       *)
(* parameter k of an action is how many of its SQLite transactions were    *)
(* committed, fewer than all when the process died among them.             *)
(***************************************************************************)
EXTENDS Naturals, FiniteSets

CONSTANTS Asks,         \* interactions the worker may raise
          Permissions,  \* the asks that are permissions and may expire
          Routes,       \* ask -> routes the contract in force may give it
          Turns,        \* requests of the user that answer an ask
          Decisions,    \* what an answer may be; "deny" is one of them
          Says,         \* the decision each reply carries
          MaxCrashes    \* bound: how often the process dies

ASSUME PermissionsAssumption == Permissions \subseteq Asks
ASSUME RoutesAssumption ==
    Routes \in [Asks -> SUBSET {"user", "policy", "coordinator"}]
ASSUME DecisionsAssumption == "deny" \in Decisions /\ "none" \notin Decisions
ASSUME TurnsAssumption == Turns \cap {"policy", "plan", "expiry", "nobody"} = {}
ASSUME CrashAssumption == MaxCrashes \in Nat

\* Message ids of provider commands: one per request of the user, the one
\* derived from the event, the coordinator's, and message_expired_<id>.
Replies == Turns \cup {"policy", "plan", "expiry"}

ASSUME SaysAssumption == Says \in [Replies -> Decisions] /\ Says["expiry"] = "deny"

\* The coroutines that may be awaiting WorkerRun.send.
Senders == {"user", "reducer", "expirer", "replayer"}

VARIABLES
    \* the ledger file
    ask,       \* PendingInteraction: state and decision
    event,     \* the interaction event of an ask: in the stream, logged, processed
    command,   \* ProviderCommandRecord of an ask and a reply: state and decision
    prompt,    \* the delivery under the marker interaction:<fingerprint>
    over,      \* the task is terminal
    \* the process
    phase,     \* of the gateway and of the task's dispatch job
    sender,    \* the awaits of the coroutines
    left,      \* interactions expire_interactions has still to visit
    \* the worker process
    native,    \* its own request behind the ask, as the provider keeps it
    heard,     \* the decision it was handed first: a request is answered once
    given,     \* the decision it was handed last
    cut,       \* asks a reply to which was given up between its write and the
               \* removal of the native request
    \* what the user was told of a request, and the bound
    told, crashes

ledger == <<ask, event, command, prompt, over>>
handed == <<native, heard, given>>
worker == <<handed, cut>>
vars == <<ledger, phase, sender, left, worker, told, crashes>>

Decided == Decisions \cup {"none"}
Closed == {"resolved", "expired", "cancelled"}
Idle == [at |-> "idle", ask |-> "none", reply |-> "nobody"]

TypeOK ==
    /\ ask \in [Asks -> [state : Closed \cup {"absent", "pending", "resolving"},
                         decision : Decided]]
    /\ event \in [Asks -> {"none", "stream", "logged", "processed"}]
    /\ command \in [Asks -> [Replies -> [state : {"absent", "pending", "sending",
                                                  "sent", "failed"},
                                         decision : Decided]]]
    /\ prompt \in [Asks -> {"none", "open", "withdrawn"}]
    /\ over \in BOOLEAN
    /\ phase \in {"down", "starting", "opening", "replaying", "serving"}
    /\ sender \in [Senders -> [at : {"idle", "planning", "sending", "written",
                                     "taken"},
                               ask : Asks \cup {"none"},
                               reply : Replies \cup {"nobody"}]]
    /\ left \subseteq Asks
    /\ native \in [Asks -> {"none", "waiting", "settled", "gone"}]
    /\ heard \in [Asks -> Decided] /\ given \in [Asks -> Decided]
    /\ cut \subseteq Asks
    /\ told \in [Turns -> {"nothing", "accepted", "refused"}]
    /\ crashes \in 0..MaxCrashes

Init ==
    /\ ask = [i \in Asks |-> [state |-> "absent", decision |-> "none"]]
    /\ event = [i \in Asks |-> "none"]
    /\ command = [i \in Asks |-> [m \in Replies |->
                                  [state |-> "absent", decision |-> "none"]]]
    /\ prompt = [i \in Asks |-> "none"]
    /\ over = FALSE
    /\ phase = "serving"
    /\ sender = [s \in Senders |-> Idle]
    /\ left = {}
    /\ native = [i \in Asks |-> "none"]
    /\ heard = [i \in Asks |-> "none"] /\ given = [i \in Asks |-> "none"]
    /\ cut = {}
    /\ told = [m \in Turns |-> "nothing"]
    /\ crashes = 0

-----------------------------------------------------------------------------
(* Helpers *)

Up == phase \in {"opening", "replaying", "serving"}

\* The run is in _runtime_runs: from before the replay to the end of _dispatch.
Registered == phase \in {"replaying", "serving"}

Live == UNCHANGED <<phase, crashes>>

\* The process dies, and the worker process with it.
Die ==
    /\ crashes < MaxCrashes
    /\ crashes' = crashes + 1
    /\ phase' = "down"
    /\ sender' = [s \in Senders |-> Idle]
    /\ left' = {}
    /\ native' = [i \in Asks |-> IF native[i] = "none" THEN "none" ELSE "gone"]
    /\ UNCHANGED <<heard, given, cut, told>>

Unsent(i, m) == command[i][m].state \in {"pending", "sending"}

\* cancel_provider_commands_for_interaction, for every ask in S.  Failed and
\* cancelled commands are told apart by nobody.
Revoked(S) ==
    [i \in Asks |-> [m \in Replies |->
        IF i \in S /\ Unsent(i, m) THEN [command[i][m] EXCEPT !.state = "failed"]
                                   ELSE command[i][m]]]

\* cancel_interaction_deliveries, for every ask in S.
Withdrawn(S) ==
    [i \in Asks |-> IF i \in S /\ prompt[i] = "open" THEN "withdrawn" ELSE prompt[i]]

\* enqueue under the marker of the ask: once.
Prompted(i) == IF prompt[i] = "none" THEN [prompt EXCEPT ![i] = "open"] ELSE prompt

\* enqueue_provider_command; the message ids are fresh, each is enqueued once.
Enqueued(i, m, s) == [command EXCEPT ![i][m] = [state |-> s, decision |-> Says[m]]]

\* begin_interaction_resolution: from pending only.
Begun(i, m) == [ask EXCEPT ![i] = [state |-> "resolving", decision |-> Says[m]]]

Sending(i, m) == [at |-> "sending", ask |-> i, reply |-> m]

-----------------------------------------------------------------------------
(* The worker asks *)

\* The provider yields an interaction event; _map_event remembers the native id.
Raise(i) ==
    /\ phase = "serving" /\ ~over
    /\ native[i] = "none"
    /\ native' = [native EXCEPT ![i] = "waiting"]
    /\ event' = [event EXCEPT ![i] = "stream"]
    /\ UNCHANGED <<ask, command, prompt, over, sender, left, heard, given, cut, told>>
    /\ Live

\* The provider lets go of the request without an answer of the gateway, or
\* before the gateway has seen its own arrive: serverRequest/resolved, or the
\* end of the turn.
Dropped(i) ==
    /\ native[i] = "waiting"
    /\ native' = [native EXCEPT ![i] = "settled"]
    /\ UNCHANGED <<ledger, sender, left, heard, given, cut, told>> /\ Live

\* ingest_worker_event and _reduce_event up to the first await.  The
\* transactions: append_event, the interaction, and then what its route asks
\* for: the prompt, the policy's own answer (its record and its command), or
\* the coordinator.  A route without an await marks the event processed.
Ingest(i, route, k) ==
    /\ phase = "serving" /\ sender["reducer"].at = "idle"
    /\ event[i] = "stream" /\ native[i] # "gone"   \* the stream dies with its worker
    /\ IF over
       THEN \* append_event finds the run inactive
            /\ k = 4
            /\ event' = [event EXCEPT ![i] = "none"]
            /\ UNCHANGED <<ask, command, prompt, over, sender, left, worker, told>>
            /\ Live
       ELSE /\ k \in 1..4
            /\ UNCHANGED over
            /\ event' = [event EXCEPT ![i] =
                           IF k = 4 /\ route = "user" THEN "processed" ELSE "logged"]
            /\ ask' = IF k = 1 THEN ask
                      ELSE [ask EXCEPT ![i] =
                             IF k = 2 \/ route # "policy"
                             THEN [state |-> "pending", decision |-> "none"]
                             ELSE [state |-> "resolving", decision |-> Says["policy"]]]
            /\ prompt' = IF k >= 3 /\ route = "user" THEN Prompted(i) ELSE prompt
            /\ command' = IF k = 4 /\ route = "policy"
                          THEN Enqueued(i, "policy", "sending") ELSE command
            /\ IF k = 4
               THEN /\ sender' = [sender EXCEPT !["reducer"] =
                          CASE route = "user" -> Idle
                            [] route = "policy" -> Sending(i, "policy")
                            [] OTHER -> [at |-> "planning", ask |-> i,
                                         reply |-> "nobody"]]
                    /\ UNCHANGED <<left, worker, told>> /\ Live
               ELSE Die

Planning(i) ==
    /\ Up
    /\ sender["reducer"] = [at |-> "planning", ask |-> i, reply |-> "nobody"]

\* What is still pending after the coordinator had its say goes to the user.
Promoted(i) == IF ask[i].state = "pending" THEN Prompted(i) ELSE prompt

\* _coordinate_worker_interaction: a plan arrived and is applied under the owner
\* lock, which a user's reply holds too.  It resolves the ask, or leaves it.
Plan(i) ==
    /\ Planning(i) /\ sender["user"].at = "idle"
    /\ \/ /\ ask[i].state = "pending"
          /\ ask' = Begun(i, "plan")
          /\ command' = Enqueued(i, "plan", "sending")
          /\ sender' = [sender EXCEPT !["reducer"] = Sending(i, "plan")]
          /\ UNCHANGED <<event, prompt>>
       \/ /\ prompt' = Promoted(i)
          /\ event' = [event EXCEPT ![i] = "processed"]
          /\ sender' = [sender EXCEPT !["reducer"] = Idle]
          /\ UNCHANGED <<ask, command>>
    /\ UNCHANGED <<over, left, worker, told>> /\ Live

\* The coordinator's model failed: no lock is waited for.
PlanFails(i) ==
    /\ Planning(i)
    /\ prompt' = Promoted(i)
    /\ event' = [event EXCEPT ![i] = "processed"]
    /\ sender' = [sender EXCEPT !["reducer"] = Idle]
    /\ UNCHANGED <<ask, command, over, left, worker, told>> /\ Live

-----------------------------------------------------------------------------
(* The user answers *)

\* _resolve_interaction for a request of the user, under the owner lock:
\* begin_interaction_resolution, the outbox, and the send; with no run
\* registered the reply waits in the outbox and counts as accepted.
Reply(i, m, k) ==
    /\ Up
    /\ sender["user"].at = "idle" /\ sender["reducer"].reply # "plan"
    /\ ask[i].state = "pending" /\ told[m] = "nothing"
    /\ k \in 1..3
    /\ ask' = Begun(i, m)
    /\ command' = IF k = 1 THEN command
                  ELSE Enqueued(i, m, IF Registered THEN "sending" ELSE "pending")
    /\ prompt' = IF k = 3 /\ ~Registered THEN Withdrawn({i}) ELSE prompt
    /\ UNCHANGED <<event, over>>
    /\ IF k = 3
       THEN /\ IF Registered
               THEN /\ sender' = [sender EXCEPT !["user"] = Sending(i, m)]
                    /\ UNCHANGED told
               ELSE /\ told' = [told EXCEPT ![m] = "accepted"]
                    /\ UNCHANGED sender
            /\ UNCHANGED <<left, worker>> /\ Live
       ELSE Die

-----------------------------------------------------------------------------
(* A send, and what its sender does with the outcome *)

\* WorkerRunChannel.send and CodexRun.respond up to the drain: the provider
\* writes the reply to the native request it still keeps.
Write(s) ==
    /\ sender[s].at = "sending"
    /\ LET i == sender[s].ask
           d == command[i][sender[s].reply].decision
       IN /\ native[i] = "waiting"
          /\ heard' = [heard EXCEPT ![i] = IF @ = "none" THEN d ELSE @]
          /\ given' = [given EXCEPT ![i] = d]
    /\ sender' = [sender EXCEPT ![s].at = "written"]
    /\ UNCHANGED <<ledger, left, native, cut, told>> /\ Live

\* Mutant: the native request is left with the provider.
TakeKeeps(s) ==
    /\ sender[s].at = "written"
    /\ sender' = [sender EXCEPT ![s].at = "taken"]
    /\ UNCHANGED <<ledger, left, worker, told>> /\ Live

\* The drain is over: the provider removes the request, unless it has let go of
\* it meanwhile.
Take(s) ==
    /\ sender[s].at = "written"
    /\ native' = [native EXCEPT ![sender[s].ask] = "settled"]
    /\ sender' = [sender EXCEPT ![s].at = "taken"]
    /\ UNCHANGED <<ledger, left, heard, given, cut, told>> /\ Live

\* Mutant: a send that timed out counts as accepted.
OutcomeHopeful(s, ok) == sender[s].at \in {"sending", "written", "taken"}

\* The outcomes of the awaited send: accepted only if the worker took it; it is
\* refused, raises or times out otherwise, also when it was written or taken.
Outcome(s, ok) ==
    /\ sender[s].at \in {"sending", "written", "taken"}
    /\ ok => sender[s].at = "taken"

\* A send that ends between its write and the removal was cut off there, and
\* the provider keeps the request.
Ended(s) ==
    /\ cut' = IF sender[s].at = "written" THEN cut \cup {sender[s].ask} ELSE cut
    /\ UNCHANGED handed

\* Mutant: finish_interaction_resolution does not look at the state.
FinishedAny(i, ok) ==
    [ask EXCEPT ![i] = IF ok THEN [@ EXCEPT !.state = "resolved"]
                       ELSE [state |-> "pending", decision |-> "none"]]

\* Mutant: only a success is recorded.
FinishedQuietly(i, ok) ==
    IF ask[i].state = "resolving" /\ ok THEN [ask EXCEPT ![i].state = "resolved"] ELSE ask

\* finish_interaction_resolution: only from resolving.
Finished(i, ok) ==
    IF ask[i].state # "resolving" THEN ask
    ELSE [ask EXCEPT ![i] = IF ok THEN [@ EXCEPT !.state = "resolved"]
                            ELSE [state |-> "pending", decision |-> "none"]]

Marked(i, m, ok) ==
    [command EXCEPT ![i][m].state = IF ok THEN "sent" ELSE "failed"]

\* The rest of _resolve_interaction after the send of a request of the user.
\* An interaction that was closed meanwhile makes the finish raise: the caller
\* is told of a failure and the prompt is left to whoever closed it.
Answered(ok, k) ==
    /\ Outcome("user", ok)
    /\ LET i == sender["user"].ask
           m == sender["user"].reply
           resolving == ask[i].state = "resolving"
       IN /\ k \in 1..3
          /\ command' = Marked(i, m, ok)
          /\ ask' = IF k >= 2 THEN Finished(i, ok) ELSE ask
          /\ prompt' = IF k = 3 /\ ok /\ resolving THEN Withdrawn({i}) ELSE prompt
          /\ UNCHANGED <<event, over>>
          /\ IF k = 3
             THEN /\ told' = [told EXCEPT ![m] = IF ok /\ resolving THEN "accepted"
                                                 ELSE "refused"]
                  /\ sender' = [sender EXCEPT !["user"] = Idle]
                  /\ Ended("user") /\ UNCHANGED left /\ Live
             ELSE Die

\* Mutant: a coordinator's answer the worker did not take is not promoted.
ReducedNoPromotion(ok, k) ==
    /\ Outcome("reducer", ok) /\ k = 4
    /\ LET i == sender["reducer"].ask
           resolving == ask[i].state = "resolving"
       IN /\ command' = Marked(i, sender["reducer"].reply, ok)
          /\ ask' = Finished(i, ok)
          /\ prompt' = IF ok /\ resolving THEN Withdrawn({i}) ELSE prompt
          /\ event' = [event EXCEPT ![i] = IF resolving THEN "processed" ELSE @]
    /\ sender' = [sender EXCEPT !["reducer"] = Idle]
    /\ Ended("reducer") /\ UNCHANGED <<over, left, told>> /\ Live

\* The same after an answer of the policy or of the coordinator.  A coordinator
\* answer that failed leaves the ask pending: it is promoted to the user.  The
\* policy's is not.
Reduced(ok, k) ==
    /\ Outcome("reducer", ok)
    /\ LET i == sender["reducer"].ask
           m == sender["reducer"].reply
           resolving == ask[i].state = "resolving"
       IN /\ k \in 1..4
          /\ command' = Marked(i, m, ok)
          /\ ask' = IF k >= 2 THEN Finished(i, ok) ELSE ask
          /\ prompt' = IF k >= 3 /\ resolving
                       THEN IF ok THEN Withdrawn({i})
                            ELSE IF m = "plan" THEN Prompted(i) ELSE prompt
                       ELSE prompt
          /\ event' = [event EXCEPT ![i] =
                         IF k = 4 /\ (resolving \/ m = "plan") THEN "processed" ELSE @]
          /\ UNCHANGED over
          /\ IF k = 4
             THEN /\ sender' = [sender EXCEPT !["reducer"] = Idle]
                  /\ Ended("reducer") /\ UNCHANGED <<left, told>> /\ Live
             ELSE Die

-----------------------------------------------------------------------------
(* expire_interactions *)

\* Mutant: the prompts are left to their own expiry.
ExpireRestKeeps(L, c) ==
    /\ UNCHANGED <<prompt>>
    /\ IF L # {} /\ Registered
       THEN \E i \in L :
            /\ command' = [c EXCEPT ![i]["expiry"] = [state |-> "sending",
                                                      decision |-> "deny"]]
            /\ sender' = [sender EXCEPT !["expirer"] = Sending(i, "expiry")]
            /\ left' = L \ {i}
       ELSE command' = c /\ left' = {} /\ sender' = [sender EXCEPT !["expirer"] = Idle]

\* The loop over the interactions in L that the transaction expired: each is
\* revoked, withdrawn and its worker told to deny; with a run registered the
\* loop awaits that send, otherwise it runs through.
ExpireRest(L, c) ==
    IF L # {} /\ Registered
    THEN \E i \in L :
            /\ command' = [c EXCEPT ![i]["expiry"] = [state |-> "sending",
                                                      decision |-> "deny"]]
            /\ prompt' = Withdrawn({i})
            /\ sender' = [sender EXCEPT !["expirer"] = Sending(i, "expiry")]
            /\ left' = L \ {i}
    ELSE /\ command' = [i \in Asks |-> IF i \notin L THEN c[i] ELSE
                            [c[i] EXCEPT !["expiry"] = [state |-> "pending",
                                                        decision |-> "deny"]]]
         /\ prompt' = Withdrawn(L)
         /\ sender' = [sender EXCEPT !["expirer"] = Idle]
         /\ left' = {}

\* expire_due_interactions takes the pending ones whose time has come.
Due(i) == i \in Permissions /\ ask[i].state = "pending"

\* The start of a turn of the coordinator: every due permission expires in one
\* transaction.
Expire(S) ==
    /\ Up
    /\ sender["expirer"].at = "idle"
    /\ S # {} /\ \A i \in S : Due(i)
    /\ ask' = [i \in Asks |-> IF i \in S THEN [state |-> "expired",
                                               decision |-> "deny"] ELSE ask[i]]
    /\ ExpireRest(S, command)
    /\ UNCHANGED <<event, over, worker, told>> /\ Live

\* The process dies between that transaction and the loop.
ExpireCut(S) ==
    /\ Up
    /\ sender["expirer"].at = "idle"
    /\ S # {} /\ \A i \in S : Due(i)
    /\ ask' = [i \in Asks |-> IF i \in S THEN [state |-> "expired",
                                               decision |-> "deny"] ELSE ask[i]]
    /\ UNCHANGED <<event, command, prompt, over>>
    /\ Die

Expired(ok) ==
    /\ Outcome("expirer", ok)
    /\ ExpireRest(left, Marked(sender["expirer"].ask, "expiry", ok))
    /\ Ended("expirer") /\ UNCHANGED <<ask, event, over, told>> /\ Live

-----------------------------------------------------------------------------
(* The end of the task *)

\* Done, a confirmed cancel or a failure: the task becomes terminal, then its
\* open interactions are closed (_close_task_interactions) and the run's
\* unsent commands failed.
TaskEnds(k) ==
    /\ phase # "down" /\ ~over
    /\ phase = "starting" => \A i \in Asks : event[i] # "logged"
    /\ over' = TRUE
    /\ UNCHANGED event
    /\ LET open == {i \in Asks : ask[i].state \in {"pending", "resolving"}}
       IN IF k = 2
          THEN /\ ask' = [i \in Asks |-> IF i \in open
                                         THEN [ask[i] EXCEPT !.state = "cancelled"]
                                         ELSE ask[i]]
               /\ command' = Revoked(Asks)
               /\ prompt' = Withdrawn(open)
               /\ UNCHANGED <<sender, left, worker, told>> /\ Live
          ELSE k = 1 /\ UNCHANGED <<ask, command, prompt>> /\ Die

-----------------------------------------------------------------------------
(* Restart *)

Crash == phase # "down" /\ Die /\ UNCHANGED ledger

\* expire_pending_permissions and what follows it for each of them.
Invalid(i) == i \in Permissions /\ ask[i].state \in {"pending", "resolving"}

\* GanderGateway.start before it replays events: sending commands are pending
\* again; open permissions expire, revoked, withdrawn and their worker to be
\* told; an ask whose reply was sent is resolved; one that is resolving with
\* no reply on its way is pending again.
Recover ==
    /\ phase = "down"
    /\ phase' = "starting"
    /\ LET reset(i, m) == IF command[i][m].state = "sending"
                          THEN [command[i][m] EXCEPT !.state = "pending"]
                          ELSE command[i][m]
           sent(i) == \E m \in Replies : command[i][m].state = "sent"
           waits(i) == \E m \in Replies : Unsent(i, m)
       IN /\ command' = [i \in Asks |-> [m \in Replies |->
                IF ~Invalid(i) THEN reset(i, m)
                ELSE IF m = "expiry" THEN [state |-> "pending", decision |-> "deny"]
                ELSE IF Unsent(i, m) THEN [command[i][m] EXCEPT !.state = "failed"]
                ELSE command[i][m]]]
          /\ ask' = [i \in Asks |->
                IF Invalid(i) THEN [state |-> "expired", decision |-> "deny"]
                ELSE IF ask[i].state # "resolving" THEN ask[i]
                ELSE IF sent(i) THEN [ask[i] EXCEPT !.state = "resolved"]
                ELSE IF waits(i) THEN ask[i]
                ELSE [state |-> "pending", decision |-> "none"]]
          /\ prompt' = Withdrawn({i \in Asks : Invalid(i)
                                   \/ (ask[i].state = "resolving" /\ sent(i))})
    /\ UNCHANGED <<event, over, sender, left, worker, told, crashes>>

\* The process dies again after expire_pending_permissions.
RecoverCut ==
    /\ phase = "down"
    /\ ask' = [i \in Asks |-> IF Invalid(i) THEN [state |-> "expired",
                                                 decision |-> "deny"] ELSE ask[i]]
    /\ UNCHANGED <<event, command, prompt, over>>
    /\ Die

\* _reduce_event with recovering set: the ask is looked up by its fingerprint
\* or made, and goes to the user whatever its route and state.
RecoverEvent(i) ==
    /\ phase = "starting" /\ event[i] = "logged"
    /\ ask' = IF ask[i].state = "absent"
              THEN [ask EXCEPT ![i] = [state |-> "pending", decision |-> "none"]]
              ELSE ask
    /\ prompt' = Prompted(i)
    /\ event' = [event EXCEPT ![i] = "processed"]
    /\ UNCHANGED <<command, over, sender, left, worker, told>> /\ Live

\* The task is dispatched again; the run it resumes is another process.
Started ==
    /\ phase = "starting"
    /\ \A i \in Asks : event[i] # "logged"
    /\ phase' = "opening"
    /\ UNCHANGED <<ledger, sender, left, worker, told, crashes>>

\* The resumed run is registered and the outbox is replayed.
Open ==
    /\ phase = "opening" /\ ~over
    /\ phase' = "replaying"
    /\ UNCHANGED <<ledger, sender, left, worker, told, crashes>>

\* _replay_provider_commands: the next unsent command.
Replay(i, m) ==
    /\ phase = "replaying" /\ sender["replayer"].at = "idle"
    /\ command[i][m].state = "pending"
    /\ command' = [command EXCEPT ![i][m].state = "sending"]
    /\ sender' = [sender EXCEPT !["replayer"] = Sending(i, m)]
    /\ UNCHANGED <<ask, event, prompt, over, left, worker, told>> /\ Live

\* An accepted one resolves its interaction; a refused one is only marked.
Replayed(ok) ==
    /\ Outcome("replayer", ok)
    /\ LET i == sender["replayer"].ask
       IN /\ command' = Marked(i, sender["replayer"].reply, ok)
          /\ ask' = IF ok THEN Finished(i, TRUE) ELSE ask
          /\ prompt' = IF ok /\ ask[i].state = "resolving" THEN Withdrawn({i})
                                                           ELSE prompt
    /\ sender' = [sender EXCEPT !["replayer"] = Idle]
    /\ Ended("replayer") /\ UNCHANGED <<event, over, left, told>> /\ Live

Serve ==
    /\ phase = "replaying" /\ sender["replayer"].at = "idle"
    /\ \A i \in Asks, m \in Replies : command[i][m].state # "pending"
    /\ phase' = "serving"
    /\ UNCHANGED <<ledger, sender, left, worker, told, crashes>>

-----------------------------------------------------------------------------
(* Specification *)

Resolve ==
    \/ \E i \in Asks, m \in Turns, k \in 1..3 : Reply(i, m, k)
    \/ \E s \in Senders : Write(s)
    \/ \E s \in Senders : Take(s)
    \/ \E ok \in BOOLEAN, k \in 1..3 : Answered(ok, k)
    \/ \E ok \in BOOLEAN, k \in 1..4 : Reduced(ok, k)
    \/ \E ok \in BOOLEAN : Expired(ok)

Next ==
    \/ \E i \in Asks : Raise(i)
    \/ \E i \in Asks : Dropped(i)
    \/ \E i \in Asks, k \in 1..4 : \E route \in Routes[i] : Ingest(i, route, k)
    \/ \E i \in Asks : Plan(i)
    \/ \E i \in Asks : PlanFails(i)
    \/ Resolve
    \/ \E S \in SUBSET Permissions : Expire(S)
    \/ \E S \in SUBSET Permissions : ExpireCut(S)
    \/ \E k \in 1..2 : TaskEnds(k)
    \/ Crash
    \/ Recover
    \/ RecoverCut
    \/ \E i \in Asks : RecoverEvent(i)
    \/ Started
    \/ Open
    \/ \E i \in Asks, m \in Replies : Replay(i, m)
    \/ \E ok \in BOOLEAN : Replayed(ok)
    \/ Serve

Spec == Init /\ [][Next]_vars

\* The event loop runs what can run, and every send has a timeout.
Fairness ==
    /\ \A s \in Senders : WF_vars(Write(s)) /\ WF_vars(Take(s))
    /\ WF_vars(\E ok \in BOOLEAN : Answered(ok, 3))
    /\ WF_vars(\E ok \in BOOLEAN : Reduced(ok, 4))
    /\ WF_vars(\E ok \in BOOLEAN : Expired(ok))

FairSpec == Spec /\ Fairness
-----------------------------------------------------------------------------
(* Properties *)

\* What the ledger records as the answer is the reply the worker was handed
\* last, and the one it was handed first too, whatever timeouts, second
\* attempts, replays and restarts lay between, unless a reply to it was cut off
\* between its write and the removal of the request: that one has reached the
\* worker, is recorded as failed, and its replacement is written and accepted
\* too (CodexRun.respond, codex.py:993-1007).
AnsweredAsRecorded ==
    \A i \in Asks : ask[i].state = "resolved" =>
        /\ given[i] = ask[i].decision
        /\ heard[i] = given[i] \/ i \in cut

\* The user is not asked what is settled: the prompt of a closed interaction is
\* withdrawn with it, except for one the expiry loop has still to visit while it
\* awaits another worker's send.  A crash may leave one behind.
NoStalePrompt ==
    crashes = 0 => \A i \in Asks \ left : ask[i].state \in Closed => prompt[i] # "open"

\* Nobody waits for nothing: while the task runs, an interaction that was
\* reduced and is still open to an answer has a prompt, or the user was told
\* that a reply failed.  The policy's own answers are the exception of the code:
\* one the worker did not take is left pending and nobody is asked.
PendingIsAsked ==
    crashes = 0 => \A i \in Asks :
        (/\ ask[i].state = "pending" /\ event[i] = "processed"
         /\ command[i]["policy"].state = "absent")
            => \/ prompt[i] = "open"
               \/ \E m \in Turns : told[m] = "refused" /\ command[i][m].state = "failed"

\* What the user is asked and what waits for an answer agree, whichever of a
\* reply, a cancel, an expiry and a promotion came first
\* (_resolve_interaction, gateway.py:3733-3792; _deliver_interaction, 4533).
PromptsFit == NoStalePrompt /\ PendingIsAsked

\* A closed interaction keeps its state and its decision for ever: no late
\* answer, promotion, replay or recovery reopens or rewrites it.
SettledStays ==
    [][\A i \in Asks : ask[i].state \in Closed => ask'[i] = ask[i]]_vars

\* An answer on its way arrives or fails: no interaction stays resolving in a
\* process that does not die.
ResolutionEnds ==
    \A i \in Asks :
        ask[i].state = "resolving" ~> (ask[i].state # "resolving" \/ crashes > 0)
=============================================================================
