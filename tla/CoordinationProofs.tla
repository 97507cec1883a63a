------------------------- MODULE CoordinationProofs -------------------------
(***************************************************************************)
(* Proofs about Coordination: its types, the bound on the turns a thread   *)
(* of the coordinator is used for, and that no turn of the user is lost or *)
(* acted on twice; and about Plans, what the gateway makes of the plan     *)
(* that comes out: an update reaches the worker it was meant for, once.    *)
(*                                                                         *)
(* The second argument follows an update.  It is in an instruction, once,  *)
(* or it is a command of the outbox, and one that waits there is in the    *)
(* hands of a run.  It is both only if its plan was carried out twice, and *)
(* a plan is carried out twice only when the process died in the middle of *)
(* it: each death cuts one request.                                        *)
(***************************************************************************)
EXTENDS Coordination, PlanPromise, SequenceTheorems, FiniteSetTheorems,
        WellFoundedInduction, TLAPS

-----------------------------------------------------------------------------
(* The inductive invariant *)

\* A thread that a call may still use has a turn left
\* (max_turns_per_thread, codex_coordinator.py).
RoomLeft ==
    runner.pc \in {"resume", "archive", "turn", "wait", "interrupt", "settle"} =>
        session.count < MaxTurns

\* The counters, and the request of a runner that holds a job.
TypesToo ==
    /\ threads \in Nat /\ calls \in 0..MaxCalls /\ deaths \in Nat /\ crashes \in Nat
    /\ runner.pc = "apply" => runner.request \in Turns
    /\ job.state # "none" => job.request \in Turns
    /\ RoomLeft

\* What a job still has to do was asked for by the user, and was never done.
JobIsOpen ==
    /\ finished \subseteq receipts
    /\ job.turns \subseteq receipts
    /\ Unfinished => job.turns \cap finished = {}

Busy == Working \cup {"lock", "apply"}

\* The turns a runner works on are those of the job, as long as the job is
\* still its own; while a plan is applied it is.
RunnerHasJob ==
    /\ runner.pc \in Busy /\ Current => runner.turns = job.turns
    /\ runner.pc = "apply" => Current

\* Until the process dies, what was applied belongs to finished jobs.
AppliedIsDone == crashes = 0 => \A a \in applied : a.turns \subseteq finished

Safe == JobIsOpen /\ RunnerHasJob /\ AppliedIsDone /\ TurnsHandled

IInv == TypeOK /\ TypesToo /\ Safe
-----------------------------------------------------------------------------
(* Nothing is lost and nothing is done twice *)

\* What the ledger says of the user's turns, and what became of them.
Books == <<receipts, job, finished, applied, crashes>>

\* A step that leaves the books alone, and the runner with its job or without
\* one, keeps them right.
LEMMA BooksKept ==
    ASSUME Safe, UNCHANGED Books,
           \/ UNCHANGED runner
           \/ runner'.pc \notin Busy
           \/ /\ runner.pc \in Busy
              /\ runner'.request = runner.request /\ runner'.turns = runner.turns
              /\ runner'.pc = "apply" => Current
    PROVE  Safe'
<1> USE DEF Safe, Books
<1>1. JobIsOpen' BY DEF JobIsOpen, Unfinished
<1>2. AppliedIsDone' BY DEF AppliedIsDone
<1>3. TurnsHandled' BY DEF TurnsHandled, TurnsKept, AppliedOnce, Unfinished
<1>4. RunnerHasJob' BY DEF RunnerHasJob, Current, Busy
<1> QED BY <1>1, <1>2, <1>3, <1>4

\* A job that is finished takes its turns with it.
LEMMA FinishKeeps ==
    ASSUME TypeOK, Safe, NEW state \in {"completed", "failed"}, NEW tell \in BOOLEAN,
           Finish(state, tell), runner' = Idle("claim"),
           UNCHANGED <<receipts, applied, crashes>>
    PROVE  Safe'
<1> USE DEF Safe
<1>0. /\ runner'.pc \notin Busy /\ runner'.pc = "claim"
  BY DEF Idle, Busy, Working
<1>1. CASE ~Current
  BY <1>1, <1>0, BooksKept DEF Finish, Books
<1>2. CASE Current
  <2>1. /\ job'.state = state /\ job'.turns = job.turns
        /\ finished' = finished \cup job.turns
    BY <1>2 DEF Finish, Current, TypeOK
  <2>2. ~Unfinished' BY <2>1 DEF Unfinished
  <2>3. JobIsOpen' BY <2>1, <2>2 DEF JobIsOpen
  <2>4. RunnerHasJob' BY <1>0 DEF RunnerHasJob, Busy
  <2>5. AppliedIsDone' BY <2>1 DEF AppliedIsDone
  <2>6. TurnsHandled' BY <2>1 DEF TurnsHandled, TurnsKept, AppliedOnce
  <2> QED BY <2>3, <2>4, <2>5, <2>6
<1> QED BY <1>1, <1>2

\* The turns of a new request join those of one that was not finished.
LEMMA SubmitSafe == ASSUME IInv, NEW t \in Turns, Submit(t) PROVE Safe'
<1> USE DEF IInv, Safe
<1>1. /\ t \notin receipts /\ receipts' = receipts \cup {t}
      /\ job' = [request |-> t, turns |-> Merged(t), state |-> "pending"]
      /\ UNCHANGED <<finished, applied, crashes>>
  BY DEF Submit, bounds
<1>2. /\ job'.turns = Merged(t) /\ job'.state = "pending"
      /\ Unfinished' /\ ~Current'
  BY <1>1 DEF Unfinished, Current
<1>3. JobIsOpen' BY <1>1, <1>2 DEF JobIsOpen, Merged
<1>4. RunnerHasJob'
  <2>1. runner'.pc # "apply"
    BY DEF Submit, Scheduled, Idle
  <2> QED BY <2>1, <1>2 DEF RunnerHasJob
<1>5. AppliedIsDone' BY <1>1 DEF AppliedIsDone
<1>6. TurnsHandled'
  BY <1>1, <1>2 DEF TurnsHandled, TurnsKept, AppliedOnce, Merged
<1> QED BY <1>3, <1>4, <1>5, <1>6

\* The job that is claimed is the one that is worked on.
LEMMA ClaimSafe == ASSUME IInv, Claim PROVE Safe'
<1> USE DEF IInv, Safe
<1>1. CASE job.state # "pending"
  <2>1. UNCHANGED Books /\ runner' = Idle("off")
    BY <1>1 DEF Claim, Books, bounds
  <2> QED BY <2>1, BooksKept DEF Idle, Busy, Working
<1>2. CASE job.state = "pending"
  <2>1. /\ job' = [job EXCEPT !.state = "coordinating"]
        /\ runner' = [Idle("client") EXCEPT !.request = job.request,
                                            !.turns = job.turns]
        /\ UNCHANGED <<receipts, finished, applied, crashes>>
    BY <1>2 DEF Claim, bounds
  <2>2. /\ job'.turns = job.turns /\ job'.state = "coordinating"
        /\ runner'.turns = job.turns /\ runner'.pc = "client"
    BY <2>1 DEF Idle, TypeOK
  <2>3. Unfinished /\ Unfinished' BY <1>2, <2>2 DEF Unfinished
  <2>4. JobIsOpen' BY <2>1, <2>2, <2>3 DEF JobIsOpen
  <2>5. RunnerHasJob' BY <2>2 DEF RunnerHasJob
  <2>6. AppliedIsDone' BY <2>1 DEF AppliedIsDone
  <2>7. TurnsHandled'
    BY <2>1, <2>2, <2>3 DEF TurnsHandled, TurnsKept, AppliedOnce
  <2> QED BY <2>4, <2>5, <2>6, <2>7
<1> QED BY <1>1, <1>2

\* The plan that is applied is the one of the job that is finished with it:
\* none of its turns was acted on before.
LEMMA ApplySafe == ASSUME IInv, Apply PROVE Safe'
<1> USE DEF IInv, Safe
<1>0. /\ runner.pc = "apply" /\ runner' = Idle("claim")
      /\ UNCHANGED <<receipts, crashes>>
  BY DEF Apply, bounds
<1>1. CASE Finish("completed", TRUE) /\ UNCHANGED applied
  BY <1>0, <1>1, FinishKeeps
<1> DEFINE new == [request |-> runner.request, turns |-> runner.turns,
                   plan |-> runner.plan]
<1>2. ASSUME NEW state \in {"completed", "failed"}, NEW tell \in BOOLEAN,
             Finish(state, tell), applied' = applied \cup {new}
      PROVE  Safe'
  <2>1. Current /\ runner.turns = job.turns
    BY <1>0 DEF RunnerHasJob, Busy
  <2>2. /\ job'.state = state /\ job'.turns = job.turns
        /\ finished' = finished \cup job.turns
    BY <2>1, <1>2 DEF Finish, Current, TypeOK
  <2>3. ~Unfinished' /\ Unfinished
    BY <2>1, <2>2 DEF Unfinished, Current
  <2>4. new.turns = job.turns BY <2>1
  <2> HIDE DEF new
  <2>5. JobIsOpen' BY <1>0, <2>2, <2>3 DEF JobIsOpen
  <2>6. RunnerHasJob' BY <1>0 DEF RunnerHasJob, Busy, Idle, Working
  <2>7. AppliedIsDone' BY <1>0, <1>2, <2>2, <2>4 DEF AppliedIsDone
  <2>8. TurnsKept' BY <1>0, <2>2 DEF TurnsHandled, TurnsKept
  <2>9. AppliedOnce'
    <3>1. SUFFICES ASSUME crashes = 0, NEW a \in applied', NEW b \in applied', a # b
                   PROVE  a.turns \cap b.turns = {}
      BY <1>0 DEF AppliedOnce
    <3>2. ASSUME NEW c \in applied PROVE c.turns \cap new.turns = {}
      BY <3>1, <2>3, <2>4 DEF AppliedIsDone, JobIsOpen
    <3> QED BY <3>1, <3>2, <1>2 DEF TurnsHandled, AppliedOnce
  <2> QED BY <2>5, <2>6, <2>7, <2>8, <2>9 DEF TurnsHandled
<1>3. \/ /\ Finish("completed", TRUE) /\ UNCHANGED applied
      \/ Finish("completed", FALSE) /\ applied' = applied \cup {new}
      \/ Finish("failed", TRUE) /\ applied' = applied \cup {new}
  BY DEF Apply
<1> QED BY <1>1, <1>2, <1>3

\* A call that fails finishes its job, and leaves the receipts alone.
LEMMA FailedSafe ==
    ASSUME TypeOK, Safe, Failed, UNCHANGED <<receipts, applied, crashes>>
    PROVE  Safe'
BY FinishKeeps DEF Failed

\* What the ledger says survives the process.
LEMMA CrashSafe == ASSUME IInv, Crash PROVE Safe'
<1> USE DEF IInv, Safe
<1>1. /\ crashes' # 0 /\ runner' = Idle("down") /\ UNCHANGED <<receipts, job, finished>>
  BY DEF Crash, TypesToo, ledger
<1>2. JobIsOpen' BY <1>1 DEF JobIsOpen, Unfinished
<1>3. RunnerHasJob' BY <1>1 DEF RunnerHasJob, Idle, Busy, Working
<1>4. AppliedIsDone' BY <1>1 DEF AppliedIsDone
<1>5. TurnsHandled' BY <1>1 DEF TurnsHandled, TurnsKept, AppliedOnce, Unfinished
<1> QED BY <1>2, <1>3, <1>4, <1>5

\* Recovery puts a job back to pending and changes nothing else.
LEMMA RestartSafe == ASSUME IInv, Restart PROVE Safe'
<1> USE DEF IInv, Safe
<1>1. /\ UNCHANGED <<receipts, finished, applied, crashes>>
      /\ runner'.pc \notin Busy
      /\ job'.turns = job.turns
      /\ Unfinished' <=> Unfinished
  BY DEF Restart, bounds, Idle, Busy, Working, Unfinished, TypeOK
<1>2. JobIsOpen' BY <1>1 DEF JobIsOpen
<1>3. RunnerHasJob' BY <1>1 DEF RunnerHasJob, Busy
<1>4. AppliedIsDone' BY <1>1 DEF AppliedIsDone
<1>5. TurnsHandled' BY <1>1 DEF TurnsHandled, TurnsKept, AppliedOnce
<1> QED BY <1>2, <1>3, <1>4, <1>5

\* A call of the coordinator goes on with the runner's job, or fails.
LEMMA CallSafe ==
    ASSUME IInv,
           Connect \/ Resume \/ StartThread \/ Archive \/ Started \/ Done
           \/ TurnTimeout \/ Interrupt \/ Settle \/ GatewayTimeout \/ TakeOwner
    PROVE  Safe'
<1> DEFINE goes ==
      /\ UNCHANGED <<job, finished>>
      /\ \/ runner'.pc \notin Busy
         \/ /\ runner.pc \in Busy
            /\ runner'.request = runner.request /\ runner'.turns = runner.turns
            /\ runner'.pc = "apply" => Current
<1> USE DEF IInv, TypeOK
<1>1. UNCHANGED <<receipts, applied, crashes>>
  BY DEF Connect, Resume, StartThread, Archive, Started, Done, TurnTimeout, Interrupt,
         Settle, GatewayTimeout, TakeOwner, ledger, bounds
<1>2. ASSUME Failed \/ goes PROVE Safe'
  BY <1>1, <1>2, FailedSafe, BooksKept DEF Books
<1> USE DEF Busy, Working, At, To, Idle
<1>3. CASE Connect BY <1>2, <1>3 DEF Connect
<1>4. CASE Resume BY <1>2, <1>4 DEF Resume, ledger
<1>5. CASE StartThread BY <1>2, <1>5 DEF StartThread
<1>6. CASE Archive BY <1>2, <1>6 DEF Archive, ledger
<1>7. CASE Started BY <1>2, <1>7 DEF Started
<1>8. CASE Done BY <1>2, <1>8 DEF Done
<1>9. CASE TurnTimeout BY <1>2, <1>9 DEF TurnTimeout, ledger
<1>10. CASE Interrupt BY <1>2, <1>10 DEF Interrupt
<1>11. CASE Settle BY <1>2, <1>11 DEF Settle
<1>12. CASE GatewayTimeout BY <1>2, <1>12 DEF GatewayTimeout
<1>13. CASE TakeOwner BY <1>2, <1>13 DEF TakeOwner, ledger
<1> QED
  BY <1>3, <1>4, <1>5, <1>6, <1>7, <1>8, <1>9, <1>10, <1>11, <1>12, <1>13

\* Nobody else touches the books.
LEMMA OthersSafe ==
    ASSUME IInv,
           \/ UNCHANGED vars \/ Accept \/ ServerDies \/ Watch
           \/ \E t \in Turns : Repeat(t) \/ Return(t)
           \/ \E r \in running, ok \in BOOLEAN : EndTurn(r, ok)
    PROVE  Safe'
<1>1. UNCHANGED Books /\ UNCHANGED runner
  BY DEF vars, Accept, ServerDies, Watch, Repeat, Return, EndTurn, Books, ledger, bounds
<1> QED BY <1>1, BooksKept DEF IInv

\* Every step keeps the parts of the invariant.
LEMMA NextSafe == ASSUME IInv, [Next]_vars PROVE Safe'
BY SubmitSafe, ClaimSafe, ApplySafe, CrashSafe, RestartSafe, CallSafe, OthersSafe
   DEF Next, RunnerStep
-----------------------------------------------------------------------------
(* Types *)

\* What a step may do to one part of the state, when it is not left alone.
LedgerTypes ==
    /\ receipts \subseteq Turns /\ told \subseteq Turns /\ finished \subseteq Turns
    /\ job \in [request : Turns \cup {NoTurn}, turns : Plans, state : JobStates]
    /\ waiter \in [Turns -> {"none", "waiting", "woken", "returned"}]
    /\ applied \subseteq [request : Turns, turns : Plans, plan : Plans]
    /\ job.state # "none" => job.request \in Turns

RunnerTypes ==
    /\ runner \in [pc : Working \cup {"down", "off", "claim", "lock", "apply"},
                   request : Turns \cup {NoTurn}, turns : Plans, plan : Plans,
                   cut : BOOLEAN]
    /\ runner.pc = "apply" => runner.request \in Turns

CallTypes ==
    /\ session \in [thread : Nat, count : 0..MaxTurns]
    /\ client \in {"none", "up", "dead"} /\ loaded \in Nat
    /\ call \in [thread : Nat, turn : {0} \cup Calls, reply : {0} \cup Calls,
                 plan : Plans, done : {"no", "completed", "failed", "lost"}]
    /\ call.thread # 0 => runner.pc \in {"turn", "wait", "interrupt", "settle"}
    /\ RoomLeft

ServerTypes ==
    /\ running \subseteq [thread : Nat, turn : Calls, plan : Plans]
    /\ inbox \in Seq(Message)

CounterTypes ==
    threads \in Nat /\ calls \in 0..MaxCalls /\ deaths \in Nat /\ crashes \in Nat

\* The types in five parts, one for each part of the state.
LEMMA TypeParts ==
    TypeOK /\ TypesToo <=> /\ LedgerTypes /\ RunnerTypes /\ CallTypes
                           /\ ServerTypes /\ CounterTypes
BY DEF TypeOK, TypesToo, LedgerTypes, RunnerTypes, CallTypes, ServerTypes, CounterTypes

\* A runner that starts afresh.
LEMMA IdleTypes ==
    ASSUME NEW pc \in {"down", "off", "claim", "client"}
    PROVE  /\ Idle(pc) \in [pc : Working \cup {"down", "off", "claim", "lock", "apply"},
                            request : Turns \cup {NoTurn}, turns : Plans,
                            plan : Plans, cut : BOOLEAN]
           /\ Idle(pc).pc = pc
BY DEF Idle, Plans, Working

\* A call that is not registered, or just registered.
LEMMA NoCallTypes ==
    /\ NoCall \in [thread : Nat, turn : {0} \cup Calls, reply : {0} \cup Calls,
                   plan : Plans, done : {"no", "completed", "failed", "lost"}]
    /\ NoCall.thread = 0
    /\ \A n \in Nat : CallOn(n) \in [thread : Nat, turn : {0} \cup Calls,
                                     reply : {0} \cup Calls, plan : Plans,
                                     done : {"no", "completed", "failed", "lost"}]
BY DEF NoCall, CallOn, Plans

\* A signalled waiter is a waiter.
LEMMA SignalTypes ==
    ASSUME waiter \in [Turns -> {"none", "waiting", "woken", "returned"}], NEW r
    PROVE  Signalled(r) \in [Turns -> {"none", "waiting", "woken", "returned"}]
BY DEF Signalled

\* A finished job is a job.
LEMMA FinishTypes ==
    ASSUME LedgerTypes, NEW state \in {"completed", "failed"}, NEW tell \in BOOLEAN,
           Finish(state, tell), UNCHANGED receipts,
           applied' \subseteq [request : Turns, turns : Plans, plan : Plans]
    PROVE  LedgerTypes'
<1>1. CASE ~Current
  BY <1>1 DEF LedgerTypes, Finish
<1>2. CASE Current
  <2>1. waiter' \in [Turns -> {"none", "waiting", "woken", "returned"}]
    BY <1>2, SignalTypes DEF LedgerTypes, Finish
  <2>2. /\ job' \in [request : Turns \cup {NoTurn}, turns : Plans, state : JobStates]
        /\ job'.request = job.request /\ job.request \in Turns
    BY <1>2 DEF LedgerTypes, Finish, Current, JobStates
  <2>3. told' \subseteq Turns /\ finished' \subseteq Turns
    BY <1>2, <2>2 DEF LedgerTypes, Finish, Plans
  <2> QED BY <2>1, <2>2, <2>3 DEF LedgerTypes
<1> QED BY <1>1, <1>2

\* The ledger after each step.
LEMMA LedgerKept == ASSUME IInv, [Next]_vars PROVE LedgerTypes'
<1>0. LedgerTypes /\ RunnerTypes BY TypeParts DEF IInv
<1>1. CASE UNCHANGED <<receipts, told, finished, job, waiter, applied>>
  BY <1>0, <1>1 DEF LedgerTypes
<1>2. ASSUME NEW t \in Turns, Submit(t) PROVE LedgerTypes'
  <2>1. waiter' \in [Turns -> {"none", "waiting", "woken", "returned"}]
    BY <1>0, <1>2, SignalTypes DEF LedgerTypes, Submit
  <2>2. Merged(t) \in Plans BY <1>0 DEF Merged, LedgerTypes, Plans
  <2>3. /\ job' \in [request : Turns \cup {NoTurn}, turns : Plans, state : JobStates]
        /\ job'.request \in Turns
    BY <1>2, <2>2 DEF Submit, JobStates
  <2> QED BY <1>0, <1>2, <2>1, <2>3 DEF LedgerTypes, Submit
<1>3. ASSUME NEW t \in Turns, Repeat(t) \/ Return(t) PROVE LedgerTypes'
  BY <1>0, <1>3 DEF LedgerTypes, Repeat, Return, ledger
<1>4. CASE Claim
  BY <1>0, <1>4 DEF LedgerTypes, Claim, JobStates
<1>5. CASE Apply
  <2>1. [request |-> runner.request, turns |-> runner.turns, plan |-> runner.plan]
            \in [request : Turns, turns : Plans, plan : Plans]
    BY <1>0, <1>5 DEF RunnerTypes, Apply
  <2>2. ASSUME NEW state \in {"completed", "failed"}, NEW tell \in BOOLEAN,
               Finish(state, tell), UNCHANGED receipts,
               applied' \subseteq [request : Turns, turns : Plans, plan : Plans]
        PROVE  LedgerTypes'
    BY <1>0, <2>2, FinishTypes
  <2>3. applied' \subseteq [request : Turns, turns : Plans, plan : Plans]
    BY <1>0, <1>5, <2>1 DEF Apply, LedgerTypes
  <2> QED BY <1>5, <2>2, <2>3 DEF Apply
<1>6. ASSUME Failed, UNCHANGED <<receipts, applied>> PROVE LedgerTypes'
  BY <1>0, <1>6, FinishTypes DEF Failed, LedgerTypes
<1>7. CASE \/ Connect \/ Resume \/ StartThread \/ Archive \/ Started \/ Done
           \/ TurnTimeout \/ Interrupt \/ Settle \/ GatewayTimeout \/ TakeOwner
  BY <1>1, <1>6, <1>7
  DEF Connect, Resume, StartThread, Archive, Started, Done, TurnTimeout, Interrupt,
      Settle, GatewayTimeout, TakeOwner, ledger
<1>8. CASE Accept \/ ServerDies \/ Watch \/ UNCHANGED vars
  BY <1>1, <1>8 DEF Accept, ServerDies, Watch, vars, ledger
<1>9. CASE \E r \in running, ok \in BOOLEAN : EndTurn(r, ok)
  BY <1>1, <1>9 DEF EndTurn, ledger
<1>10. CASE Crash
  <2>1. [request |-> runner.request, turns |-> runner.turns, plan |-> runner.plan]
            \in [request : Turns, turns : Plans, plan : Plans]
        \/ runner.pc # "apply"
    BY <1>0 DEF RunnerTypes
  <2> QED BY <1>0, <1>10, <2>1 DEF LedgerTypes, Crash, ledger
<1>11. CASE Restart
  BY <1>0, <1>11 DEF LedgerTypes, Restart, JobStates
<1> QED
  BY <1>2, <1>3, <1>4, <1>5, <1>7, <1>8, <1>9, <1>10, <1>11 DEF Next, RunnerStep

\* The runner after each step.
LEMMA RunnerKept == ASSUME IInv, [Next]_vars PROVE RunnerTypes'
<1>0. LedgerTypes /\ RunnerTypes /\ CallTypes BY TypeParts DEF IInv
<1> USE DEF RunnerTypes
<1>1. CASE UNCHANGED runner
  BY <1>0, <1>1
<1>2. ASSUME NEW pc \in {"down", "off", "claim"}, runner' = Idle(pc)
      PROVE  RunnerTypes'
  BY <1>2, IdleTypes
<1>3. ASSUME NEW pc \in Working \cup {"lock"}, runner' = [runner EXCEPT !.pc = pc]
      PROVE  RunnerTypes'
  BY <1>0, <1>3 DEF Working
<1>4. CASE Claim
  <2>1. CASE job.state = "pending"
    <3>1. runner' = [Idle("client") EXCEPT !.request = job.request, !.turns = job.turns]
      BY <1>4, <2>1 DEF Claim
    <3>2. job.request \in Turns /\ job.turns \in Plans
      BY <1>0, <2>1 DEF LedgerTypes
    <3>3. Idle("client").pc = "client"
      BY IdleTypes
    <3>4. Idle("client") \in [pc : Working \cup {"down", "off", "claim", "lock", "apply"},
                             request : Turns \cup {NoTurn}, turns : Plans,
                             plan : Plans, cut : BOOLEAN]
      BY IdleTypes
    <3> QED BY <3>1, <3>2, <3>3, <3>4
  <2> QED BY <1>2, <1>4, <2>1 DEF Claim
<1>5. CASE TakeOwner
  <2>1. CASE Current
    <3>1. runner.request \in Turns BY <1>0, <2>1 DEF Current, LedgerTypes
    <3> QED BY <1>0, <1>5, <2>1, <3>1 DEF TakeOwner
  <2> QED BY <1>2, <1>5, <2>1 DEF TakeOwner
<1>6. CASE \E t \in Turns : Submit(t) \/ Repeat(t) \/ Return(t)
  BY <1>1, <1>2, <1>6 DEF Submit, Repeat, Return, Scheduled
<1>7. CASE Apply \/ Crash
  BY <1>2, <1>7 DEF Apply, Crash
<1>8. CASE Restart
  BY <1>2, <1>8 DEF Restart
<1>9. CASE Done
  BY <1>0, <1>2, <1>9 DEF Done, Failed, CallTypes
<1>10. CASE GatewayTimeout
  <2>1. CASE At("wait") /\ call.done = "no"
    BY <1>0, <1>10, <2>1 DEF GatewayTimeout, Working
  <2> QED BY <1>2, <1>10, <2>1 DEF GatewayTimeout, Failed
<1>11. CASE \/ Connect \/ Resume \/ StartThread \/ Archive \/ Started
            \/ TurnTimeout \/ Interrupt \/ Settle
  <2>1. {"client", "resume", "thread", "archive", "turn", "wait", "interrupt",
         "settle"} \subseteq Working
    BY DEF Working
  <2> QED
    BY <1>2, <1>3, <1>11, <2>1
    DEF Connect, Resume, StartThread, Archive, Started, TurnTimeout, Interrupt, Settle,
        Failed, To
<1>12. CASE Accept \/ ServerDies \/ Watch \/ UNCHANGED vars
  BY <1>1, <1>12 DEF Accept, ServerDies, Watch, vars
<1>13. CASE \E r \in running, ok \in BOOLEAN : EndTurn(r, ok)
  BY <1>1, <1>13 DEF EndTurn
<1> QED
  BY <1>4, <1>5, <1>6, <1>7, <1>8, <1>9, <1>10, <1>11, <1>12, <1>13
  DEF Next, RunnerStep

\* The coordinator's call after each step: a thread that a call may still use
\* has a turn left.
LEMMA CallKept == ASSUME IInv, [Next]_vars PROVE CallTypes'
<1>0. RunnerTypes /\ CallTypes /\ ServerTypes /\ CounterTypes BY TypeParts DEF IInv
<1>n. /\ MaxTurns \in Nat \ {0} /\ MaxCalls \in Nat /\ 0 \in 0..MaxTurns
      /\ MaxTurns \in 0..MaxTurns
  BY BoundsAssumption
<1> USE DEF CallTypes
<1>1. ASSUME UNCHANGED <<session, client, loaded, call>>,
             call.thread = 0 \/ runner'.pc \in {"turn", "wait", "interrupt", "settle"},
             \/ runner'.pc = runner.pc
             \/ runner'.pc \notin {"resume", "archive", "turn", "wait", "interrupt",
                                  "settle"}
      PROVE  CallTypes'
  BY <1>0, <1>1 DEF RoomLeft
<1>2. ASSUME Failed, client' \in {"none", "up", "dead"}, loaded' \in Nat,
             session' \in [thread : Nat, count : 0..MaxTurns]
      PROVE  CallTypes'
  BY <1>2, NoCallTypes, IdleTypes DEF Failed, RoomLeft
<1>3. ASSUME Retired(TRUE) \/ Retired(FALSE), Failed, UNCHANGED client
      PROVE  CallTypes'
  <2>1. loaded' \in Nat /\ session' \in [thread : Nat, count : 0..MaxTurns]
    BY <1>0, <1>n, <1>3 DEF Retired
  <2> QED BY <1>0, <1>2, <1>3, <2>1
<1>4. CASE \E t \in Turns : Submit(t) \/ Repeat(t) \/ Return(t)
  <2>1. /\ UNCHANGED <<session, client, loaded, call>>
        /\ \/ UNCHANGED runner
           \/ runner.pc = "off" /\ runner'.pc = "claim"
    BY <1>4, IdleTypes DEF Submit, Repeat, Return, Scheduled, ledger, coordinator
  <2> QED BY <1>0, <1>1, <2>1
<1>5. CASE Claim \/ TakeOwner \/ Apply
  <2>1. UNCHANGED <<session, client, loaded, call>>
    BY <1>5 DEF Claim, TakeOwner, Apply, ledger, coordinator
  <2>2. /\ runner.pc \in {"claim", "lock", "apply"}
        /\ runner'.pc \in {"off", "claim", "client", "apply"}
    BY <1>0, <1>5, IdleTypes, ZenonT(60) DEF Claim, TakeOwner, Apply, Idle, RunnerTypes
  <2> QED BY <1>0, <1>1, <2>1, <2>2
<1>6. CASE Connect
  <2>1. CASE Failed
    BY <1>0, <1>2, <1>6, <2>1 DEF Connect
  <2>2. CASE ~Failed
    <3>1. /\ client' \in {"none", "up", "dead"} /\ UNCHANGED <<loaded, session>>
          /\ runner.pc = "client"
          /\ \/ To("thread") /\ UNCHANGED call
             \/ session.count < MaxTurns /\ To("turn") /\ call' = CallOn(session.thread)
             \/ session.count < MaxTurns /\ To("resume") /\ UNCHANGED call
      <4>1. /\ runner.pc = "client" /\ UNCHANGED <<loaded, session>>
            /\ client' = IF client = "none" THEN "up" ELSE client
            /\ IF session.thread = 0 \/ session.count >= MaxTurns
               THEN To("thread") /\ UNCHANGED call
               ELSE IF loaded = session.thread
               THEN To("turn") /\ call' = CallOn(session.thread)
               ELSE To("resume") /\ UNCHANGED call
        BY <1>6, <2>2 DEF Connect, At
      <4>2. session.count < MaxTurns \/ session.count >= MaxTurns
        BY <1>0, <1>n
      <4> QED BY <1>0, <4>1, <4>2
    <3>2. CASE To("thread") /\ UNCHANGED call
      BY <1>0, <3>1, <3>2 DEF To, RunnerTypes, RoomLeft
    <3>3. CASE session.count < MaxTurns /\ To("turn") /\ call' = CallOn(session.thread)
      BY <1>0, <3>1, <3>3, NoCallTypes DEF To, RunnerTypes, RoomLeft
    <3>4. CASE session.count < MaxTurns /\ To("resume") /\ UNCHANGED call
      BY <1>0, <3>1, <3>4 DEF To, RunnerTypes, RoomLeft
    <3> QED BY <3>1, <3>2, <3>3, <3>4
  <2> QED BY <2>1, <2>2
<1>7. CASE Resume
  <2>1. /\ UNCHANGED <<session, client>> /\ runner.pc = "resume"
        /\ session.count < MaxTurns
    BY <1>0, <1>7 DEF Resume, ledger, At, RoomLeft
  <2>2. CASE To("turn") /\ loaded' = session.thread /\ call' = CallOn(session.thread)
    BY <1>0, <2>1, <2>2, NoCallTypes DEF To, RunnerTypes, RoomLeft
  <2>3. CASE To("thread") /\ UNCHANGED <<loaded, call>>
    BY <1>0, <2>1, <2>3 DEF To, RunnerTypes, RoomLeft
  <2> QED BY <1>7, <2>2, <2>3 DEF Resume
<1>8. CASE StartThread
  <2>1. CASE Failed /\ Discarded /\ UNCHANGED <<session, threads>>
    BY <1>0, <1>2, <2>1 DEF Discarded
  <2>2. CASE /\ threads' = threads + 1
             /\ session' = [thread |-> threads', count |-> 0]
             /\ loaded' = threads'
             /\ UNCHANGED client
             /\ \/ To("archive") /\ UNCHANGED call
                \/ To("turn") /\ call' = CallOn(threads')
    <3>1. /\ threads' \in Nat /\ loaded' \in Nat
          /\ session' \in [thread : Nat, count : 0..MaxTurns] /\ session'.count = 0
          /\ 0 < MaxTurns /\ runner.pc = "thread"
      BY <1>0, <1>n, <1>8, <2>2 DEF CounterTypes, StartThread, At
    <3>2. CASE To("archive") /\ UNCHANGED call
      BY <1>0, <2>2, <3>1, <3>2 DEF To, RunnerTypes, RoomLeft
    <3>3. CASE To("turn") /\ call' = CallOn(threads')
      BY <1>0, <2>2, <3>1, <3>3, NoCallTypes DEF To, RunnerTypes, RoomLeft
    <3> QED BY <2>2, <3>2, <3>3
  <2> QED BY <1>8, <2>1, <2>2 DEF StartThread
<1>9. CASE Archive
  BY <1>0, <1>9, NoCallTypes DEF Archive, At, To, RunnerTypes, RoomLeft, ledger
<1>10. CASE Started
  <2>1. CASE /\ call' = [call EXCEPT !.turn = call.reply] /\ To("wait")
             /\ UNCHANGED <<session, client, loaded>>
    BY <1>0, <1>10, <2>1 DEF Started, At, To, RunnerTypes, RoomLeft
  <2>2. CASE /\ Failed /\ Discarded
             /\ session' = IF call.done = "no"
                           THEN [session EXCEPT !.count = MaxTurns] ELSE session
    BY <1>0, <1>n, <1>2, <2>2 DEF Discarded
  <2> QED BY <1>10, <2>1, <2>2 DEF Started
<1>11. CASE Done
  <2>1. /\ runner.pc = "wait" /\ session.count < MaxTurns
        /\ UNCHANGED <<client, loaded>>
    BY <1>0, <1>11 DEF Done, At, RoomLeft
  <2>2. session' \in [thread : Nat, count : 0..MaxTurns]
    BY <1>0, <1>n, <1>11, <2>1 DEF Done
  <2>3. CASE Failed
    BY <1>0, <1>2, <2>1, <2>2, <2>3
  <2>4. CASE runner' = [runner EXCEPT !.pc = "lock", !.plan = call.plan] /\ call' = NoCall
    <3>1. runner'.pc = "lock" BY <1>0, <2>4 DEF RunnerTypes
    <3> QED BY <1>0, <2>1, <2>2, <2>4, <3>1, NoCallTypes DEF RoomLeft
  <2> QED BY <1>11, <2>3, <2>4 DEF Done
<1>12. CASE TurnTimeout
  BY <1>0, <1>1, <1>12 DEF TurnTimeout, At, To, RunnerTypes, RoomLeft, ledger, coordinator
<1>13. CASE Interrupt
  <2>1. CASE Failed /\ Retired(TRUE)
    BY <1>3, <1>13, <2>1 DEF Interrupt
  <2>2. CASE To("settle") /\ UNCHANGED <<session, loaded, call>>
    BY <1>0, <1>13, <2>2 DEF Interrupt, At, To, RunnerTypes, RoomLeft
  <2> QED BY <1>13, <2>1, <2>2 DEF Interrupt
<1>14. CASE Settle
  <2>1. Retired(TRUE) \/ Retired(FALSE) BY <1>14 DEF Settle, Retired
  <2> QED BY <1>3, <1>14, <2>1 DEF Settle
<1>15. CASE GatewayTimeout
  <2>1. CASE At("wait") /\ call.done = "no"
    BY <1>0, <1>15, <2>1 DEF GatewayTimeout, At, RunnerTypes, RoomLeft
  <2>2. CASE ~(At("wait") /\ call.done = "no")
    <3>1. Retired(TRUE) \/ Retired(FALSE)
      BY <1>15, <2>2 DEF GatewayTimeout, Retired
    <3> QED BY <1>3, <1>15, <2>2, <3>1 DEF GatewayTimeout
  <2> QED BY <2>1, <2>2
<1>16. CASE Accept
  <2>1. /\ calls + 1 \in Calls /\ call' = [call EXCEPT !.reply = calls + 1]
        /\ UNCHANGED <<session, client, loaded, runner>>
    BY <1>0, <1>n, <1>16 DEF Accept, CounterTypes, Calls, ledger
  <2> QED BY <1>0, <2>1 DEF RoomLeft
<1>17. CASE ServerDies
  BY <1>0, <1>17 DEF ServerDies, RoomLeft, ledger
<1>18. CASE Watch
  <2>1. Head(inbox) \in Message BY <1>0, <1>18 DEF Watch, ServerTypes
  <2>2. /\ call' \in [thread : Nat, turn : {0} \cup Calls, reply : {0} \cup Calls,
                      plan : Plans, done : {"no", "completed", "failed", "lost"}]
        /\ call'.thread = call.thread
    BY <1>0, <1>18, <2>1, ZenonT(60) DEF Watch, Message
  <2>3. client' \in {"none", "up", "dead"} /\ loaded' \in Nat
    BY <1>0, <1>18 DEF Watch
  <2> QED BY <1>0, <1>18, <2>2, <2>3 DEF Watch, RoomLeft, ledger
<1>19. CASE Crash \/ Restart
  <2>1. runner'.pc \in {"down", "claim", "off"}
    BY <1>19, IdleTypes DEF Crash, Restart
  <2>2. /\ UNCHANGED session
        /\ \/ UNCHANGED <<client, loaded>>
           \/ client' = "none" /\ loaded' = 0
        /\ call' = NoCall \/ (UNCHANGED call /\ runner.pc = "down")
    BY <1>19 DEF Crash, Restart, ledger, coordinator
  <2> QED BY <1>0, <2>1, <2>2, NoCallTypes DEF RoomLeft
<1>20. CASE \E r \in running, ok \in BOOLEAN : EndTurn(r, ok)
  BY <1>0, <1>20 DEF EndTurn, RoomLeft, ledger, coordinator
<1>21. CASE UNCHANGED vars
  BY <1>0, <1>21 DEF vars, RoomLeft, ledger, coordinator
<1> QED
  BY <1>4, <1>5, <1>6, <1>7, <1>8, <1>9, <1>10, <1>11, <1>12, <1>13, <1>14, <1>15,
     <1>16, <1>17, <1>18, <1>19, <1>20, <1>21
  DEF Next, RunnerStep

\* The app server's turns and the notifications after each step.
LEMMA ServerKept == ASSUME IInv, [Next]_vars PROVE ServerTypes'
<1>0. RunnerTypes /\ CallTypes /\ ServerTypes /\ CounterTypes BY TypeParts DEF IInv
<1>e. {} \subseteq [thread : Nat, turn : Calls, plan : Plans] /\ <<>> \in Seq(Message)
  OBVIOUS
<1>1. ASSUME UNCHANGED server \/ Discarded PROVE ServerTypes'
  BY <1>0, <1>e, <1>1 DEF ServerTypes, server, Discarded
<1>2. CASE Accept
  <2>1. calls + 1 \in Calls
    BY <1>0, <1>2, BoundsAssumption DEF Accept, CounterTypes, Calls
  <2>2. [thread |-> call.thread, turn |-> calls + 1, plan |-> runner.turns]
            \in [thread : Nat, turn : Calls, plan : Plans]
    BY <1>0, <2>1 DEF CallTypes, RunnerTypes
  <2> QED BY <1>0, <1>2, <2>2 DEF Accept, ServerTypes
<1>3. ASSUME NEW r \in running, NEW ok \in BOOLEAN, EndTurn(r, ok) PROVE ServerTypes'
  <2>1. [thread |-> r.thread, turn |-> r.turn, plan |-> r.plan, ok |-> ok] \in Message
    BY <1>0 DEF ServerTypes, Message
  <2> QED BY <1>0, <1>3, <2>1 DEF EndTurn, ServerTypes
<1>4. CASE ServerDies
  <2>1. Gone \in Message BY DEF Gone, Message, Plans
  <2> QED BY <1>0, <1>e, <1>4, <2>1 DEF ServerDies, ServerTypes
<1>5. CASE Watch
  BY <1>0, <1>5 DEF Watch, ServerTypes
<1>6. CASE Crash
  BY <1>e, <1>6 DEF Crash, ServerTypes
<1>7. CASE \/ Claim \/ TakeOwner \/ Apply \/ Connect \/ Resume \/ StartThread
           \/ Archive \/ Started \/ Done \/ TurnTimeout \/ Interrupt \/ Settle
           \/ GatewayTimeout \/ Restart \/ UNCHANGED vars
  BY <1>1, <1>7
  DEF Claim, TakeOwner, Apply, Connect, Resume, StartThread, Archive, Started, Done,
      TurnTimeout, Interrupt, Settle, GatewayTimeout, Restart, vars
<1>8. CASE \E t \in Turns : Submit(t) \/ Repeat(t) \/ Return(t)
  BY <1>1, <1>8 DEF Submit, Repeat, Return
<1> QED BY <1>2, <1>3, <1>4, <1>5, <1>6, <1>7, <1>8 DEF Next, RunnerStep

\* The counters only grow, and the calls up to their bound.
LEMMA CountersKept == ASSUME IInv, [Next]_vars PROVE CounterTypes'
<1>0. CounterTypes /\ MaxCalls \in Nat BY TypeParts, BoundsAssumption DEF IInv
<1>1. CASE UNCHANGED bounds
  BY <1>0, <1>1 DEF CounterTypes, bounds
<1>2. CASE StartThread
  BY <1>0, <1>2 DEF StartThread, CounterTypes
<1>3. CASE Accept
  BY <1>0, <1>3 DEF Accept, CounterTypes
<1>4. CASE ServerDies \/ Crash
  BY <1>0, <1>4 DEF ServerDies, Crash, CounterTypes
<1>5. CASE \/ Claim \/ TakeOwner \/ Apply \/ Connect \/ Resume
           \/ Archive \/ Started \/ Done \/ TurnTimeout \/ Interrupt \/ Settle
           \/ GatewayTimeout \/ Watch \/ Restart \/ UNCHANGED vars
  BY <1>1, <1>5
  DEF Claim, TakeOwner, Apply, Connect, Resume, Archive, Started, Done,
      TurnTimeout, Interrupt, Settle, GatewayTimeout, Watch, Restart, vars
<1>6. CASE \E t \in Turns : Submit(t) \/ Repeat(t) \/ Return(t)
  BY <1>1, <1>6 DEF Submit, Repeat, Return
<1>7. CASE \E r \in running, ok \in BOOLEAN : EndTurn(r, ok)
  BY <1>1, <1>7 DEF EndTurn
<1> QED BY <1>2, <1>3, <1>4, <1>5, <1>6, <1>7 DEF Next, RunnerStep

-----------------------------------------------------------------------------
(* The theorems *)

\* The initial state satisfies the invariant.
LEMMA InitHolds == Init => IInv
<1> SUFFICES ASSUME Init PROVE IInv OBVIOUS
<1>1. LedgerTypes
  BY DEF Init, LedgerTypes, NoJob, Plans, JobStates
<1>2. RunnerTypes BY IdleTypes DEF Init, RunnerTypes, Idle, Plans
<1>3. CallTypes
  BY NoCallTypes, BoundsAssumption DEF Init, CallTypes, RoomLeft, Idle
<1>4. ServerTypes /\ CounterTypes
  BY BoundsAssumption DEF Init, ServerTypes, CounterTypes
<1>5. Safe
  BY DEF Init, Safe, JobIsOpen, RunnerHasJob, AppliedIsDone, TurnsHandled, TurnsKept,
         AppliedOnce, NoJob, Unfinished, Idle, Busy, Working, Current
<1> QED BY <1>1, <1>2, <1>3, <1>4, <1>5, TypeParts DEF IInv

\* The invariant is inductive: what the coordinator owes and has done is told
\* apart in every reachable state.
THEOREM Inductive == Spec => []IInv
<1>1. IInv /\ [Next]_vars => IInv'
  <2> SUFFICES ASSUME IInv, [Next]_vars PROVE IInv' OBVIOUS
  <2>1. TypeOK' /\ TypesToo'
    BY LedgerKept, RunnerKept, CallKept, ServerKept, CountersKept, TypeParts
    DEF TypeOK, TypesToo, LedgerTypes, RunnerTypes, CallTypes, ServerTypes, CounterTypes
  <2> QED BY <2>1, NextSafe DEF IInv
<1> QED BY InitHolds, <1>1, PTL DEF Spec

\* Every variable keeps its type, for any turns and any bounds: no thread of the
\* coordinator is used for more than max_turns_per_thread turns, and only a
\* runner at work has a call registered (codex_coordinator.py).
THEOREM TypeCorrect == Spec => []TypeOK
BY Inductive, PTL DEF IInv

\* What the user said is neither lost nor acted on twice, however requests are
\* superseded while the model works, calls fail or time out, and the process
\* dies and is restarted (gateway.py, coordinate_turn and _run_coordination).
THEOREM NothingLostOrDoneTwice == Spec => []TurnsHandled
BY Inductive, PTL DEF IInv, Safe

-----------------------------------------------------------------------------
(* Sequences of which some entries go                                      *)

\* A set of numbers has a first one.
LEMMA First ==
    ASSUME NEW T \in SUBSET Nat, T # {}
    PROVE  \E x \in T : \A y \in T : x <= y
<1> DEFINE R == {r \in Nat \X Nat : r[1] < r[2]}
<1>1. IsWellFoundedOn(R, Nat)
    BY NatLessThanWellFounded DEF OpToRel
<1> HIDE DEF R
<1>2. \E x \in T : \A y \in T : ~ (<< y, x >> \in R)
    BY <1>1, WFMin
<1>3. \A x, y \in T : ~ (<< y, x >> \in R) => x <= y
  <2>1. \A x, y \in Nat : y < x => << y, x >> \in R
      BY DEF R
  <2> QED BY <2>1
<1> QED BY <1>2, <1>3

(* p says which position of s each entry of Only(s, S) comes from.         *)
KeptAt(s, S, n, m, p) ==
  /\ Only(s, S) = [k \in 1..m |-> s[p[k]]]
  /\ \A k \in 1..m : s[p[k]] \in S
  /\ \A k, l \in 1..m : k < l <=> p[k] < p[l]
  /\ \A i \in 1..n : s[i] \in S => \E k \in 1..m : p[k] = i

\* The positions of what is left: all of them, in their order.
LEMMA OnlyPositions ==
    ASSUME NEW n \in Nat, NEW s, DOMAIN s = 1..n, NEW S
    PROVE  \E m \in Nat : \E p \in [1..m -> 1..n] : KeptAt(s, S, n, m, p)
<1> DEFINE kept == {i \in 1..n : s[i] \in S}
           m == Cardinality(kept)
           Upto(i) == {j \in kept : j <= i}
           Rank(i) == Cardinality(Upto(i))
           p == [k \in 1..m |-> CHOOSE i \in kept : Rank(i) = k]
<1>1. IsFiniteSet(kept) /\ m \in Nat
  <2>1. IsFiniteSet(1..n) /\ kept \in SUBSET (1..n)
      BY FS_Interval
  <2>2. IsFiniteSet(kept)
      BY <2>1, FS_Subset
  <2> QED BY <2>2, FS_CardinalityType
<1>2. \A i \in kept : Upto(i) \in SUBSET kept /\ i \in Upto(i)
    OBVIOUS
<1> HIDE DEF kept
<1>3. kept \in SUBSET Nat
    BY DEF kept
<1>4. \A i \in kept : IsFiniteSet(Upto(i)) /\ Rank(i) \in 1..m
  <2> SUFFICES ASSUME NEW i \in kept PROVE IsFiniteSet(Upto(i)) /\ Rank(i) \in 1..m
      OBVIOUS
  <2>1. IsFiniteSet(Upto(i)) /\ Rank(i) <= m
      BY <1>1, <1>2, FS_Subset
  <2>2. Rank(i) \in Nat /\ Rank(i) # 0
      BY <1>2, <2>1, FS_CardinalityType, FS_EmptySet
  <2> QED BY <1>1, <2>1, <2>2
<1>5. \A i, j \in kept : i < j => Rank(i) < Rank(j)
  <2> SUFFICES ASSUME NEW i \in kept, NEW j \in kept, i < j PROVE Rank(i) < Rank(j)
      OBVIOUS
  <2>1. Upto(i) \in SUBSET Upto(j) /\ j \in Upto(j) /\ j \notin Upto(i)
    <3>1. \A x \in kept : x <= i => x <= j
        BY <1>3
    <3>2. i \in Nat /\ j \in Nat
        BY <1>3
    <3>3. \A x \in Upto(i) : x \in Upto(j)
        BY <3>1
    <3>4. ~ (j <= i)
        BY <3>2
    <3>5. j \notin Upto(i)
        BY <3>4
    <3> QED BY <1>2, <3>3, <3>5
  <2>2. Upto(i) # Upto(j)
      BY <2>1
  <2>3. Rank(i) <= Rank(j) /\ Rank(i) # Rank(j)
      BY <1>4, <2>1, <2>2, FS_Subset
  <2>4. Rank(i) \in Nat /\ Rank(j) \in Nat
      BY <1>4
  <2> HIDE DEF Rank
  <2> QED BY <2>3, <2>4
<1>6. \A i, j \in kept : Rank(i) = Rank(j) => i = j
  <2>1. \A i, j \in kept : i = j \/ i < j \/ j < i
      BY <1>3
  <2>2. \A i \in kept : Rank(i) \in Nat
    <3> SUFFICES ASSUME NEW i \in kept PROVE Rank(i) \in Nat
        OBVIOUS
    <3>1. Rank(i) \in 1..m
        BY <1>4
    <3> HIDE DEF Rank
    <3> QED BY <3>1
  <2> HIDE DEF Rank
  <2> QED BY <1>5, <2>1, <2>2
<1>7. \A k \in 1..m : \E i \in kept : Rank(i) = k
  <2> SUFFICES ASSUME NEW k \in 1..m, \A i \in kept : Rank(i) # k PROVE FALSE
      OBVIOUS
  <2> DEFINE f == [i \in kept |-> Rank(i)]
             T == (1..m) \ {k}
  <2>1. IsFiniteSet(1..m) /\ Cardinality(1..m) = m
      BY <1>1, FS_Interval
  <2>2. IsFiniteSet(T) /\ Cardinality(T) = m - 1
      BY <2>1, FS_RemoveElement
  <2> HIDE DEF T
  <2>3. f \in [kept -> T]
      BY <1>4 DEF T
  <2>4. Cardinality(T) < Cardinality(kept)
      BY <1>1, <2>2
  <2> HIDE DEF f
  <2>5. \E x, y \in kept : x # y /\ f[x] = f[y]
      BY <1>1, <2>2, <2>3, <2>4, FS_PigeonHole
  <2> QED BY <1>6, <2>5 DEF f
<1> HIDE DEF Rank
<1>8. \A k \in 1..m : p[k] \in kept /\ Rank(p[k]) = k
    BY <1>7
<1>9. p \in [1..m -> kept]
    BY <1>8
<1>10. Only(s, S) = [k \in 1..m |-> s[p[k]]]
  <2>1. Only(s, S) = [k \in 1..m |-> s[CHOOSE i \in kept : Rank(i) = k]]
      BY DEF Only, kept, Rank
  <2> QED BY <2>1
<1> HIDE DEF p
<1>11. \A k, l \in 1..m : k < l <=> p[k] < p[l]
  <2> SUFFICES ASSUME NEW k \in 1..m, NEW l \in 1..m PROVE k < l <=> p[k] < p[l]
      OBVIOUS
  <2>1. /\ p[k] \in kept /\ p[l] \in kept /\ p[k] \in Nat /\ p[l] \in Nat
        /\ Rank(p[k]) = k /\ Rank(p[l]) = l
      BY <1>3, <1>8
  <2>2. p[k] < p[l] => k < l
      BY <1>5, <2>1
  <2>3. p[l] < p[k] => l < k
      BY <1>5, <2>1
  <2>4. p[l] = p[k] => k = l
      BY <2>1
  <2> QED BY <1>1, <2>1, <2>2, <2>3, <2>4
<1>12. \A i \in kept : \E k \in 1..m : p[k] = i
  <2> SUFFICES ASSUME NEW i \in kept PROVE \E k \in 1..m : p[k] = i
      OBVIOUS
  <2>1. Rank(i) \in 1..m
      BY <1>4 DEF Rank
  <2>2. Rank(p[Rank(i)]) = Rank(i) /\ p[Rank(i)] \in kept
      BY <1>8, <2>1
  <2> QED BY <1>6, <2>1, <2>2
<1> HIDE DEF m
<1>13. p \in [1..m -> 1..n] /\ \A k \in 1..m : s[p[k]] \in S
    BY <1>9 DEF kept
<1>14. \A i \in 1..n : s[i] \in S => \E k \in 1..m : p[k] = i
    BY <1>12 DEF kept
<1>15. KeptAt(s, S, n, m, p)
    BY <1>10, <1>11, <1>13, <1>14 DEF KeptAt
<1> QED BY <1>1, <1>13, <1>15

\* The entries of a sequence.
LEMMA Items ==
    ASSUME NEW S, NEW s \in Seq(S)
    PROVE  Len(s) \in Nat /\ DOMAIN s = 1..Len(s) /\ \A i \in 1..Len(s) : s[i] \in S
BY ElementOfSeq, LenProperties

\* What is left, and in which order.
LEMMA OnlyOK ==
    ASSUME NEW T, NEW s \in Seq(T), NEW S
    PROVE  /\ Only(s, S) \in Seq(T)
           /\ ToSet(Only(s, S)) = ToSet(s) \cap S
           /\ \A x, y : Before(Only(s, S), x, y) <=> Before(s, x, y) /\ x \in S /\ y \in S
<1> DEFINE n == Len(s)
           o == Only(s, S)
<1>1. n \in Nat /\ DOMAIN s = 1..n /\ \A i \in 1..n : s[i] \in T
    BY Items
<1> HIDE DEF n
<1>2. PICK m \in Nat : \E p \in [1..m -> 1..n] : KeptAt(s, S, n, m, p)
    BY <1>1, OnlyPositions
<1>3. PICK p \in [1..m -> 1..n] :
         /\ o = [k \in 1..m |-> s[p[k]]]
         /\ \A k \in 1..m : s[p[k]] \in S
         /\ \A k, l \in 1..m : k < l <=> p[k] < p[l]
         /\ \A i \in 1..n : s[i] \in S => \E k \in 1..m : p[k] = i
    BY <1>2 DEF KeptAt
<1> HIDE DEF o
<1>4. \A k \in 1..m : p[k] \in 1..n /\ s[p[k]] \in S /\ o[k] = s[p[k]] /\ o[k] \in T
    BY <1>1, <1>3
<1>5. DOMAIN o = 1..m
    BY <1>3
<1>6. o \in Seq(T)
  <2>1. o \in [1..m -> T]
      BY <1>3, <1>4
  <2> QED BY <1>2, <2>1, SeqDef
<1>7. ToSet(o) = ToSet(s) \cap S
  <2>1. \A x \in ToSet(o) : x \in ToSet(s) \cap S
      BY <1>1, <1>4, <1>5 DEF ToSet
  <2>2. ASSUME NEW x \in ToSet(s), x \in S PROVE x \in ToSet(o)
    <3>1. PICK i \in 1..n : s[i] = x
        BY <1>1, <2>2 DEF ToSet
    <3>2. PICK k \in 1..m : p[k] = i
        BY <1>3, <2>2, <3>1
    <3> QED BY <1>4, <1>5, <3>1, <3>2 DEF ToSet
  <2> QED BY <2>1, <2>2
<1>8. ASSUME NEW x, NEW y, Before(o, x, y) PROVE Before(s, x, y) /\ x \in S /\ y \in S
  <2>1. PICK k, l \in 1..m : k < l /\ o[k] = x /\ o[l] = y
      BY <1>5, <1>8 DEF Before
  <2>2. p[k] < p[l] /\ p[k] \in 1..n /\ p[l] \in 1..n /\ s[p[k]] = x /\ s[p[l]] = y
        /\ x \in S /\ y \in S
      BY <1>3, <1>4, <2>1
  <2> QED BY <1>1, <2>2 DEF Before
<1>9. ASSUME NEW x, NEW y, Before(s, x, y), x \in S, y \in S PROVE Before(o, x, y)
  <2>1. PICK i, j \in 1..n : i < j /\ s[i] = x /\ s[j] = y
      BY <1>1, <1>9 DEF Before
  <2>2. PICK k \in 1..m : p[k] = i
      BY <1>3, <1>9, <2>1
  <2>3. PICK l \in 1..m : p[l] = j
      BY <1>3, <1>9, <2>1
  <2>4. k < l /\ o[k] = x /\ o[l] = y
      BY <1>3, <1>4, <2>1, <2>2, <2>3
  <2> QED BY <1>5, <2>4 DEF Before
<1> QED BY <1>6, <1>7, <1>8, <1>9 DEF o

\* An entry is appended.
LEMMA AppendOrder ==
    ASSUME NEW T, NEW s \in Seq(T), NEW e \in T
    PROVE  /\ Append(s, e) \in Seq(T)
           /\ ToSet(Append(s, e)) = ToSet(s) \cup {e}
           /\ \A x, y : Before(Append(s, e), x, y) <=> Before(s, x, y) \/ (x \in ToSet(s) /\ y = e)
<1> DEFINE n == Len(s)
           a == Append(s, e)
<1>1. /\ n \in Nat /\ DOMAIN s = 1..n
      /\ a \in Seq(T) /\ Len(a) = n + 1 /\ a[n + 1] = e /\ \A i \in 1..n : a[i] = s[i]
    BY Items, AppendProperties
<1>2. DOMAIN a = 1..(n + 1)
    BY <1>1, Items
<1> HIDE DEF n, a
<1>3. \A i \in 1..(n + 1) : i \in 1..n \/ i = n + 1
    BY <1>1
<1>4. 1..n \subseteq 1..(n + 1) /\ n + 1 \in 1..(n + 1) /\ \A i \in 1..n : i < n + 1
    BY <1>1
<1>5. ToSet(a) = ToSet(s) \cup {e}
    BY <1>1, <1>2, <1>3, <1>4 DEF ToSet
<1>6. ASSUME NEW x, NEW y, Before(a, x, y) PROVE Before(s, x, y) \/ (x \in ToSet(s) /\ y = e)
  <2>1. PICK i, j \in 1..(n + 1) : i < j /\ a[i] = x /\ a[j] = y
      BY <1>2, <1>6 DEF Before
  <2>2. i \in 1..n
      BY <1>1, <2>1
  <2>3. x = s[i] /\ x \in ToSet(s)
      BY <1>1, <2>1, <2>2 DEF ToSet
  <2>4. CASE j \in 1..n
      BY <1>1, <2>1, <2>2, <2>4 DEF Before
  <2>5. CASE j = n + 1
      BY <1>1, <2>1, <2>3, <2>5
  <2> QED BY <1>3, <2>4, <2>5
<1>7. ASSUME NEW x, NEW y, Before(s, x, y) PROVE Before(a, x, y)
    BY <1>1, <1>2, <1>4, <1>7 DEF Before
<1>8. ASSUME NEW x, x \in ToSet(s) PROVE Before(a, x, e)
    BY <1>1, <1>2, <1>4, <1>8 DEF Before, ToSet
<1> QED BY <1>1, <1>5, <1>6, <1>7, <1>8 DEF a

\* Before is an order on the entries of a sequence that has none twice.
LEMMA OrderFacts ==
    ASSUME NEW T, NEW s \in Seq(T), \A x : ~ Before(s, x, x)
    PROVE  /\ \A x, y : Before(s, x, y) => x \in ToSet(s) /\ y \in ToSet(s)
           /\ \A x, y, z : Before(s, x, y) /\ Before(s, y, z) => Before(s, x, z)
           /\ \A x, y \in ToSet(s) : x = y \/ Before(s, x, y) \/ Before(s, y, x)
<1> DEFINE n == Len(s)
<1>1. n \in Nat /\ DOMAIN s = 1..n
    BY Items
<1> HIDE DEF n
<1>2. \A i, j \in 1..n : s[i] = s[j] => i = j
  <2> SUFFICES ASSUME NEW i \in 1..n, NEW j \in 1..n, s[i] = s[j] PROVE i = j
      OBVIOUS
  <2>1. ~ (i < j) /\ ~ (j < i)
      BY <1>1 DEF Before
  <2> QED BY <2>1
<1>3. \A x, y : Before(s, x, y) => x \in ToSet(s) /\ y \in ToSet(s)
    BY <1>1 DEF Before, ToSet
<1>4. ASSUME NEW x, NEW y, NEW z, Before(s, x, y), Before(s, y, z) PROVE Before(s, x, z)
  <2>1. PICK i, j \in 1..n : i < j /\ s[i] = x /\ s[j] = y
      BY <1>1, <1>4 DEF Before
  <2>2. PICK k, l \in 1..n : k < l /\ s[k] = y /\ s[l] = z
      BY <1>1, <1>4 DEF Before
  <2>3. j = k
      BY <1>2, <2>1, <2>2
  <2>4. i < l
      BY <2>1, <2>2, <2>3
  <2> QED BY <1>1, <2>1, <2>2, <2>4 DEF Before
<1>5. ASSUME NEW x \in ToSet(s), NEW y \in ToSet(s), x # y
      PROVE  Before(s, x, y) \/ Before(s, y, x)
  <2>1. PICK i \in 1..n : s[i] = x
      BY <1>1, <1>5 DEF ToSet
  <2>2. PICK j \in 1..n : s[j] = y
      BY <1>1, <1>5 DEF ToSet
  <2>3. i < j \/ j < i
      BY <1>5, <2>1, <2>2
  <2> QED BY <1>1, <2>1, <2>2, <2>3 DEF Before
<1> QED BY <1>3, <1>4, <1>5

\* Some of its entries have a last one.
-----------------------------------------------------------------------------
(* The plans of the coordinator                                            *)

CONSTANTS MaxTasks
VARIABLES marks, inHand, answered

Plan == INSTANCE Plans WITH hand <- inHand, told <- answered

Operations == Nat \X Nat
States == {"pending", "sending", "sent", "failed"}
PlanTasks == [op : Operations, status : {"queued", "running", "cancelling", "over"},
              run : {"none", "opening", "replaying", "serving"},
              text : Seq(Operations), left : Seq(Operations)]
ProviderCommands == [op : Operations, task : Nat, state : States]
PlanSteps == [kind : {"create", "update", "cancel"}, task : Nat]

PlanTypes ==
  /\ planned \in Seq(PlanTasks)
  /\ outbox \in Seq(ProviderCommands)
  /\ given \in Seq(Seq(Operations)) /\ Len(given) = Len(planned)
  /\ marks \subseteq Operations
  /\ awaits \subseteq [by : {"plan", "replay"}, op : Operations, task : Nat, taken : BOOLEAN]
  /\ inHand \in [req : Nat, plan : Seq(PlanSteps), i : Nat]
  /\ answered \in 0..MaxRequests /\ planUp \in BOOLEAN /\ planCrashes \in Nat

InPlan == inHand # Plan!Idle
Here == << inHand.req, inHand.i >>
Sent(op) == \E c \in ToSet(outbox) : c.op = op
Spent(op) == op \in marks \/ Sent(op)
Waits == \E a \in awaits : a.by = "plan"

(* A plan is carried out by a living process, for the request that is the  *)
(* next to be over, on tasks that exist.                                   *)
HandFits ==
  /\ InPlan => /\ planUp /\ inHand.req = answered + 1 /\ answered < MaxRequests
               /\ inHand.i \in 1..(Len(inHand.plan) + 1) /\ Len(inHand.plan) <= MaxPlan
  /\ \A k \in DOMAIN inHand.plan :
       inHand.plan[k].kind # "create" => inHand.plan[k].task \in DOMAIN planned

(* What a job still has to replay waits in the outbox, and nothing was     *)
(* handed to a worker before its run was open.                             *)
JobStands(t) ==
  /\ planned[t].run = "none" <=> planned[t].status \in {"queued", "over"}
  /\ planned[t].left # << >> => planned[t].run = "replaying"
  /\ \A op \in ToSet(planned[t].left) :
       /\ ~ Before(planned[t].left, op, op)
       /\ \E c \in ToSet(outbox) : c.op = op /\ c.task = t /\ c.state = "pending"
  /\ planned[t].status = "queued" \/ planned[t].run = "opening" => given[t] = << >>
JobsFit == \A t \in DOMAIN planned : JobStands(t)

(* An operation has one command; one that is open is for a run.            *)
OpsApart(box) == \A c, d \in ToSet(box) : Before(box, c, d) => c.op # d.op
BoxFits ==
  /\ OpsApart(outbox)
  /\ \A c \in ToSet(outbox) :
       /\ c.task \in DOMAIN planned
       /\ c.state \in {"pending", "sending"} => planned[c.task].run # "none"

(* A call that awaits a worker is about a command that was sent, and no    *)
(* other is about the same one; that of a plan is about the command in     *)
(* hand.                                                                   *)
AwaitsFit ==
  /\ ~ planUp => awaits = {}
  /\ \A a, b \in awaits : a.op = b.op => a = b
  /\ \A a \in awaits :
       /\ \E c \in ToSet(outbox) : c.op = a.op /\ c.task = a.task /\ c.state # "pending"
       /\ a.by = "plan" => InPlan /\ inHand.i <= Len(inHand.plan) /\ a.op = Here

(* A worker has an update from its instruction, or from a command that a   *)
(* call has brought; twice only if it has it from both.                    *)
Brought(op, t) ==
  /\ \E c \in ToSet(outbox) : c.op = op /\ c.task = t /\ c.state # "pending"
  /\ \A a \in awaits : a.op = op => a.taken
GivenFits ==
  \A t \in DOMAIN planned : \A op \in ToSet(given[t]) :
    /\ op \in ToSet(planned[t].text) \/ Brought(op, t)
    /\ Before(given[t], op, op) => op \in ToSet(planned[t].text) /\ Sent(op)

(* An update is in one instruction, once, and was noted.                   *)
TextFits ==
  \A t \in DOMAIN planned : \A op \in ToSet(planned[t].text) :
    /\ op \in marks
    /\ ~ Before(planned[t].text, op, op)
    /\ \A u \in DOMAIN planned : op \in ToSet(planned[u].text) => u = t

(* The requests that were cut: an operation of theirs was noted and sent,  *)
(* or the current one has left a trace of an operation that lies ahead.    *)
Ahead(k) == ~ InPlan \/ k > inHand.i \/ (k = inHand.i /\ ~ Waits)
CutAt(r, k) == \/ << r, k >> \in marks /\ Sent(<< r, k >>)
               \/ r = answered + 1 /\ Spent(<< r, k >>) /\ Ahead(k)
Cut == { r \in 1..MaxRequests : \E k \in 1..MaxPlan : CutAt(r, k) }

(* Only a death of the process cuts a request, and what comes later has    *)
(* left no trace.                                                          *)
CutsFit ==
  /\ \A op \in marks : op[1] <= answered + 1
  /\ \A c \in ToSet(outbox) : c.op[1] <= answered + 1
  /\ Cardinality(Cut) <= planCrashes

(* The tasks that the plan in hand will create have their place.           *)
Coming == IF InPlan
          THEN { k \in DOMAIN inHand.plan : k >= inHand.i /\ inHand.plan[k].kind = "create" }
          ELSE {}
QueueFits == Cardinality(Coming) + Cardinality(Queued) <= MaxQueued

PlanInv ==
  /\ PlanTypes /\ HandFits /\ JobsFit /\ BoxFits /\ AwaitsFit /\ GivenFits /\ TextFits
  /\ CutsFit /\ QueueFits /\ NoneStranded

-----------------------------------------------------------------------------
(* The outbox *)

\* The operators of the model are those of the promise.
LEMMA PlanTerms ==
    /\ \A s : Plan!ToSet(s) = ToSet(s)
    /\ \A s, x, y : Plan!Before(s, x, y) = Before(s, x, y)
    /\ \A s, S : Plan!Only(s, S) = Only(s, S)
    /\ \A S : Plan!Cardinality(S) = Cardinality(S)
    /\ Plan!Queued = Queued /\ Plan!Ids = DOMAIN planned
<1> HIDE DEF Plan!Cardinality
<1>1. \A S : Plan!Cardinality(S) = Cardinality(S)
    BY DEF Plan!Cardinality, Cardinality
<1>2. \A s : Plan!ToSet(s) = ToSet(s)
    BY DEF Plan!ToSet, ToSet
<1>3. \A s, x, y : Plan!Before(s, x, y) = Before(s, x, y)
    BY DEF Plan!Before, Before
<1>4. \A s, S : Plan!Only(s, S) = Only(s, S)
  <2> SUFFICES ASSUME NEW s, NEW S PROVE Plan!Only(s, S) = Only(s, S)
      OBVIOUS
  <2> QED BY DEF Plan!Only, Only, Plan!Cardinality, Cardinality
<1>5. Plan!Queued = Queued /\ Plan!Ids = DOMAIN planned
    BY DEF Plan!Queued, Queued, Plan!Ids
<1> QED BY <1>1, <1>2, <1>3, <1>4, <1>5

\* Two sequences, one after the other.
LEMMA ConcatOrder ==
    ASSUME NEW T, NEW s \in Seq(T), NEW u \in Seq(T)
    PROVE  /\ s \o u \in Seq(T)
           /\ ToSet(s \o u) = ToSet(s) \cup ToSet(u)
           /\ \A x, y : Before(s \o u, x, y) =>
                \/ Before(s, x, y) \/ Before(u, x, y) \/ (x \in ToSet(s) /\ y \in ToSet(u))
<1> DEFINE n == Len(s)
           m == Len(u)
           a == s \o u
<1>1. /\ n \in Nat /\ DOMAIN s = 1..n /\ m \in Nat /\ DOMAIN u = 1..m
    BY Items
<1>2. /\ a \in Seq(T) /\ Len(a) = n + m
      /\ \A i \in 1..(n + m) : a[i] = IF i <= n THEN s[i] ELSE u[i - n]
    BY ConcatProperties
<1>3. DOMAIN a = 1..(n + m)
    BY <1>2, LenProperties
<1> HIDE DEF n, m, a
<1>4. \A i \in 1..n : i \in 1..(n + m) /\ a[i] = s[i]
    BY <1>1, <1>2
<1>5. \A j \in 1..m : n + j \in 1..(n + m) /\ a[n + j] = u[j]
  <2> SUFFICES ASSUME NEW j \in 1..m PROVE n + j \in 1..(n + m) /\ a[n + j] = u[j]
      OBVIOUS
  <2>1. n + j \in 1..(n + m) /\ ~ (n + j <= n) /\ (n + j) - n = j
      BY <1>1
  <2> QED BY <1>2, <2>1
<1>6. \A i \in 1..(n + m) : \/ i \in 1..n /\ a[i] = s[i]
                            \/ i - n \in 1..m /\ a[i] = u[i - n]
    BY <1>1, <1>2
<1>7. ToSet(a) = ToSet(s) \cup ToSet(u)
  <2>1. \A x \in ToSet(a) : x \in ToSet(s) \cup ToSet(u)
      BY <1>1, <1>3, <1>6 DEF ToSet
  <2>2. \A x \in ToSet(s) : x \in ToSet(a)
      BY <1>1, <1>3, <1>4 DEF ToSet
  <2>3. \A x \in ToSet(u) : x \in ToSet(a)
      BY <1>1, <1>3, <1>5 DEF ToSet
  <2> QED BY <2>1, <2>2, <2>3
<1>8. ASSUME NEW x, NEW y, Before(a, x, y)
      PROVE  Before(s, x, y) \/ Before(u, x, y) \/ (x \in ToSet(s) /\ y \in ToSet(u))
  <2>1. PICK i, j \in 1..(n + m) : i < j /\ a[i] = x /\ a[j] = y
      BY <1>3, <1>8 DEF Before
  <2>2. CASE i \in 1..n /\ j \in 1..n
      BY <1>1, <1>4, <2>1, <2>2 DEF Before
  <2>3. CASE i \in 1..n /\ j \notin 1..n
    <3>1. j - n \in 1..m /\ y = u[j - n] /\ x = s[i]
        BY <1>4, <1>6, <2>1, <2>3
    <3> QED BY <1>1, <2>3, <3>1 DEF ToSet
  <2>4. CASE i \notin 1..n
    <3>1. i - n \in 1..m /\ x = u[i - n]
        BY <1>6, <2>1, <2>4
    <3>2. j \notin 1..n
        BY <1>1, <2>1, <2>4
    <3>3. j - n \in 1..m /\ y = u[j - n]
        BY <1>6, <2>1, <3>2
    <3>4. i - n < j - n
        BY <1>1, <2>1
    <3> QED BY <1>1, <3>1, <3>3, <3>4 DEF Before
  <2> QED BY <2>2, <2>3, <2>4
<1> QED BY <1>2, <1>7, <1>8 DEF a

\* What stands before what stands in the sequence.
LEMMA BeforeIn ==
    ASSUME NEW s, NEW x, NEW y, Before(s, x, y)
    PROVE  x \in ToSet(s) /\ y \in ToSet(s)
BY DEF Before, ToSet

\* The state of some commands is written where they stand.
LEMMA MapOrder ==
    ASSUME NEW s \in Seq(ProviderCommands), OpsApart(s), NEW m,
           m = [k \in DOMAIN s |-> m[k]],
           \A k \in DOMAIN s : m[k] \in ProviderCommands /\ m[k].op = s[k].op
    PROVE  m \in Seq(ProviderCommands) /\ OpsApart(m)
<1>1. Len(s) \in Nat /\ DOMAIN s = 1..Len(s) /\ DOMAIN m = DOMAIN s
    BY Items
<1>2. m \in Seq(ProviderCommands)
  <2>1. m \in [1..Len(s) -> ProviderCommands]
      BY <1>1
  <2> QED BY <1>1, <2>1, SeqDef
<1>3. ASSUME NEW c \in ToSet(m), NEW d \in ToSet(m), Before(m, c, d) PROVE c.op # d.op
  <2>1. PICK i, j \in DOMAIN s : i < j /\ m[i] = c /\ m[j] = d
      BY <1>1, <1>3 DEF Before
  <2>2. Before(s, s[i], s[j]) /\ s[i] \in ToSet(s) /\ s[j] \in ToSet(s)
      BY <2>1 DEF Before, ToSet
  <2> QED BY <2>1, <2>2 DEF OpsApart
<1> QED BY <1>2, <1>3 DEF OpsApart

\* A command is written, and is the last one.
LEMMA PutForm ==
    ASSUME NEW box \in Seq(ProviderCommands), OpsApart(box),
           NEW op \in Operations, NEW t \in Nat, NEW s \in States
    PROVE  LET b == Plan!Put(box, op, t, s) IN
           /\ b \in Seq(ProviderCommands) /\ OpsApart(b)
           /\ ToSet(b) = { c \in ToSet(box) : c.op # op }
                         \cup { [op |-> op, task |-> t, state |-> s] }
<1> DEFINE S == { c \in ToSet(box) : c.op # op }
           e == [op |-> op, task |-> t, state |-> s]
           r == Only(box, S)
<1>1. Plan!Put(box, op, t, s) = Append(r, e)
    BY PlanTerms DEF Plan!Put, Plan!Rest
<1>2. /\ r \in Seq(ProviderCommands) /\ ToSet(r) = ToSet(box) \cap S
      /\ \A x, y : Before(r, x, y) <=> Before(box, x, y) /\ x \in S /\ y \in S
    BY OnlyOK
<1>3. e \in ProviderCommands
    BY DEF ProviderCommands
<1> HIDE DEF r
<1>4. /\ Append(r, e) \in Seq(ProviderCommands)
      /\ ToSet(Append(r, e)) = ToSet(r) \cup {e}
      /\ \A x, y : Before(Append(r, e), x, y) <=> Before(r, x, y) \/ (x \in ToSet(r) /\ y = e)
    BY <1>2, <1>3, AppendOrder
<1>5. OpsApart(Append(r, e))
    BY <1>2, <1>4 DEF OpsApart
<1> QED BY <1>1, <1>2, <1>4, <1>5

\* An operation has one command.
LEMMA OneCommand ==
    ASSUME NEW box \in Seq(ProviderCommands), OpsApart(box),
           NEW c \in ToSet(box), NEW d \in ToSet(box), c.op = d.op
    PROVE  c = d
<1>1. SUFFICES ASSUME c # d PROVE FALSE
    OBVIOUS
<1>2. PICK i, j \in DOMAIN box : box[i] = c /\ box[j] = d
    BY DEF ToSet
<1>3. i \in Nat /\ j \in Nat
    BY Items
<1>4. i < j \/ j < i
    BY <1>1, <1>2, <1>3
<1> QED BY <1>2, <1>4 DEF Before, OpsApart

\* What becomes of a command when the runs of the tasks in S have ended.
Pends(c) == c.state \in {"pending", "sending"}
Stopped(c, S) == IF c.task \in S /\ Pends(c) THEN [c EXCEPT !.state = "failed"] ELSE c

LEMMA StoppedFacts ==
    ASSUME NEW c \in ProviderCommands, NEW S
    PROVE  /\ Stopped(c, S) \in ProviderCommands
           /\ Stopped(c, S).op = c.op /\ Stopped(c, S).task = c.task
           /\ Stopped(c, S).state = IF c.task \in S /\ Pends(c) THEN "failed" ELSE c.state
BY DEF Stopped, Pends, ProviderCommands, States

\* The commands of a run that ended have failed, and are the last ones.
LEMMA FailedForm ==
    ASSUME NEW box \in Seq(ProviderCommands), OpsApart(box), NEW t
    PROVE  LET b == Plan!FailedBox(box, t) IN
           /\ b \in Seq(ProviderCommands) /\ OpsApart(b)
           /\ ToSet(b) = { Stopped(c, {t}) : c \in ToSet(box) }
<1> DEFINE S == { c \in ToSet(box) : c.task = t /\ Pends(c) }
           r == Only(box, ToSet(box) \ S)
           f == Only(box, S)
           m == [k \in DOMAIN f |-> [f[k] EXCEPT !.state = "failed"]]
<1>1. Plan!Open(box, t) = S
    BY PlanTerms DEF Plan!Open, Pends
<1>2. Plan!FailedBox(box, t) = r \o m
    BY <1>1, PlanTerms DEF Plan!FailedBox
<1>3. /\ r \in Seq(ProviderCommands) /\ ToSet(r) = ToSet(box) \ S
      /\ \A x, y : Before(r, x, y) <=> /\ Before(box, x, y) /\ x \in ToSet(box) \ S
                                       /\ y \in ToSet(box) \ S
  <2>1. ToSet(box) \cap (ToSet(box) \ S) = ToSet(box) \ S
      OBVIOUS
  <2> QED BY <2>1, OnlyOK
<1>4. /\ f \in Seq(ProviderCommands) /\ ToSet(f) = S
      /\ \A x, y : Before(f, x, y) <=> Before(box, x, y) /\ x \in S /\ y \in S
  <2>1. ToSet(box) \cap S = S
      OBVIOUS
  <2> QED BY <2>1, OnlyOK
<1>5. \A c \in ToSet(box) : c \in ProviderCommands
    BY Items DEF ToSet
<1>6. \A c, d \in ToSet(box) : c.op = d.op => c = d
    BY OneCommand
<1> HIDE DEF r, f, S
<1>7. \A k \in DOMAIN f : f[k] \in S
    BY <1>4 DEF ToSet
<1>8. S \subseteq ToSet(box)
    BY DEF S
<1>9. OpsApart(f)
    BY <1>4, <1>8 DEF OpsApart
<1>10. \A c \in ProviderCommands : /\ [c EXCEPT !.state = "failed"] \in ProviderCommands
                                   /\ [c EXCEPT !.state = "failed"].op = c.op
    BY DEF ProviderCommands, States
<1>11. m \in Seq(ProviderCommands) /\ OpsApart(m)
  <2>1. \A k \in DOMAIN f : m[k] \in ProviderCommands /\ m[k].op = f[k].op
      BY <1>5, <1>7, <1>8, <1>10
  <2>2. m = [k \in DOMAIN f |-> m[k]]
      OBVIOUS
  <2> HIDE DEF m
  <2> QED BY <1>4, <1>9, <2>1, <2>2, MapOrder
<1>12. ToSet(m) = { [c EXCEPT !.state = "failed"] : c \in S }
  <2>1. \A c \in S : \E k \in DOMAIN f : f[k] = c
      BY <1>4 DEF ToSet
  <2>2. DOMAIN m = DOMAIN f
      OBVIOUS
  <2>3. \A x \in ToSet(m) : x \in { [c EXCEPT !.state = "failed"] : c \in S }
      BY <1>7, <2>2 DEF ToSet
  <2>4. \A c \in S : [c EXCEPT !.state = "failed"] \in ToSet(m)
      BY <2>1, <2>2 DEF ToSet
  <2> QED BY <2>3, <2>4
<1> HIDE DEF m
<1>13. /\ r \o m \in Seq(ProviderCommands) /\ ToSet(r \o m) = ToSet(r) \cup ToSet(m)
       /\ \A x, y : Before(r \o m, x, y) =>
            \/ Before(r, x, y) \/ Before(m, x, y) \/ (x \in ToSet(r) /\ y \in ToSet(m))
    BY <1>3, <1>11, ConcatOrder
<1>14. OpsApart(r \o m)
  <2> SUFFICES ASSUME NEW x, NEW y, Before(r \o m, x, y) PROVE x.op # y.op
      BY DEF OpsApart
  <2>1. CASE Before(r, x, y)
      BY <1>3, <2>1 DEF OpsApart
  <2>2. CASE Before(m, x, y)
      BY <1>11, <2>2, BeforeIn DEF OpsApart
  <2>3. CASE x \in ToSet(r) /\ y \in ToSet(m)
    <3>1. PICK c \in S : y = [c EXCEPT !.state = "failed"]
        BY <1>12, <2>3
    <3>2. y.op = c.op
        BY <1>5, <1>8, <1>10, <3>1
    <3>3. x \in ToSet(box) /\ x # c
        BY <1>3, <2>3
    <3> QED BY <1>6, <1>8, <3>2, <3>3
  <2> QED BY <1>13, <2>1, <2>2, <2>3
<1>15. ToSet(r) \cup ToSet(m) = { Stopped(c, {t}) : c \in ToSet(box) }
  <2>1. \A c \in ToSet(box) : Stopped(c, {t}) = IF c \in S THEN [c EXCEPT !.state = "failed"] ELSE c
      BY DEF Stopped, S
  <2>2. \A c \in ToSet(box) \ S : c \in ToSet(r) /\ Stopped(c, {t}) = c
      BY <1>3, <2>1
  <2>3. \A c \in S : /\ [c EXCEPT !.state = "failed"] \in ToSet(m)
                     /\ Stopped(c, {t}) = [c EXCEPT !.state = "failed"]
      BY <1>8, <1>12, <2>1
  <2>4. \A x \in ToSet(r) : x \in ToSet(box) /\ x \notin S
      BY <1>3
  <2>5. \A x \in ToSet(m) : \E c \in S : x = [c EXCEPT !.state = "failed"]
      BY <1>12
  <2> DEFINE R == { Stopped(c, {t}) : c \in ToSet(box) }
  <2>6. ASSUME NEW x \in ToSet(r) \cup ToSet(m) PROVE x \in R
    <3>1. CASE x \in ToSet(r)
      <4>1. x \in ToSet(box) /\ Stopped(x, {t}) = x
          BY <2>2, <2>4, <3>1
      <4> QED BY <4>1
    <3>2. CASE x \in ToSet(m)
      <4>1. PICK c \in S : x = [c EXCEPT !.state = "failed"]
          BY <2>5, <3>2
      <4>2. c \in ToSet(box) /\ Stopped(c, {t}) = x
          BY <1>8, <2>3, <4>1
      <4> QED BY <4>2
    <3> QED BY <3>1, <3>2
  <2>7. ASSUME NEW c \in ToSet(box) PROVE Stopped(c, {t}) \in ToSet(r) \cup ToSet(m)
    <3>1. CASE c \in S
        BY <2>3, <3>1
    <3>2. CASE c \notin S
        BY <2>2, <3>2
    <3> QED BY <3>1, <3>2
  <2> QED BY <2>6, <2>7
<1> QED BY <1>2, <1>13, <1>14, <1>15

-----------------------------------------------------------------------------
(* What a step keeps *)

\* The variables, one by one.
LEMMA PlanFacts ==
    ASSUME PlanTypes
    PROVE  /\ Len(planned) \in Nat /\ DOMAIN planned = 1..Len(planned)
           /\ DOMAIN given = DOMAIN planned
           /\ \A t \in DOMAIN planned :
                /\ planned[t] \in PlanTasks /\ given[t] \in Seq(Operations)
                /\ planned[t].text \in Seq(Operations) /\ planned[t].left \in Seq(Operations)
           /\ \A c \in ToSet(outbox) : c \in ProviderCommands
           /\ Len(inHand.plan) \in Nat /\ DOMAIN inHand.plan = 1..Len(inHand.plan)
           /\ \A k \in DOMAIN inHand.plan : inHand.plan[k] \in PlanSteps
<1>1. Len(planned) \in Nat /\ DOMAIN planned = 1..Len(planned)
      /\ \A t \in DOMAIN planned : planned[t] \in PlanTasks
    BY Items DEF PlanTypes
<1>2. DOMAIN given = 1..Len(given) /\ \A t \in DOMAIN given : given[t] \in Seq(Operations)
    BY Items DEF PlanTypes
<1>3. Len(given) = Len(planned)
    BY DEF PlanTypes
<1>4. \A c \in ToSet(outbox) : c \in ProviderCommands
    BY Items DEF PlanTypes, ToSet
<1>5. inHand.plan \in Seq(PlanSteps)
    BY DEF PlanTypes
<1>6. Len(inHand.plan) \in Nat /\ DOMAIN inHand.plan = 1..Len(inHand.plan)
      /\ \A k \in DOMAIN inHand.plan : inHand.plan[k] \in PlanSteps
    BY <1>5, Items
<1>7. \A t \in DOMAIN planned :
        planned[t].text \in Seq(Operations) /\ planned[t].left \in Seq(Operations)
    BY <1>1 DEF PlanTasks
<1> QED BY <1>1, <1>2, <1>3, <1>4, <1>6, <1>7

\* The record of a task is written.
LEMMA TaskWritten ==
    ASSUME NEW T, NEW s \in Seq(T), NEW t \in DOMAIN s, NEW e \in T, NEW r,
           r = [s EXCEPT ![t] = e]
    PROVE  /\ r \in Seq(T) /\ Len(r) = Len(s) /\ DOMAIN r = DOMAIN s
           /\ r[t] = e /\ \A u \in DOMAIN s : u # t => r[u] = s[u]
BY ExceptSeq, LenProperties

\* How a step moves the plan in hand: the next command, the answer to its
\* request, or neither.
Advances == /\ InPlan /\ inHand.i <= Len(inHand.plan)
            /\ inHand' = [inHand EXCEPT !.i = @ + 1] /\ answered' = answered
Replies == answered < MaxRequests /\ inHand' = Plan!Idle /\ answered' = answered + 1
Rests == inHand' = inHand /\ answered' = answered
HandMoves == Advances \/ Replies \/ Rests

LEMMA IdleIs == Plan!Idle = [req |-> 0, plan |-> << >>, i |-> 0]
BY DEF Plan!Idle

LEMMA HandTyped ==
    ASSUME PlanTypes, MaxRequests \in Nat, HandMoves
    PROVE  /\ inHand' \in [req : Nat, plan : Seq(PlanSteps), i : Nat]
           /\ answered' \in 0..MaxRequests
<1>1. inHand \in [req : Nat, plan : Seq(PlanSteps), i : Nat] /\ answered \in 0..MaxRequests
    BY DEF PlanTypes
<1>2. CASE Advances
    BY <1>1, <1>2 DEF Advances
<1>3. CASE Replies
  <2>1. << >> \in Seq(PlanSteps)
      BY EmptySeq
  <2> QED BY <1>1, <1>3, <2>1, IdleIs DEF Replies
<1>4. CASE Rests
    BY <1>1, <1>4 DEF Rests
<1> QED BY <1>2, <1>3, <1>4 DEF HandMoves

LEMMA HandKeeps ==
    ASSUME PlanTypes, HandFits, HandMoves, planUp',
           DOMAIN planned \subseteq DOMAIN planned'
    PROVE  HandFits'
<1>0. inHand \in [req : Nat, plan : Seq(PlanSteps), i : Nat] /\ Len(inHand.plan) \in Nat
    BY PlanFacts DEF PlanTypes
<1>1. CASE Advances
  <2>1. /\ inHand'.req = inHand.req /\ inHand'.plan = inHand.plan
        /\ inHand'.i = inHand.i + 1 /\ answered' = answered
      BY <1>0, <1>1 DEF Advances
  <2>2. /\ inHand.req = answered + 1 /\ answered < MaxRequests
        /\ inHand.i \in 1..(Len(inHand.plan) + 1) /\ Len(inHand.plan) <= MaxPlan
        /\ inHand.i <= Len(inHand.plan)
      BY <1>1 DEF HandFits, Advances
  <2>3. inHand'.i \in 1..(Len(inHand'.plan) + 1)
      BY <1>0, <2>1, <2>2
  <2> QED BY <2>1, <2>2, <2>3 DEF HandFits
<1>2. CASE Replies
  <2>1. inHand' = Plan!Idle /\ inHand'.plan = << >> /\ DOMAIN inHand'.plan = {}
    <3>1. inHand' = Plan!Idle /\ inHand'.plan = << >>
        BY <1>2, IdleIs DEF Replies
    <3> QED BY <3>1
  <2>2. ~ InPlan'
      BY <2>1, IdleIs DEF InPlan
  <2> QED BY <2>1, <2>2 DEF HandFits
<1>3. CASE Rests
    BY <1>3 DEF Rests, HandFits, InPlan
<1> QED BY <1>1, <1>2, <1>3 DEF HandMoves

\* The places of what the plan in hand will create are kept, those that are
\* freed are free.
LEMMA QueueKeeps ==
    ASSUME PlanTypes, HandMoves, QueueFits, MaxQueued \in Nat, Queued' \subseteq Queued
    PROVE  QueueFits'
<1>1. IsFiniteSet(Queued) /\ IsFiniteSet(Coming)
  <2>0. /\ Len(planned) \in Nat /\ DOMAIN planned = 1..Len(planned)
        /\ Len(inHand.plan) \in Nat /\ DOMAIN inHand.plan = 1..Len(inHand.plan)
      BY PlanFacts
  <2>1. IsFiniteSet(DOMAIN planned) /\ IsFiniteSet(DOMAIN inHand.plan)
      BY <2>0, FS_Interval
  <2>2. Queued \in SUBSET DOMAIN planned /\ Coming \in SUBSET DOMAIN inHand.plan
      BY DEF Queued, Coming
  <2> QED BY <2>1, <2>2, FS_Subset
<1>2. Coming' \subseteq Coming
  <2>1. CASE Advances
    <3>1. /\ inHand'.plan = inHand.plan /\ inHand'.i = inHand.i + 1 /\ InPlan
          /\ inHand.i \in Nat /\ \A k \in DOMAIN inHand.plan : k \in Nat
        BY <2>1, PlanFacts DEF Advances, PlanTypes
    <3> QED BY <3>1 DEF Coming
  <2>2. CASE Replies
      BY <2>2 DEF Replies, Coming, InPlan, Plan!Idle
  <2>3. CASE Rests
      BY <2>3 DEF Rests, Coming, InPlan
  <2> QED BY <2>1, <2>2, <2>3 DEF HandMoves
<1>3. Cardinality(Coming') <= Cardinality(Coming) /\ Cardinality(Queued') <= Cardinality(Queued)
      /\ IsFiniteSet(Coming') /\ IsFiniteSet(Queued')
    BY <1>1, <1>2, FS_Subset
<1>4. /\ Cardinality(Coming') \in Nat /\ Cardinality(Coming) \in Nat
      /\ Cardinality(Queued') \in Nat /\ Cardinality(Queued) \in Nat
    BY <1>1, <1>3, FS_CardinalityType
<1> QED BY <1>3, <1>4 DEF QueueFits

\* No request is cut that was not before.
LEMMA CutsKeep ==
    ASSUME PlanTypes, MaxRequests \in Nat, HandFits, CutsFit, planCrashes' = planCrashes,
           answered' \in Nat, answered <= answered',
           \A op \in marks' : op \in marks \/ (InPlan /\ op = Here),
           \A op : Sent(op)' => Sent(op) \/ (InPlan /\ op = Here),
           \A r \in 1..MaxRequests, k \in 1..MaxPlan :
             CutAt(r, k)' => \E l \in 1..MaxPlan : CutAt(r, l)
    PROVE  CutsFit'
<1>0. answered \in Nat /\ planCrashes \in Nat
    BY DEF PlanTypes
<1>1. InPlan => Here[1] = answered + 1
    BY DEF Here, HandFits
<1>2. \A op \in marks : op[1] <= answered + 1 /\ op[1] \in Nat
    BY DEF CutsFit, PlanTypes, Operations
<1>3. \A op \in marks' : op[1] <= answered' + 1
    BY <1>0, <1>1, <1>2
<1>4. \A op : Sent(op) => op[1] <= answered + 1 /\ op[1] \in Nat
  <2>1. \A c \in ToSet(outbox) : c.op[1] <= answered + 1 /\ c.op[1] \in Nat
      BY PlanFacts DEF CutsFit, ProviderCommands, Operations
  <2> QED BY <2>1 DEF Sent
<1>5. \A c \in ToSet(outbox') : c.op[1] <= answered' + 1
  <2>1. \A c \in ToSet(outbox') : Sent(c.op)'
      BY DEF Sent
  <2> QED BY <1>0, <1>1, <1>4, <2>1
<1>6. Cut' \in SUBSET Cut
    BY DEF Cut
<1>7. IsFiniteSet(Cut)
  <2>1. 1 \in Int /\ MaxRequests \in Int
      OBVIOUS
  <2>2. IsFiniteSet(1..MaxRequests)
      BY <2>1, FS_Interval
  <2>3. Cut \in SUBSET (1..MaxRequests)
      BY DEF Cut
  <2> QED BY <2>2, <2>3, FS_Subset
<1>8. IsFiniteSet(Cut') /\ Cardinality(Cut') <= Cardinality(Cut)
    BY <1>6, <1>7, FS_Subset
<1>9. Cardinality(Cut') \in Nat /\ Cardinality(Cut) \in Nat
    BY <1>7, <1>8, FS_CardinalityType
<1> QED BY <1>0, <1>3, <1>5, <1>8, <1>9 DEF CutsFit

\* A step that notes and sends nothing new.
LEMMA CutsStay ==
    ASSUME PlanTypes, MaxRequests \in Nat, HandFits, CutsFit, HandMoves,
           planCrashes' = planCrashes, marks' = marks,
           \A op : Sent(op)' <=> Sent(op),
           Rests /\ Waits => Waits'
    PROVE  CutsFit'
<1>1. /\ answered \in Nat /\ answered' \in Nat /\ answered <= answered'
      /\ inHand.i \in Nat
    BY DEF PlanTypes, HandMoves, Advances, Replies, Rests
<1>2. ASSUME NEW r \in 1..MaxRequests, NEW k \in 1..MaxPlan, CutAt(r, k)' PROVE CutAt(r, k)
  <2>1. CASE << r, k >> \in marks' /\ Sent(<< r, k >>)'
      BY <2>1 DEF CutAt
  <2>2. CASE r = answered' + 1 /\ Spent(<< r, k >>)' /\ Ahead(k)'
    <3>1. Spent(<< r, k >>)
        BY <2>2 DEF Spent
    <3>2. CASE Advances
      <4>1. inHand'.i = inHand.i + 1 /\ answered' = answered /\ (InPlan' => InPlan)
          BY <3>2 DEF Advances, PlanTypes
      <4>2. InPlan'
        <5>1. inHand' # Plan!Idle
            BY <1>1, <4>1, IdleIs
        <5> QED BY <5>1 DEF InPlan
      <4>3. Ahead(k)
          BY <1>1, <2>2, <4>1, <4>2 DEF Ahead
      <4> QED BY <2>2, <3>1, <4>1, <4>3 DEF CutAt
    <3>3. CASE Replies
      <4>1. r = answered + 2
          BY <1>1, <2>2, <3>3 DEF Replies
      <4>2. << r, k >> \in marks => r <= answered + 1
          BY DEF CutsFit
      <4>3. Sent(<< r, k >>) => r <= answered + 1
          BY DEF CutsFit, Sent
      <4> QED BY <1>1, <3>1, <4>1, <4>2, <4>3 DEF Spent
    <3>4. CASE Rests
      <4>1. inHand' = inHand /\ answered' = answered /\ (InPlan <=> InPlan')
          BY <3>4 DEF Rests, InPlan
      <4>2. Ahead(k)
          BY <2>2, <3>4, <4>1 DEF Ahead
      <4> QED BY <2>2, <3>1, <4>1, <4>2 DEF CutAt
    <3> QED BY <3>2, <3>3, <3>4 DEF HandMoves
  <2> QED BY <1>2, <2>1, <2>2 DEF CutAt
<1>3. \A op \in marks' : op \in marks \/ (InPlan /\ op = Here)
    OBVIOUS
<1>4. \A op : Sent(op)' => Sent(op) \/ (InPlan /\ op = Here)
    OBVIOUS
<1>5. \A r \in 1..MaxRequests, k \in 1..MaxPlan : CutAt(r, k)' => \E l \in 1..MaxPlan : CutAt(r, l)
    BY <1>2
<1> QED BY <1>1, <1>3, <1>4, <1>5, CutsKeep

\* A step that notes or sends the operation in hand.
LEMMA CutsTrace ==
    ASSUME PlanTypes, {MaxRequests, MaxPlan} \subseteq Nat, HandFits, CutsFit,
           planCrashes' = planCrashes, InPlan, ~ Waits, inHand.i <= Len(inHand.plan),
           Advances \/ (Rests /\ Waits'),
           \A op \in marks' : op \in marks \/ op = Here,
           \A op : Sent(op)' => Sent(op) \/ op = Here,
           \/ \A op : Sent(op)' => Sent(op)
           \/ marks' = marks /\ ~ Sent(Here)
    PROVE  CutsFit'
<1>0. Len(inHand.plan) \in Nat /\ MaxPlan \in Nat /\ MaxRequests \in Nat
    BY PlanFacts
<1>1. /\ answered \in Nat /\ answered' = answered /\ inHand.i \in Nat
      /\ inHand.req = answered + 1 /\ inHand.i \in 1..MaxPlan
  <2>1. answered' = answered
      BY DEF Advances, Rests
  <2>2. answered \in Nat /\ inHand.i \in Nat
      BY DEF PlanTypes
  <2>3. inHand.req = answered + 1 /\ inHand.i >= 1 /\ Len(inHand.plan) <= MaxPlan
      BY DEF HandFits
  <2> QED BY <1>0, <2>1, <2>2, <2>3
<1>2. ASSUME NEW r \in 1..MaxRequests, NEW k \in 1..MaxPlan, CutAt(r, k)' PROVE CutAt(r, k)
  <2>1. << r, k >> = Here => r = answered + 1 /\ k = inHand.i
      BY <1>1 DEF Here
  <2>2. << r, k >> = Here /\ Spent(Here) => CutAt(r, k)
      BY <2>1 DEF CutAt, Ahead
  <2>3. CASE << r, k >> \in marks' /\ Sent(<< r, k >>)'
    <3>1. CASE << r, k >> # Here
        BY <2>3, <3>1 DEF CutAt
    <3>2. CASE << r, k >> = Here
      <4>1. Spent(Here)
          BY <2>3, <3>2 DEF Spent
      <4> QED BY <2>2, <3>2, <4>1
    <3> QED BY <3>1, <3>2
  <2>4. CASE r = answered' + 1 /\ Spent(<< r, k >>)' /\ Ahead(k)'
    <3>1. k > inHand.i
      <4>1. CASE Advances
        <5>1. inHand'.i = inHand.i + 1
            BY <4>1 DEF Advances, PlanTypes
        <5>2. InPlan'
          <6>1. inHand' # Plan!Idle
              BY <1>1, <5>1, IdleIs
          <6> QED BY <6>1 DEF InPlan
        <5> QED BY <1>1, <2>4, <5>1, <5>2 DEF Ahead
      <4>2. CASE Rests /\ Waits'
        <5>1. inHand' = inHand /\ InPlan'
            BY <4>2 DEF Rests, InPlan
        <5> QED BY <2>4, <4>2, <5>1 DEF Ahead
      <4> QED BY <4>1, <4>2
    <3>2. << r, k >> # Here
        BY <1>1, <2>1, <3>1
    <3>3. Spent(<< r, k >>)
        BY <2>4, <3>2 DEF Spent
    <3> QED BY <1>1, <2>4, <3>1, <3>3 DEF CutAt, Ahead
  <2> QED BY <1>2, <2>3, <2>4 DEF CutAt
<1>3. \A op \in marks' : op \in marks \/ (InPlan /\ op = Here)
    OBVIOUS
<1>4. \A op : Sent(op)' => Sent(op) \/ (InPlan /\ op = Here)
    OBVIOUS
<1>5. \A r \in 1..MaxRequests, k \in 1..MaxPlan : CutAt(r, k)' => \E l \in 1..MaxPlan : CutAt(r, l)
    BY <1>2
<1> QED BY <1>0, <1>1, <1>3, <1>4, <1>5, CutsKeep

\* The instructions stay.
SameText == /\ DOMAIN planned' = DOMAIN planned
            /\ \A t \in DOMAIN planned : planned'[t].text = planned[t].text

LEMMA TextKeeps ==
    ASSUME TextFits, SameText, marks' = marks
    PROVE  TextFits'
BY DEF TextFits, SameText

LEMMA GivenKeeps ==
    ASSUME GivenFits, SameText, given' = given,
           \A t \in DOMAIN planned : \A op \in ToSet(given[t]) : Brought(op, t) => Brought(op, t)',
           \A op : Sent(op) => Sent(op)'
    PROVE  GivenFits'
BY DEF GivenFits, SameText

-----------------------------------------------------------------------------
(* The steps of a plan *)

PlanConstants == {MaxRequests, MaxPlan, MaxTasks, MaxQueued, MaxCrashes} \subseteq Nat

\* A command is carried out when no other is under way.
LEMMA InHandFacts ==
    ASSUME PlanTypes, HandFits, NEW kind, Plan!At(kind)
    PROVE  /\ planUp /\ InPlan /\ ~ Waits
           /\ inHand.i \in DOMAIN inHand.plan /\ inHand.i <= Len(inHand.plan)
           /\ inHand.plan[inHand.i].kind = kind
           /\ Plan!Op = Here /\ Here \in Operations
           /\ kind # "create" => Plan!Target \in DOMAIN planned
           /\ Plan!NextCommand => Advances
           /\ Plan!Reply => Replies
<1>1. /\ planUp /\ InPlan /\ inHand.i <= Len(inHand.plan)
      /\ inHand.plan[inHand.i].kind = kind /\ ~ Waits
    BY DEF Plan!At, InPlan, Waits
<1>2. inHand.i \in DOMAIN inHand.plan
  <2>1. inHand.i \in 1..(Len(inHand.plan) + 1)
      BY <1>1 DEF HandFits
  <2> QED BY <1>1, <2>1, PlanFacts
<1>3. Plan!Op = Here /\ Here \in Operations
    BY DEF Plan!Op, Here, Operations, PlanTypes
<1>4. kind # "create" => Plan!Target \in DOMAIN planned
    BY <1>1, <1>2 DEF Plan!Target, HandFits
<1>5. Plan!NextCommand => Advances
    BY <1>1 DEF Plan!NextCommand, Advances
<1>6. Plan!Reply => Replies
    BY <1>1 DEF Plan!Reply, Replies, HandFits
<1> QED BY <1>1, <1>2, <1>3, <1>4, <1>5, <1>6

OnlyHand == UNCHANGED << planned, outbox, marks, given, awaits, planUp, planCrashes >>

\* What a step of the hand alone cannot disturb.
LEMMA RestKeeps ==
    ASSUME PlanInv, OnlyHand
    PROVE  JobsFit' /\ BoxFits' /\ GivenFits' /\ TextFits' /\ NoneStranded'
<1>1. /\ planned' = planned /\ outbox' = outbox /\ marks' = marks /\ given' = given
      /\ awaits' = awaits /\ planUp' = planUp
    BY DEF OnlyHand
<1>2. JobsFit'
    BY <1>1 DEF PlanInv, JobsFit, JobStands
<1>3. BoxFits'
    BY <1>1 DEF PlanInv, BoxFits, OpsApart
<1>4. GivenFits'
    BY <1>1 DEF PlanInv, GivenFits, Brought, Sent
<1>5. TextFits'
    BY <1>1 DEF PlanInv, TextFits
<1>6. NoneStranded'
    BY <1>1 DEF PlanInv, NoneStranded
<1> QED BY <1>2, <1>3, <1>4, <1>5, <1>6

\* Nothing changes but the command in hand.
LEMMA HandOnly ==
    ASSUME PlanInv, PlanConstants, OnlyHand, planUp, ~ Waits, Advances \/ Replies
    PROVE  PlanInv'
<1>0. HandMoves /\ ~ Rests
  <2>1. inHand.i \in Nat /\ answered \in Nat
      BY DEF PlanInv, PlanTypes
  <2> QED BY <2>1 DEF HandMoves, Advances, Replies, Rests, PlanInv, PlanTypes
<1>1. /\ planned' = planned /\ outbox' = outbox /\ marks' = marks /\ given' = given
      /\ awaits' = awaits /\ planUp' = planUp /\ planCrashes' = planCrashes
    BY DEF OnlyHand
<1>2. PlanTypes'
  <2>1. /\ inHand' \in [req : Nat, plan : Seq(PlanSteps), i : Nat]
        /\ answered' \in 0..MaxRequests
      BY <1>0, HandTyped DEF PlanInv, PlanConstants
  <2> QED BY <1>1, <2>1 DEF PlanInv, PlanTypes
<1>3. HandFits'
    BY <1>0, <1>1, HandKeeps DEF PlanInv
<1>4. AwaitsFit'
  <2>1. \A a \in awaits : a.by # "plan"
      BY DEF Waits
  <2> QED BY <1>1, <2>1 DEF PlanInv, AwaitsFit
<1>5. CutsFit'
  <2>1. \A op : Sent(op)' <=> Sent(op)
      BY <1>1 DEF Sent
  <2> QED BY <1>0, <1>1, <2>1, CutsStay DEF PlanInv, PlanConstants
<1>6. QueueFits'
  <2>1. Queued' \subseteq Queued
      BY <1>1 DEF Queued
  <2> QED BY <1>0, <2>1, QueueKeeps DEF PlanInv, PlanConstants
<1> QED BY <1>2, <1>3, <1>4, <1>5, <1>6, RestKeeps DEF PlanInv

\* A plan that is taken up leaves no trace yet.
LEMMA ApplyOK ==
    ASSUME PlanInv, PlanConstants, NEW n \in 1..MaxPlan,
           NEW plan \in [1..n -> Plan!Commands], Plan!Apply(plan)
    PROVE  PlanInv'
<1>1. planUp /\ ~ InPlan /\ answered < MaxRequests /\ OnlyHand
    BY DEF Plan!Apply, OnlyHand, InPlan
<1>2. ~ Waits
    BY <1>1 DEF Waits, PlanInv, AwaitsFit
<1>3. CASE ~ Plan!Valid(plan)
  <2>1. Replies
      BY <1>1, <1>3 DEF Plan!Apply, Plan!Reply, Replies
  <2> QED BY <1>1, <1>2, <2>1, HandOnly
<1>4. CASE Plan!Valid(plan)
  <2>1. /\ inHand' = [req |-> answered + 1, plan |-> plan, i |-> 1] /\ answered' = answered
        /\ planned' = planned /\ outbox' = outbox /\ marks' = marks /\ given' = given
        /\ awaits' = awaits /\ planUp' = planUp /\ planCrashes' = planCrashes
      BY <1>4 DEF Plan!Apply
  <2>2. n \in Nat /\ n <= MaxPlan /\ answered \in Nat /\ MaxRequests \in Nat
      BY DEF PlanConstants, PlanInv, PlanTypes
  <2>3. \A c \in Plan!Commands : /\ c \in PlanSteps
                                 /\ c.kind # "create" => c.task \in DOMAIN planned
                                 /\ c.kind = "create" => c = Plan!Create
    <3>1. DOMAIN planned \subseteq Nat
        BY PlanFacts DEF PlanInv
    <3> QED BY <3>1, PlanTerms DEF Plan!Commands, Plan!Create, PlanSteps
  <2>4. plan \in Seq(PlanSteps) /\ Len(plan) = n /\ DOMAIN plan = 1..n
    <3>1. plan \in [1..n -> PlanSteps]
        BY <2>3
    <3>2. plan \in Seq(PlanSteps)
        BY <2>2, <3>1, SeqDef
    <3> QED BY <2>2, <3>1, <3>2, LenProperties
  <2>5. PlanTypes'
    <3>1. inHand' \in [req : Nat, plan : Seq(PlanSteps), i : Nat]
        BY <2>1, <2>2, <2>4
    <3> QED BY <2>1, <3>1 DEF PlanInv, PlanTypes
  <2>6. InPlan'
      BY <2>1, IdleIs DEF InPlan
  <2>7. HandFits'
    <3>1. inHand'.plan = plan /\ inHand'.req = answered' + 1 /\ inHand'.i = 1
        BY <2>1
    <3>2. \A k \in DOMAIN plan : plan[k].kind # "create" => plan[k].task \in DOMAIN planned
        BY <2>3, <2>4
    <3>3. inHand'.i \in 1..(Len(inHand'.plan) + 1)
        BY <2>2, <2>4, <3>1
    <3> QED BY <1>1, <2>1, <2>2, <2>4, <3>1, <3>2, <3>3 DEF HandFits
  <2>8. AwaitsFit'
    <3>1. \A a \in awaits : a.by # "plan"
        BY <1>2 DEF Waits
    <3> QED BY <2>1, <3>1 DEF PlanInv, AwaitsFit
  <2>9. CutsFit'
    <3>1. \A op : Sent(op)' <=> Sent(op)
        BY <2>1 DEF Sent
    <3>2. \A r \in 1..MaxRequests, k \in 1..MaxPlan : CutAt(r, k)' => CutAt(r, k)
        BY <1>1, <2>1, <3>1 DEF CutAt, Spent, Ahead
    <3> QED BY <2>1, <2>2, <3>1, <3>2, CutsKeep DEF PlanInv, PlanConstants
  <2>10. QueueFits'
    <3>1. Coming' = { k \in DOMAIN plan : plan[k] = Plan!Create }
      <4>1. Coming' = { k \in DOMAIN plan : k >= 1 /\ plan[k].kind = "create" }
          BY <2>1, <2>6 DEF Coming
      <4>2. \A k \in DOMAIN plan : k >= 1
          BY <2>4
      <4>3. \A k \in DOMAIN plan : plan[k].kind = "create" <=> plan[k] = Plan!Create
          BY <2>3, <2>4 DEF Plan!Create
      <4> QED BY <4>1, <4>2, <4>3
    <3>2. Queued' = Queued
        BY <2>1 DEF Queued
    <3>3. Cardinality({ k \in DOMAIN plan : plan[k] = Plan!Create }) + Cardinality(Queued)
            <= MaxQueued
        BY <1>4, PlanTerms DEF Plan!Valid
    <3> QED BY <3>1, <3>2, <3>3 DEF QueueFits
  <2> QED BY <1>1, <2>5, <2>7, <2>8, <2>9, <2>10, RestKeeps DEF PlanInv
<1> QED BY <1>3, <1>4

LEMMA FinishOK == ASSUME PlanInv, PlanConstants, Plan!Finish PROVE PlanInv'
<1>1. planUp /\ InPlan /\ inHand.i > Len(inHand.plan) /\ OnlyHand
    BY DEF Plan!Finish, InPlan, OnlyHand
<1>2. ~ Waits
  <2>1. Len(inHand.plan) \in Nat /\ inHand.i \in Nat
      BY PlanFacts DEF PlanInv, PlanTypes
  <2> QED BY <1>1, <2>1 DEF Waits, PlanInv, AwaitsFit
<1>3. Replies
    BY <1>1 DEF Plan!Finish, Plan!Reply, Replies, PlanInv, HandFits
<1> QED BY <1>1, <1>2, <1>3, HandOnly

\* A task more.
LEMMA CreateTaskOK == ASSUME PlanInv, PlanConstants, Plan!CreateTask PROVE PlanInv'
<1>0. PlanTypes /\ HandFits /\ Plan!At("create") /\ Plan!NextCommand
    BY DEF Plan!CreateTask, PlanInv
<1>1. /\ planUp /\ InPlan /\ ~ Waits /\ Advances
      /\ inHand.i \in DOMAIN inHand.plan /\ inHand.i <= Len(inHand.plan)
      /\ inHand.plan[inHand.i].kind = "create" /\ Here \in Operations /\ Plan!Op = Here
    BY <1>0, InHandFacts
<1>2. /\ outbox' = outbox /\ marks' = marks /\ awaits' = awaits
      /\ planUp' = planUp /\ planCrashes' = planCrashes
    BY DEF Plan!CreateTask
<1>3. CASE UNCHANGED << planned, given >>
  <2>1. OnlyHand
      BY <1>2, <1>3 DEF OnlyHand
  <2> QED BY <1>1, <2>1, HandOnly
<1>4. CASE ~ UNCHANGED << planned, given >>
  <2> DEFINE n == Len(planned)
             new == [op |-> Here, status |-> "queued", run |-> "none",
                     text |-> << >>, left |-> << >>]
  <2>1. planned' = Append(planned, new) /\ given' = Append(given, << >>)
      BY <1>1, <1>4 DEF Plan!CreateTask
  <2>2. new \in PlanTasks /\ << >> \in Seq(Operations)
    <3>1. << >> \in Seq(Operations)
        BY EmptySeq
    <3> QED BY <1>1, <3>1 DEF PlanTasks
  <2>3. /\ n \in Nat /\ DOMAIN planned = 1..n /\ DOMAIN given = 1..n /\ Len(given) = n
        /\ planned \in Seq(PlanTasks) /\ given \in Seq(Seq(Operations))
      BY <1>0, PlanFacts DEF PlanTypes
  <2>4. /\ planned' \in Seq(PlanTasks) /\ Len(planned') = n + 1 /\ planned'[n + 1] = new
        /\ \A t \in 1..n : planned'[t] = planned[t]
      BY <2>1, <2>2, <2>3, AppendProperties
  <2>5. /\ given' \in Seq(Seq(Operations)) /\ Len(given') = n + 1 /\ given'[n + 1] = << >>
        /\ \A t \in 1..n : given'[t] = given[t]
      BY <2>1, <2>2, <2>3, AppendProperties
  <2>6. DOMAIN planned' = 1..(n + 1)
      BY <2>4, LenProperties
  <2> HIDE DEF n, new
  <2>7. /\ new.status = "queued" /\ new.run = "none" /\ new.text = << >> /\ new.left = << >>
        /\ ToSet(new.text) = {} /\ ToSet(new.left) = {} /\ ToSet(given'[n + 1]) = {}
      BY <2>5 DEF new, ToSet
  <2>8. \A t \in DOMAIN planned' : t \in 1..n \/ t = n + 1
      BY <2>3, <2>6
  <2>9. 1..n \subseteq DOMAIN planned' /\ n + 1 \notin 1..n /\ n + 1 \in DOMAIN planned'
      BY <2>3, <2>6
  <2>10. PlanTypes'
    <3>1. inHand' \in [req : Nat, plan : Seq(PlanSteps), i : Nat] /\ answered' \in 0..MaxRequests
        BY <1>0, <1>1, HandTyped DEF PlanConstants, HandMoves
    <3> QED BY <1>0, <1>2, <2>4, <2>5, <3>1 DEF PlanTypes
  <2>11. HandFits'
      BY <1>0, <1>1, <1>2, <2>3, <2>9, HandKeeps DEF HandMoves
  <2>12. JobsFit'
    <3> SUFFICES ASSUME NEW t \in DOMAIN planned' PROVE JobStands(t)'
        BY DEF JobsFit
    <3>1. CASE t \in 1..n
      <4>1. planned'[t] = planned[t] /\ given'[t] = given[t] /\ JobStands(t)
          BY <2>3, <2>4, <2>5, <3>1 DEF PlanInv, JobsFit
      <4> QED BY <1>2, <4>1 DEF JobStands
    <3>2. CASE t = n + 1
        BY <2>4, <2>5, <2>7, <3>2 DEF JobStands
    <3> QED BY <2>8, <3>1, <3>2
  <2>13. BoxFits'
      BY <1>2, <2>3, <2>4, <2>9 DEF PlanInv, BoxFits, OpsApart
  <2>14. AwaitsFit'
    <3>1. \A a \in awaits : a.by # "plan"
        BY <1>1 DEF Waits
    <3> QED BY <1>1, <1>2, <3>1 DEF PlanInv, AwaitsFit
  <2>15. GivenFits'
    <3> SUFFICES ASSUME NEW t \in DOMAIN planned', NEW op \in ToSet(given'[t])
                 PROVE  /\ op \in ToSet(planned'[t].text) \/ Brought(op, t)'
                        /\ Before(given'[t], op, op) =>
                             op \in ToSet(planned'[t].text) /\ Sent(op)'
        BY DEF GivenFits
    <3>1. t \in 1..n
        BY <2>7, <2>8
    <3>2. Brought(op, t)' <=> Brought(op, t)
        BY <1>2 DEF Brought
    <3>3. Sent(op)' <=> Sent(op)
        BY <1>2 DEF Sent
    <3> QED BY <2>3, <2>4, <2>5, <3>1, <3>2, <3>3 DEF PlanInv, GivenFits
  <2>16. TextFits'
    <3> SUFFICES ASSUME NEW t \in DOMAIN planned', NEW op \in ToSet(planned'[t].text)
                 PROVE  /\ op \in marks'
                        /\ ~ Before(planned'[t].text, op, op)
                        /\ \A u \in DOMAIN planned' : op \in ToSet(planned'[u].text) => u = t
        BY DEF TextFits
    <3>1. t \in 1..n
        BY <2>4, <2>7, <2>8
    <3>2. \A u \in DOMAIN planned' : op \in ToSet(planned'[u].text) => u \in 1..n
        BY <2>4, <2>7, <2>8
    <3> QED BY <1>2, <2>3, <2>4, <3>1, <3>2 DEF PlanInv, TextFits
  <2>17. CutsFit'
    <3>1. \A op : Sent(op)' <=> Sent(op)
        BY <1>2 DEF Sent
    <3>2. ~ Rests
        BY <1>1 DEF Advances, Rests, PlanInv, PlanTypes
    <3> QED BY <1>1, <1>2, <3>1, <3>2, CutsStay DEF PlanInv, PlanConstants, HandMoves
  <2>18. QueueFits'
    <3>1. Queued' = Queued \cup {n + 1} /\ n + 1 \notin Queued
        BY <2>3, <2>4, <2>7, <2>8, <2>9 DEF Queued
    <3>2. /\ inHand'.plan = inHand.plan /\ inHand'.i = inHand.i + 1 /\ inHand.i \in Nat
          /\ \A k \in DOMAIN inHand.plan : k \in Nat
        BY <1>0, <1>1, PlanFacts DEF Advances, PlanTypes
    <3>3. InPlan'
      <4>1. inHand'.i # 0
          BY <3>2
      <4> QED BY <4>1, IdleIs DEF InPlan
    <3>4. inHand.i \in Coming /\ Coming' = Coming \ {inHand.i}
        BY <1>1, <3>2, <3>3 DEF Coming
    <3>5. IsFiniteSet(Queued) /\ IsFiniteSet(Coming)
      <4>1. IsFiniteSet(DOMAIN planned)
          BY <2>3, FS_Interval
      <4>2. Len(inHand.plan) \in Nat /\ DOMAIN inHand.plan = 1..Len(inHand.plan)
          BY <1>0, PlanFacts
      <4>3. IsFiniteSet(DOMAIN inHand.plan)
          BY <4>2, FS_Interval
      <4>4. Queued \in SUBSET DOMAIN planned /\ Coming \in SUBSET DOMAIN inHand.plan
          BY DEF Queued, Coming
      <4> QED BY <4>1, <4>3, <4>4, FS_Subset
    <3>6. Cardinality(Queued') = Cardinality(Queued) + 1
        BY <3>1, <3>5, FS_AddElement
    <3>7. Cardinality(Coming') = Cardinality(Coming) - 1
        BY <3>4, <3>5, FS_RemoveElement
    <3>8. Cardinality(Queued) \in Nat /\ Cardinality(Coming) \in Nat
        BY <3>5, FS_CardinalityType
    <3>9. Cardinality(Coming) + Cardinality(Queued) <= MaxQueued /\ MaxQueued \in Nat
        BY DEF PlanInv, QueueFits, PlanConstants
    <3> QED BY <3>6, <3>7, <3>8, <3>9 DEF QueueFits
  <2>19. NoneStranded'
    <3>1. \A c \in ToSet(outbox) : c.task \in 1..n
        BY <2>3 DEF PlanInv, BoxFits
    <3> QED BY <1>2, <2>4, <3>1 DEF PlanInv, NoneStranded
  <2> QED BY <2>10, <2>11, <2>12, <2>13, <2>14, <2>15, <2>16, <2>17, <2>18, <2>19 DEF PlanInv
<1> QED BY <1>3, <1>4

\* A queued task's instruction gets the words.
LEMMA InstructOK == ASSUME PlanInv, PlanConstants, Plan!Instruct PROVE PlanInv'
<1> DEFINE t == Plan!Target
<1>0. PlanTypes /\ HandFits /\ Plan!At("update") /\ Plan!NextCommand
    BY DEF Plan!Instruct, PlanInv
<1>1. /\ planUp /\ InPlan /\ ~ Waits /\ Advances /\ inHand.i <= Len(inHand.plan)
      /\ Here \in Operations /\ Plan!Op = Here /\ t \in DOMAIN planned
    BY <1>0, InHandFacts
<1>2. /\ outbox' = outbox /\ given' = given /\ awaits' = awaits
      /\ planUp' = planUp /\ planCrashes' = planCrashes /\ planned[t].status = "queued"
      /\ marks' = marks \cup {Here}
      /\ planned' = IF Here \in marks THEN planned
                    ELSE [planned EXCEPT ![t].text = Append(@, Here)]
    BY <1>1 DEF Plan!Instruct
<1>3. CASE Here \in marks
  <2>1. OnlyHand
      BY <1>2, <1>3 DEF OnlyHand
  <2> QED BY <1>1, <2>1, HandOnly
<1>4. CASE Here \notin marks
  <2> DEFINE e == [planned[t] EXCEPT !.text = Append(@, Here)]
  <2>1. /\ planned[t] \in PlanTasks /\ planned[t].text \in Seq(Operations)
        /\ planned \in Seq(PlanTasks)
      BY <1>0, <1>1, PlanFacts DEF PlanTypes
  <2>2. /\ Append(planned[t].text, Here) \in Seq(Operations)
        /\ ToSet(Append(planned[t].text, Here)) = ToSet(planned[t].text) \cup {Here}
        /\ \A x, y : Before(Append(planned[t].text, Here), x, y) <=>
             Before(planned[t].text, x, y) \/ (x \in ToSet(planned[t].text) /\ y = Here)
      BY <1>1, <2>1, AppendOrder
  <2>3. /\ e \in PlanTasks /\ e.op = planned[t].op /\ e.status = planned[t].status
        /\ e.run = planned[t].run /\ e.left = planned[t].left
        /\ e.text = Append(planned[t].text, Here)
      BY <2>1, <2>2 DEF PlanTasks
  <2>4. planned' = [planned EXCEPT ![t] = e]
      BY <1>2, <1>4
  <2> HIDE DEF e, t
  <2>5. /\ planned' \in Seq(PlanTasks) /\ Len(planned') = Len(planned)
        /\ DOMAIN planned' = DOMAIN planned
        /\ planned'[t] = e /\ \A u \in DOMAIN planned : u # t => planned'[u] = planned[u]
      BY <1>1, <2>1, <2>3, <2>4, TaskWritten
  <2>6. \A u \in DOMAIN planned : /\ planned'[u].status = planned[u].status
                                  /\ planned'[u].run = planned[u].run
                                  /\ planned'[u].left = planned[u].left
      BY <2>3, <2>5
  <2>7. \A u \in DOMAIN planned : u # t => planned'[u].text = planned[u].text
      BY <2>5
  <2>8. /\ ToSet(planned'[t].text) = ToSet(planned[t].text) \cup {Here}
        /\ \A x, y : Before(planned'[t].text, x, y) <=>
             Before(planned[t].text, x, y) \/ (x \in ToSet(planned[t].text) /\ y = Here)
    <3>1. planned'[t].text = Append(planned[t].text, Here)
        BY <2>3, <2>5
    <3> QED BY <2>2, <3>1
  <2>9. \A u \in DOMAIN planned : Here \notin ToSet(planned[u].text)
      BY <1>4 DEF PlanInv, TextFits
  <2>10. \A op : Sent(op)' <=> Sent(op)
      BY <1>2 DEF Sent
  <2>11. ~ Rests
      BY <1>1 DEF Advances, Rests, PlanInv, PlanTypes
  <2>12. PlanTypes'
    <3>1. inHand' \in [req : Nat, plan : Seq(PlanSteps), i : Nat] /\ answered' \in 0..MaxRequests
        BY <1>0, <1>1, HandTyped DEF PlanConstants, HandMoves
    <3> QED BY <1>0, <1>1, <1>2, <2>5, <3>1 DEF PlanTypes
  <2>13. HandFits'
      BY <1>0, <1>1, <1>2, <2>5, HandKeeps DEF HandMoves
  <2>14. JobsFit'
    <3> SUFFICES ASSUME NEW u \in DOMAIN planned PROVE JobStands(u)'
        BY <2>5 DEF JobsFit
    <3>1. JobStands(u)
        BY DEF PlanInv, JobsFit
    <3> QED BY <1>2, <2>6, <3>1 DEF JobStands
  <2>15. BoxFits'
      BY <1>2, <2>5, <2>6 DEF PlanInv, BoxFits, OpsApart
  <2>16. AwaitsFit'
    <3>1. \A a \in awaits : a.by # "plan"
        BY <1>1 DEF Waits
    <3> QED BY <1>1, <1>2, <3>1 DEF PlanInv, AwaitsFit
  <2>17. GivenFits'
    <3> SUFFICES ASSUME NEW u \in DOMAIN planned, NEW op \in ToSet(given[u])
                 PROVE  /\ op \in ToSet(planned'[u].text) \/ Brought(op, u)'
                        /\ Before(given[u], op, op) =>
                             op \in ToSet(planned'[u].text) /\ Sent(op)'
        BY <1>2, <2>5 DEF GivenFits
    <3>1. Brought(op, u)' <=> Brought(op, u)
        BY <1>2 DEF Brought
    <3>2. op \in ToSet(planned[u].text) => op \in ToSet(planned'[u].text)
        BY <2>7, <2>8
    <3> QED BY <2>10, <3>1, <3>2 DEF PlanInv, GivenFits
  <2>18. TextFits'
    <3> SUFFICES ASSUME NEW u \in DOMAIN planned, NEW op \in ToSet(planned'[u].text)
                 PROVE  /\ op \in marks'
                        /\ ~ Before(planned'[u].text, op, op)
                        /\ \A v \in DOMAIN planned : op \in ToSet(planned'[v].text) => v = u
        BY <2>5 DEF TextFits
    <3>1. CASE op = Here
      <4>1. u = t
          BY <2>7, <2>9, <3>1
      <4>2. ~ Before(planned[t].text, op, op)
          BY <1>1, <2>9, <3>1, BeforeIn
      <4>3. ~ Before(planned'[u].text, op, op)
          BY <1>1, <2>8, <2>9, <3>1, <4>1, <4>2
      <4> QED BY <1>2, <2>7, <2>9, <3>1, <4>1, <4>3
    <3>2. CASE op # Here
      <4>1. \A v \in DOMAIN planned : op \in ToSet(planned'[v].text) => op \in ToSet(planned[v].text)
          BY <2>7, <2>8, <3>2
      <4>2. ~ Before(planned'[u].text, op, op)
        <5>1. ~ Before(planned[u].text, op, op)
            BY <4>1 DEF PlanInv, TextFits
        <5>2. CASE u = t
            BY <2>8, <3>2, <5>1, <5>2
        <5>3. CASE u # t
            BY <2>7, <5>1, <5>3
        <5> QED BY <5>2, <5>3
      <4> QED BY <1>2, <4>1, <4>2 DEF PlanInv, TextFits
    <3> QED BY <3>1, <3>2
  <2>19. CutsFit'
      BY <1>1, <1>2, <2>10, CutsTrace DEF PlanInv, PlanConstants
  <2>20. QueueFits'
    <3>1. Queued' \subseteq Queued
        BY <2>5, <2>6 DEF Queued
    <3> QED BY <1>1, <3>1, QueueKeeps DEF PlanInv, PlanConstants, HandMoves
  <2>21. NoneStranded'
      BY <1>2, <2>6 DEF PlanInv, NoneStranded, BoxFits
  <2> QED BY <2>12, <2>13, <2>14, <2>15, <2>16, <2>17, <2>18, <2>19, <2>20, <2>21 DEF PlanInv
<1> QED BY <1>3, <1>4

\* An update for a task that is not queued: a command for its run.
LEMMA MessageOK == ASSUME PlanInv, PlanConstants, Plan!Message PROVE PlanInv'
<1> DEFINE t == Plan!Target
<1>0. PlanTypes /\ HandFits /\ Plan!At("update")
    BY DEF Plan!Message, PlanInv
<1>1. /\ planUp /\ InPlan /\ ~ Waits /\ inHand.i <= Len(inHand.plan)
      /\ Here \in Operations /\ Plan!Op = Here /\ t \in DOMAIN planned /\ t \in Nat
      /\ Plan!NextCommand => Advances
      /\ Plan!Reply => Replies
  <2>1. t \in DOMAIN planned
      BY <1>0, InHandFacts
  <2>2. t \in Nat
      BY <1>0, <2>1, PlanFacts
  <2> QED BY <1>0, <2>1, <2>2, InHandFacts
<1>2. /\ planned' = planned /\ marks' = marks /\ given' = given
      /\ planUp' = planUp /\ planCrashes' = planCrashes /\ planned[t].status # "queued"
    BY DEF Plan!Message
<1>3. Plan!Command(Here) # {} <=> Sent(Here)
    BY PlanTerms DEF Plan!Command, Sent
<1> HIDE DEF t
<1>4. \/ Plan!Reply /\ outbox' = outbox /\ awaits' = awaits
      \/ /\ planned[t].status # "over" /\ ~ Sent(Here) /\ planned[t].run \in {"replaying", "serving"}
         /\ outbox' = Plan!Put(outbox, Here, t, "sending") /\ Rests
         /\ awaits' = awaits \cup {[by |-> "plan", op |-> Here, task |-> t, taken |-> FALSE]}
      \/ /\ planned[t].status # "over" /\ ~ Sent(Here)
         /\ planned[t].run \notin {"replaying", "serving"}
         /\ outbox' = Plan!Put(outbox, Here, t, "pending") /\ Plan!NextCommand
         /\ awaits' = awaits
  <2>1. CASE Plan!Over(t) \/ Plan!Command(Here) # {}
      BY <1>1, <2>1 DEF Plan!Message, t
  <2>2. CASE ~ Plan!Over(t) /\ Plan!Command(Here) = {} /\ Plan!Registered(t)
      BY <1>1, <1>3, <2>2 DEF Plan!Message, Plan!Over, Plan!Registered, Plan!Await, Rests, t
  <2>3. CASE ~ Plan!Over(t) /\ Plan!Command(Here) = {} /\ ~ Plan!Registered(t)
      BY <1>1, <1>3, <2>3 DEF Plan!Message, Plan!Over, Plan!Registered, t
  <2> QED BY <2>1, <2>2, <2>3
<1>5. CASE Plan!Reply /\ outbox' = outbox /\ awaits' = awaits
    BY <1>1, <1>2, <1>5, HandOnly DEF OnlyHand
<1>6. ASSUME planned[t].status # "over", ~ Sent(Here), NEW s \in {"sending", "pending"},
             outbox' = Plan!Put(outbox, Here, t, s),
             s = "sending" => /\ Rests
                              /\ awaits' = awaits \cup {[by |-> "plan", op |-> Here, task |-> t,
                                                         taken |-> FALSE]},
             s = "pending" => /\ Advances /\ awaits' = awaits
                              /\ planned[t].run \notin {"replaying", "serving"}
      PROVE  PlanInv'
  <2> DEFINE c == [op |-> Here, task |-> t, state |-> s]
             a == [by |-> "plan", op |-> Here, task |-> t, taken |-> FALSE]
  <2>1. /\ outbox' \in Seq(ProviderCommands) /\ OpsApart(outbox')
        /\ ToSet(outbox') = { d \in ToSet(outbox) : d.op # Here } \cup {c}
    <3>1. outbox \in Seq(ProviderCommands) /\ OpsApart(outbox) /\ s \in States
        BY DEF PlanInv, PlanTypes, BoxFits, States
    <3> QED BY <1>1, <1>6, <3>1, PutForm
  <2>2. ToSet(outbox') = ToSet(outbox) \cup {c}
      BY <1>6, <2>1 DEF Sent
  <2>3. /\ planned[t].run # "none"
        /\ s = "pending" => planned[t].run = "opening"
    <3>1. JobStands(t) /\ planned[t] \in PlanTasks
        BY <1>0, <1>1, PlanFacts DEF PlanInv, JobsFit
    <3> QED BY <1>2, <1>6, <3>1 DEF JobStands, PlanTasks
  <2>4. /\ \A b \in awaits : b.op # Here /\ b.by # "plan"
        /\ awaits \subseteq awaits' /\ awaits' \subseteq awaits \cup {a}
        /\ s = "sending" => a \in awaits'
        /\ s = "pending" => a \notin awaits'
    <3>1. \A b \in awaits : b.op # Here /\ b.by # "plan"
        BY <1>1, <1>6 DEF PlanInv, AwaitsFit, Sent, Waits
    <3> QED BY <1>6, <3>1
  <2> HIDE DEF c, a
  <2>5. c.op = Here /\ c.task = t /\ c.state = s
      BY DEF c
  <2>6. /\ a.op = Here /\ a.task = t /\ a.by = "plan" /\ a.taken = FALSE
        /\ a \in [by : {"plan", "replay"}, op : Operations, task : Nat, taken : BOOLEAN]
      BY <1>1 DEF a
  <2>7. HandMoves
      BY <1>6 DEF HandMoves
  <2>8. PlanTypes'
    <3>1. inHand' \in [req : Nat, plan : Seq(PlanSteps), i : Nat] /\ answered' \in 0..MaxRequests
        BY <1>0, <2>7, HandTyped DEF PlanConstants
    <3>2. awaits' \subseteq [by : {"plan", "replay"}, op : Operations, task : Nat, taken : BOOLEAN]
        BY <2>4, <2>6 DEF PlanInv, PlanTypes
    <3> QED BY <1>0, <1>2, <2>1, <3>1, <3>2 DEF PlanTypes
  <2>9. HandFits'
      BY <1>0, <1>1, <1>2, <2>7, HandKeeps
  <2>10. JobsFit'
    <3> SUFFICES ASSUME NEW u \in DOMAIN planned PROVE JobStands(u)'
        BY <1>2 DEF JobsFit
    <3>1. JobStands(u)
        BY DEF PlanInv, JobsFit
    <3> QED BY <1>2, <2>2, <3>1 DEF JobStands
  <2>11. BoxFits'
      BY <1>1, <1>2, <2>1, <2>2, <2>3, <2>5 DEF PlanInv, BoxFits
  <2>12. AwaitsFit'
    <3>1. \A b, d \in awaits' : b.op = d.op => b = d
        BY <2>4, <2>6 DEF PlanInv, AwaitsFit
    <3>2. ASSUME NEW b \in awaits'
          PROVE  /\ \E d \in ToSet(outbox') : d.op = b.op /\ d.task = b.task /\ d.state # "pending"
                 /\ b.by = "plan" => /\ InPlan' /\ inHand'.i <= Len(inHand'.plan)
                                     /\ b.op = Here'
      <4>1. CASE b \in awaits
          BY <2>2, <2>4, <4>1 DEF PlanInv, AwaitsFit
      <4>2. CASE b = a /\ b \notin awaits
        <5>1. s = "sending"
            BY <1>6, <2>4, <4>2
        <5>2. inHand' = inHand
            BY <1>6, <5>1 DEF Rests
        <5> QED BY <1>1, <2>2, <2>5, <2>6, <4>2, <5>1, <5>2 DEF InPlan, Here
      <4> QED BY <2>4, <4>1, <4>2
    <3> QED BY <1>1, <1>2, <3>1, <3>2 DEF AwaitsFit
  <2>13. GivenFits'
    <3>1. ASSUME NEW u \in DOMAIN planned, NEW op \in ToSet(given[u]), Brought(op, u)
          PROVE  Brought(op, u)'
      <4>1. op # Here
          BY <1>6, <3>1 DEF Brought, Sent
      <4> QED BY <2>2, <2>4, <2>6, <3>1, <4>1 DEF Brought
    <3>2. \A op : Sent(op) => Sent(op)'
        BY <2>2 DEF Sent
    <3> QED BY <1>2, <3>1, <3>2, GivenKeeps DEF SameText, PlanInv
  <2>14. TextFits'
      BY <1>2, TextKeeps DEF SameText, PlanInv
  <2>15. CutsFit'
    <3>1. \A op : Sent(op)' => Sent(op) \/ op = Here
        BY <2>2, <2>5 DEF Sent
    <3>2. Advances \/ (Rests /\ Waits')
        BY <1>6, <2>4, <2>6 DEF Waits
    <3> QED BY <1>1, <1>2, <1>6, <3>1, <3>2, CutsTrace DEF PlanInv, PlanConstants
  <2>16. QueueFits'
    <3>1. Queued' \subseteq Queued
        BY <1>2 DEF Queued
    <3> QED BY <2>7, <3>1, QueueKeeps DEF PlanInv, PlanConstants
  <2>17. NoneStranded'
      BY <1>1, <1>2, <2>2, <2>3, <2>4, <2>5, <2>6 DEF PlanInv, NoneStranded
  <2> QED BY <2>8, <2>9, <2>10, <2>11, <2>12, <2>13, <2>14, <2>15, <2>16, <2>17 DEF PlanInv
<1>7. CASE /\ planned[t].status # "over" /\ ~ Sent(Here) /\ Rests
           /\ planned[t].run \in {"replaying", "serving"}
           /\ outbox' = Plan!Put(outbox, Here, t, "sending")
           /\ awaits' = awaits \cup {[by |-> "plan", op |-> Here, task |-> t, taken |-> FALSE]}
  <2>1. "sending" # "pending"
      OBVIOUS
  <2> QED BY <1>6, <1>7, <2>1
<1>8. CASE /\ planned[t].status # "over" /\ ~ Sent(Here)
           /\ planned[t].run \notin {"replaying", "serving"}
           /\ outbox' = Plan!Put(outbox, Here, t, "pending") /\ Plan!NextCommand
           /\ awaits' = awaits
  <2>1. "sending" # "pending" /\ Advances
      BY <1>1, <1>8
  <2> QED BY <1>6, <1>8, <2>1
<1> QED BY <1>4, <1>5, <1>7, <1>8

\* A call to a worker is over.
LEMMA SettledOK ==
    ASSUME PlanInv, PlanConstants, NEW a \in awaits, NEW s \in {"sent", "failed"},
           outbox' = Plan!Put(outbox, a.op, a.task, s), awaits' = awaits \ {a},
           UNCHANGED << planned, marks, given, planUp, planCrashes >>,
           \/ a.by = "plan" /\ (Advances \/ Replies)
           \/ a.by = "replay" /\ Rests
    PROVE  PlanInv'
<1> DEFINE c == [op |-> a.op, task |-> a.task, state |-> s]
<1>1. /\ planned' = planned /\ marks' = marks /\ given' = given /\ planUp' = planUp
      /\ planCrashes' = planCrashes
    OBVIOUS
<1>2. a.op \in Operations /\ a.task \in Nat /\ planUp /\ HandMoves /\ PlanTypes /\ HandFits
    BY DEF PlanInv, PlanTypes, AwaitsFit, HandMoves
<1>3. /\ outbox' \in Seq(ProviderCommands) /\ OpsApart(outbox')
      /\ ToSet(outbox') = { d \in ToSet(outbox) : d.op # a.op } \cup {c}
  <2>1. outbox \in Seq(ProviderCommands) /\ OpsApart(outbox) /\ s \in States
      BY DEF PlanInv, PlanTypes, BoxFits, States
  <2> QED BY <1>2, <2>1, PutForm
<1>4. PICK e \in ToSet(outbox) : e.op = a.op /\ e.task = a.task /\ e.state # "pending"
    BY DEF PlanInv, AwaitsFit
<1>5. \A d \in ToSet(outbox) : d.op = a.op => d = e
  <2>1. outbox \in Seq(ProviderCommands) /\ OpsApart(outbox)
      BY DEF PlanInv, PlanTypes, BoxFits
  <2> QED BY <1>4, <2>1, OneCommand
<1> HIDE DEF c
<1>6. c.op = a.op /\ c.task = a.task /\ c.state = s /\ s # "pending" /\ s # "sending"
    BY DEF c
<1>7. \A d \in ToSet(outbox') : d = c \/ (d \in ToSet(outbox) /\ d.op # a.op)
    BY <1>3
<1>8. \A d \in ToSet(outbox) : d \in ToSet(outbox') \/ d = e
    BY <1>3, <1>5
<1>9. c \in ToSet(outbox')
    BY <1>3
<1>10. \A op : Sent(op)' <=> Sent(op)
    BY <1>4, <1>6, <1>7, <1>8, <1>9 DEF Sent
<1>11. awaits' \subseteq awaits /\ a \notin awaits' /\ \A b \in awaits : b # a => b \in awaits'
    OBVIOUS
<1>12. \A b \in awaits' : b.op # a.op
    BY <1>11 DEF PlanInv, AwaitsFit
<1>13. PlanTypes'
  <2>1. inHand' \in [req : Nat, plan : Seq(PlanSteps), i : Nat] /\ answered' \in 0..MaxRequests
      BY <1>2, HandTyped DEF PlanConstants
  <2> QED BY <1>1, <1>2, <1>3, <1>11, <2>1 DEF PlanTypes
<1>14. HandFits'
    BY <1>1, <1>2, HandKeeps
<1>15. JobsFit'
  <2> SUFFICES ASSUME NEW t \in DOMAIN planned PROVE JobStands(t)'
      BY <1>1 DEF JobsFit
  <2>1. JobStands(t)
      BY DEF PlanInv, JobsFit
  <2>2. ASSUME NEW d \in ToSet(outbox), d.state = "pending" PROVE d \in ToSet(outbox')
      BY <1>4, <1>8, <2>2
  <2> QED BY <1>1, <2>1, <2>2 DEF JobStands
<1>16. BoxFits'
  <2>1. c.task \in DOMAIN planned
      BY <1>4, <1>6 DEF PlanInv, BoxFits
  <2> QED BY <1>1, <1>3, <1>6, <1>7, <2>1 DEF PlanInv, BoxFits
<1>17. AwaitsFit'
  <2>1. \A b, d \in awaits' : b.op = d.op => b = d
      BY <1>11 DEF PlanInv, AwaitsFit
  <2>2. ASSUME NEW b \in awaits'
        PROVE  /\ \E d \in ToSet(outbox') : d.op = b.op /\ d.task = b.task /\ d.state # "pending"
               /\ b.by = "plan" => InPlan' /\ inHand'.i <= Len(inHand'.plan) /\ b.op = Here'
    <3>1. b \in awaits /\ b.op # a.op
        BY <1>11, <1>12
    <3>2. /\ \E d \in ToSet(outbox) : d.op = b.op /\ d.task = b.task /\ d.state # "pending"
          /\ b.by = "plan" => InPlan /\ inHand.i <= Len(inHand.plan) /\ b.op = Here
        BY <3>1 DEF PlanInv, AwaitsFit
    <3>3. \E d \in ToSet(outbox') : d.op = b.op /\ d.task = b.task /\ d.state # "pending"
        BY <1>4, <1>8, <3>1, <3>2
    <3>4. ASSUME b.by = "plan" PROVE Rests
      <4>1. a.by = "plan" => a.op = Here
          BY DEF PlanInv, AwaitsFit
      <4> QED BY <3>1, <3>2, <3>4, <4>1
    <3>5. Rests => inHand' = inHand /\ Here' = Here /\ (InPlan' <=> InPlan)
        BY DEF Rests, Here, InPlan
    <3> QED BY <3>2, <3>3, <3>4, <3>5
  <2> QED BY <1>1, <1>2, <2>1, <2>2 DEF AwaitsFit
<1>18. GivenFits'
  <2>1. ASSUME NEW t \in DOMAIN planned, NEW op \in ToSet(given[t]), Brought(op, t)
        PROVE  Brought(op, t)'
    <3>1. PICK d \in ToSet(outbox) : d.op = op /\ d.task = t /\ d.state # "pending"
        BY <2>1 DEF Brought
    <3>2. \E x \in ToSet(outbox') : x.op = op /\ x.task = t /\ x.state # "pending"
        BY <1>4, <1>6, <1>8, <1>9, <3>1
    <3> QED BY <1>11, <2>1, <3>2 DEF Brought
  <2> QED BY <1>1, <1>10, <2>1, GivenKeeps DEF SameText, PlanInv
<1>19. TextFits'
    BY <1>1, TextKeeps DEF SameText, PlanInv
<1>20. CutsFit'
  <2>1. Rests /\ Waits => Waits'
    <3>1. ASSUME Rests, Waits PROVE Waits'
      <4>1. ~ (Advances \/ Replies)
        <5>1. inHand.i \in Nat /\ answered \in Nat
            BY <1>2 DEF PlanTypes
        <5> QED BY <3>1, <5>1, <1>2 DEF Rests, Advances, Replies, PlanTypes
      <4>2. a.by = "replay"
          BY <4>1
      <4>3. PICK b \in awaits : b.by = "plan"
          BY <3>1 DEF Waits
      <4>4. b \in awaits'
          BY <1>11, <4>2, <4>3
      <4> QED BY <4>3, <4>4 DEF Waits
    <3> QED BY <3>1
  <2> QED BY <1>1, <1>2, <1>10, <2>1, CutsStay DEF PlanInv, PlanConstants
<1>21. QueueFits'
  <2>1. Queued' \subseteq Queued
      BY <1>1 DEF Queued
  <2> QED BY <1>2, <2>1, QueueKeeps DEF PlanInv, PlanConstants
<1>22. NoneStranded'
  <2> SUFFICES ASSUME NEW d \in ToSet(outbox')
               PROVE  /\ d.state = "pending" =>
                           \/ planned[d.task].run = "opening"
                           \/ d.op \in ToSet(planned[d.task].left)
                      /\ d.state = "sending" =>
                           \E b \in awaits' : b.op = d.op /\ b.task = d.task
      BY <1>1 DEF NoneStranded
  <2>1. CASE d = c
      BY <1>6, <2>1
  <2>2. CASE d \in ToSet(outbox) /\ d.op # a.op
    <3>1. /\ d.state = "pending" =>
               \/ planned[d.task].run = "opening"
               \/ d.op \in ToSet(planned[d.task].left)
          /\ d.state = "sending" => \E b \in awaits : b.op = d.op /\ b.task = d.task
        BY <1>2, <2>2 DEF PlanInv, NoneStranded
    <3>2. \A b \in awaits : b.op = d.op => b \in awaits'
        BY <1>11, <2>2
    <3> QED BY <3>1, <3>2
  <2> QED BY <1>7, <2>1, <2>2
<1> QED BY <1>13, <1>14, <1>15, <1>16, <1>17, <1>18, <1>19, <1>20, <1>21, <1>22 DEF PlanInv

LEMMA DeliveredOK ==
    ASSUME PlanInv, PlanConstants, NEW a \in awaits, NEW ok \in BOOLEAN, Plan!Delivered(a, ok)
    PROVE  PlanInv'
<1>1. a.by = "plan" => InPlan /\ inHand.i <= Len(inHand.plan) /\ answered < MaxRequests
    BY DEF PlanInv, AwaitsFit, HandFits
<1>2. /\ a.by = "plan" /\ awaits' = awaits \ {a}
      /\ outbox' = Plan!Put(outbox, a.op, a.task, IF ok THEN "sent" ELSE "failed")
      /\ UNCHANGED << planned, marks, given, planUp, planCrashes >>
    BY DEF Plan!Delivered
<1>3. Advances \/ Replies
    BY <1>1, <1>2 DEF Plan!Delivered, Plan!NextCommand, Plan!Reply, Advances, Replies
<1> DEFINE s == IF ok THEN "sent" ELSE "failed"
<1>4. s \in {"sent", "failed"} /\ outbox' = Plan!Put(outbox, a.op, a.task, s)
    BY <1>2
<1> HIDE DEF s
<1> QED BY <1>2, <1>3, <1>4, SettledOK

LEMMA ReplayedOK ==
    ASSUME PlanInv, PlanConstants, NEW a \in awaits, NEW ok \in BOOLEAN, Plan!Replayed(a, ok)
    PROVE  PlanInv'
<1>1. /\ a.by = "replay" /\ awaits' = awaits \ {a} /\ Rests
      /\ outbox' = Plan!Put(outbox, a.op, a.task, IF ok THEN "sent" ELSE "failed")
      /\ UNCHANGED << planned, marks, given, planUp, planCrashes >>
    BY DEF Plan!Replayed, Plan!OnlyTasks, Rests
<1> DEFINE s == IF ok THEN "sent" ELSE "failed"
<1>2. s \in {"sent", "failed"} /\ outbox' = Plan!Put(outbox, a.op, a.task, s)
    BY <1>1
<1> HIDE DEF s
<1> QED BY <1>1, <1>2, SettledOK

-----------------------------------------------------------------------------
(* The steps of a worker and of its dispatch job *)

\* Of steps that leave the plan in hand and its marks alone.
JobStep == /\ Rests /\ marks' = marks /\ planUp' = planUp /\ planCrashes' = planCrashes

LEMMA JobStepKeeps ==
    ASSUME PlanInv, PlanConstants, JobStep, planUp, DOMAIN planned' = DOMAIN planned,
           \A op : Sent(op)' <=> Sent(op), Waits => Waits', Queued' \subseteq Queued
    PROVE  /\ inHand' \in [req : Nat, plan : Seq(PlanSteps), i : Nat]
           /\ answered' \in 0..MaxRequests
           /\ HandFits' /\ CutsFit' /\ QueueFits'
<1>1. HandMoves /\ PlanTypes /\ HandFits /\ planUp'
    BY DEF JobStep, HandMoves, PlanInv
<1>2. /\ inHand' \in [req : Nat, plan : Seq(PlanSteps), i : Nat]
      /\ answered' \in 0..MaxRequests
    BY <1>1, HandTyped DEF PlanConstants
<1>3. HandFits'
    BY <1>1, HandKeeps
<1>4. CutsFit'
    BY <1>1, CutsStay DEF JobStep, PlanInv, PlanConstants
<1>5. QueueFits'
    BY <1>1, QueueKeeps DEF PlanInv, PlanConstants
<1> QED BY <1>2, <1>3, <1>4, <1>5

\* A worker takes an update.
LEMMA TakenOK ==
    ASSUME PlanInv, PlanConstants, NEW a \in awaits, Plan!Taken(a)
    PROVE  PlanInv'
<1> DEFINE b == [a EXCEPT !.taken = TRUE]
           t == a.task
<1>1. /\ JobStep /\ ~ a.taken /\ planned[t].run \in {"replaying", "serving"}
      /\ awaits' = (awaits \ {a}) \cup {b}
      /\ given' = [given EXCEPT ![t] = Append(@, a.op)]
      /\ planned' = planned /\ outbox' = outbox
    BY DEF Plan!Taken, Plan!Registered, JobStep, Rests
<1>2. /\ a \in [by : {"plan", "replay"}, op : Operations, task : Nat, taken : BOOLEAN]
      /\ planUp /\ PlanTypes
    BY DEF PlanInv, PlanTypes, AwaitsFit
<1>3. /\ b \in [by : {"plan", "replay"}, op : Operations, task : Nat, taken : BOOLEAN]
      /\ b.by = a.by /\ b.op = a.op /\ b.task = a.task /\ b.taken = TRUE
    BY <1>2
<1>4. PICK e \in ToSet(outbox) : e.op = a.op /\ e.task = t /\ e.state # "pending"
    BY DEF PlanInv, AwaitsFit
<1>5. t \in DOMAIN planned
    BY <1>4 DEF PlanInv, BoxFits
<1> HIDE DEF b, t
<1>6. /\ t \in DOMAIN given /\ given \in Seq(Seq(Operations)) /\ given[t] \in Seq(Operations)
      /\ DOMAIN given = DOMAIN planned
    BY <1>2, <1>5, PlanFacts DEF PlanTypes
<1>7. /\ Append(given[t], a.op) \in Seq(Operations)
      /\ ToSet(Append(given[t], a.op)) = ToSet(given[t]) \cup {a.op}
      /\ \A x, y : Before(Append(given[t], a.op), x, y) <=>
           Before(given[t], x, y) \/ (x \in ToSet(given[t]) /\ y = a.op)
    BY <1>2, <1>6, AppendOrder
<1>8. /\ given' \in Seq(Seq(Operations)) /\ Len(given') = Len(given)
      /\ given'[t] = Append(given[t], a.op)
      /\ \A u \in DOMAIN planned : u # t => given'[u] = given[u]
    BY <1>1, <1>6, <1>7, TaskWritten
<1>9. /\ ToSet(given'[t]) = ToSet(given[t]) \cup {a.op}
      /\ \A x, y : Before(given'[t], x, y) <=>
           Before(given[t], x, y) \/ (x \in ToSet(given[t]) /\ y = a.op)
    BY <1>7, <1>8
<1>10. /\ \A d \in awaits' : d = b \/ (d \in awaits /\ d # a)
       /\ \A d \in awaits : d # a => d \in awaits'
       /\ b \in awaits' /\ \A d \in awaits : d.op = a.op => d = a
    BY <1>1 DEF PlanInv, AwaitsFit
<1>11. \A op : Sent(op)' <=> Sent(op)
    BY <1>1 DEF Sent
<1>12. /\ inHand' \in [req : Nat, plan : Seq(PlanSteps), i : Nat]
       /\ answered' \in 0..MaxRequests
       /\ HandFits' /\ CutsFit' /\ QueueFits'
  <2>1. Waits => Waits'
    <3>1. ASSUME NEW d \in awaits, d.by = "plan" PROVE \E f \in awaits' : f.by = "plan"
        BY <1>3, <1>10, <3>1
    <3> QED BY <3>1 DEF Waits
  <2>2. Queued' \subseteq Queued
      BY <1>1 DEF Queued
  <2> QED BY <1>1, <1>2, <1>11, <2>1, <2>2, JobStepKeeps
<1>13. PlanTypes'
  <2>1. awaits' \subseteq [by : {"plan", "replay"}, op : Operations, task : Nat, taken : BOOLEAN]
      BY <1>1, <1>2, <1>3 DEF PlanTypes
  <2> QED BY <1>1, <1>2, <1>8, <1>12, <2>1 DEF PlanTypes, JobStep
<1>14. JobsFit'
  <2> SUFFICES ASSUME NEW u \in DOMAIN planned PROVE JobStands(u)'
      BY <1>1 DEF JobsFit
  <2>1. JobStands(u) /\ (u = t => planned[u].status # "queued" /\ planned[u].run # "opening")
      BY <1>1 DEF PlanInv, JobsFit, JobStands
  <2>2. CASE u = t
      BY <1>1, <2>1, <2>2 DEF JobStands
  <2>3. CASE u # t
      BY <1>1, <1>8, <2>1, <2>3 DEF JobStands
  <2> QED BY <2>2, <2>3
<1>15. BoxFits'
    BY <1>1 DEF PlanInv, BoxFits, OpsApart
<1>16. AwaitsFit'
  <2>1. \A d, f \in awaits' : d.op = f.op => d = f
      BY <1>3, <1>10 DEF PlanInv, AwaitsFit
  <2>2. inHand' = inHand /\ Here' = Here /\ (InPlan' <=> InPlan) /\ planUp'
      BY <1>1, <1>2 DEF JobStep, Rests, Here, InPlan
  <2>3. \A d \in awaits' : \E f \in awaits : f.op = d.op /\ f.task = d.task /\ f.by = d.by
      BY <1>3, <1>10
  <2>4. \A d \in awaits' :
          /\ \E c \in ToSet(outbox') : c.op = d.op /\ c.task = d.task /\ c.state # "pending"
          /\ d.by = "plan" => InPlan' /\ inHand'.i <= Len(inHand'.plan) /\ d.op = Here'
      BY <1>1, <2>2, <2>3 DEF PlanInv, AwaitsFit
  <2> QED BY <2>1, <2>2, <2>4 DEF AwaitsFit
<1>17. GivenFits'
  <2>1. ASSUME NEW op, NEW u, Brought(op, u) PROVE Brought(op, u)'
      BY <1>1, <1>3, <1>10, <2>1 DEF Brought
  <2>2. Brought(a.op, t)' /\ ~ Brought(a.op, t)
      BY <1>1, <1>3, <1>4, <1>10 DEF Brought
  <2>3. ASSUME NEW u \in DOMAIN planned, NEW op \in ToSet(given'[u])
        PROVE  /\ op \in ToSet(planned[u].text) \/ Brought(op, u)'
               /\ Before(given'[u], op, op) => op \in ToSet(planned[u].text) /\ Sent(op)
    <3>1. CASE op \in ToSet(given[u]) /\ (Before(given'[u], op, op) => Before(given[u], op, op))
        BY <2>1, <3>1 DEF PlanInv, GivenFits
    <3>2. CASE u # t
        BY <1>8, <3>1, <3>2
    <3>3. CASE u = t /\ op # a.op
        BY <1>9, <3>1, <3>3
    <3>4. CASE u = t /\ op = a.op
      <4>1. op \in ToSet(given[t]) => op \in ToSet(planned[t].text)
          BY <1>5, <2>2, <3>4 DEF PlanInv, GivenFits
      <4>2. Before(given[t], op, op) => op \in ToSet(given[t])
          BY BeforeIn
      <4>3. Before(given'[t], op, op) => op \in ToSet(given[t])
          BY <1>9, <3>4, <4>2
      <4>4. Sent(op)
          BY <1>4, <3>4 DEF Sent
      <4> QED BY <2>2, <3>4, <4>1, <4>3, <4>4
    <3> QED BY <3>2, <3>3, <3>4
  <2> QED BY <1>1, <1>11, <2>3 DEF GivenFits
<1>18. TextFits'
    BY <1>1, TextKeeps DEF SameText, PlanInv, JobStep
<1>19. NoneStranded'
  <2>1. \A d \in awaits : \E f \in awaits' : f.op = d.op /\ f.task = d.task
      BY <1>3, <1>10
  <2> QED BY <1>1, <1>2, <2>1 DEF PlanInv, NoneStranded
<1> QED BY <1>12, <1>13, <1>14, <1>15, <1>16, <1>17, <1>18, <1>19 DEF PlanInv

\* A step that writes the record of one task, and changes neither its words nor
\* what was handed to anybody.
LEMMA JobTyped ==
    ASSUME PlanInv, NEW t \in DOMAIN planned, NEW e \in PlanTasks, e.text = planned[t].text,
           planned' = [planned EXCEPT ![t] = e]
    PROVE  /\ planned' \in Seq(PlanTasks) /\ Len(planned') = Len(planned) /\ SameText
           /\ planned'[t] = e /\ \A u \in DOMAIN planned : u # t => planned'[u] = planned[u]
<1>1. planned \in Seq(PlanTasks)
    BY DEF PlanInv, PlanTypes
<1>2. /\ planned' \in Seq(PlanTasks) /\ Len(planned') = Len(planned)
      /\ DOMAIN planned' = DOMAIN planned
      /\ planned'[t] = e /\ \A u \in DOMAIN planned : u # t => planned'[u] = planned[u]
    BY <1>1, TaskWritten
<1> QED BY <1>2 DEF SameText

\* The request of a run is on its way, with the instruction as it is.
LEMMA BeginOK ==
    ASSUME PlanInv, PlanConstants, NEW t \in DOMAIN planned, Plan!Begin(t)
    PROVE  PlanInv'
<1> DEFINE e == [planned[t] EXCEPT !.status = "running", !.run = "opening"]
<1>1. /\ planUp /\ planned[t].status = "queued" /\ JobStep
      /\ planned' = [planned EXCEPT ![t].status = "running", ![t].run = "opening"]
      /\ outbox' = outbox /\ given' = given /\ awaits' = awaits
    BY PlanTerms DEF Plan!Begin, Plan!OnlyTasks, JobStep, Rests, Queued
<1>2. PlanTypes /\ planned[t] \in PlanTasks
    BY PlanFacts DEF PlanInv
<1>3. /\ e \in PlanTasks /\ e.text = planned[t].text /\ e.left = planned[t].left
      /\ e.status = "running" /\ e.run = "opening"
    BY <1>2 DEF PlanTasks
<1>4. planned' = [planned EXCEPT ![t] = e]
    BY <1>1
<1> HIDE DEF e
<1>5. /\ planned' \in Seq(PlanTasks) /\ Len(planned') = Len(planned) /\ SameText
      /\ planned'[t] = e /\ \A u \in DOMAIN planned : u # t => planned'[u] = planned[u]
    BY <1>3, <1>4, JobTyped
<1>6. DOMAIN planned' = DOMAIN planned
    BY <1>5 DEF SameText
<1>7. \A op : Sent(op)' <=> Sent(op)
    BY <1>1 DEF Sent
<1>8. /\ inHand' \in [req : Nat, plan : Seq(PlanSteps), i : Nat]
      /\ answered' \in 0..MaxRequests
      /\ HandFits' /\ CutsFit' /\ QueueFits'
  <2>1. Waits => Waits'
      BY <1>1 DEF Waits
  <2>2. Queued' \subseteq Queued
      BY <1>3, <1>5, <1>6 DEF Queued
  <2> QED BY <1>1, <1>6, <1>7, <2>1, <2>2, JobStepKeeps
<1>9. PlanTypes'
    BY <1>1, <1>2, <1>5, <1>8 DEF PlanTypes, JobStep
<1>10. JobStands(t) /\ planned[t].run = "none" /\ planned[t].left = << >>
    BY <1>1 DEF PlanInv, JobsFit, JobStands
<1>11. JobsFit'
  <2> SUFFICES ASSUME NEW u \in DOMAIN planned PROVE JobStands(u)'
      BY <1>6 DEF JobsFit
  <2>1. CASE u = t
    <3>1. planned'[u].left = << >> /\ given'[u] = << >> /\ ToSet(planned'[u].left) = {}
      <4>1. planned'[u].left = << >> /\ given'[u] = << >>
          BY <1>1, <1>3, <1>5, <1>10, <2>1 DEF JobStands
      <4> QED BY <4>1 DEF ToSet
    <3> QED BY <1>3, <1>5, <2>1, <3>1 DEF JobStands
  <2>2. CASE u # t
    <3>1. JobStands(u) /\ planned'[u] = planned[u]
        BY <1>5, <2>2 DEF PlanInv, JobsFit
    <3> QED BY <1>1, <3>1 DEF JobStands
  <2> QED BY <2>1, <2>2
<1>12. BoxFits'
    BY <1>1, <1>3, <1>5, <1>6 DEF PlanInv, BoxFits, OpsApart
<1>13. AwaitsFit'
    BY <1>1 DEF PlanInv, AwaitsFit, JobStep, Rests, Here, InPlan
<1>14. GivenFits'
    BY <1>1, <1>5, <1>7, GivenKeeps DEF PlanInv, Brought
<1>15. TextFits'
    BY <1>1, <1>5, TextKeeps DEF PlanInv, JobStep
<1>16. NoneStranded'
  <2>1. \A c \in ToSet(outbox) : c.state = "pending" => planned[c.task].run # "none"
      BY DEF PlanInv, BoxFits
  <2> QED BY <1>1, <1>5, <1>10, <2>1 DEF PlanInv, NoneStranded, BoxFits
<1> QED BY <1>8, <1>9, <1>11, <1>12, <1>13, <1>14, <1>15, <1>16 DEF PlanInv

\* The runs of the tasks in S have ended, and their commands with them.
LEMMA StoppedOK ==
    ASSUME PlanInv, PlanConstants, NEW S \in SUBSET DOMAIN planned,
           planned' \in Seq(PlanTasks), Len(planned') = Len(planned), SameText,
           \A u \in S : /\ planned'[u].status = "over" /\ planned'[u].run = "none"
                        /\ planned'[u].left = << >>,
           \A u \in DOMAIN planned \ S : planned'[u] = planned[u],
           outbox' \in Seq(ProviderCommands), OpsApart(outbox'),
           ToSet(outbox') = { Stopped(c, S) : c \in ToSet(outbox) },
           UNCHANGED << marks, given, awaits, planCrashes >>,
           Rests \/ (Advances /\ ~ Waits), planUp',
           planUp \/ \A u \in DOMAIN planned \ S : planned[u].run = "none"
    PROVE  PlanInv'
<1>1. /\ marks' = marks /\ given' = given /\ awaits' = awaits /\ planCrashes' = planCrashes
      /\ DOMAIN planned' = DOMAIN planned
    BY DEF SameText
<1>2. PlanTypes /\ HandFits /\ HandMoves
    BY DEF PlanInv, HandMoves
<1>3. ASSUME NEW c \in ToSet(outbox)
      PROVE  /\ c \in ProviderCommands
             /\ Stopped(c, S) \in ToSet(outbox')
             /\ Stopped(c, S).op = c.op /\ Stopped(c, S).task = c.task
             /\ Stopped(c, S).state = IF c.task \in S /\ Pends(c) THEN "failed" ELSE c.state
             /\ c.task \notin S => Stopped(c, S) = c
  <2>1. c \in ProviderCommands
      BY <1>2, PlanFacts
  <2>2. c.task \notin S => Stopped(c, S) = c
      BY DEF Stopped
  <2> QED BY <2>1, <2>2, StoppedFacts
<1>4. \A d \in ToSet(outbox') : \E c \in ToSet(outbox) : d = Stopped(c, S)
    OBVIOUS
<1>5. \A op : Sent(op)' <=> Sent(op)
  <2>1. ASSUME NEW op, Sent(op) PROVE Sent(op)'
      BY <1>3, <2>1 DEF Sent
  <2>2. ASSUME NEW op, Sent(op)' PROVE Sent(op)
      BY <1>3, <1>4, <2>2 DEF Sent
  <2> QED BY <2>1, <2>2
<1>6. \A u \in DOMAIN planned : planned'[u].run # "none" => u \notin S
    OBVIOUS
<1>7. PlanTypes'
  <2>1. inHand' \in [req : Nat, plan : Seq(PlanSteps), i : Nat] /\ answered' \in 0..MaxRequests
      BY <1>2, HandTyped DEF PlanConstants
  <2>2. planUp' \in BOOLEAN
      BY DEF PlanInv, PlanTypes, NoneStranded
  <2> QED BY <1>1, <1>2, <2>1, <2>2 DEF PlanTypes
<1>8. HandFits'
    BY <1>1, <1>2, HandKeeps
<1>9. JobsFit'
  <2> SUFFICES ASSUME NEW u \in DOMAIN planned PROVE JobStands(u)'
      BY <1>1 DEF JobsFit
  <2>1. CASE u \in S
    <3>1. ToSet(planned'[u].left) = {}
        BY <2>1 DEF ToSet
    <3> QED BY <2>1, <3>1 DEF JobStands
  <2>2. CASE u \notin S
    <3>1. JobStands(u) /\ planned'[u] = planned[u]
        BY <2>2 DEF PlanInv, JobsFit
    <3>2. \A c \in ToSet(outbox) : c.task = u => c \in ToSet(outbox')
      <4>1. ASSUME NEW c \in ToSet(outbox), c.task = u PROVE c \in ToSet(outbox')
          BY <1>3, <2>2, <4>1
      <4> QED BY <4>1
    <3> QED BY <1>1, <3>1, <3>2 DEF JobStands
  <2> QED BY <2>1, <2>2
<1>10. BoxFits'
  <2>1. ASSUME NEW d \in ToSet(outbox')
        PROVE  /\ d.task \in DOMAIN planned
               /\ d.state \in {"pending", "sending"} => planned'[d.task].run # "none"
    <3>1. PICK c \in ToSet(outbox) : d = Stopped(c, S)
        BY <1>4
    <3>2. /\ d.task = c.task /\ c.task \in DOMAIN planned
          /\ d.state = IF c.task \in S /\ Pends(c) THEN "failed" ELSE c.state
          /\ c.state \in {"pending", "sending"} => planned[c.task].run # "none"
        BY <1>3, <3>1 DEF PlanInv, BoxFits
    <3>3. CASE c.task \in S
        BY <3>2, <3>3 DEF Pends
    <3>4. CASE c.task \notin S
        BY <3>2, <3>4
    <3> QED BY <3>3, <3>4
  <2> QED BY <1>1, <2>1 DEF BoxFits
<1>11. AwaitsFit'
  <2>1. Rests => inHand' = inHand /\ Here' = Here /\ (InPlan' <=> InPlan)
      BY DEF Rests, Here, InPlan
  <2>2. ASSUME NEW a \in awaits
        PROVE  /\ \E d \in ToSet(outbox') : d.op = a.op /\ d.task = a.task /\ d.state # "pending"
               /\ a.by = "plan" => InPlan' /\ inHand'.i <= Len(inHand'.plan) /\ a.op = Here'
    <3>1. PICK c \in ToSet(outbox) : c.op = a.op /\ c.task = a.task /\ c.state # "pending"
        BY DEF PlanInv, AwaitsFit
    <3>2. a.by = "plan" => Rests
        BY DEF Waits
    <3>3. a.by = "plan" => InPlan /\ inHand.i <= Len(inHand.plan) /\ a.op = Here
        BY DEF PlanInv, AwaitsFit
    <3>4. \E d \in ToSet(outbox') : d.op = a.op /\ d.task = a.task /\ d.state # "pending"
        BY <1>3, <3>1
    <3> QED BY <2>1, <3>2, <3>3, <3>4
  <2> QED BY <1>1, <2>2 DEF PlanInv, AwaitsFit
<1>12. GivenFits'
  <2>1. ASSUME NEW t \in DOMAIN planned, NEW op \in ToSet(given[t]), Brought(op, t)
        PROVE  Brought(op, t)'
    <3>1. PICK c \in ToSet(outbox) : c.op = op /\ c.task = t /\ c.state # "pending"
        BY <2>1 DEF Brought
    <3>2. \E d \in ToSet(outbox') : d.op = op /\ d.task = t /\ d.state # "pending"
        BY <1>3, <3>1
    <3> QED BY <1>1, <2>1, <3>2 DEF Brought
  <2> QED BY <1>1, <1>5, <2>1, GivenKeeps DEF PlanInv
<1>13. TextFits'
    BY <1>1, TextKeeps DEF PlanInv
<1>14. CutsFit'
  <2>1. Rests /\ Waits => Waits'
      BY <1>1 DEF Waits
  <2> QED BY <1>1, <1>2, <1>5, <2>1, CutsStay DEF PlanInv, PlanConstants
<1>15. QueueFits'
  <2>1. Queued' \subseteq Queued
    <3>1. \A u \in DOMAIN planned : planned'[u].status = "queued" => planned[u].status = "queued"
      <4>1. \A u \in DOMAIN planned : u \in S \/ u \in DOMAIN planned \ S
          OBVIOUS
      <4> QED BY <4>1
    <3> QED BY <1>1, <3>1 DEF Queued
  <2> QED BY <1>2, <2>1, QueueKeeps DEF PlanInv, PlanConstants
<1>16. NoneStranded'
  <2>1. ASSUME NEW d \in ToSet(outbox')
        PROVE  /\ d.state = "pending" =>
                    \/ planned'[d.task].run = "opening"
                    \/ d.op \in ToSet(planned'[d.task].left)
               /\ d.state = "sending" => \E a \in awaits : a.op = d.op /\ a.task = d.task
    <3>1. PICK c \in ToSet(outbox) : d = Stopped(c, S)
        BY <1>4
    <3>2. /\ d.task = c.task /\ d.op = c.op /\ c.task \in DOMAIN planned
          /\ d.state = IF c.task \in S /\ Pends(c) THEN "failed" ELSE c.state
          /\ c.state \in {"pending", "sending"} => planned[c.task].run # "none"
        BY <1>3, <3>1 DEF PlanInv, BoxFits
    <3>3. CASE c.task \in S
        BY <3>2, <3>3 DEF Pends
    <3>4. CASE c.task \notin S /\ planUp
      <4>1. planned'[d.task] = planned[c.task]
          BY <3>2, <3>4
      <4>2. /\ c.state = "pending" =>
                 \/ planned[c.task].run = "opening"
                 \/ c.op \in ToSet(planned[c.task].left)
            /\ c.state = "sending" => \E a \in awaits : a.op = c.op /\ a.task = c.task
          BY <3>4 DEF PlanInv, NoneStranded
      <4> QED BY <3>2, <3>4, <4>1, <4>2
    <3>5. CASE c.task \notin S /\ ~ planUp
        BY <3>2, <3>5
    <3> QED BY <3>3, <3>4, <3>5
  <2> QED BY <1>1, <2>1 DEF NoneStranded
<1> QED BY <1>7, <1>8, <1>9, <1>10, <1>11, <1>12, <1>13, <1>14, <1>15, <1>16 DEF PlanInv

\* ... of one task.
LEMMA EndedOK ==
    ASSUME PlanInv, PlanConstants, NEW t \in DOMAIN planned,
           planned' = Plan!Ended(planned, t), outbox' = Plan!FailedBox(outbox, t),
           UNCHANGED << marks, given, awaits, planUp, planCrashes >>, planUp,
           Rests \/ (Advances /\ ~ Waits)
    PROVE  PlanInv'
<1> DEFINE e == [planned[t] EXCEPT !.status = "over", !.run = "none", !.left = << >>]
<1>1. planned[t] \in PlanTasks /\ outbox \in Seq(ProviderCommands) /\ OpsApart(outbox)
    BY PlanFacts DEF PlanInv, PlanTypes, BoxFits
<1>2. /\ e \in PlanTasks /\ e.text = planned[t].text /\ e.left = << >>
      /\ e.status = "over" /\ e.run = "none"
  <2>1. << >> \in Seq(Operations)
      BY EmptySeq
  <2> QED BY <1>1, <2>1 DEF PlanTasks
<1>3. planned' = [planned EXCEPT ![t] = e]
    BY DEF Plan!Ended
<1> HIDE DEF e
<1>4. /\ planned' \in Seq(PlanTasks) /\ Len(planned') = Len(planned) /\ SameText
      /\ planned'[t] = e /\ \A u \in DOMAIN planned : u # t => planned'[u] = planned[u]
    BY <1>2, <1>3, JobTyped
<1>5. /\ outbox' \in Seq(ProviderCommands) /\ OpsApart(outbox')
      /\ ToSet(outbox') = { Stopped(c, {t}) : c \in ToSet(outbox) }
    BY <1>1, FailedForm
<1>6. \A u \in {t} : /\ planned'[u].status = "over" /\ planned'[u].run = "none"
                     /\ planned'[u].left = << >>
    BY <1>2, <1>4
<1>7. /\ \A u \in DOMAIN planned \ {t} : planned'[u] = planned[u]
      /\ {t} \in SUBSET DOMAIN planned /\ planUp'
      /\ UNCHANGED << marks, given, awaits, planCrashes >>
    BY <1>4
<1> QED BY <1>4, <1>5, <1>6, <1>7, StoppedOK

\* A task that has a run keeps it, and what it has to replay.
LEMMA MarkedOK ==
    ASSUME PlanInv, PlanConstants, NEW t \in DOMAIN planned, NEW e \in PlanTasks,
           planned' = [planned EXCEPT ![t] = e],
           e.text = planned[t].text, e.left = planned[t].left,
           e.status \in {"running", "cancelling"}, e.run # "none",
           e.left # << >> => e.run = "replaying",
           planned[t].run # "none", e.run = "opening" <=> planned[t].run = "opening",
           UNCHANGED << outbox, marks, given, awaits, planUp, planCrashes >>, planUp,
           Rests \/ ((Advances \/ Replies) /\ ~ Waits)
    PROVE  PlanInv'
<1>1. /\ outbox' = outbox /\ marks' = marks /\ given' = given /\ awaits' = awaits
      /\ planUp' = planUp /\ planCrashes' = planCrashes
    OBVIOUS
<1>2. PlanTypes /\ HandFits /\ HandMoves
    BY DEF PlanInv, HandMoves
<1>3. /\ planned' \in Seq(PlanTasks) /\ Len(planned') = Len(planned) /\ SameText
      /\ planned'[t] = e /\ \A u \in DOMAIN planned : u # t => planned'[u] = planned[u]
    BY JobTyped
<1>4. DOMAIN planned' = DOMAIN planned
    BY <1>3 DEF SameText
<1>5. \A op : Sent(op)' <=> Sent(op)
    BY <1>1 DEF Sent
<1>6. Waits' <=> Waits
    BY <1>1 DEF Waits
<1>7. PlanTypes'
  <2>1. inHand' \in [req : Nat, plan : Seq(PlanSteps), i : Nat] /\ answered' \in 0..MaxRequests
      BY <1>2, HandTyped DEF PlanConstants
  <2> QED BY <1>1, <1>2, <1>3, <2>1 DEF PlanTypes
<1>8. HandFits'
    BY <1>1, <1>2, <1>4, HandKeeps
<1>9. JobsFit'
  <2> SUFFICES ASSUME NEW u \in DOMAIN planned PROVE JobStands(u)'
      BY <1>4 DEF JobsFit
  <2>1. JobStands(u)
      BY DEF PlanInv, JobsFit
  <2>2. CASE u = t
      BY <1>1, <1>3, <2>1, <2>2 DEF JobStands
  <2>3. CASE u # t
    <3>1. planned'[u] = planned[u]
        BY <1>3, <2>3
    <3> QED BY <1>1, <2>1, <3>1 DEF JobStands
  <2> QED BY <2>2, <2>3
<1>10. \A u \in DOMAIN planned : /\ planned[u].run # "none" => planned'[u].run # "none"
                                 /\ planned[u].run = "opening" <=> planned'[u].run = "opening"
                                 /\ planned'[u].left = planned[u].left
    BY <1>3
<1>11. BoxFits'
    BY <1>1, <1>4, <1>10 DEF PlanInv, BoxFits, OpsApart
<1>12. AwaitsFit'
  <2>1. \A a \in awaits : a.by = "plan" => Rests
      BY DEF Waits
  <2>2. Rests => inHand' = inHand /\ Here' = Here /\ (InPlan' <=> InPlan)
      BY DEF Rests, Here, InPlan
  <2> QED BY <1>1, <2>1, <2>2 DEF PlanInv, AwaitsFit
<1>13. GivenFits'
    BY <1>1, <1>3, <1>5, GivenKeeps DEF PlanInv, Brought
<1>14. TextFits'
    BY <1>1, <1>3, TextKeeps DEF PlanInv
<1>15. CutsFit'
    BY <1>1, <1>2, <1>5, <1>6, CutsStay DEF PlanInv, PlanConstants
<1>16. QueueFits'
  <2>1. Queued' \subseteq Queued
      BY <1>3, <1>4 DEF Queued
  <2> QED BY <1>2, <2>1, QueueKeeps DEF PlanInv, PlanConstants
<1>17. NoneStranded'
    BY <1>1, <1>10 DEF PlanInv, NoneStranded, BoxFits
<1> QED BY <1>7, <1>8, <1>9, <1>11, <1>12, <1>13, <1>14, <1>15, <1>16, <1>17 DEF PlanInv

\* A task is cancelled, or marked for whoever opens or serves its run.
LEMMA CancelTaskOK ==
    ASSUME PlanInv, PlanConstants, NEW ok \in BOOLEAN, Plan!CancelTask(ok)
    PROVE  PlanInv'
<1> DEFINE t == Plan!Target
           e == [planned[t] EXCEPT !.status = "cancelling"]
<1>0. PlanTypes /\ HandFits /\ Plan!At("cancel")
    BY DEF Plan!CancelTask, PlanInv
<1>1. /\ planUp /\ InPlan /\ ~ Waits /\ t \in DOMAIN planned
      /\ Plan!NextCommand => Advances
      /\ Plan!Reply => Replies
    BY <1>0, InHandFacts
<1>2. UNCHANGED << marks, given, awaits, planUp, planCrashes >>
    BY DEF Plan!CancelTask
<1>3. planned[t] \in PlanTasks /\ JobStands(t)
    BY <1>0, <1>1, PlanFacts DEF PlanInv, JobsFit
<1> HIDE DEF t
<1>4. \/ planned[t].status = "over" /\ Plan!NextCommand /\ outbox' = outbox /\ planned' = planned
      \/ /\ planned[t].status # "over" /\ planned[t].run = "opening"
         /\ Plan!NextCommand /\ outbox' = outbox
         /\ planned' = [planned EXCEPT ![t].status = "cancelling"]
      \/ /\ planned' = Plan!Ended(planned, t) /\ outbox' = Plan!FailedBox(outbox, t)
         /\ Plan!NextCommand
      \/ /\ planned[t].status \notin {"over", "queued"} /\ Plan!Reply /\ outbox' = outbox
         /\ planned' = [planned EXCEPT ![t].status = "cancelling"]
  <2>1. CASE Plan!Over(t)
      BY <2>1 DEF Plan!CancelTask, Plan!Over, t
  <2>2. CASE ~ Plan!Over(t) /\ planned[t].run = "opening"
      BY <2>2 DEF Plan!CancelTask, Plan!Over, t
  <2>3. CASE ~ Plan!Over(t) /\ planned[t].run # "opening"
      BY <2>3 DEF Plan!CancelTask, Plan!Over, t
  <2> QED BY <2>1, <2>2, <2>3
<1>5. CASE planned[t].status = "over" /\ Plan!NextCommand /\ outbox' = outbox /\ planned' = planned
  <2>1. OnlyHand
      BY <1>2, <1>5 DEF OnlyHand
  <2> QED BY <1>1, <1>5, <2>1, HandOnly
<1>6. ASSUME planned[t].status \notin {"over", "queued"}, outbox' = outbox,
             Advances \/ Replies,
             planned' = [planned EXCEPT ![t].status = "cancelling"]
      PROVE  PlanInv'
  <2>1. /\ e \in PlanTasks /\ e.text = planned[t].text /\ e.left = planned[t].left
        /\ e.run = planned[t].run /\ e.status = "cancelling"
      BY <1>3 DEF PlanTasks
  <2>2. planned' = [planned EXCEPT ![t] = e]
      BY <1>6
  <2>3. planned[t].run # "none" /\ (planned[t].left # << >> => planned[t].run = "replaying")
      BY <1>3, <1>6 DEF JobStands
  <2> HIDE DEF e
  <2>4. /\ e.status \in {"running", "cancelling"} /\ e.run # "none"
        /\ e.left # << >> => e.run = "replaying"
        /\ e.run = "opening" <=> planned[t].run = "opening"
      BY <2>1, <2>3
  <2>5. UNCHANGED << outbox, marks, given, awaits, planUp, planCrashes >>
      BY <1>2, <1>6
  <2>6. Rests \/ ((Advances \/ Replies) /\ ~ Waits)
      BY <1>1, <1>6
  <2> QED BY <1>1, <2>1, <2>2, <2>3, <2>4, <2>5, <2>6, MarkedOK
<1>7. CASE /\ planned[t].status # "over" /\ planned[t].run = "opening"
           /\ Plan!NextCommand /\ outbox' = outbox
           /\ planned' = [planned EXCEPT ![t].status = "cancelling"]
  <2>1. planned[t].status # "queued"
      BY <1>3, <1>7 DEF JobStands
  <2> QED BY <1>1, <1>6, <1>7, <2>1
<1>8. CASE /\ planned' = Plan!Ended(planned, t) /\ outbox' = Plan!FailedBox(outbox, t)
           /\ Plan!NextCommand
    BY <1>1, <1>2, <1>8, EndedOK
<1>9. CASE /\ planned[t].status \notin {"over", "queued"} /\ Plan!Reply /\ outbox' = outbox
           /\ planned' = [planned EXCEPT ![t].status = "cancelling"]
    BY <1>1, <1>6, <1>9
<1> QED BY <1>4, <1>5, <1>7, <1>8, <1>9

LEMMA ServeOK ==
    ASSUME PlanInv, PlanConstants, NEW t \in DOMAIN planned, Plan!Serve(t)
    PROVE  PlanInv'
<1> DEFINE e == [planned[t] EXCEPT !.run = "serving"]
<1>1. /\ planUp /\ planned[t].run = "replaying" /\ planned[t].left = << >>
      /\ Rests /\ UNCHANGED << marks, given, awaits, planUp, planCrashes >>
    BY DEF Plan!Serve, Plan!OnlyTasks, Rests
<1>2. CASE planned[t].status = "cancelling"
  <2>1. planned' = Plan!Ended(planned, t) /\ outbox' = Plan!FailedBox(outbox, t)
      BY <1>2 DEF Plan!Serve
  <2> QED BY <1>1, <2>1, EndedOK
<1>3. CASE planned[t].status # "cancelling"
  <2>1. planned' = [planned EXCEPT ![t].run = "serving"] /\ outbox' = outbox
      BY <1>3 DEF Plan!Serve
  <2>2. planned' = [planned EXCEPT ![t] = e]
      BY <2>1
  <2>3. planned[t] \in PlanTasks /\ JobStands(t)
      BY PlanFacts DEF PlanInv, JobsFit
  <2>4. /\ e \in PlanTasks /\ e.text = planned[t].text /\ e.left = planned[t].left
        /\ e.run = "serving" /\ e.status = planned[t].status
      BY <2>3 DEF PlanTasks
  <2>5. planned[t].status \in {"running", "cancelling"}
      BY <1>1, <2>3 DEF JobStands, PlanTasks
  <2> HIDE DEF e
  <2> QED BY <1>1, <2>1, <2>2, <2>4, <2>5, MarkedOK
<1> QED BY <1>2, <1>3

LEMMA RunEndsOK ==
    ASSUME PlanInv, PlanConstants, NEW t \in DOMAIN planned, NEW done, Plan!RunEnds(t, done)
    PROVE  PlanInv'
<1>1. /\ planUp /\ planned' = Plan!Ended(planned, t) /\ outbox' = Plan!FailedBox(outbox, t)
      /\ Rests /\ UNCHANGED << marks, given, awaits, planUp, planCrashes >>
    BY DEF Plan!RunEnds, Plan!OnlyTasks, Rests
<1> QED BY <1>1, EndedOK

\* The run is open, and what waits for it is to be replayed.
LEMMA OpenedOK ==
    ASSUME PlanInv, PlanConstants, NEW t \in DOMAIN planned, Plan!Opened(t)
    PROVE  PlanInv'
<1> DEFINE P == { c \in ToSet(outbox) : c.task = t /\ c.state = "pending" }
           mine == Only(outbox, P)
           left == [k \in DOMAIN mine |-> mine[k].op]
           e == [planned[t] EXCEPT !.run = "replaying", !.left = left]
<1>1. PlanTypes /\ outbox \in Seq(ProviderCommands) /\ OpsApart(outbox)
      /\ planned[t] \in PlanTasks /\ planned[t].text \in Seq(Operations) /\ JobStands(t)
    BY PlanFacts DEF PlanInv, PlanTypes, BoxFits, JobsFit
<1>2. { c \in Plan!Open(outbox, t) : c.state = "pending" } = P
    BY PlanTerms DEF Plan!Open
<1>3. /\ planUp /\ planned[t].run = "opening" /\ JobStep
      /\ planned' = [planned EXCEPT ![t].run = "replaying", ![t].left = left]
      /\ given' = [given EXCEPT ![t] = planned[t].text]
      /\ outbox' = outbox /\ awaits' = awaits
    BY <1>2, PlanTerms DEF Plan!Opened, Plan!OnlyTasks, JobStep, Rests
<1>4. /\ mine \in Seq(ProviderCommands) /\ ToSet(mine) = P
      /\ \A x, y : Before(mine, x, y) => Before(outbox, x, y) /\ x \in P /\ y \in P
  <2>1. ToSet(outbox) \cap P = P
      OBVIOUS
  <2> QED BY <1>1, <2>1, OnlyOK
<1>5. P \subseteq ToSet(outbox) /\ \A c \in P : c.task = t /\ c.state = "pending"
    OBVIOUS
<1> HIDE DEF mine, P
<1>6. /\ left \in Seq(Operations) /\ DOMAIN left = DOMAIN mine
      /\ \A k \in DOMAIN mine : left[k] = mine[k].op /\ mine[k] \in P
  <2>1. Len(mine) \in Nat /\ DOMAIN mine = 1..Len(mine)
        /\ \A k \in DOMAIN mine : mine[k] \in ProviderCommands /\ mine[k] \in P
      BY <1>4, Items DEF ToSet
  <2>2. left \in [1..Len(mine) -> Operations]
      BY <2>1 DEF ProviderCommands
  <2> QED BY <2>1, <2>2, SeqDef
<1>7. \A op \in ToSet(left) : \E c \in P : c.op = op
    BY <1>6 DEF ToSet
<1>8. \A c \in P : c.op \in ToSet(left)
  <2>1. \A c \in P : \E k \in DOMAIN mine : mine[k] = c
      BY <1>4 DEF ToSet
  <2> QED BY <1>6, <2>1 DEF ToSet
<1>9. \A op : ~ Before(left, op, op)
  <2> SUFFICES ASSUME NEW op, Before(left, op, op) PROVE FALSE
      OBVIOUS
  <2>1. PICK i, j \in DOMAIN left : i < j /\ left[i] = op /\ left[j] = op
      BY DEF Before
  <2>2. Before(mine, mine[i], mine[j]) /\ mine[i].op = mine[j].op
      BY <1>6, <2>1 DEF Before
  <2> QED BY <1>1, <1>4, <1>5, <2>2 DEF OpsApart
<1> HIDE DEF left
<1>10. /\ e \in PlanTasks /\ e.text = planned[t].text /\ e.left = left
       /\ e.run = "replaying" /\ e.status = planned[t].status
    BY <1>1, <1>6 DEF PlanTasks
<1>11. planned' = [planned EXCEPT ![t] = e]
    BY <1>3
<1> HIDE DEF e
<1>12. /\ planned' \in Seq(PlanTasks) /\ Len(planned') = Len(planned) /\ SameText
       /\ planned'[t] = e /\ \A u \in DOMAIN planned : u # t => planned'[u] = planned[u]
    BY <1>10, <1>11, JobTyped
<1>13. DOMAIN planned' = DOMAIN planned
    BY <1>12 DEF SameText
<1>14. /\ given' \in Seq(Seq(Operations)) /\ Len(given') = Len(given)
       /\ given'[t] = planned[t].text
       /\ \A u \in DOMAIN planned : u # t => given'[u] = given[u]
  <2>1. given \in Seq(Seq(Operations)) /\ DOMAIN given = DOMAIN planned
      BY <1>1, PlanFacts DEF PlanTypes
  <2> QED BY <1>1, <1>3, <2>1, TaskWritten
<1>15. \A op : Sent(op)' <=> Sent(op)
    BY <1>3 DEF Sent
<1>16. /\ inHand' \in [req : Nat, plan : Seq(PlanSteps), i : Nat]
       /\ answered' \in 0..MaxRequests
       /\ HandFits' /\ CutsFit' /\ QueueFits'
  <2>1. Waits => Waits'
      BY <1>3 DEF Waits
  <2>2. Queued' \subseteq Queued
      BY <1>10, <1>12, <1>13 DEF Queued
  <2> QED BY <1>3, <1>13, <1>15, <2>1, <2>2, JobStepKeeps
<1>17. PlanTypes'
    BY <1>1, <1>3, <1>12, <1>14, <1>16 DEF PlanTypes, JobStep
<1>18. planned[t].status \in {"running", "cancelling"}
    BY <1>1, <1>3 DEF JobStands, PlanTasks
<1>19. JobsFit'
  <2> SUFFICES ASSUME NEW u \in DOMAIN planned PROVE JobStands(u)'
      BY <1>13 DEF JobsFit
  <2>1. CASE u = t
    <3>1. planned'[u].left = left /\ planned'[u].run = "replaying"
          /\ planned'[u].status \in {"running", "cancelling"}
        BY <1>10, <1>12, <1>18, <2>1
    <3>2. \A op \in ToSet(left) : \E c \in ToSet(outbox) : c.op = op /\ c.task = u /\ c.state = "pending"
        BY <1>5, <1>7, <2>1
    <3> QED BY <1>3, <1>9, <3>1, <3>2 DEF JobStands
  <2>2. CASE u # t
    <3>1. JobStands(u) /\ planned'[u] = planned[u] /\ given'[u] = given[u]
        BY <1>12, <1>14, <2>2 DEF PlanInv, JobsFit
    <3> QED BY <1>3, <3>1 DEF JobStands
  <2> QED BY <2>1, <2>2
<1>20. BoxFits'
    BY <1>3, <1>10, <1>12, <1>13 DEF PlanInv, BoxFits, OpsApart
<1>21. AwaitsFit'
    BY <1>3 DEF PlanInv, AwaitsFit, JobStep, Rests, Here, InPlan
<1>22. GivenFits'
  <2>1. ASSUME NEW u \in DOMAIN planned, NEW op \in ToSet(given'[u])
        PROVE  /\ op \in ToSet(planned'[u].text) \/ Brought(op, u)'
               /\ Before(given'[u], op, op) => op \in ToSet(planned'[u].text) /\ Sent(op)'
    <3>1. CASE u = t
      <4>1. op \in ToSet(planned[t].text) /\ planned'[u].text = planned[t].text
            /\ given'[u] = planned[t].text
          BY <1>10, <1>12, <1>14, <3>1
      <4>2. ~ Before(planned[t].text, op, op)
          BY <4>1 DEF PlanInv, TextFits
      <4> QED BY <4>1, <4>2
    <3>2. CASE u # t
      <4>1. /\ op \in ToSet(planned[u].text) \/ Brought(op, u)
            /\ Before(given[u], op, op) => op \in ToSet(planned[u].text) /\ Sent(op)
          BY <1>14, <3>2 DEF PlanInv, GivenFits
      <4>2. Brought(op, u)' <=> Brought(op, u)
          BY <1>3 DEF Brought
      <4> QED BY <1>12, <1>14, <1>15, <3>2, <4>1, <4>2
    <3> QED BY <3>1, <3>2
  <2> QED BY <1>13, <2>1 DEF GivenFits
<1>23. TextFits'
    BY <1>3, <1>12, TextKeeps DEF PlanInv, JobStep
<1>24. NoneStranded'
  <2>1. ASSUME NEW c \in ToSet(outbox)
        PROVE  /\ c.state = "pending" =>
                    \/ planned'[c.task].run = "opening"
                    \/ c.op \in ToSet(planned'[c.task].left)
               /\ c.state = "sending" => \E a \in awaits : a.op = c.op /\ a.task = c.task
    <3>1. /\ c.state = "pending" =>
                    \/ planned[c.task].run = "opening"
                    \/ c.op \in ToSet(planned[c.task].left)
          /\ c.state = "sending" => \E a \in awaits : a.op = c.op /\ a.task = c.task
          /\ c.task \in DOMAIN planned
        BY <1>3 DEF PlanInv, NoneStranded, BoxFits
    <3>2. c.state = "pending" /\ c.task = t => c.op \in ToSet(left)
        BY <1>8 DEF P
    <3>3. planned'[t].left = left
        BY <1>10, <1>12
    <3> QED BY <1>12, <3>1, <3>2, <3>3
  <2> QED BY <1>3, <2>1 DEF NoneStranded
<1> QED BY <1>16, <1>17, <1>19, <1>20, <1>21, <1>22, <1>23, <1>24 DEF PlanInv

\* What is left of a sequence when its first entry goes.
LEMMA TailOrder ==
    ASSUME NEW T, NEW s \in Seq(T), s # << >>
    PROVE  /\ Head(s) \in ToSet(s) /\ Head(s) \in T /\ Tail(s) \in Seq(T)
           /\ \A x \in ToSet(Tail(s)) : x \in ToSet(s) /\ Before(s, Head(s), x)
           /\ \A x \in ToSet(s) : x = Head(s) \/ x \in ToSet(Tail(s))
           /\ \A x, y : Before(Tail(s), x, y) => Before(s, x, y)
<1> DEFINE n == Len(s)
           u == Tail(s)
<1>1. /\ n \in Nat /\ n # 0 /\ DOMAIN s = 1..n /\ Head(s) = s[1] /\ \A i \in 1..n : s[i] \in T
      /\ u \in Seq(T) /\ Len(u) = n - 1 /\ \A i \in 1..(n - 1) : u[i] = s[i + 1]
    BY Items, EmptySeq, HeadTailProperties
<1>2. DOMAIN u = 1..(n - 1)
    BY <1>1, LenProperties
<1> HIDE DEF n, u
<1>3. 1 \in 1..n /\ \A i \in 1..(n - 1) : i + 1 \in 1..n /\ 1 < i + 1
    BY <1>1
<1>4. \A i \in 1..n : i = 1 \/ (i - 1 \in 1..(n - 1) /\ (i - 1) + 1 = i)
    BY <1>1
<1>5. Head(s) \in ToSet(s) /\ Head(s) \in T
    BY <1>1, <1>3 DEF ToSet
<1>6. ASSUME NEW x \in ToSet(u) PROVE x \in ToSet(s) /\ Before(s, Head(s), x)
  <2>1. PICK i \in 1..(n - 1) : u[i] = x
      BY <1>2 DEF ToSet
  <2>2. s[i + 1] = x /\ i + 1 \in DOMAIN s /\ 1 \in DOMAIN s /\ s[1] = Head(s) /\ 1 < i + 1
      BY <1>1, <1>3, <2>1
  <2> QED BY <2>2 DEF ToSet, Before
<1>7. ASSUME NEW x \in ToSet(s), x # Head(s) PROVE x \in ToSet(u)
  <2>1. PICK i \in 1..n : s[i] = x
      BY <1>1 DEF ToSet
  <2>2. i - 1 \in DOMAIN u /\ u[i - 1] = x
      BY <1>1, <1>2, <1>4, <1>7, <2>1
  <2> QED BY <2>2 DEF ToSet
<1>8. ASSUME NEW x, NEW y, Before(u, x, y) PROVE Before(s, x, y)
  <2>1. PICK i, j \in 1..(n - 1) : i < j /\ u[i] = x /\ u[j] = y
      BY <1>2, <1>8 DEF Before
  <2>2. i + 1 < j + 1 /\ i + 1 \in DOMAIN s /\ j + 1 \in DOMAIN s /\ s[i + 1] = x /\ s[j + 1] = y
      BY <1>1, <1>3, <2>1
  <2> QED BY <2>2 DEF Before
<1> QED BY <1>1, <1>5, <1>6, <1>7, <1>8 DEF u

\* A command that waited is sent.
LEMMA ReplayOK ==
    ASSUME PlanInv, PlanConstants, NEW t \in DOMAIN planned, Plan!Replay(t)
    PROVE  PlanInv'
<1> DEFINE left == planned[t].left
           op == Head(left)
           e == [planned[t] EXCEPT !.left = Tail(left)]
           c == [op |-> op, task |-> t, state |-> "sending"]
           a == [by |-> "replay", op |-> op, task |-> t, taken |-> FALSE]
<1>1. /\ PlanTypes /\ outbox \in Seq(ProviderCommands) /\ OpsApart(outbox) /\ t \in Nat
      /\ planned[t] \in PlanTasks /\ left \in Seq(Operations) /\ JobStands(t)
    BY PlanFacts DEF PlanInv, PlanTypes, BoxFits, JobsFit
<1>2. /\ planUp /\ planned[t].run = "replaying" /\ left # << >> /\ JobStep /\ given' = given
      /\ planned' = [planned EXCEPT ![t].left = Tail(@)]
    BY DEF Plan!Replay, Plan!OnlyTasks, JobStep, Rests
<1>3. /\ op \in ToSet(left) /\ op \in Operations /\ Tail(left) \in Seq(Operations)
      /\ \A x \in ToSet(Tail(left)) : x \in ToSet(left) /\ Before(left, op, x)
      /\ \A x \in ToSet(left) : x = op \/ x \in ToSet(Tail(left))
      /\ \A x, y : Before(Tail(left), x, y) => Before(left, x, y)
    BY <1>1, <1>2, TailOrder
<1>4. PICK w \in ToSet(outbox) : w.op = op /\ w.task = t /\ w.state = "pending"
    BY <1>1, <1>3 DEF JobStands
<1>5. \A d \in ToSet(outbox) : d.op = op => d = w
    BY <1>1, <1>4, OneCommand
<1>6. Plan!State(op) = "pending"
  <2>1. Plan!Command(op) = {w}
      BY <1>4, <1>5, PlanTerms DEF Plan!Command
  <2>2. (CHOOSE d \in Plan!Command(op) : TRUE) = w
      BY <2>1
  <2> QED BY <1>4, <2>2 DEF Plan!State
<1>7. /\ outbox' = Plan!Put(outbox, op, t, "sending")
      /\ awaits' = awaits \cup {a}
    BY <1>6 DEF Plan!Replay, Plan!Await
<1>8. /\ outbox' \in Seq(ProviderCommands) /\ OpsApart(outbox')
      /\ ToSet(outbox') = { d \in ToSet(outbox) : d.op # op } \cup {c}
  <2>1. "sending" \in States
      BY DEF States
  <2> QED BY <1>1, <1>3, <1>7, <2>1, PutForm
<1>9. planned' = [planned EXCEPT ![t] = e]
    BY <1>2
<1>10. /\ e \in PlanTasks /\ e.text = planned[t].text /\ e.left = Tail(left)
       /\ e.run = "replaying" /\ e.status = planned[t].status
    BY <1>1, <1>2, <1>3 DEF PlanTasks
<1>11. /\ c.op = op /\ c.task = t /\ c.state = "sending"
       /\ a.op = op /\ a.task = t /\ a.by = "replay" /\ a.taken = FALSE
       /\ a \in [by : {"plan", "replay"}, op : Operations, task : Nat, taken : BOOLEAN]
    BY <1>1, <1>3
<1> HIDE DEF c, a, e, op
<1>12. /\ planned' \in Seq(PlanTasks) /\ Len(planned') = Len(planned) /\ SameText
       /\ planned'[t] = e /\ \A u \in DOMAIN planned : u # t => planned'[u] = planned[u]
    BY <1>9, <1>10, JobTyped
<1>13. DOMAIN planned' = DOMAIN planned
    BY <1>12 DEF SameText
<1>14. /\ \A d \in ToSet(outbox') : d = c \/ (d \in ToSet(outbox) /\ d.op # op)
       /\ \A d \in ToSet(outbox) : d = w \/ d \in ToSet(outbox')
       /\ c \in ToSet(outbox')
    BY <1>5, <1>8
<1>15. /\ \A b \in awaits : b.op # op
       /\ \A b \in awaits' : b \in awaits \/ b = a
       /\ awaits \subseteq awaits' /\ a \in awaits'
    BY <1>4, <1>5, <1>7 DEF PlanInv, AwaitsFit
<1>16. \A o : Sent(o)' <=> Sent(o)
    BY <1>4, <1>11, <1>14 DEF Sent
<1>17. /\ inHand' \in [req : Nat, plan : Seq(PlanSteps), i : Nat]
       /\ answered' \in 0..MaxRequests
       /\ HandFits' /\ CutsFit' /\ QueueFits'
  <2>1. Waits => Waits'
      BY <1>15 DEF Waits
  <2>2. Queued' \subseteq Queued
      BY <1>10, <1>12, <1>13 DEF Queued
  <2> QED BY <1>2, <1>13, <1>16, <2>1, <2>2, JobStepKeeps
<1>18. PlanTypes'
  <2>1. awaits' \subseteq [by : {"plan", "replay"}, op : Operations, task : Nat, taken : BOOLEAN]
      BY <1>1, <1>11, <1>15 DEF PlanTypes
  <2> QED BY <1>1, <1>2, <1>8, <1>12, <1>17, <2>1 DEF PlanTypes, JobStep
<1>19. \A d \in ToSet(outbox) : d.op # op => d \in ToSet(outbox')
    BY <1>4, <1>14
<1>20. JobsFit'
  <2> SUFFICES ASSUME NEW u \in DOMAIN planned PROVE JobStands(u)'
      BY <1>13 DEF JobsFit
  <2>1. CASE u = t
    <3>1. planned'[u].left = Tail(left) /\ planned'[u].run = "replaying"
          /\ planned'[u].status = planned[t].status /\ planned[t].run = "replaying"
        BY <1>2, <1>10, <1>12, <2>1
    <3>2. ASSUME NEW o \in ToSet(Tail(left))
          PROVE  /\ ~ Before(Tail(left), o, o)
                 /\ \E d \in ToSet(outbox') : d.op = o /\ d.task = u /\ d.state = "pending"
      <4>1. /\ o \in ToSet(left) /\ Before(left, op, o) /\ ~ Before(left, o, o)
            /\ \E d \in ToSet(outbox) : d.op = o /\ d.task = t /\ d.state = "pending"
          BY <1>1, <1>3 DEF JobStands
      <4>2. o # op
          BY <4>1
      <4> QED BY <1>3, <1>19, <2>1, <4>1, <4>2
    <3>3. planned'[t].status \notin {"queued", "over"} /\ planned'[t].left = Tail(left)
          /\ planned'[t].run = "replaying" /\ planned'[t].status # "queued"
      <4>1. planned[t].run = "none" <=> planned[t].status \in {"queued", "over"}
          BY <1>1 DEF JobStands
      <4> QED BY <2>1, <3>1, <4>1
    <3>4. ASSUME NEW o \in ToSet(planned'[t].left)
          PROVE  /\ ~ Before(planned'[t].left, o, o)
                 /\ \E d \in ToSet(outbox') : d.op = o /\ d.task = t /\ d.state = "pending"
      <4>1. o \in ToSet(Tail(left))
          BY <3>3
      <4> QED BY <2>1, <3>2, <3>3, <4>1
    <3> HIDE DEF left
    <3>5. JobStands(t)'
        BY <3>3, <3>4 DEF JobStands
    <3> QED BY <2>1, <3>5
  <2>2. CASE u # t
    <3>1. JobStands(u) /\ planned'[u] = planned[u]
        BY <1>12, <2>2 DEF PlanInv, JobsFit
    <3>2. \A d \in ToSet(outbox) : d.task = u => d \in ToSet(outbox')
        BY <1>4, <1>14, <2>2
    <3> QED BY <1>2, <3>1, <3>2 DEF JobStands
  <2> QED BY <2>1, <2>2
<1>21. \A u \in DOMAIN planned : planned'[u].run = planned[u].run
    BY <1>2, <1>10, <1>12
<1>22. BoxFits'
    BY <1>2, <1>8, <1>11, <1>13, <1>14, <1>21 DEF PlanInv, BoxFits
<1>23. AwaitsFit'
  <2>1. \A b, d \in awaits' : b.op = d.op => b = d
      BY <1>11, <1>15 DEF PlanInv, AwaitsFit
  <2>2. inHand' = inHand /\ Here' = Here /\ (InPlan' <=> InPlan) /\ planUp'
      BY <1>2 DEF JobStep, Rests, Here, InPlan
  <2>3. ASSUME NEW b \in awaits'
        PROVE  /\ \E d \in ToSet(outbox') : d.op = b.op /\ d.task = b.task /\ d.state # "pending"
               /\ b.by = "plan" => InPlan' /\ inHand'.i <= Len(inHand'.plan) /\ b.op = Here'
    <3>1. CASE b \in awaits
      <4>1. /\ \E d \in ToSet(outbox) : d.op = b.op /\ d.task = b.task /\ d.state # "pending"
            /\ b.by = "plan" => InPlan /\ inHand.i <= Len(inHand.plan) /\ b.op = Here
          BY <3>1 DEF PlanInv, AwaitsFit
      <4> QED BY <1>15, <1>19, <2>2, <3>1, <4>1
    <3>2. CASE b = a
        BY <1>11, <1>14, <3>2
    <3> QED BY <1>15, <3>1, <3>2
  <2> QED BY <2>1, <2>2, <2>3 DEF AwaitsFit
<1>24. GivenFits'
  <2>1. ASSUME NEW u \in DOMAIN planned, NEW o \in ToSet(given[u]), Brought(o, u)
        PROVE  Brought(o, u)'
    <3>1. PICK d \in ToSet(outbox) : d.op = o /\ d.task = u /\ d.state # "pending"
        BY <2>1 DEF Brought
    <3>2. o # op
        BY <1>4, <1>5, <3>1
    <3>3. d \in ToSet(outbox')
        BY <1>19, <3>1, <3>2
    <3> QED BY <1>11, <1>15, <2>1, <3>1, <3>2, <3>3 DEF Brought
  <2> QED BY <1>2, <1>12, <1>16, <2>1, GivenKeeps DEF PlanInv
<1>25. TextFits'
    BY <1>2, <1>12, TextKeeps DEF PlanInv, JobStep
<1>26. NoneStranded'
  <2>1. ASSUME NEW d \in ToSet(outbox')
        PROVE  /\ d.state = "pending" =>
                    \/ planned'[d.task].run = "opening"
                    \/ d.op \in ToSet(planned'[d.task].left)
               /\ d.state = "sending" => \E b \in awaits' : b.op = d.op /\ b.task = d.task
    <3>1. CASE d = c
        BY <1>11, <1>15, <3>1
    <3>2. CASE d \in ToSet(outbox) /\ d.op # op
      <4>1. /\ d.state = "pending" =>
                    \/ planned[d.task].run = "opening"
                    \/ d.op \in ToSet(planned[d.task].left)
            /\ d.state = "sending" => \E b \in awaits : b.op = d.op /\ b.task = d.task
            /\ d.task \in DOMAIN planned
          BY <1>2, <3>2 DEF PlanInv, NoneStranded, BoxFits
      <4>2. d.op \in ToSet(planned[d.task].left) => d.op \in ToSet(planned'[d.task].left)
        <5>1. CASE d.task = t
            BY <1>3, <1>10, <1>12, <3>2, <5>1
        <5>2. CASE d.task # t
            BY <1>12, <4>1, <5>2
        <5> QED BY <5>1, <5>2
      <4> QED BY <1>15, <1>21, <4>1, <4>2
    <3> QED BY <1>14, <3>1, <3>2
  <2> QED BY <2>1 DEF NoneStranded
<1> QED BY <1>17, <1>18, <1>20, <1>22, <1>23, <1>24, <1>25, <1>26 DEF PlanInv

-----------------------------------------------------------------------------
(* The process dies, and starts again *)

\* A request that is in hand is cut.
LEMMA PlanCrashOK == ASSUME PlanInv, PlanConstants, Plan!Crash PROVE PlanInv'
<1>1. /\ planUp /\ planUp' = FALSE /\ planCrashes' = planCrashes + 1
      /\ awaits' = {} /\ inHand' = Plan!Idle /\ answered' = answered
      /\ planned' = planned /\ outbox' = outbox /\ marks' = marks /\ given' = given
    BY DEF Plan!Crash
<1>2. PlanTypes
    BY DEF PlanInv
<1>3. ~ InPlan' /\ inHand'.plan = << >> /\ DOMAIN inHand'.plan = {}
      /\ inHand' \in [req : Nat, plan : Seq(PlanSteps), i : Nat]
  <2>1. << >> \in Seq(PlanSteps)
      BY EmptySeq
  <2>2. inHand' = [req |-> 0, plan |-> << >>, i |-> 0]
      BY <1>1, IdleIs
  <2> QED BY <1>1, <2>1, <2>2 DEF InPlan, Plan!Idle
<1>4. PlanTypes'
  <2>1. planCrashes' \in Nat /\ planUp' \in BOOLEAN
    <3>1. planCrashes \in Nat /\ planCrashes' = planCrashes + 1
        BY <1>1, <1>2 DEF PlanTypes
    <3>2. planUp' = FALSE
        BY <1>1
    <3>3. planCrashes' \in Nat
        BY <3>1
    <3>4. planUp' \in BOOLEAN
        BY <3>2, Zenon
    <3> QED BY <3>3, <3>4
  <2>2. awaits' \subseteq [by : {"plan", "replay"}, op : Operations, task : Nat, taken : BOOLEAN]
      BY <1>1
  <2>3. /\ planned' \in Seq(PlanTasks) /\ outbox' \in Seq(ProviderCommands)
        /\ given' \in Seq(Seq(Operations)) /\ Len(given') = Len(planned')
        /\ marks' \subseteq Operations /\ answered' \in 0..MaxRequests
      BY <1>1, <1>2 DEF PlanTypes
  <2> QED BY <1>3, <2>1, <2>2, <2>3 DEF PlanTypes
<1>5. HandFits'
    BY <1>3 DEF HandFits
<1>6. JobsFit'
    BY <1>1 DEF PlanInv, JobsFit, JobStands
<1>7. BoxFits'
    BY <1>1 DEF PlanInv, BoxFits, OpsApart
<1>8. AwaitsFit'
    BY <1>1 DEF AwaitsFit
<1>9. GivenFits'
  <2>1. \A op, t : Brought(op, t) => Brought(op, t)'
      BY <1>1 DEF Brought
  <2>2. \A op : Sent(op) => Sent(op)'
      BY <1>1 DEF Sent
  <2> QED BY <1>1, <2>1, <2>2, GivenKeeps DEF SameText, PlanInv
<1>10. TextFits'
    BY <1>1, TextKeeps DEF SameText, PlanInv
<1>11. CutsFit'
  <2>1. Cut' \subseteq Cut \cup {answered + 1}
    <3>1. \A r \in 1..MaxRequests, k \in 1..MaxPlan : CutAt(r, k)' => CutAt(r, k) \/ r = answered + 1
        BY <1>1 DEF CutAt, Sent
    <3> QED BY <3>1 DEF Cut
  <2>2. IsFiniteSet(Cut)
    <3>1. 1 \in Int /\ MaxRequests \in Int
        BY DEF PlanConstants
    <3>2. IsFiniteSet(1..MaxRequests)
        BY <3>1, FS_Interval
    <3>3. Cut \in SUBSET (1..MaxRequests)
        BY DEF Cut
    <3> QED BY <3>2, <3>3, FS_Subset
  <2>3. /\ IsFiniteSet(Cut \cup {answered + 1})
        /\ Cardinality(Cut \cup {answered + 1}) <= Cardinality(Cut) + 1
    <3>1. Cardinality(Cut) \in Nat
        BY <2>2, FS_CardinalityType
    <3>2. CASE answered + 1 \in Cut
      <4>1. Cut \cup {answered + 1} = Cut
          BY <3>2
      <4>2. Cardinality(Cut) <= Cardinality(Cut) + 1
          BY <3>1
      <4> QED BY <2>2, <4>1, <4>2
    <3>3. CASE answered + 1 \notin Cut
      <4>1. /\ IsFiniteSet(Cut \cup {answered + 1})
            /\ Cardinality(Cut \cup {answered + 1}) = Cardinality(Cut) + 1
          BY <2>2, <3>3, FS_AddElement
      <4>2. Cardinality(Cut) + 1 <= Cardinality(Cut) + 1
          BY <3>1
      <4> QED BY <4>1, <4>2
    <3> QED BY <3>2, <3>3
  <2>4. IsFiniteSet(Cut') /\ Cardinality(Cut') <= Cardinality(Cut \cup {answered + 1})
      BY <2>1, <2>3, FS_Subset
  <2>5. /\ Cardinality(Cut') \in Nat /\ Cardinality(Cut) \in Nat
        /\ Cardinality(Cut \cup {answered + 1}) \in Nat
      BY <2>2, <2>3, <2>4, FS_CardinalityType
  <2>6. Cardinality(Cut) <= planCrashes /\ planCrashes \in Nat
      BY <1>2 DEF PlanInv, CutsFit, PlanTypes
  <2>7. Cardinality(Cut') <= planCrashes'
      BY <1>1, <2>3, <2>4, <2>5, <2>6
  <2> QED BY <1>1, <2>7 DEF PlanInv, CutsFit
<1>12. QueueFits'
  <2>1. Coming' = {} /\ Queued' = Queued
      BY <1>1, <1>3 DEF Coming, Queued
  <2>2. IsFiniteSet(Queued) /\ IsFiniteSet(Coming)
    <3>1. /\ Len(planned) \in Nat /\ DOMAIN planned = 1..Len(planned)
          /\ Len(inHand.plan) \in Nat /\ DOMAIN inHand.plan = 1..Len(inHand.plan)
        BY <1>2, PlanFacts
    <3>2. IsFiniteSet(DOMAIN planned) /\ IsFiniteSet(DOMAIN inHand.plan)
        BY <3>1, FS_Interval
    <3>3. Queued \in SUBSET DOMAIN planned /\ Coming \in SUBSET DOMAIN inHand.plan
        BY DEF Queued, Coming
    <3> QED BY <3>2, <3>3, FS_Subset
  <2>3. /\ Cardinality(Queued) \in Nat /\ Cardinality(Coming) \in Nat /\ Cardinality({}) = 0
        /\ MaxQueued \in Nat
      BY <2>2, FS_CardinalityType, FS_EmptySet DEF PlanConstants
  <2> QED BY <2>1, <2>3 DEF PlanInv, QueueFits
<1>13. NoneStranded'
    BY <1>1 DEF NoneStranded
<1> QED BY <1>4, <1>5, <1>6, <1>7, <1>8, <1>9, <1>10, <1>11, <1>12, <1>13 DEF PlanInv

\* Every run is over with its commands.
LEMMA PlanStartOK == ASSUME PlanInv, PlanConstants, Plan!Start PROVE PlanInv'
<1> DEFINE S == { t \in DOMAIN planned : planned[t].status \in {"running", "cancelling"} }
           E(t) == [planned[t] EXCEPT !.status = "over", !.run = "none", !.left = << >>]
<1>1. /\ ~ planUp /\ planUp' = TRUE /\ Rests
      /\ UNCHANGED << marks, given, awaits, planCrashes >>
    BY DEF Plan!Start, Rests
<1>2. PlanTypes /\ outbox \in Seq(ProviderCommands) /\ OpsApart(outbox)
      /\ Len(planned) \in Nat /\ DOMAIN planned = 1..Len(planned)
      /\ \A t \in DOMAIN planned : planned[t] \in PlanTasks
      /\ \A c \in ToSet(outbox) : c.task \in DOMAIN planned /\ c \in ProviderCommands
    BY PlanFacts DEF PlanInv, PlanTypes, BoxFits
<1>3. planned' = [t \in DOMAIN planned |-> IF t \in S THEN E(t) ELSE planned[t]]
  <2>1. \A t \in DOMAIN planned : planned[t].status \in {"running", "cancelling"} <=> t \in S
      OBVIOUS
  <2> HIDE DEF S
  <2> QED BY <2>1, PlanTerms DEF Plan!Start
<1>4. outbox' = [k \in DOMAIN outbox |-> Stopped(outbox[k], S)]
  <2>1. \A k \in DOMAIN outbox : outbox[k].task \in DOMAIN planned
    <3>1. ASSUME NEW k \in DOMAIN outbox PROVE outbox[k].task \in DOMAIN planned
      <4>1. outbox[k] \in ToSet(outbox)
          BY DEF ToSet
      <4>2. \A c \in ToSet(outbox) : c.task \in DOMAIN planned
          BY DEF PlanInv, BoxFits
      <4> QED BY <4>1, <4>2
    <3> QED BY <3>1
  <2>2. \A k \in DOMAIN outbox :
          planned[outbox[k].task].status \in {"running", "cancelling"} <=> outbox[k].task \in S
      BY <2>1
  <2>3. outbox' = [k \in DOMAIN outbox |->
                     IF /\ planned[outbox[k].task].status \in {"running", "cancelling"}
                        /\ outbox[k].state \in {"pending", "sending"}
                       THEN [outbox[k] EXCEPT !.state = "failed"] ELSE outbox[k]]
      BY DEF Plan!Start
  <2> HIDE DEF S
  <2>4. \A k \in DOMAIN outbox :
          Stopped(outbox[k], S) =
            IF /\ planned[outbox[k].task].status \in {"running", "cancelling"}
               /\ outbox[k].state \in {"pending", "sending"}
              THEN [outbox[k] EXCEPT !.state = "failed"] ELSE outbox[k]
      BY <2>2 DEF Stopped, Pends
  <2> QED BY <2>3, <2>4
<1>5. \A t \in DOMAIN planned :
        /\ E(t) \in PlanTasks /\ E(t).text = planned[t].text /\ E(t).left = << >>
        /\ E(t).status = "over" /\ E(t).run = "none"
  <2>1. << >> \in Seq(Operations)
      BY EmptySeq
  <2> QED BY <1>2, <2>1 DEF PlanTasks
<1>6. S \in SUBSET DOMAIN planned
    OBVIOUS
<1>7. \A t \in DOMAIN planned \ S : planned[t].run = "none"
  <2>1. ASSUME NEW t \in DOMAIN planned, t \notin S PROVE planned[t].run = "none"
    <3>1. JobStands(t) /\ planned[t] \in PlanTasks
        BY <1>2 DEF PlanInv, JobsFit
    <3>2. planned[t].status \in {"queued", "over"}
        BY <2>1, <3>1 DEF PlanTasks
    <3> QED BY <3>1, <3>2 DEF JobStands
  <2> QED BY <2>1
<1> HIDE DEF E, S
<1>8. /\ planned' \in Seq(PlanTasks) /\ Len(planned') = Len(planned) /\ SameText
      /\ \A u \in S : planned'[u] = E(u)
      /\ \A u \in DOMAIN planned \ S : planned'[u] = planned[u]
  <2>1. planned' \in [1..Len(planned) -> PlanTasks]
      BY <1>2, <1>3, <1>5
  <2>2. planned' \in Seq(PlanTasks)
      BY <1>2, <2>1, SeqDef
  <2>3. Len(planned') = Len(planned)
      BY <1>2, <2>1, <2>2, LenProperties
  <2> QED BY <1>2, <1>3, <1>5, <1>6, <2>1, <2>2, <2>3 DEF SameText
<1>9. \A k \in DOMAIN outbox : /\ Stopped(outbox[k], S) \in ProviderCommands
                               /\ Stopped(outbox[k], S).op = outbox[k].op
  <2>1. \A k \in DOMAIN outbox : outbox[k] \in ProviderCommands
      BY <1>2 DEF ToSet
  <2> QED BY <2>1, StoppedFacts
<1>10. outbox' \in Seq(ProviderCommands) /\ OpsApart(outbox')
  <2>1. outbox' = [k \in DOMAIN outbox |-> outbox'[k]]
      BY <1>4
  <2>2. \A k \in DOMAIN outbox : outbox'[k] \in ProviderCommands /\ outbox'[k].op = outbox[k].op
      BY <1>4, <1>9
  <2> QED BY <1>2, <2>1, <2>2, MapOrder
<1>11. ToSet(outbox') = { Stopped(c, S) : c \in ToSet(outbox) }
  <2>1. DOMAIN outbox' = DOMAIN outbox
      BY <1>4
  <2> QED BY <1>4, <2>1 DEF ToSet
<1>12. \A u \in S : /\ planned'[u].status = "over" /\ planned'[u].run = "none"
                    /\ planned'[u].left = << >>
    BY <1>5, <1>6, <1>8
<1> QED BY <1>1, <1>6, <1>7, <1>8, <1>10, <1>11, <1>12, StoppedOK

-----------------------------------------------------------------------------
(* The specification *)

LEMMA PlanInitOK == ASSUME PlanConstants, Plan!Init PROVE PlanInv
<1>1. /\ planned = << >> /\ outbox = << >> /\ marks = {} /\ given = << >>
      /\ awaits = {} /\ inHand = [req |-> 0, plan |-> << >>, i |-> 0] /\ answered = 0
      /\ planUp = TRUE /\ planCrashes = 0
    BY IdleIs DEF Plan!Init
<1>2. /\ ToSet(outbox) = {} /\ DOMAIN planned = {} /\ DOMAIN inHand.plan = {}
      /\ ~ InPlan /\ Cardinality({}) = 0
    BY <1>1, IdleIs, FS_EmptySet DEF ToSet, InPlan
<1>3. PlanTypes
  <2>1. << >> \in Seq(PlanTasks) /\ << >> \in Seq(ProviderCommands)
        /\ << >> \in Seq(Seq(Operations)) /\ << >> \in Seq(PlanSteps)
      BY EmptySeq
  <2>2. inHand \in [req : Nat, plan : Seq(PlanSteps), i : Nat]
      BY <1>1, <2>1
  <2>3. answered \in 0..MaxRequests
      BY <1>1 DEF PlanConstants
  <2>4. planUp \in BOOLEAN
      BY <1>1, Zenon
  <2>5. /\ planned \in Seq(PlanTasks) /\ outbox \in Seq(ProviderCommands)
        /\ given \in Seq(Seq(Operations)) /\ Len(given) = Len(planned)
      BY <1>1, <2>1
  <2>6. /\ marks \subseteq Operations /\ planCrashes \in Nat
        /\ awaits \subseteq [by : {"plan", "replay"}, op : Operations, task : Nat, taken : BOOLEAN]
      BY <1>1
  <2> QED BY <2>2, <2>3, <2>4, <2>5, <2>6 DEF PlanTypes
<1>4. HandFits
    BY <1>2 DEF HandFits
<1>5. JobsFit /\ GivenFits /\ TextFits
    BY <1>2 DEF JobsFit, GivenFits, TextFits
<1>6. BoxFits /\ NoneStranded
    BY <1>2 DEF BoxFits, OpsApart, NoneStranded
<1>7. AwaitsFit
    BY <1>1 DEF AwaitsFit
<1>8. CutsFit
  <2>1. Cut = {}
      BY <1>1, <1>2 DEF Cut, CutAt, Spent, Sent
  <2> QED BY <1>1, <1>2, <2>1 DEF CutsFit
<1>9. QueueFits
  <2>1. Coming = {} /\ Queued = {}
      BY <1>2 DEF Coming, Queued
  <2> QED BY <1>2, <2>1 DEF QueueFits, PlanConstants
<1> QED BY <1>3, <1>4, <1>5, <1>6, <1>7, <1>8, <1>9 DEF PlanInv

LEMMA PlanStutters == ASSUME PlanInv, UNCHANGED Plan!planVars PROVE PlanInv'
<1>1. /\ planned' = planned /\ outbox' = outbox /\ marks' = marks /\ given' = given
      /\ awaits' = awaits /\ inHand' = inHand /\ answered' = answered /\ planUp' = planUp
      /\ planCrashes' = planCrashes
    BY DEF Plan!planVars
<1>2. PlanTypes' /\ HandFits' /\ TextFits'
    BY <1>1 DEF PlanInv, PlanTypes, HandFits, InPlan, TextFits
<1>3. JobsFit' /\ BoxFits'
    BY <1>1 DEF PlanInv, JobsFit, JobStands, BoxFits, OpsApart
<1>4. AwaitsFit' /\ GivenFits'
    BY <1>1 DEF PlanInv, AwaitsFit, InPlan, Here, GivenFits, Brought, Sent
<1>5. Cut' = Cut
    BY <1>1 DEF Cut, CutAt, Spent, Sent, Ahead, InPlan, Waits
<1>6. CutsFit'
    BY <1>1, <1>5 DEF PlanInv, CutsFit
<1>7. QueueFits'
    BY <1>1 DEF PlanInv, QueueFits, Coming, InPlan, Queued
<1>8. NoneStranded'
    BY <1>1 DEF PlanInv, NoneStranded
<1> QED BY <1>2, <1>3, <1>4, <1>6, <1>7, <1>8 DEF PlanInv

LEMMA PlanStep ==
    ASSUME PlanInv, PlanConstants, [Plan!Next]_(Plan!planVars) PROVE PlanInv'
<1>1. CASE \E n \in 1..MaxPlan : \E plan \in [1..n -> Plan!Commands] : Plan!Apply(plan)
    BY <1>1, ApplyOK
<1>2. CASE Plan!CreateTask
    BY <1>2, CreateTaskOK
<1>3. CASE Plan!Instruct
    BY <1>3, InstructOK
<1>4. CASE Plan!Finish
    BY <1>4, FinishOK
<1>5. CASE Plan!Message
    BY <1>5, MessageOK
<1>6. CASE \E ok \in BOOLEAN : Plan!CancelTask(ok)
    BY <1>6, CancelTaskOK
<1>7. CASE \E a \in awaits : \/ Plan!Taken(a)
                             \/ \E ok \in BOOLEAN : Plan!Delivered(a, ok) \/ Plan!Replayed(a, ok)
    BY <1>7, TakenOK, DeliveredOK, ReplayedOK
<1>8. CASE \E t \in DOMAIN planned : \/ Plan!Begin(t) \/ Plan!Opened(t) \/ Plan!Replay(t)
                                     \/ Plan!Serve(t)
                                     \/ \E done \in BOOLEAN : Plan!RunEnds(t, done)
    BY <1>8, BeginOK, OpenedOK, ReplayOK, ServeOK, RunEndsOK
<1>9. CASE Plan!Crash
    BY <1>9, PlanCrashOK
<1>10. CASE Plan!Start
    BY <1>10, PlanStartOK
<1>11. CASE UNCHANGED Plan!planVars
    BY <1>11, PlanStutters
<1>12. Plan!Ids = DOMAIN planned
    BY PlanTerms
<1> QED BY <1>1, <1>2, <1>3, <1>4, <1>5, <1>6, <1>7, <1>8, <1>9, <1>10, <1>11, <1>12
        DEF Plan!Next

\* An operation that is at home twice is one of a request that was cut: it was
\* noted in an instruction, and sent as a command.
LEMMA AgainIsCut == ASSUME PlanInv PROVE Again \subseteq Cut \X (1..MaxPlan)
<1>1. \A op, t : t \in DOMAIN planned /\ op \in ToSet(planned[t].text) => op \in marks
    BY DEF PlanInv, TextFits
<1>2. \A op, t : /\ t \in DOMAIN planned /\ op \in ToSet(given[t])
                 /\ op \notin ToSet(planned[t].text)
                 => \E c \in ToSet(outbox) : c.op = op /\ c.task = t
    BY DEF PlanInv, GivenFits, Brought
<1>3. \A c, d \in ToSet(outbox) : c.op = d.op => c = d
    BY OneCommand DEF PlanInv, BoxFits, PlanTypes
<1>4. ASSUME NEW op, NEW t \in Homes(op), NEW u \in Homes(op), t # u
      PROVE  op \in marks /\ Sent(op)
  <2>1. t \in DOMAIN planned /\ u \in DOMAIN planned
      BY DEF Homes
  <2>2. \/ op \in ToSet(planned[t].text)
        \/ \E c \in ToSet(outbox) : c.op = op /\ c.task = t
      BY <1>2, <2>1 DEF Homes
  <2>3. \/ op \in ToSet(planned[u].text)
        \/ \E c \in ToSet(outbox) : c.op = op /\ c.task = u
      BY <1>2, <2>1 DEF Homes
  <2>4. ~ (op \in ToSet(planned[t].text) /\ op \in ToSet(planned[u].text))
      BY <1>4, <2>1 DEF PlanInv, TextFits
  <2>5. ~ (/\ \E c \in ToSet(outbox) : c.op = op /\ c.task = t
           /\ \E c \in ToSet(outbox) : c.op = op /\ c.task = u)
      BY <1>3, <1>4
  <2> QED BY <1>1, <2>1, <2>2, <2>3, <2>4, <2>5 DEF Sent
<1>5. ASSUME NEW op, NEW t \in DOMAIN planned, Before(given[t], op, op)
      PROVE  op \in marks /\ Sent(op)
  <2>1. op \in ToSet(given[t])
      BY <1>5, BeforeIn
  <2> QED BY <1>1, <1>5, <2>1 DEF PlanInv, GivenFits
<1>6. ASSUME NEW op \in Again PROVE op \in Cut \X (1..MaxPlan)
  <2>1. PICK r \in 1..MaxRequests, k \in 1..MaxPlan : op = << r, k >>
      BY DEF Again
  <2>2. op \in marks /\ Sent(op)
      BY <1>4, <1>5 DEF Again
  <2>3. CutAt(r, k)
      BY <2>1, <2>2 DEF CutAt
  <2> QED BY <2>1, <2>3 DEF Cut
<1> QED BY <1>6

LEMMA PlansFit == ASSUME PlanInv, PlanConstants PROVE PlansCarried
<1>1. MaxRequests \in Nat /\ MaxPlan \in Nat /\ MaxQueued \in Nat /\ PlanTypes
    BY DEF PlanConstants, PlanInv
<1>2. IsFiniteSet(1..MaxRequests) /\ IsFiniteSet(1..MaxPlan) /\ Cardinality(1..MaxPlan) = MaxPlan
  <2>1. 1 \in Int /\ MaxRequests \in Int /\ MaxPlan \in Int
      BY <1>1
  <2>2. IsFiniteSet(1..MaxRequests) /\ IsFiniteSet(1..MaxPlan)
      BY <2>1, FS_Interval
  <2>3. Cardinality(1..MaxPlan) = IF 1 > MaxPlan THEN 0 ELSE MaxPlan - 1 + 1
      BY <2>1, FS_Interval
  <2> QED BY <1>1, <2>2, <2>3
<1>3. IsFiniteSet(Cut)
  <2>1. Cut \in SUBSET (1..MaxRequests)
      BY DEF Cut
  <2> QED BY <1>2, <2>1, FS_Subset
<1>4. Cardinality(Again) <= planCrashes * MaxPlan
  <2>1. /\ IsFiniteSet(Cut \X (1..MaxPlan))
        /\ Cardinality(Cut \X (1..MaxPlan)) = Cardinality(Cut) * MaxPlan
      BY <1>2, <1>3, FS_Product
  <2>2. IsFiniteSet(Again) /\ Cardinality(Again) <= Cardinality(Cut \X (1..MaxPlan))
    <3>1. Again \in SUBSET (Cut \X (1..MaxPlan))
        BY AgainIsCut
    <3> QED BY <2>1, <3>1, FS_Subset
  <2>3. Cardinality(Again) \in Nat /\ Cardinality(Cut) \in Nat
      BY <1>3, <2>2, FS_CardinalityType
  <2>4. Cardinality(Cut) <= planCrashes /\ planCrashes \in Nat
      BY <1>1 DEF PlanInv, CutsFit, PlanTypes
  <2>5. \A i, j, m \in Nat : i <= j => i * m <= j * m
    <3>1. \A i, d, m \in Nat : (i + d) * m = i * m + d * m /\ d * m \in Nat /\ i * m \in Nat
        OBVIOUS
    <3>2. ASSUME NEW i \in Nat, NEW j \in Nat, NEW m \in Nat, i <= j PROVE i * m <= j * m
      <4>1. j - i \in Nat /\ i + (j - i) = j
          BY <3>2
      <4>2. j * m = i * m + (j - i) * m /\ (j - i) * m \in Nat /\ i * m \in Nat
          BY <3>1, <4>1
      <4> QED BY <4>2
    <3> QED BY <3>2
  <2>6. Cardinality(Cut) * MaxPlan <= planCrashes * MaxPlan
      BY <1>1, <2>3, <2>4, <2>5
  <2>7. Cardinality(Again) <= Cardinality(Cut) * MaxPlan
      BY <2>1, <2>2
  <2>8. Cardinality(Cut) * MaxPlan \in Nat /\ planCrashes * MaxPlan \in Nat
      BY <1>1, <2>3, <2>4
  <2> QED BY <2>3, <2>6, <2>7, <2>8
<1>5. TaughtOnce
    BY <1>4 DEF TaughtOnce, PlanInv, TextFits
<1>6. QueueBounded
  <2>1. IsFiniteSet(Queued) /\ IsFiniteSet(Coming)
    <3>1. /\ Len(planned) \in Nat /\ DOMAIN planned = 1..Len(planned)
          /\ Len(inHand.plan) \in Nat /\ DOMAIN inHand.plan = 1..Len(inHand.plan)
        BY <1>1, PlanFacts
    <3>2. IsFiniteSet(DOMAIN planned) /\ IsFiniteSet(DOMAIN inHand.plan)
        BY <3>1, FS_Interval
    <3>3. Queued \in SUBSET DOMAIN planned /\ Coming \in SUBSET DOMAIN inHand.plan
        BY DEF Queued, Coming
    <3> QED BY <3>2, <3>3, FS_Subset
  <2>2. Cardinality(Queued) \in Nat /\ Cardinality(Coming) \in Nat
      BY <2>1, FS_CardinalityType
  <2> QED BY <1>1, <2>2 DEF PlanInv, QueueFits, QueueBounded
<1> QED BY <1>5, <1>6 DEF PlansCarried, PlanInv

\* The invariant of the plans: what stands in the outbox is in the hands of a run, a
\* worker has an update from its instruction or from a command, and a request of
\* which an operation is noted and sent has been cut by a death of the process.
THEOREM PlansInvariance == ASSUME Plan!PlansAssumption PROVE Plan!Spec => []PlanInv
<1> PlanConstants
    BY DEF Plan!PlansAssumption, PlanConstants
<1>1. Plan!Init => PlanInv
    BY PlanInitOK
<1>2. PlanInv /\ [Plan!Next]_(Plan!planVars) => PlanInv'
    BY PlanStep
<1> QED BY <1>1, <1>2, PTL DEF Plan!Spec

\* No update is left behind in the outbox, the queue of the owner stays within its
\* limit, and a worker is taught an update once, but for the plans that the process
\* did not survive (_apply_plan, _replay_provider_commands).
THEOREM PlansAreCarried == ASSUME Plan!PlansAssumption PROVE Plan!Spec => []PlansCarried
<1>1. PlanInv => PlansCarried
    BY PlansFit DEF Plan!PlansAssumption, PlanConstants
<1> QED BY <1>1, PlansInvariance, PTL
=============================================================================
