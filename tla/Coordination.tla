---------------------------- MODULE Coordination ----------------------------
(***************************************************************************)
(* Coordination of one owner's requests: coordinate_turn and its waiters,  *)
(* the runner (_run_coordination), the persisted job and session of the    *)
(* TaskLedger, and the CodexCoordinator with its app server's thread,      *)
(* turns and notifications.                                                *)
(*                                                                         *)
(* A request is named after the user turn that made it (request_id is a    *)
(* stable_id of the turn's receipt), so it also stands for job.version.    *)
(* A plan is the set of turns whose text the model was asked to plan.      *)
(* Client, thread and turn awaits are steps of the runner, because the     *)
(* model lock lets one call run at a time.                                 *)
(***************************************************************************)
EXTENDS Naturals, Sequences, FiniteSets

CONSTANTS Turns,       \* requests of the user
          NoTurn,
          MaxTurns,    \* max_turns_per_thread
          MaxCalls,    \* bound: turns started at the app server
          MaxDeaths,   \* bound: deaths of the app server
          MaxCrashes   \* bound: deaths of the gateway's process

ASSUME NoTurnAssumption == NoTurn \notin Turns
ASSUME BoundsAssumption == /\ MaxTurns \in Nat \ {0}
                           /\ {MaxCalls, MaxDeaths, MaxCrashes} \subseteq Nat

VARIABLES
    \* the ledger file
    receipts,   \* turns with an assist receipt
    job,        \* CoordinationJob: its request, state and turn_receipt_keys
    session,    \* CoordinatorSessionRecord: backend thread and turn_count
    told,       \* requests whose result was enqueued for the user
    \* the gateway
    runner,     \* _run_coordination: its await, the job it holds, the plan
    waiter,     \* wait_coordination, by request
    \* the coordinator
    client,     \* the app server's client: none, up, or dead and not yet read so
    loaded,     \* _loaded_threads of the owner, 0 when there is none
    call,       \* _TurnState registered in _active_by_thread
    \* the app server
    running,    \* turns it still works on
    inbox,      \* turn/completed notifications not yet read
    \* observation and bounds
    finished,   \* turns of finished jobs
    applied,    \* plans that were applied, with their job
    threads, calls, deaths, crashes

ledger == <<receipts, job, session, told>>
coordinator == <<client, loaded, call>>
server == <<running, inbox>>
bounds == <<threads, calls, deaths, crashes>>
vars == <<ledger, runner, waiter, coordinator, server, finished, applied, bounds>>

Calls == 1..MaxCalls
Plans == SUBSET Turns
JobStates == {"none", "pending", "coordinating", "completed", "failed"}
NoJob == [request |-> NoTurn, turns |-> {}, state |-> "none"]
Working == {"client", "resume", "thread", "archive", "turn", "wait", "interrupt",
            "settle"}
Idle(pc) == [pc |-> pc, request |-> NoTurn, turns |-> {}, plan |-> {}, cut |-> FALSE]
NoCall == [thread |-> 0, turn |-> 0, reply |-> 0, done |-> "no", plan |-> {}]
CallOn(thread) == [NoCall EXCEPT !.thread = thread]
Message == [thread : Nat, turn : {0} \cup Calls, plan : Plans, ok : BOOLEAN]

\* The end of the notification stream.
Gone == [thread |-> 0, turn |-> 0, plan |-> {}, ok |-> FALSE]

\* Every variable keeps its type; a call is registered only by a runner at work.
TypeOK ==
    /\ receipts \subseteq Turns /\ told \subseteq Turns
    /\ job \in [request : Turns \cup {NoTurn}, turns : Plans, state : JobStates]
    /\ session \in [thread : Nat, count : 0..MaxTurns]
    /\ runner \in [pc : Working \cup {"down", "off", "claim", "lock", "apply"},
                   request : Turns \cup {NoTurn}, turns : Plans, plan : Plans,
                   cut : BOOLEAN]
    /\ waiter \in [Turns -> {"none", "waiting", "woken", "returned"}]
    /\ client \in {"none", "up", "dead"} /\ loaded \in Nat
    /\ call \in [thread : Nat, turn : {0} \cup Calls, reply : {0} \cup Calls,
                 plan : Plans, done : {"no", "completed", "failed", "lost"}]
    /\ running \subseteq [thread : Nat, turn : Calls, plan : Plans]
    /\ inbox \in Seq(Message)
    /\ finished \subseteq Turns
    /\ applied \subseteq [request : Turns, turns : Plans, plan : Plans]
    /\ call.thread # 0 => runner.pc \in {"turn", "wait", "interrupt", "settle"}

Init ==
    /\ receipts = {} /\ job = NoJob /\ told = {}
    /\ session = [thread |-> 0, count |-> 0]
    /\ runner = Idle("off")
    /\ waiter = [t \in Turns |-> "none"]
    /\ client = "none" /\ loaded = 0 /\ call = NoCall
    /\ running = {} /\ inbox = <<>>
    /\ finished = {} /\ applied = {}
    /\ threads = 0 /\ calls = 0 /\ deaths = 0 /\ crashes = 0

-----------------------------------------------------------------------------
(* Requests and those who wait for them *)

Unfinished == job.state \in {"pending", "coordinating"}

\* The waiters after the event of request r was set (_signal_coordination).
Signalled(r) == IF r # NoTurn /\ waiter[r] = "waiting"
                THEN [waiter EXCEPT ![r] = "woken"] ELSE waiter

\* _schedule_coordination: the owner has one runner at a time.
Scheduled == IF runner.pc = "off" THEN Idle("claim") ELSE runner

\* Mutant: the new request replaces the old one.
MergedLast(t) == {t}

\* The turns of a new job: a request that was not finished is planned again,
\* together with the new one.
Merged(t) == IF Unfinished THEN job.turns \cup {t} ELSE {t}

\* Mutant: whoever waits for the request that was superseded is not told.
SubmitSilent(t) ==
    /\ runner.pc \notin {"down", "apply"}
    /\ t \notin receipts
    /\ receipts' = receipts \cup {t}
    /\ job' = [request |-> t, turns |-> Merged(t), state |-> "pending"]
    /\ waiter' = [waiter EXCEPT ![t] = "waiting"]
    /\ runner' = Scheduled
    /\ UNCHANGED <<session, told, coordinator, server, finished, applied, bounds>>

\* coordinate_turn under the owner lock, which the runner holds while it
\* applies a plan: the receipt, the job and the event of the request before.
Submit(t) ==
    /\ runner.pc \notin {"down", "apply"}
    /\ t \notin receipts
    /\ receipts' = receipts \cup {t}
    /\ job' = [request |-> t, turns |-> Merged(t), state |-> "pending"]
    /\ waiter' = [Signalled(job.request) EXCEPT ![t] = "waiting"]
    /\ runner' = Scheduled
    /\ UNCHANGED <<session, told, coordinator, server, finished, applied, bounds>>

\* The same turn again, after its caller was answered or had died: its receipt
\* is returned, and it waits if the current job is still that request's.
Repeat(t) ==
    /\ runner.pc \notin {"down", "apply"}
    /\ t \in receipts
    /\ waiter[t] \in {"none", "returned"}
    /\ job.request = t /\ Unfinished
    /\ waiter' = [waiter EXCEPT ![t] = "waiting"]
    /\ UNCHANGED <<ledger, runner, coordinator, server, finished, applied, bounds>>

\* wait_coordination goes on: with the job's result, or "superseded".
Return(t) ==
    /\ waiter[t] = "woken"
    /\ waiter' = [waiter EXCEPT ![t] = "returned"]
    /\ UNCHANGED <<ledger, runner, coordinator, server, finished, applied, bounds>>

-----------------------------------------------------------------------------
(* The runner *)

Current == /\ job.request = runner.request
           /\ job.state = "coordinating"

\* finish_coordination_job, the signal and the delivery of a refusal: nothing
\* happens to a job that was superseded.
Finish(state, tell) ==
    IF Current
    THEN /\ job' = [job EXCEPT !.state = state]
         /\ waiter' = Signalled(job.request)
         /\ told' = IF tell THEN told \cup {job.request} ELSE told
         /\ finished' = finished \cup job.turns
    ELSE UNCHANGED <<job, waiter, told, finished>>

\* An exception of the call: _finish_coordination_failure, and the next job.
Failed ==
    /\ Finish("failed", TRUE)
    /\ runner' = Idle("claim")
    /\ call' = NoCall

Claim ==
    /\ runner.pc = "claim"
    /\ IF job.state = "pending"
       THEN /\ job' = [job EXCEPT !.state = "coordinating"]
            /\ runner' = [Idle("client") EXCEPT !.request = job.request,
                                                !.turns = job.turns]
       ELSE /\ runner' = Idle("off")
            /\ UNCHANGED job
    /\ UNCHANGED <<receipts, session, told, waiter, coordinator, server, finished,
                   applied, bounds>>

\* Mutant: the plan is applied whatever became of its request.
TakeOwnerBlind ==
    /\ runner.pc = "lock"
    /\ runner' = [runner EXCEPT !.pc = "apply"]
    /\ UNCHANGED <<ledger, waiter, coordinator, server, finished, applied, bounds>>

\* The lock of the owner is free: the plan of a request that was superseded
\* while the model worked is dropped.
TakeOwner ==
    /\ runner.pc = "lock"
    /\ runner' = IF Current THEN [runner EXCEPT !.pc = "apply"] ELSE Idle("claim")
    /\ UNCHANGED <<ledger, waiter, coordinator, server, finished, applied, bounds>>

\* _apply_plan refuses the plan, applies it, or raises after it applied some
\* commands; the job is finished in each case.
Apply ==
    /\ runner.pc = "apply"
    /\ \/ Finish("completed", TRUE) /\ UNCHANGED applied
       \/ /\ Finish("completed", FALSE)
          /\ applied' = applied \cup {[request |-> runner.request,
                                       turns |-> runner.turns, plan |-> runner.plan]}
       \/ /\ Finish("failed", TRUE)
          /\ applied' = applied \cup {[request |-> runner.request,
                                       turns |-> runner.turns, plan |-> runner.plan]}
    /\ runner' = Idle("claim")
    /\ UNCHANGED <<receipts, session, coordinator, server, bounds>>

-----------------------------------------------------------------------------
(* The coordinator's call: client, thread, turn *)

\* _discard_client: the app server is closed and its turns die with it.
Discarded == /\ client' = "none" /\ loaded' = 0
             /\ running' = {} /\ inbox' = <<>>

At(pc) == runner.pc = pc
To(pc) == runner' = [runner EXCEPT !.pc = pc]

\* _ensure_client, and the choice of a thread: the loaded one, the persisted
\* one, or a fresh one when the persisted one is used up.
Connect ==
    /\ At("client")
    /\ \/ /\ client' = IF client = "none" THEN "up" ELSE client
          /\ IF session.thread = 0 \/ session.count >= MaxTurns
             THEN To("thread") /\ UNCHANGED call
             ELSE IF loaded = session.thread
             THEN To("turn") /\ call' = CallOn(session.thread)
             ELSE To("resume") /\ UNCHANGED call
          /\ UNCHANGED <<job, told, waiter, finished>>
       \/ client = "none" /\ Failed /\ UNCHANGED client
    /\ UNCHANGED <<receipts, session, loaded, server, applied, bounds>>

\* The answer to thread/resume: the thread is loaded, or a fresh one is asked
\* for, whatever the error was.
Resume ==
    /\ At("resume")
    /\ \/ /\ client = "up"
          /\ loaded' = session.thread
          /\ call' = CallOn(session.thread)
          /\ To("turn")
       \/ To("thread") /\ UNCHANGED <<loaded, call>>
    /\ UNCHANGED <<ledger, waiter, client, server, finished, applied, bounds>>

\* The answer to thread/start, with which the session is saved; the thread it
\* replaces is archived if it was used up. An error discards the client.
StartThread ==
    /\ At("thread")
    /\ \/ /\ client = "up"
          /\ threads' = threads + 1
          /\ session' = [thread |-> threads', count |-> 0]
          /\ loaded' = threads'
          /\ IF session.count >= MaxTurns
             THEN To("archive") /\ UNCHANGED call
             ELSE To("turn") /\ call' = CallOn(threads')
          /\ UNCHANGED <<job, told, waiter, client, server, finished>>
       \/ Failed /\ Discarded /\ UNCHANGED <<session, threads>>
    /\ UNCHANGED <<receipts, applied, calls, deaths, crashes>>

\* The answer to thread/archive, whatever it is.
Archive ==
    /\ At("archive")
    /\ To("turn")
    /\ call' = CallOn(session.thread)
    /\ UNCHANGED <<ledger, waiter, client, loaded, server, finished, applied, bounds>>

\* _retire_thread: the next request opens a fresh one.
Retired(yes) ==
    IF yes THEN loaded' = 0 /\ session' = [session EXCEPT !.count = MaxTurns]
           ELSE UNCHANGED <<loaded, session>>

\* The answer to turn/start: the id of the turn, or an error, after which the
\* thread is retired, unless the call was done, and the client discarded.
Started ==
    /\ At("turn")
    /\ \/ /\ call.reply # 0
          /\ call' = [call EXCEPT !.turn = call.reply]
          /\ To("wait")
          /\ UNCHANGED <<session, job, told, waiter, client, loaded, server, finished>>
       \/ /\ Failed /\ Discarded
          /\ session' = IF call.done = "no" THEN [session EXCEPT !.count = MaxTurns]
                                            ELSE session
    /\ UNCHANGED <<receipts, applied, bounds>>

\* The turn is done: the session counts it, and its text is a plan or is
\* refused by _parse_plan; a failed turn, or a lost client, fails the request.
Done ==
    /\ At("wait") /\ call.done # "no"
    /\ session' = IF call.done = "completed" THEN [session EXCEPT !.count = @ + 1]
                                             ELSE session
    /\ \/ /\ call.done = "completed"
          /\ runner' = [runner EXCEPT !.pc = "lock", !.plan = call.plan]
          /\ call' = NoCall
          /\ UNCHANGED <<job, told, waiter, finished>>
       \/ Failed
    /\ UNCHANGED <<receipts, client, loaded, server, applied, bounds>>

\* turn_timeout_s ran out: the turn is interrupted before the error goes on.
TurnTimeout ==
    /\ At("wait") /\ call.done = "no"
    /\ To("interrupt")
    /\ UNCHANGED <<ledger, waiter, coordinator, server, finished, applied, bounds>>

\* The answer to turn/interrupt, or its error or timeout.
Interrupt ==
    /\ At("interrupt")
    /\ \/ /\ client = "up"
          /\ To("settle")
          /\ UNCHANGED <<session, job, told, waiter, loaded, call, finished>>
       \/ Failed /\ Retired(TRUE)
    /\ UNCHANGED <<receipts, client, server, applied, bounds>>

\* The interrupted turn is done, or is waited for no longer.
Settle ==
    /\ At("settle")
    /\ Failed /\ Retired(call.done = "no")
    /\ UNCHANGED <<receipts, client, server, applied, bounds>>

\* coordinator_timeout_s of the gateway's _coordinate cancels the call where
\* it stands: a turn without an id retires its thread, a turn that is waited
\* for is interrupted, but an interruption that is cut short does neither.
GatewayTimeout ==
    /\ runner.pc \in Working
    /\ ~runner.cut
    /\ IF At("wait") /\ call.done = "no"
       THEN /\ runner' = [runner EXCEPT !.pc = "interrupt", !.cut = TRUE]
            /\ UNCHANGED <<session, job, told, waiter, loaded, call, finished>>
       ELSE Failed /\ Retired(At("turn") /\ call.done = "no")
    /\ UNCHANGED <<receipts, client, server, applied, bounds>>

-----------------------------------------------------------------------------
(* The app server and its notifications *)

\* The app server takes the turn that is asked for and answers with its id.
Accept ==
    /\ client = "up" /\ At("turn")
    /\ call.reply = 0 /\ calls < MaxCalls
    /\ calls' = calls + 1
    /\ call' = [call EXCEPT !.reply = calls']
    /\ running' = running \cup {[thread |-> call.thread, turn |-> calls',
                                 plan |-> runner.turns]}
    /\ UNCHANGED <<ledger, runner, waiter, client, loaded, inbox, finished, applied,
                   threads, deaths, crashes>>

\* A turn ends, by itself or because it was interrupted.
EndTurn(r, ok) ==
    /\ running' = running \ {r}
    /\ inbox' = Append(inbox, [thread |-> r.thread, turn |-> r.turn,
                               plan |-> r.plan, ok |-> ok])
    /\ UNCHANGED <<ledger, runner, waiter, coordinator, finished, applied, bounds>>

\* The process of the app server dies; its client learns it from the stream.
ServerDies ==
    /\ client = "up" /\ deaths < MaxDeaths
    /\ deaths' = deaths + 1
    /\ client' = "dead"
    /\ running' = {} /\ inbox' = Append(inbox, Gone)
    /\ UNCHANGED <<ledger, runner, waiter, loaded, call, finished, applied, threads,
                   calls, crashes>>

\* _state_for: a notification is for the call with its turn id, or for the call
\* on its thread that has no turn id yet.
IsFor(m) == /\ call.thread # 0
            /\ \/ call.turn = m.turn
               \/ call.turn = 0 /\ call.thread = m.thread

\* _watch_notifications takes a turn/completed, or the end of the stream.
Watch ==
    /\ inbox # <<>>
    /\ inbox' = Tail(inbox)
    /\ LET m == Head(inbox) IN
       IF m = Gone
       THEN /\ client' = "none" /\ loaded' = 0
            /\ call' = IF call.thread # 0 /\ call.done = "no"
                       THEN [call EXCEPT !.done = "lost"] ELSE call
       ELSE /\ call' = IF IsFor(m) /\ call.done = "no"
                       THEN [call EXCEPT !.done = IF m.ok THEN "completed"
                                                          ELSE "failed",
                                         !.plan = m.plan] ELSE call
            /\ UNCHANGED <<client, loaded>>
    /\ UNCHANGED <<ledger, runner, waiter, running, finished, applied, bounds>>

-----------------------------------------------------------------------------
(* The process dies, and start recovers the jobs *)

Crash ==
    /\ runner.pc # "down"
    /\ crashes < MaxCrashes
    /\ crashes' = crashes + 1
    /\ \/ /\ runner.pc = "apply"
          /\ applied' = applied \cup {[request |-> runner.request,
                                       turns |-> runner.turns, plan |-> runner.plan]}
       \/ UNCHANGED applied
    /\ runner' = Idle("down")
    /\ waiter' = [t \in Turns |-> "none"]
    /\ client' = "none" /\ loaded' = 0 /\ call' = NoCall
    /\ running' = {} /\ inbox' = <<>>
    /\ UNCHANGED <<ledger, finished, threads, calls, deaths>>

\* Mutant: a job the dead process had claimed is left as it is.
RestartLost ==
    /\ runner.pc = "down"
    /\ runner' = Idle(IF Unfinished THEN "claim" ELSE "off")
    /\ UNCHANGED <<ledger, waiter, coordinator, server, finished, applied, bounds>>

\* recover_coordination_jobs, and the runner of a pending job.
Restart ==
    /\ runner.pc = "down"
    /\ job' = IF job.state = "coordinating" THEN [job EXCEPT !.state = "pending"]
                                            ELSE job
    /\ runner' = Idle(IF Unfinished THEN "claim" ELSE "off")
    /\ UNCHANGED <<receipts, session, told, waiter, coordinator, server, finished,
                   applied, bounds>>

-----------------------------------------------------------------------------

RunnerStep ==
    \/ Claim \/ TakeOwner \/ Apply
    \/ Connect \/ Resume \/ StartThread \/ Archive \/ Started \/ Done
    \/ TurnTimeout \/ Interrupt \/ Settle \/ GatewayTimeout

Next ==
    \/ RunnerStep \/ Accept \/ ServerDies \/ Watch \/ Crash \/ Restart
    \/ \E t \in Turns : Submit(t) \/ Repeat(t) \/ Return(t)
    \/ \E r \in running, ok \in BOOLEAN : EndTurn(r, ok)

Spec == Init /\ [][Next]_vars

\* The event loop runs the runner, the watcher and the waiters; the runner's
\* calls are bounded by timeouts, and a dead process is restarted.
Fairness == /\ WF_vars(RunnerStep) /\ WF_vars(Watch) /\ WF_vars(Restart)
            /\ \A t \in Turns : WF_vars(Return(t))

FairSpec == Spec /\ Fairness

-----------------------------------------------------------------------------
(* Properties *)

\* Nothing the user said is lost over superseding requests, failures and
\* restarts: a turn with a receipt is part of the job that is not finished, or
\* of one that was.
TurnsKept == \A t \in receipts : t \in finished \/ (Unfinished /\ t \in job.turns)

\* A turn is acted on once: no two applied plans are for the same turn, unless
\* the process died after the first and before its job was finished.
AppliedOnce ==
    crashes = 0 => \A a, b \in applied : a # b => a.turns \cap b.turns = {}

\* What the user said is neither lost nor acted on twice.
TurnsHandled == TurnsKept /\ AppliedOnce

\* Every accepted turn is planned to an end.
TurnsAnswered == \A t \in Turns : t \in receipts ~> t \in finished

\* Whoever waits for a request is answered, or its process died.
WaitersReturn == \A t \in Turns : waiter[t] = "waiting" ~> waiter[t] # "waiting"

\* The plan that is applied was made from the snapshot of its own request.
PlanIsOwn == \A a \in applied : a.plan = a.turns
=============================================================================
