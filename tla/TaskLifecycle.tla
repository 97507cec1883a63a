---------------------------- MODULE TaskLifecycle ----------------------------
(***************************************************************************)
(* The gateway's task scheduler: GanderGateway._dispatch, _cancel_task,    *)
(* the reduction of a worker's Done event, the failure path, and the       *)
(* recovery GanderGateway.start performs on the ledger file a previous     *)
(* process left behind.                                                    *)
(*                                                                         *)
(* One asyncio loop runs every handler, so a step here is the code between *)
(* two awaits.  Each TaskLedger method is one SQLite transaction and a     *)
(* handler makes several in a row: the parameter k of an action is the     *)
(* number of them that were committed.  With fewer than all, the process   *)
(* died in the middle of the handler.                                      *)
(***************************************************************************)
EXTENDS Naturals, FiniteSets

CONSTANTS Tasks,        \* tasks a user may delegate
          Runs,         \* run identifiers (new_id("run"))
          NoRun,        \* active_run_id is None
          NoTask,       \* task of a run the ledger does not know
          Workspaces,   \* values of _provider_project_resource_key
          Workspace,    \* Tasks -> Workspaces
          Slots,        \* capabilities.max_parallel_projects
          Outcomes,     \* statuses of the Done events workers send
          Resumable,    \* tasks whose provider declares session_resume
          MaxCrashes    \* bound: how often the process dies

Terminal == {"completed", "partial", "failed", "cancelled"}

ASSUME NoneAssumption == NoRun \notin Runs /\ NoTask \notin Tasks
ASSUME WorkspaceAssumption == Workspace \in [Tasks -> Workspaces]
ASSUME SlotsAssumption == Slots \in Nat \ {0}
ASSUME OutcomesAssumption == Outcomes \subseteq Terminal
ASSUME ResumeAssumption == Resumable \subseteq Tasks
ASSUME CrashAssumption == MaxCrashes \in Nat

VARIABLES
    \* the ledger file
    task,      \* TaskRecord: status and active_run_id
    run,       \* RunRecord: status, task_id, backend_session_id known
    event,     \* the Done event of a run in worker_events
    final,     \* status of the delivery under the marker terminal:<task>
    \* the process
    phase,     \* "down", "recovering" (inside start) or "up"
    todo,      \* tasks start() has not visited yet
    job,       \* the _dispatch coroutine of a task
    stream,    \* the worker of a run and its event stream; "deaf" when a cancel
               \* of it failed, "stray" when it works on and the gateway has let
               \* go of it
    cancel,    \* the _cancel_task call that holds the task lock over an await
    \* bound
    crashes

ledger == <<task, run, event, final>>
vars == <<ledger, phase, todo, job, stream, cancel, crashes>>

TaskStatus == Terminal \cup {"absent", "queued", "running", "cancelling"}
JobPc == {"none", "waiting", "slot", "lock", "open", "started", "stopping",
          "stopped", "events", "ingest", "failing", "closing"}

Idle == [pc |-> "none", run |-> NoRun, resumed |-> FALSE, done |-> "none"]

\* Every variable keeps its type: the ledger's statuses are those the SQLite
\* rows may hold, and a job is at one of the awaits of _dispatch.
TypeOK ==
    /\ task \in [Tasks -> [status : TaskStatus, run : Runs \cup {NoRun}]]
    /\ run \in [Runs -> [status : Terminal \cup {"absent", "running"},
                         task : Tasks \cup {NoTask}, session : BOOLEAN]]
    /\ event \in [Runs -> [state : {"none", "logged", "processed"},
                           status : Terminal \cup {"none"}]]
    /\ final \in [Tasks -> Terminal \cup {"nothing"}]
    /\ phase \in {"down", "recovering", "up"}
    /\ todo \subseteq Tasks
    /\ job \in [Tasks -> [pc : JobPc, run : Runs \cup {NoRun},
                          resumed : BOOLEAN, done : Terminal \cup {"none"}]]
    /\ stream \in [Runs -> {"none", "open", "deaf", "cancelled", "ended", "stray"}
                           \cup Terminal]
    /\ cancel \in [Tasks -> {"none", "asking", "confirmed"}]
    /\ crashes \in 0..MaxCrashes

Init ==
    /\ task = [t \in Tasks |-> [status |-> "absent", run |-> NoRun]]
    /\ run = [r \in Runs |-> [status |-> "absent", task |-> NoTask,
                              session |-> FALSE]]
    /\ event = [r \in Runs |-> [state |-> "none", status |-> "none"]]
    /\ final = [t \in Tasks |-> "nothing"]
    /\ phase = "up"
    /\ todo = {}
    /\ job = [t \in Tasks |-> Idle]
    /\ stream = [r \in Runs |-> "none"]
    /\ cancel = [t \in Tasks |-> "none"]
    /\ crashes = 0

-----------------------------------------------------------------------------
(* Helpers *)

IsTerminal(t) == task[t].status \in Terminal

Alive == UNCHANGED <<phase, crashes>>

\* The process is gone: what lives in memory and the worker processes with it.
Die ==
    /\ crashes < MaxCrashes
    /\ crashes' = crashes + 1
    /\ phase' = "down"
    /\ todo' = {}
    /\ job' = [t \in Tasks |-> Idle]
    /\ stream' = [r \in Runs |-> "none"]
    /\ cancel' = [t \in Tasks |-> "none"]

\* Mutant: only a task that had a run is announced.
SettledSilent(t, r, s, k) ==
    /\ task' = IF k >= 1 THEN [task EXCEPT ![t] = [status |-> s, run |-> NoRun]]
                         ELSE task
    /\ run' = IF k >= 2 /\ r # NoRun THEN [run EXCEPT ![r].status = s] ELSE run
    /\ final' = IF k >= 3 /\ r # NoRun THEN [final EXCEPT ![t] = s] ELSE final

\* The first k transactions of a terminal transition of t: save_task,
\* save_run (skipped for a run the ledger does not know) and the enqueue of
\* the final delivery, which its marker keeps to one.
Settled(t, r, s, k) ==
    /\ task' = IF k >= 1 THEN [task EXCEPT ![t] = [status |-> s, run |-> NoRun]]
                         ELSE task
    /\ run' = IF k >= 2 /\ r # NoRun /\ run[r].status # "absent"
              THEN [run EXCEPT ![r].status = s] ELSE run
    /\ final' = IF k >= 3 /\ final[t] = "nothing"
                THEN [final EXCEPT ![t] = s] ELSE final

\* _fail_task and _terminal_from_cancel read the task again and leave one that
\* ended meanwhile alone.
SettleOpen(t, s, k) ==
    /\ IF IsTerminal(t) THEN k = 3 /\ UNCHANGED <<task, run, final>>
                        ELSE Settled(t, task[t].run, s, k)
    /\ UNCHANGED event

Goto(t, p) == job' = [job EXCEPT ![t].pc = p]

\* A step of job t that touches nothing but the job.
Moves(t, p) ==
    /\ Goto(t, p)
    /\ UNCHANGED <<ledger, todo, stream, cancel>> /\ Alive

\* The end of a handler of job t whose n transactions were to be committed: the
\* job enters the finally block, which unregisters the run and awaits its
\* close with the slot still held.
LeavesAfter(t, k, n) ==
    IF k = n THEN /\ Goto(t, "closing")
                  /\ UNCHANGED <<todo, stream, cancel>> /\ Alive
             ELSE Die

HoldsWorkspace(t) == job[t].pc \notin {"none", "waiting"}
HoldsSlot(t) == job[t].pc \notin {"none", "waiting", "slot"}

\* The run of job t is in _runtime_runs.
Registered(t) == /\ job[t].pc \in JobPc \ {"none", "waiting", "slot", "lock",
                                           "open", "closing"}
                 /\ stream[job[t].run] \notin {"none", "stray"}

-----------------------------------------------------------------------------
(* Accepting a task *)

\* _start_task: the task is created, or, when the request is replayed, found;
\* _schedule starts a dispatch job unless the previous one still runs.
Submit(t) ==
    /\ phase = "up"
    /\ job[t].pc = "none"
    /\ task' = IF task[t].status = "absent"
               THEN [task EXCEPT ![t].status = "queued"] ELSE task
    /\ Goto(t, "waiting")
    /\ UNCHANGED <<run, event, final, todo, stream, cancel>> /\ Alive

-----------------------------------------------------------------------------
(* _dispatch *)

\* The provider or the project of the task is gone: the task fails before the
\* job takes any lock but the task's.
ResolveFails(t, k) ==
    /\ phase = "up"
    /\ job[t].pc = "waiting"
    /\ cancel[t] = "none"
    /\ SettleOpen(t, "failed", k)
    /\ IF k = 3 THEN /\ job' = [job EXCEPT ![t] = Idle]
                     /\ UNCHANGED <<todo, stream, cancel>> /\ Alive
                ELSE Die

\* Mutant: the resource lock is not taken.
TakeWorkspaceUnlocked(t) ==
    phase = "up" /\ job[t].pc = "waiting" /\ Moves(t, "slot")

\* async with resource_lock
TakeWorkspace(t) ==
    /\ phase = "up"
    /\ job[t].pc = "waiting"
    /\ \A u \in Tasks : Workspace[u] = Workspace[t] => ~HoldsWorkspace(u)
    /\ Moves(t, "slot")

\* async with slot
TakeSlot(t) ==
    /\ job[t].pc = "slot"
    /\ Cardinality({u \in Tasks : HoldsSlot(u)}) < Slots
    /\ Moves(t, "lock")

\* Mutant: a job that waited does not look at the task again.
BeginBlind(t, k) ==
    /\ job[t].pc = "lock" /\ cancel[t] = "none" /\ k = 2
    /\ \E r \in Runs :
        /\ run[r].status = "absent"
        /\ task' = [task EXCEPT ![t] = [status |-> "running", run |-> r]]
        /\ run' = [run EXCEPT ![r] = [status |-> "running", task |-> t,
                                      session |-> FALSE]]
        /\ job' = [job EXCEPT ![t].pc = "open", ![t].run = r]
    /\ UNCHANGED <<event, final, todo, stream, cancel>> /\ Alive

\* Under the task lock: nothing to do for a task that ended while the job
\* waited; a resumed job keeps its run; any other opens a new one with two
\* transactions, save_task and save_run.
Begin(t, k) ==
    /\ job[t].pc = "lock"
    /\ cancel[t] = "none"
    /\ \/ /\ IsTerminal(t)
          /\ k = 2
          /\ job' = [job EXCEPT ![t] = Idle]
          /\ UNCHANGED <<ledger, todo, stream, cancel>> /\ Alive
       \/ /\ ~IsTerminal(t) /\ job[t].resumed
          /\ k = 2
          /\ Moves(t, "open")
       \/ /\ ~IsTerminal(t) /\ ~job[t].resumed
          /\ \E r \in Runs :
                /\ run[r].status = "absent"
                /\ \A u \in Tasks : task[u].run # r
                /\ task' = IF k = 0 THEN task
                           ELSE [task EXCEPT ![t] = [status |-> "running",
                                                     run |-> r]]
                /\ IF k = 2
                   THEN /\ run' = [run EXCEPT ![r] = [status |-> "running",
                                                      task |-> t,
                                                      session |-> FALSE]]
                        /\ job' = [job EXCEPT ![t].pc = "open", ![t].run = r]
                        /\ UNCHANGED <<todo, stream, cancel>> /\ Alive
                   ELSE UNCHANGED run /\ Die
          /\ UNCHANGED <<event, final>>

\* open_project and start or resume succeed; the session id is saved and the
\* run registered before any other coroutine runs.
Open(t) ==
    /\ job[t].pc = "open"
    /\ run' = [run EXCEPT ![job[t].run].session = TRUE]
    /\ stream' = [stream EXCEPT ![job[t].run] = "open"]
    /\ Goto(t, "started")
    /\ UNCHANGED <<task, event, final, todo, cancel>> /\ Alive

\* Mutant: a worker that cannot be started leaves the task as it is.
OpenFailsQuietly(t) == job[t].pc = "open" /\ Moves(t, "closing")

\* They raise or time out.  The worker may have begun by then: there is no run
\* to close, and the provider's own clean-up may fail too.
OpenFails(t) ==
    /\ job[t].pc = "open"
    /\ Goto(t, "failing")
    /\ \E now \in {stream[job[t].run], "stray"} :
          stream' = [stream EXCEPT ![job[t].run] = now]
    /\ UNCHANGED <<ledger, todo, cancel>> /\ Alive

\* Mutant: the task is not looked at again.
ProceedBlind(t) == job[t].pc = "started" /\ Moves(t, "events")

\* After the replay of provider commands: a cancel that came while the run was
\* being opened found nothing to cancel, so the job asks the worker itself.
Proceed(t) ==
    /\ job[t].pc = "started"
    /\ Moves(t, IF task[t].status = "cancelling" THEN "stopping" ELSE "events")

\* run.cancel, awaited by the job: confirmed, or raised or timed out.
JobCancelAnswer(t) ==
    /\ job[t].pc = "stopping"
    /\ \/ /\ Goto(t, "stopped")
          /\ stream' = [stream EXCEPT ![job[t].run] = "cancelled"]
          /\ UNCHANGED <<ledger, todo, cancel>> /\ Alive
       \/ Moves(t, "failing")

\* _terminal_from_cancel, run by the job without the task lock.
JobCancelled(t, k) ==
    /\ job[t].pc = "stopped"
    /\ SettleOpen(t, "cancelled", k)
    /\ LeavesAfter(t, k, 3)

\* WorkerRunChannel.events yields the Done event, unless the channel was
\* cancelled first.
Fetch(t) ==
    /\ job[t].pc = "events"
    /\ stream[job[t].run] \in Terminal
    /\ job' = [job EXCEPT ![t].pc = "ingest", ![t].done = stream[job[t].run]]
    /\ stream' = [stream EXCEPT ![job[t].run] = "ended"]
    /\ UNCHANGED <<ledger, todo, cancel>> /\ Alive

\* Mutant: append_event without the active_run_id fence.
AcceptsAny(t, r) == run[r].task = t

\* append_event refuses an event of a run that is no longer the active one.
Accepts(t, r) == task[t].run = r

\* Mutant: the event is marked processed before it is reduced.
LoggedEarly(r, s, k) ==
    event' = [event EXCEPT ![r] = [state |-> IF k >= 2 THEN "processed"
                                                       ELSE "logged",
                                   status |-> s]]

\* The event's row after k > 0 of the transactions: append_event is the first,
\* mark_event_processed the last.
Logged(r, s, k) ==
    event' = [event EXCEPT ![r] = [state |-> IF k = 5 THEN "processed"
                                                      ELSE "logged",
                                   status |-> s]]

\* ingest_worker_event of a Done event: append_event, the reduction's
\* save_task, save_run and enqueue, and mark_event_processed.
Ingest(t, k) ==
    /\ job[t].pc = "ingest"
    /\ IF ~Accepts(t, job[t].run)
       THEN k = 5 /\ Moves(t, "events")
       ELSE /\ k > 0
            /\ Settled(t, job[t].run, job[t].done, k - 1)
            /\ Logged(job[t].run, job[t].done, k)
            /\ LeavesAfter(t, k, 5)

\* The iterator returns without an accepted Done event, or raises.
StreamEnds(t) ==
    /\ job[t].pc = "events"
    /\ stream[job[t].run] \in {"cancelled", "ended"}
    /\ Moves(t, "failing")

\* Mutant: the failure path does not look whether the task ended.
FailBlind(t, k) ==
    /\ job[t].pc = "failing" /\ cancel[t] = "none"
    /\ Settled(t, job[t].run, "failed", k)
    /\ UNCHANGED event
    /\ LeavesAfter(t, k, 3)

\* _fail_active_run_guarded, under the task lock.
Fail(t, k) ==
    /\ job[t].pc = "failing"
    /\ cancel[t] = "none"
    /\ SettleOpen(t, "failed", k)
    /\ LeavesAfter(t, k, 3)

\* Mutant: the slot and the workspace are freed before run.close.
CloseEarly(t) ==
    /\ job[t].pc = "closing"
    /\ job' = [job EXCEPT ![t] = Idle]
    /\ UNCHANGED <<ledger, todo, stream, cancel>> /\ Alive

\* run.close returned, raised or timed out: the slot and the workspace are free
\* again.  A worker that was still at work may have been stopped or not.
Close(t) ==
    /\ job[t].pc = "closing"
    /\ job' = [job EXCEPT ![t] = Idle]
    /\ LET was == stream[job[t].run]
       IN \E now \in {"ended", "stray"} :
             /\ was = "stray" => now = "stray"
             /\ was \notin {"open", "deaf", "stray"} => now = "ended"
             /\ stream' = [stream EXCEPT ![job[t].run] = now]
    /\ UNCHANGED <<ledger, todo, cancel>> /\ Alive

-----------------------------------------------------------------------------
(* _cancel_task *)

\* The synchronous part, under the task lock.  A queued task ends here
\* (save_task, then the delivery); a started one is marked cancelling and,
\* when its run is registered, the worker is asked.
Cancel(t, k) ==
    /\ phase = "up"
    /\ cancel[t] = "none"
    /\ IF task[t].status = "queued"
       THEN /\ SettleOpen(t, "cancelled", k)
            /\ IF k = 3 THEN UNCHANGED <<todo, job, stream, cancel>> /\ Alive
                        ELSE Die
       ELSE /\ k = 3
            /\ task[t].status \in {"running", "cancelling"}
            /\ task' = [task EXCEPT ![t].status = "cancelling"]
            /\ cancel' = [cancel EXCEPT ![t] =
                            IF Registered(t) THEN "asking" ELSE "none"]
            /\ UNCHANGED <<run, event, final, todo, job, stream>> /\ Alive

\* run.cancel, awaited under the task lock: confirmed, or it raised or timed
\* out and the caller gets the error, the task still cancelling.
CancelAnswer(t) ==
    /\ cancel[t] = "asking"
    /\ \/ /\ cancel' = [cancel EXCEPT ![t] = "confirmed"]
          /\ stream' = IF IsTerminal(t) THEN stream
                       ELSE [stream EXCEPT ![task[t].run] = "cancelled"]
       \/ /\ cancel' = [cancel EXCEPT ![t] = "none"]
          /\ stream' = [r \in Runs |-> IF r = task[t].run /\ stream[r] = "open"
                                       THEN "deaf" ELSE stream[r]]
    /\ UNCHANGED <<ledger, todo, job>> /\ Alive

\* Mutant: _terminal_from_cancel trusts the task read before the await.
CancelConfirmedStale(t, k) ==
    /\ cancel[t] = "confirmed" /\ k = 3
    /\ Settled(t, task[t].run, "cancelled", k)
    /\ cancel' = [cancel EXCEPT ![t] = "none"]
    /\ UNCHANGED <<event, todo, job, stream>> /\ Alive

\* _terminal_from_cancel, which reads the task again.
CancelConfirmed(t, k) ==
    /\ cancel[t] = "confirmed"
    /\ SettleOpen(t, "cancelled", k)
    /\ IF k = 3 THEN /\ cancel' = [cancel EXCEPT ![t] = "none"]
                     /\ UNCHANGED <<todo, job, stream>> /\ Alive
                ELSE Die

-----------------------------------------------------------------------------
(* The worker, and the end of the process *)

\* The provider's run ends by itself, with a result or with an error.
WorkerEnds(r) ==
    /\ stream[r] \in {"open", "deaf"}
    /\ \E s \in Outcomes : stream' = [stream EXCEPT ![r] = s]
    /\ UNCHANGED <<ledger, todo, job, cancel>> /\ Alive

\* The process dies, or GanderGateway.close cancels every coroutine, between
\* two handlers.
Crash == phase # "down" /\ Die /\ UNCHANGED ledger

-----------------------------------------------------------------------------
(* GanderGateway.start *)

AllProcessed == \A r \in Runs : event[r].state # "logged"

Restart ==
    /\ phase = "down"
    /\ phase' = "recovering"
    /\ todo' = {t \in Tasks : task[t].status # "absent"}
    /\ UNCHANGED <<ledger, job, stream, cancel, crashes>>

\* An event that was logged and not processed is reduced again: save_task,
\* save_run, enqueue, mark_event_processed.
RecoverEvent(r, k) ==
    /\ phase = "recovering"
    /\ event[r].state = "logged"
    /\ Settled(run[r].task, r, event[r].status, k)
    /\ Logged(r, event[r].status, k + 1)
    /\ IF k = 4 THEN UNCHANGED <<todo, job, stream, cancel>> /\ Alive ELSE Die

\* A persisted run can be taken up again.
CanResume(t) == /\ t \in Resumable
                /\ task[t].run # NoRun
                /\ run[task[t].run].status # "absent"
                /\ run[task[t].run].session

\* Mutant: a queued task is not scheduled again.
RecoverTaskLost(t, k) ==
    /\ phase = "recovering" /\ t \in todo /\ k = 3
    /\ IsTerminal(t) \/ task[t].status = "queued"
    /\ todo' = todo \ {t}
    /\ UNCHANGED <<ledger, job, stream, cancel>> /\ Alive

\* Then each task: a queued one is scheduled, one whose run can be resumed is
\* dispatched with it, any other that is not over fails.
RecoverTask(t, k) ==
    /\ phase = "recovering"
    /\ AllProcessed
    /\ t \in todo
    /\ IF task[t].status = "queued" \/ CanResume(t)
       THEN /\ k = 3
            /\ job' = [job EXCEPT ![t] = [pc |-> "waiting", run |-> task[t].run,
                                          resumed |-> CanResume(t),
                                          done |-> "none"]]
            /\ todo' = todo \ {t}
            /\ UNCHANGED <<ledger, stream, cancel>> /\ Alive
       ELSE /\ SettleOpen(t, "failed", k)
            /\ IF k = 3 THEN /\ todo' = todo \ {t}
                             /\ UNCHANGED <<job, stream, cancel>> /\ Alive
                        ELSE Die

Started ==
    /\ phase = "recovering"
    /\ AllProcessed
    /\ todo = {}
    /\ phase' = "up"
    /\ UNCHANGED <<ledger, todo, job, stream, cancel, crashes>>

-----------------------------------------------------------------------------
(* The specification *)

DispatchStep(t) ==
    \/ \E k \in 0..3 : ResolveFails(t, k)
    \/ TakeWorkspace(t)
    \/ TakeSlot(t)
    \/ \E k \in 0..2 : Begin(t, k)
    \/ Open(t)
    \/ OpenFails(t)
    \/ Proceed(t)
    \/ JobCancelAnswer(t)
    \/ \E k \in 0..3 : JobCancelled(t, k)
    \/ Fetch(t)
    \/ \E k \in 0..5 : Ingest(t, k)
    \/ StreamEnds(t)
    \/ \E k \in 0..3 : Fail(t, k)
    \/ Close(t)

CancelStep(t) ==
    \/ CancelAnswer(t)
    \/ \E k \in 0..3 : CancelConfirmed(t, k)

Recovery ==
    \/ Restart
    \/ \E r \in Runs, k \in 0..4 : RecoverEvent(r, k)
    \/ \E t \in Tasks, k \in 0..3 : RecoverTask(t, k)
    \/ Started

Next ==
    \/ \E t \in Tasks : \/ Submit(t)
                        \/ DispatchStep(t)
                        \/ \E k \in 0..3 : Cancel(t, k)
                        \/ CancelStep(t)
    \/ \E r \in Runs : WorkerEnds(r)
    \/ Crash
    \/ Recovery

Spec == Init /\ [][Next]_vars

\* The event loop runs every coroutine that can run; asyncio locks and
\* semaphores are handed out in order, so no waiter is passed over for ever;
\* a dead process is started again.  Nothing is assumed of a worker: neither the
\* gateway nor the provider bounds how long it works.
Fairness ==
    /\ \A t \in Tasks : /\ WF_vars(DispatchStep(t))
                        /\ SF_vars(TakeWorkspace(t))
                        /\ SF_vars(TakeSlot(t))
                        /\ SF_vars(\E k \in 0..3 : Fail(t, k))
                        /\ WF_vars(CancelStep(t))
    /\ WF_vars(Recovery)

FairSpec == Spec /\ Fairness

-----------------------------------------------------------------------------
(* Properties *)

\* A run never disagrees with its task: where the ledger has a run ended, the
\* task ended with the same status (the late result of a cancelled or failed
\* run changes neither).
OutcomeAgrees ==
    \A r \in Runs : run[r].status \in Terminal
                     => task[run[r].task].status = run[r].status

\* What the user is told is how the task ended, whichever of Done, cancel,
\* failure or recovery won.
FinalAgrees ==
    \A t \in Tasks : final[t] # "nothing" => final[t] = task[t].status

\* A Done event is marked processed only when its effect is complete, so a
\* crash anywhere in its reduction loses neither the outcome nor the news.
ProcessedIsTold ==
    \A r \in Runs : event[r].state = "processed"
                     => final[run[r].task] = event[r].status

\* A task is given to a worker at most once, over replays and restarts.
OneRunPerTask ==
    \A r1, r2 \in Runs :
        run[r1].status # "absent" /\ run[r1].task = run[r2].task => r1 = r2

AtWork == {r \in Runs : stream[r] \notin {"none", "ended"}}

\* Two runs in one workspace work at the same time only if one of them was let
\* go: its start or its close failed, and the code frees the workspace all the
\* same.  Beside those the provider never has more than its parallel projects.
WorkspaceExclusive ==
    /\ \A q, r \in AtWork :
          q # r /\ Workspace[run[q].task] = Workspace[run[r].task]
              => "stray" \in {stream[q], stream[r]}
    /\ Cardinality({r \in AtWork : stream[r] # "stray"}) <= Slots

\* While the process is up, a task that is neither over nor unknown has a job
\* that will see it through; nothing else would.
NobodyForgotten ==
    phase = "up" => \A t \in Tasks :
        task[t].status \notin Terminal \cup {"absent"} => job[t].pc # "none"

TaskMoves ==
    {<<"absent", "queued">>, <<"queued", "running">>, <<"queued", "cancelled">>,
     <<"queued", "failed">>, <<"running", "cancelling">>}
    \cup ({"running", "cancelling"} \X Terminal)
LegalTask(old, new) ==
    /\ old.status # new.status => <<old.status, new.status>> \in TaskMoves
    /\ (new.run = NoRun) <=> new.status \in Terminal \cup {"absent", "queued"}
LegalRun(old, new) ==
    old.status # "absent" => /\ new.task = old.task
                             /\ old.status \in Terminal => new.status = old.status

\* No handler attempts a write that _validate_task_transition or
\* _validate_run_transition refuses; in particular an ended task or run stays.
WritesAccepted ==
    [][ /\ \A t \in Tasks : LegalTask(task[t], task'[t])
        /\ \A r \in Runs : LegalRun(run[r], run'[r]) ]_vars

\* The gateway listens to a worker that nobody wants stopped, or that was asked
\* to stop in vain.
WorkerBusy ==
    \E t \in Tasks :
        /\ job[t].pc = "events"
        /\ \/ stream[job[t].run] = "open" /\ task[t].status = "running"
           \/ stream[job[t].run] = "deaf"

\* Every accepted task is over in the end, unless some worker works for ever: its
\* task waits for it, and those behind it wait for its slot or its workspace.  A
\* worker whose task is being cancelled is asked to stop, also where the cancel
\* came before there was a run to ask.
EventuallySettled ==
    \A t \in Tasks :
        task[t].status # "absent" ~> (IsTerminal(t) \/ []WorkerBusy)

\* Without a crash the user is told, too.  (A crash between the save_task and
\* the enqueue of a cancelled or failed task loses the news: no event is left
\* to replay, and start() passes over a task that is over.)
EventuallyTold ==
    \A t \in Tasks :
        task[t].status # "absent" ~> \/ final[t] # "nothing"
                                     \/ crashes > 0
                                     \/ []WorkerBusy

Promise == INSTANCE TaskPromise WITH
    outcome <- [t \in Tasks |-> IF IsTerminal(t) THEN task[t].status ELSE "open"],
    told <- final

\* The scheduler implements the promise to the conversation: a task is settled
\* once, and told with the outcome it was settled with, over every crash.
KeepsPromise == Promise!Spec
=============================================================================
