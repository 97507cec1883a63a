------------------------- MODULE TaskLifecycleProofs -------------------------
(***************************************************************************)
(* Proofs about TaskLifecycle, for every set of tasks, runs, workspaces    *)
(* and outcomes and every number of slots and crashes.                     *)
(*                                                                         *)
(* None of the invariants is inductive alone.  IInv adds what the handlers *)
(* rely on across their awaits: which run a task and its job name, what a  *)
(* logged event may still change, and who is responsible for a task in     *)
(* each phase of the process.                                              *)
(***************************************************************************)
EXTENDS TaskLifecycle, FiniteSetTheorems, FunctionTheorems, TLAPS

-----------------------------------------------------------------------------
(* The inductive invariant *)

Present(r) == run[r].status # "absent"
Queueing == {"waiting", "slot", "lock"}
Active == JobPc \ (Queueing \cup {"none"})

\* active_run_id is set exactly while the task is with a worker.
RunField ==
    \A t \in Tasks : task[t].run = NoRun
                      <=> task[t].status \in Terminal \cup {"absent", "queued"}

\* The active run of a task, once saved, is its own and still running; no
\* other task names it.
OwnRun ==
    \A t \in Tasks, r \in Runs :
        task[t].run = r => /\ Present(r) => run[r].status = "running"
                                            /\ run[r].task = t
                           /\ \A u \in Tasks : task[u].run = r => u = t

\* A saved run belongs to a task which it is the active run of, or which is
\* over.
KnownRun ==
    \A r \in Runs :
        IF Present(r) THEN /\ run[r].task \in Tasks
                           /\ \/ task[run[r].task].run = r
                              \/ IsTerminal(run[r].task)
                      ELSE run[r].task = NoTask

\* An event is only left logged by a crash; reducing it again either ends its
\* task or repeats what was written.
LoggedEvent ==
    \A r \in Runs :
        event[r].state # "none" =>
            /\ Present(r) /\ event[r].status \in Terminal
            /\ event[r].state = "logged" =>
                /\ phase # "up"
                /\ \/ task[run[r].task].run = r
                   \/ task[run[r].task].status = event[r].status

RecordInv == /\ RunField /\ OwnRun /\ KnownRun
             /\ OutcomeAgrees /\ FinalAgrees /\ OneRunPerTask
EventInv == LoggedEvent /\ ProcessedIsTold

\* What a dispatch job may rely on at each place where it waits.
JobOK(t) ==
    /\ job[t].pc = "none" => ~job[t].resumed
    /\ job[t].resumed \/ job[t].pc \in Active =>
            job[t].run \in Runs /\ run[job[t].run].task = t
    /\ ~job[t].resumed /\ job[t].pc \in Queueing =>
            task[t].status = "queued" \/ IsTerminal(t)
    /\ job[t].pc = "closing" => IsTerminal(t)
    /\ job[t].pc = "ingest" => job[t].done \in Terminal
    /\ job[t].pc \notin {"none", "waiting"} => phase = "up"
    /\ phase = "down" => job[t].pc = "none"

\* A task whose cancellation is under way was started; a task start() has to
\* visit exists.
ControlOK(t) ==
    /\ cancel[t] # "none" => /\ phase = "up"
                             /\ task[t].status \notin {"absent", "queued"}
    /\ t \in todo => phase = "recovering" /\ task[t].status # "absent"

\* In each phase somebody answers for a task that is not over.
AnsweredFor(t) ==
    phase # "down" /\ task[t].status \notin Terminal \cup {"absent"}
        => job[t].pc # "none" \/ t \in todo

ControlInv == \A t \in Tasks : JobOK(t) /\ ControlOK(t) /\ AnsweredFor(t)

IInv == TypeOK /\ RecordInv /\ EventInv /\ ControlInv

-----------------------------------------------------------------------------
(* Writing the end of a task *)

TypeRecord ==
    /\ task \in [Tasks -> [status : TaskStatus, run : Runs \cup {NoRun}]]
    /\ run \in [Runs -> [status : Terminal \cup {"absent", "running"},
                         task : Tasks \cup {NoTask}, session : BOOLEAN]]
    /\ final \in [Tasks -> Terminal \cup {"nothing"}]

\* What may be written as the end of task t: the status s of its active run r,
\* or what it ended with already.
MaySettle(t, r, s) ==
    /\ task[t].status # "absent"
    /\ task[t].status = "queued" => s \in {"cancelled", "failed"}
    /\ \/ task[t].run = r /\ ~IsTerminal(t)
       \/ r \in Runs /\ run[r].task = t /\ task[t].status = s

\* How Settled changes the ledger, for any number of its transactions.
LEMMA SettledFrame ==
    ASSUME TypeRecord, RecordInv,
           NEW t \in Tasks, NEW r \in Runs \cup {NoRun}, NEW s \in Terminal,
           NEW k \in Nat, MaySettle(t, r, s), Settled(t, r, s, k)
    PROVE  /\ task' \in [Tasks -> [status : TaskStatus, run : Runs \cup {NoRun}]]
           /\ run' \in [Runs -> [status : Terminal \cup {"absent", "running"},
                                 task : Tasks \cup {NoTask}, session : BOOLEAN]]
           /\ final' \in [Tasks -> Terminal \cup {"nothing"}]
           /\ \A u \in Tasks : u # t => task'[u] = task[u] /\ final'[u] = final[u]
           /\ task'[t] = IF k >= 1 THEN [status |-> s, run |-> NoRun] ELSE task[t]
           /\ \A q \in Runs : /\ run'[q].task = run[q].task
                              /\ run'[q].session = run[q].session
                              /\ (run'[q].status = "absent") <=> ~Present(q)
                              /\ run'[q].status # run[q].status =>
                                    k >= 2 /\ q = r /\ run'[q].status = s
           /\ final[t] # "nothing" => final'[t] = final[t]
           /\ k < 3 => final'[t] = final[t]
           /\ k >= 3 => final'[t] = s
<1> USE NoneAssumption DEF TypeRecord, Present, IsTerminal
<1>1. s \in TaskStatus /\ s # "absent"
  BY DEF TaskStatus, Terminal
<1>2. /\ task' \in [Tasks -> [status : TaskStatus, run : Runs \cup {NoRun}]]
      /\ \A u \in Tasks : u # t => task'[u] = task[u]
      /\ task'[t] = IF k >= 1 THEN [status |-> s, run |-> NoRun] ELSE task[t]
  <2>1. CASE k >= 1
    BY <1>1, <2>1 DEF Settled
  <2>2. CASE ~(k >= 1)
    BY <2>2 DEF Settled
  <2> QED BY <2>1, <2>2
<1>3. /\ run' \in [Runs -> [status : Terminal \cup {"absent", "running"},
                            task : Tasks \cup {NoTask}, session : BOOLEAN]]
      /\ \A q \in Runs : /\ run'[q].task = run[q].task
                         /\ run'[q].session = run[q].session
                         /\ (run'[q].status = "absent") <=> ~Present(q)
                         /\ run'[q].status # run[q].status =>
                               k >= 2 /\ q = r /\ run'[q].status = s
  <2>1. CASE k >= 2 /\ r # NoRun /\ run[r].status # "absent"
    <3>1. run' = [run EXCEPT ![r].status = s] /\ r \in Runs
      BY <2>1 DEF Settled
    <3> QED BY <1>1, <2>1, <3>1
  <2>2. CASE ~(k >= 2 /\ r # NoRun /\ run[r].status # "absent")
    BY <2>2 DEF Settled
  <2> QED BY <2>1, <2>2
<1>4. final[t] # "nothing" => final[t] = s
  BY DEF MaySettle, RecordInv, FinalAgrees
<1>5. /\ final' \in [Tasks -> Terminal \cup {"nothing"}]
      /\ \A u \in Tasks : u # t => final'[u] = final[u]
      /\ final[t] # "nothing" => final'[t] = final[t]
      /\ k < 3 => final'[t] = final[t]
      /\ k >= 3 => final'[t] = s
  <2>1. CASE k >= 3 /\ final[t] = "nothing"
    BY <2>1 DEF Settled
  <2>2. CASE ~(k >= 3 /\ final[t] = "nothing")
    BY <1>4, <2>2 DEF Settled
  <2> QED BY <2>1, <2>2
<1> QED BY <1>2, <1>3, <1>5

-----------------------------------------------------------------------------
(* The ledger, one step at a time *)

Accepted(t) == /\ task[t].status = "absent"
               /\ task' = [task EXCEPT ![t].status = "queued"]
               /\ UNCHANGED <<run, final>>

Delegated(t, r) ==
    /\ task[t].status = "queued"
    /\ ~Present(r)
    /\ \A u \in Tasks : task[u].run # r
    /\ task' = [task EXCEPT ![t] = [status |-> "running", run |-> r]]
    /\ run' \in {run, [run EXCEPT ![r] = [status |-> "running", task |-> t,
                                          session |-> FALSE]]}
    /\ UNCHANGED final

SessionSaved(r) == /\ Present(r)
                   /\ run' = [run EXCEPT ![r].session = TRUE]
                   /\ UNCHANGED <<task, final>>

CancelMarked(t) == /\ task[t].status \in {"running", "cancelling"}
                   /\ task' = [task EXCEPT ![t].status = "cancelling"]
                   /\ UNCHANGED <<run, final>>

Ended(t, r, s, k) == MaySettle(t, r, s) /\ Settled(t, r, s, k)

\* All that any step of the gateway does to tasks, runs and final deliveries.
LedgerStep ==
    \/ UNCHANGED <<task, run, final>>
    \/ \E t \in Tasks : Accepted(t) \/ CancelMarked(t)
    \/ \E t \in Tasks, r \in Runs : Delegated(t, r)
    \/ \E r \in Runs : SessionSaved(r)
    \/ \E t \in Tasks, r \in Runs \cup {NoRun}, s \in Terminal, k \in Nat :
            Ended(t, r, s, k)

\* The record invariant survives the end of a task.
LEMMA EndedRecord ==
    ASSUME TypeRecord, RecordInv,
           NEW t \in Tasks, NEW r \in Runs \cup {NoRun}, NEW s \in Terminal,
           NEW k \in Nat, Ended(t, r, s, k)
    PROVE  RecordInv'
<1> DEFINE Frame ==
           /\ task' \in [Tasks -> [status : TaskStatus, run : Runs \cup {NoRun}]]
           /\ run' \in [Runs -> [status : Terminal \cup {"absent", "running"},
                                 task : Tasks \cup {NoTask}, session : BOOLEAN]]
           /\ final' \in [Tasks -> Terminal \cup {"nothing"}]
           /\ \A u \in Tasks : u # t => task'[u] = task[u] /\ final'[u] = final[u]
           /\ task'[t] = IF k >= 1 THEN [status |-> s, run |-> NoRun] ELSE task[t]
           /\ \A q \in Runs : /\ run'[q].task = run[q].task
                              /\ run'[q].session = run[q].session
                              /\ (run'[q].status = "absent") <=> ~Present(q)
                              /\ run'[q].status # run[q].status =>
                                    k >= 2 /\ q = r /\ run'[q].status = s
           /\ final[t] # "nothing" => final'[t] = final[t]
           /\ k < 3 => final'[t] = final[t]
           /\ k >= 3 => final'[t] = s
<1>1. Frame
  BY SettledFrame DEF Ended
<1>2. MaySettle(t, r, s)
  BY DEF Ended
<1> HIDE DEF Frame
<1>3. RunField'
  BY <1>1, NoneAssumption DEF Frame, RunField, RecordInv
<1>4. OwnRun'
  <2> SUFFICES ASSUME NEW u \in Tasks, NEW q \in Runs, task'[u].run = q
               PROVE  /\ run'[q].status # "absent" => run'[q].status = "running"
                                                      /\ run'[q].task = u
                      /\ \A v \in Tasks : task'[v].run = q => v = u
    BY DEF OwnRun, Present
  <2>1. \A v \in Tasks : task'[v].run = q => task[v].run = q
    BY <1>1, NoneAssumption DEF Frame
  <2>2. /\ Present(q) => run[q].status = "running" /\ run[q].task = u
        /\ \A v \in Tasks : task[v].run = q => v = u
    BY <2>1 DEF RecordInv, OwnRun
  <2>3. run'[q].status = run[q].status
    <3> SUFFICES ASSUME k >= 2, q = r, Present(q) PROVE FALSE
      BY <1>1 DEF Frame, Present
    <3>1. t # u
      BY <1>1, NoneAssumption DEF Frame
    <3> QED BY <1>2, <2>1, <2>2, <3>1 DEF MaySettle
  <2> QED BY <1>1, <2>1, <2>2, <2>3 DEF Frame, Present
<1>5. KnownRun'
  <2> SUFFICES ASSUME NEW q \in Runs
               PROVE  IF run'[q].status # "absent"
                      THEN /\ run'[q].task \in Tasks
                           /\ \/ task'[run'[q].task].run = q
                              \/ task'[run'[q].task].status \in Terminal
                      ELSE run'[q].task = NoTask
    BY DEF KnownRun, Present, IsTerminal
  <2>1. IF Present(q) THEN /\ run[q].task \in Tasks
                           /\ \/ task[run[q].task].run = q
                              \/ IsTerminal(run[q].task)
                      ELSE run[q].task = NoTask
    BY DEF RecordInv, KnownRun
  <2> QED BY <1>1, <2>1 DEF Frame, Present, IsTerminal
<1>6. OutcomeAgrees'
  BY <1>1, <1>2, NoneAssumption
     DEF Frame, OutcomeAgrees, KnownRun, OwnRun, RecordInv, MaySettle, Present,
         IsTerminal, TypeRecord, Terminal
<1>7. FinalAgrees'
  BY <1>1, <1>2 DEF Frame, FinalAgrees, RecordInv, MaySettle, IsTerminal, TypeRecord
<1>8. OneRunPerTask'
  BY <1>1 DEF Frame, OneRunPerTask, RecordInv, Present
<1> QED BY <1>3, <1>4, <1>5, <1>6, <1>7, <1>8 DEF RecordInv

\* A step of the ledger keeps its types and the record invariant.
LEMMA LedgerStepRecord ==
    ASSUME TypeRecord, RecordInv, LedgerStep
    PROVE  TypeRecord' /\ RecordInv'
<1>1. CASE UNCHANGED <<task, run, final>>
  BY <1>1 DEF TypeRecord, RecordInv, RunField, OwnRun, KnownRun, OutcomeAgrees,
              FinalAgrees, OneRunPerTask, Present, IsTerminal
<1>2. CASE \E t \in Tasks : Accepted(t) \/ CancelMarked(t)
  <2>1. PICK t \in Tasks : Accepted(t) \/ CancelMarked(t)
    BY <1>2
  <2>2. /\ \E n \in {"queued", "cancelling"} :
                task' = [task EXCEPT ![t].status = n]
        /\ UNCHANGED <<run, final>>
        /\ ~IsTerminal(t)
    BY <2>1 DEF Accepted, CancelMarked, IsTerminal, Terminal
  <2>3. /\ task' \in [Tasks -> [status : TaskStatus, run : Runs \cup {NoRun}]]
        /\ \A u \in Tasks : /\ u # t => task'[u] = task[u]
                            /\ task'[u].run = task[u].run
        /\ ~IsTerminal(t)'
    BY <2>2 DEF TypeRecord, TaskStatus, IsTerminal, Terminal
  <2>4. TypeRecord'
    BY <2>2, <2>3 DEF TypeRecord
  <2>5. RunField'
    BY <2>1, <2>3 DEF RecordInv, RunField, Accepted, CancelMarked, TypeRecord, Terminal
  <2>6. OwnRun' /\ OneRunPerTask'
    BY <2>2, <2>3 DEF RecordInv, OwnRun, OneRunPerTask, Present
  <2>7. KnownRun'
    BY <2>2, <2>3 DEF RecordInv, KnownRun, Present, IsTerminal
  <2>8. OutcomeAgrees' /\ FinalAgrees'
    BY <2>2, <2>3, NoneAssumption
       DEF RecordInv, KnownRun, OutcomeAgrees, FinalAgrees, Present, IsTerminal,
           TypeRecord, Terminal
  <2> QED BY <2>4, <2>5, <2>6, <2>7, <2>8 DEF RecordInv
<1>3. CASE \E t \in Tasks, r \in Runs : Delegated(t, r)
  <2>1. PICK t \in Tasks, r \in Runs : Delegated(t, r)
    BY <1>3
  <2>2. /\ task' \in [Tasks -> [status : TaskStatus, run : Runs \cup {NoRun}]]
        /\ \A u \in Tasks : u # t => task'[u] = task[u]
        /\ task'[t] = [status |-> "running", run |-> r]
        /\ final' = final
    BY <2>1 DEF Delegated, TypeRecord, TaskStatus
  <2>3. /\ run' \in [Runs -> [status : Terminal \cup {"absent", "running"},
                              task : Tasks \cup {NoTask}, session : BOOLEAN]]
        /\ \A q \in Runs : q # r => run'[q] = run[q]
        /\ \/ run'[r] = run[r]
           \/ run'[r] = [status |-> "running", task |-> t, session |-> FALSE]
    <3>1. CASE run' = run
      BY <3>1 DEF TypeRecord
    <3>2. CASE run' = [run EXCEPT ![r] = [status |-> "running", task |-> t,
                                          session |-> FALSE]]
      BY <3>2 DEF TypeRecord
    <3> QED BY <2>1, <3>1, <3>2 DEF Delegated
  <2>4. TypeRecord'
    BY <2>2, <2>3 DEF TypeRecord
  <2>5. /\ ~Present(r)
        /\ \A u \in Tasks : task[u].run # r
        /\ \A q \in Runs : Present(q) => run[q].task # t
        /\ final[t] = "nothing"
    <3>1. /\ ~Present(r) /\ task[t].status = "queued"
          /\ \A u \in Tasks : task[u].run # r
      BY <2>1 DEF Delegated
    <3>2. task[t].run = NoRun /\ ~IsTerminal(t)
      BY <3>1 DEF RecordInv, RunField, IsTerminal, Terminal
    <3>3. \A q \in Runs : Present(q) => run[q].task # t
      BY <3>2, NoneAssumption DEF RecordInv, KnownRun
    <3>4. final[t] = "nothing"
      BY <3>1, <3>2 DEF RecordInv, FinalAgrees, TypeRecord, IsTerminal
    <3> QED BY <3>1, <3>3, <3>4
  <2>6. RunField'
    BY <2>2, NoneAssumption DEF RecordInv, RunField, Terminal
  <2>7. OwnRun'
    BY <2>2, <2>3, <2>5 DEF RecordInv, OwnRun, Present
  <2>8. KnownRun'
    BY <2>2, <2>3, <2>5 DEF RecordInv, KnownRun, Present, IsTerminal
  <2>9. OutcomeAgrees'
    <3>1. \A q \in Runs : run'[q].status \in Terminal =>
              q # r /\ run'[q] = run[q] /\ Present(q)
      BY <2>3, <2>5 DEF Present, Terminal
    <3>2. \A q \in Runs : Present(q) => run[q].task \in Tasks \ {t}
      BY <2>5 DEF RecordInv, KnownRun
    <3> QED BY <2>2, <3>1, <3>2 DEF RecordInv, OutcomeAgrees
  <2>11. OneRunPerTask'
    <3> SUFFICES ASSUME NEW q1 \in Runs, NEW q2 \in Runs, q1 # q2,
                        run'[q1].status # "absent", run'[q1].task = run'[q2].task
                 PROVE  FALSE
      BY DEF OneRunPerTask
    <3>1. CASE q1 # r /\ q2 # r
      BY <2>3, <3>1 DEF RecordInv, OneRunPerTask
    <3>2. CASE q1 = r
      BY <2>3, <2>4, <2>5, <3>2, NoneAssumption
         DEF RecordInv, KnownRun, Present, TypeRecord
    <3>3. CASE q2 = r
      BY <2>3, <2>5, <3>3, NoneAssumption DEF RecordInv, KnownRun, Present
    <3> QED BY <3>1, <3>2, <3>3
  <2>10. FinalAgrees'
    BY <2>2, <2>5 DEF RecordInv, FinalAgrees
  <2> QED BY <2>4, <2>6, <2>7, <2>8, <2>9, <2>10, <2>11 DEF RecordInv
<1>4. CASE \E r \in Runs : SessionSaved(r)
  <2>1. PICK r \in Runs : SessionSaved(r)
    BY <1>4
  <2>2. /\ run' \in [Runs -> [status : Terminal \cup {"absent", "running"},
                              task : Tasks \cup {NoTask}, session : BOOLEAN]]
        /\ \A q \in Runs : /\ run'[q].status = run[q].status
                           /\ run'[q].task = run[q].task
        /\ UNCHANGED <<task, final>>
    BY <2>1 DEF SessionSaved, TypeRecord
  <2>3. TypeRecord'
    BY <2>2 DEF TypeRecord
  <2>4. (RunField /\ OwnRun /\ KnownRun)'
    BY <2>2 DEF RecordInv, RunField, OwnRun, KnownRun, Present, IsTerminal
  <2>5. (OutcomeAgrees /\ FinalAgrees /\ OneRunPerTask)'
    BY <2>2 DEF RecordInv, OutcomeAgrees, FinalAgrees, OneRunPerTask
  <2> QED BY <2>3, <2>4, <2>5 DEF RecordInv
<1>5. ASSUME NEW t \in Tasks, NEW r \in Runs \cup {NoRun}, NEW s \in Terminal,
             NEW k \in Nat, Ended(t, r, s, k)
      PROVE  TypeRecord' /\ RecordInv'
  <2>1. RecordInv'
    BY <1>5, EndedRecord
  <2>2. MaySettle(t, r, s) /\ Settled(t, r, s, k)
    BY <1>5 DEF Ended
  <2>3. TypeRecord'
    BY <2>2, SettledFrame DEF TypeRecord
  <2> QED BY <2>1, <2>3
<1> QED BY <1>1, <1>2, <1>3, <1>4, <1>5 DEF LedgerStep

\* A step of the ledger makes only transitions the ledger accepts.
LEMMA LedgerStepLegal ==
    ASSUME TypeRecord, RecordInv, LedgerStep
    PROVE  /\ \A t \in Tasks : LegalTask(task[t], task'[t])
           /\ \A r \in Runs : LegalRun(run[r], run'[r])
<1>1. RunField'
  BY LedgerStepRecord DEF RecordInv
<1>2. TypeRecord'
  BY LedgerStepRecord
<1>3. \A t \in Tasks : (task'[t].run = NoRun)
                         <=> task'[t].status \in Terminal \cup {"absent", "queued"}
  BY <1>1 DEF RunField
<1>4. ASSUME NEW t \in Tasks, NEW r \in Runs \cup {NoRun}, NEW s \in Terminal,
             NEW k \in Nat, Ended(t, r, s, k)
      PROVE  /\ \A u \in Tasks : task[u].status # task'[u].status =>
                    <<task[u].status, task'[u].status>> \in TaskMoves
             /\ \A q \in Runs : LegalRun(run[q], run'[q])
  <2>1. MaySettle(t, r, s) /\ Settled(t, r, s, k)
    BY <1>4 DEF Ended
  <2>2. /\ \A u \in Tasks : u # t => task'[u] = task[u]
        /\ task'[t] = IF k >= 1 THEN [status |-> s, run |-> NoRun] ELSE task[t]
        /\ \A q \in Runs : /\ run'[q].task = run[q].task
                           /\ run'[q].status # run[q].status =>
                                 k >= 2 /\ q = r /\ run'[q].status = s
    BY <2>1, SettledFrame
  <2>3. task[t].status # task'[t].status =>
            <<task[t].status, task'[t].status>> \in TaskMoves
    <3> SUFFICES ASSUME task'[t].status = s, task[t].status # s
                 PROVE  <<task[t].status, s>> \in TaskMoves
      BY <2>2
    <3>1. task[t].status \in {"queued", "running", "cancelling"}
      BY <2>1 DEF MaySettle, TypeRecord, TaskStatus, IsTerminal
    <3>2. CASE task[t].status = "queued"
      BY <2>1, <3>2 DEF MaySettle, TaskMoves
    <3>3. CASE task[t].status \in {"running", "cancelling"}
      BY <3>3 DEF TaskMoves
    <3> QED BY <3>1, <3>2, <3>3
  <2>4. ASSUME NEW q \in Runs, run[q].status \in Terminal
        PROVE  run'[q].status = run[q].status
    <3> SUFFICES ASSUME q = r, run'[q].status = s PROVE run[q].status = s
      BY <2>2
    <3>1. Present(q)
      BY <2>4 DEF Present, Terminal
    <3>2. task[t].run # r
      BY <2>4, <3>1 DEF RecordInv, OwnRun, Terminal
    <3> QED BY <2>1, <2>4, <3>2 DEF MaySettle, RecordInv, OutcomeAgrees
  <2> QED BY <2>2, <2>3, <2>4 DEF LegalRun
<1>5. /\ \A u \in Tasks : task[u].status # task'[u].status =>
             <<task[u].status, task'[u].status>> \in TaskMoves
      /\ \A q \in Runs : LegalRun(run[q], run'[q])
  <2>1. CASE UNCHANGED <<task, run, final>>
    BY <2>1 DEF LegalRun
  <2>2. CASE \E t \in Tasks : Accepted(t)
    BY <2>2 DEF Accepted, LegalRun, TaskMoves, TypeRecord
  <2>3. CASE \E t \in Tasks : CancelMarked(t)
    <3>1. PICK t \in Tasks : CancelMarked(t)
      BY <2>3
    <3>2. /\ \A u \in Tasks : u # t => task'[u] = task[u]
          /\ task'[t].status = "cancelling"
          /\ task[t].status \in {"running", "cancelling"}
          /\ run' = run
      BY <3>1 DEF CancelMarked, TypeRecord
    <3> QED BY <3>2 DEF LegalRun, TaskMoves
  <2>4. CASE \E t \in Tasks, r \in Runs : Delegated(t, r)
    <3>1. PICK t \in Tasks, r \in Runs : Delegated(t, r)
      BY <2>4
    <3>2. \A q \in Runs : LegalRun(run[q], run'[q])
      BY <3>1 DEF Delegated, Present, LegalRun, TypeRecord
    <3>3. /\ \A u \in Tasks : u # t => task'[u] = task[u]
          /\ task'[t].status = "running" /\ task[t].status = "queued"
      BY <3>1 DEF Delegated, TypeRecord
    <3> QED BY <3>2, <3>3 DEF TaskMoves
  <2>5. CASE \E r \in Runs : SessionSaved(r)
    BY <2>5 DEF SessionSaved, LegalRun, TypeRecord
  <2> QED BY <1>4, <2>1, <2>2, <2>3, <2>4, <2>5 DEF LedgerStep
<1> QED BY <1>3, <1>5 DEF LegalTask

-----------------------------------------------------------------------------
(* The promise *)

\* A step of the ledger is a step of TaskPromise, or no step of it.
LEMMA LedgerStepPromise ==
    ASSUME TypeRecord, RecordInv, LedgerStep
    PROVE  [Promise!Next]_(Promise!vars)
<1> DEFINE OutcomeOf(t) == IF IsTerminal(t) THEN task[t].status ELSE "open"
           outcome == [t \in Tasks |-> OutcomeOf(t)]
<1>1. ASSUME final' = final, \A t \in Tasks : OutcomeOf(t)' = OutcomeOf(t)
      PROVE  [Promise!Next]_(Promise!vars)
  BY <1>1 DEF Promise!vars, IsTerminal
<1>2. ASSUME NEW t \in Tasks, NEW r \in Runs \cup {NoRun}, NEW s \in Terminal,
             NEW k \in Nat, Ended(t, r, s, k)
      PROVE  [Promise!Next]_(Promise!vars)
  <2>1. MaySettle(t, r, s) /\ Settled(t, r, s, k)
    BY <1>2 DEF Ended
  <2>2. /\ \A u \in Tasks : u # t => task'[u] = task[u]
        /\ task'[t] = IF k >= 1 THEN [status |-> s, run |-> NoRun] ELSE task[t]
    BY <2>1, SettledFrame
  <2>3. final' = final \/ final' = [final EXCEPT ![t] = s]
    BY <2>1 DEF Settled
  <2>4. CASE IsTerminal(t)
    <3>1. task[t].status = s
      BY <2>1, <2>4 DEF MaySettle
    <3>2. \A u \in Tasks : OutcomeOf(u)' = OutcomeOf(u)
      BY <2>2, <2>4, <3>1 DEF IsTerminal
    <3>3. outcome' = outcome
      BY <3>2
    <3>4. final' = final \/ (final[t] = "nothing" /\ final' = [final EXCEPT ![t] = s])
      BY <2>1 DEF Settled
    <3>5. CASE final' = final
      BY <1>1, <3>2, <3>5
    <3>6. CASE final[t] = "nothing" /\ final' = [final EXCEPT ![t] = s]
      <4>1. s # "open" /\ outcome[t] = s
        BY <2>4, <3>1 DEF Terminal
      <4>2. Promise!Tell(t)
        BY <3>3, <3>6, <4>1 DEF Promise!Tell
      <4> QED BY <4>2 DEF Promise!Next
    <3> QED BY <3>4, <3>5, <3>6
  <2>5. CASE ~IsTerminal(t) /\ k >= 1
    <3>1. outcome[t] = "open"
      BY <2>5
    <3>2. /\ \A u \in Tasks : u # t => OutcomeOf(u)' = OutcomeOf(u)
          /\ OutcomeOf(t)' = s
      BY <2>2, <2>5 DEF IsTerminal
    <3>3. outcome' = [outcome EXCEPT ![t] = s]
      <4> HIDE DEF OutcomeOf
      <4> QED BY <3>2
    <3>4. Promise!Settle(t)
      BY <2>3, <3>1, <3>3 DEF Promise!Settle
    <3> QED BY <3>4 DEF Promise!Next
  <2>6. CASE k < 1
    <3>1. final' = final
      BY <2>1, <2>6 DEF Settled
    <3>2. \A u \in Tasks : OutcomeOf(u)' = OutcomeOf(u)
      BY <2>2, <2>6 DEF IsTerminal
    <3> QED BY <1>1, <3>1, <3>2
  <2> QED BY <2>4, <2>5, <2>6
<1>3. CASE UNCHANGED <<task, run, final>>
  BY <1>1, <1>3 DEF IsTerminal
<1>4. CASE \E t \in Tasks : Accepted(t) \/ CancelMarked(t)
  BY <1>1, <1>4 DEF Accepted, CancelMarked, IsTerminal, TypeRecord, Terminal
<1>5. CASE \E t \in Tasks, r \in Runs : Delegated(t, r)
  BY <1>1, <1>5 DEF Delegated, IsTerminal, TypeRecord, Terminal
<1>6. CASE \E r \in Runs : SessionSaved(r)
  BY <1>1, <1>6 DEF SessionSaved, IsTerminal
<1> QED BY <1>2, <1>3, <1>4, <1>5, <1>6 DEF LedgerStep

-----------------------------------------------------------------------------
(* The handlers *)

TypeEvent == event \in [Runs -> [state : {"none", "logged", "processed"},
                                 status : Terminal \cup {"none"}]]
TypeControl ==
    /\ phase \in {"down", "recovering", "up"}
    /\ todo \subseteq Tasks
    /\ job \in [Tasks -> [pc : JobPc, run : Runs \cup {NoRun},
                          resumed : BOOLEAN, done : Terminal \cup {"none"}]]
    /\ stream \in [Runs -> {"none", "open", "deaf", "cancelled", "ended", "stray"} \cup Terminal]
    /\ cancel \in [Tasks -> {"none", "asking", "confirmed"}]
    /\ crashes \in 0..MaxCrashes

\* Moving a job keeps its type.
LEMMA GotoTyped ==
    ASSUME TypeControl, NEW t \in Tasks, NEW p \in JobPc, Goto(t, p)
    PROVE  /\ job' \in [Tasks -> [pc : JobPc, run : Runs \cup {NoRun},
                                  resumed : BOOLEAN, done : Terminal \cup {"none"}]]
           /\ \A u \in Tasks \ {t} : job'[u] = job[u]
           /\ job'[t].pc = p /\ job'[t].run = job[t].run
<1>1. job \in [Tasks -> [pc : JobPc, run : Runs \cup {NoRun},
                        resumed : BOOLEAN, done : Terminal \cup {"none"}]]
  BY DEF TypeControl
<1> QED BY <1>1 DEF Goto

\* What is left of IInv when the records are dealt with.
Rest == TypeEvent /\ TypeControl /\ EventInv /\ ControlInv

\* What no step of the ledger undoes.
LEMMA LedgerStepKeeps ==
    ASSUME TypeRecord, RecordInv, LedgerStep
    PROVE  /\ \A t \in Tasks :
                /\ IsTerminal(t) => task'[t].status = task[t].status
                /\ task[t].status # "absent" => task'[t].status # "absent"
                /\ task[t].status \notin {"absent", "queued"} =>
                        task'[t].status \notin {"absent", "queued"}
           /\ \A r \in Runs : Present(r) => /\ run'[r].status # "absent"
                                            /\ run'[r].task = run[r].task
           /\ \A t \in Tasks : final[t] # "nothing" => final'[t] = final[t]
<1>1. /\ \A t \in Tasks : LegalTask(task[t], task'[t])
      /\ \A r \in Runs : LegalRun(run[r], run'[r])
  BY LedgerStepLegal
<1>2. ASSUME NEW t \in Tasks, task[t].status # task'[t].status
      PROVE  /\ ~IsTerminal(t)
             /\ task'[t].status # "absent"
             /\ task'[t].status = "queued" => task[t].status = "absent"
  <2>1. <<task[t].status, task'[t].status>> \in TaskMoves
    BY <1>1, <1>2 DEF LegalTask
  <2> QED BY <2>1 DEF TaskMoves, IsTerminal, Terminal
<1>3. ASSUME NEW r \in Runs, Present(r)
      PROVE  run'[r].status # "absent"
  <2>1. CASE UNCHANGED run
    BY <1>3, <2>1 DEF Present
  <2>2. CASE \E t \in Tasks, q \in Runs : Delegated(t, q)
    BY <1>3, <2>2 DEF Delegated, Present, TypeRecord
  <2>3. CASE \E q \in Runs : SessionSaved(q)
    BY <1>3, <2>3 DEF SessionSaved, Present, TypeRecord
  <2>4. CASE \E t \in Tasks, q \in Runs \cup {NoRun}, s \in Terminal, k \in Nat :
                Ended(t, q, s, k)
    BY <1>3, <2>4, SettledFrame DEF Ended, Present
  <2> QED BY <2>1, <2>2, <2>3, <2>4 DEF LedgerStep, Accepted, CancelMarked
<1>4. ASSUME NEW u \in Tasks, final[u] # "nothing"
      PROVE  final'[u] = final[u]
  <2>1. CASE \E t \in Tasks, q \in Runs \cup {NoRun}, s \in Terminal, k \in Nat :
                Ended(t, q, s, k)
    BY <1>4, <2>1, SettledFrame DEF Ended
  <2> QED BY <2>1 DEF LedgerStep, Accepted, CancelMarked, Delegated, SessionSaved
<1> QED BY <1>1, <1>2, <1>3, <1>4 DEF LegalRun, Present

\* Events stay right when none is written: either none is logged, or the
\* records are left alone.
LEMMA EventsKept ==
    ASSUME TypeRecord, RecordInv, TypeEvent, EventInv, LedgerStep, UNCHANGED event,
           \/ phase = "up" \/ AllProcessed
           \/ phase' # "up" /\ UNCHANGED <<task, run>>
    PROVE  TypeEvent' /\ EventInv'
<1>1. \A r \in Runs : Present(r) => /\ run'[r].status # "absent"
                                    /\ run'[r].task = run[r].task
  BY LedgerStepKeeps
<1>2. \A t \in Tasks : final[t] # "nothing" => final'[t] = final[t]
  BY LedgerStepKeeps
<1>3. \A r \in Runs : event[r].state # "none" =>
          /\ Present(r) /\ event[r].status \in Terminal
          /\ run[r].task \in Tasks
  BY DEF EventInv, LoggedEvent, RecordInv, KnownRun
<1>4. LoggedEvent'
  <2>1. CASE phase = "up" \/ AllProcessed
    <3>1. \A r \in Runs : event[r].state # "logged"
      BY <2>1 DEF AllProcessed, EventInv, LoggedEvent
    <3> QED BY <1>1, <1>3, <3>1 DEF LoggedEvent, Present
  <2>2. CASE phase' # "up" /\ UNCHANGED <<task, run>>
    BY <2>2 DEF EventInv, LoggedEvent, Present
  <2> QED BY <2>1, <2>2
<1>5. ProcessedIsTold'
  BY <1>1, <1>2, <1>3 DEF EventInv, ProcessedIsTold, Terminal
<1> QED BY <1>4, <1>5 DEF EventInv, TypeEvent

\* A step that concerns only task t has only t to answer for.
LEMMA OthersKept ==
    ASSUME TypeRecord, RecordInv, ControlInv, LedgerStep, NEW t \in Tasks,
           phase' = phase,
           \A u \in Tasks \ {t} : /\ task'[u] = task[u] /\ job'[u] = job[u]
                                  /\ cancel'[u] = cancel[u]
                                  /\ u \in todo' <=> u \in todo,
           JobOK(t)', ControlOK(t)', AnsweredFor(t)'
    PROVE  ControlInv'
<1> SUFFICES ASSUME NEW u \in Tasks \ {t}
             PROVE  (JobOK(u) /\ ControlOK(u) /\ AnsweredFor(u))'
  BY DEF ControlInv
<1>1. JobOK(u) /\ ControlOK(u) /\ AnsweredFor(u)
  BY DEF ControlInv
<1>2. JobOK(u)'
  <2>1. ASSUME job[u].run \in Runs, run[job[u].run].task = u
        PROVE  run'[job[u].run].task = u
    <3>1. Present(job[u].run)
      BY <2>1, NoneAssumption DEF RecordInv, KnownRun
    <3> QED BY <2>1, <3>1, LedgerStepKeeps
  <2> QED BY <1>1, <2>1 DEF JobOK, IsTerminal
<1>3. ControlOK(u)' /\ AnsweredFor(u)'
  BY <1>1 DEF ControlOK, AnsweredFor
<1> QED BY <1>2, <1>3

\* A crash leaves nothing to answer for.
LEMMA DieControl ==
    ASSUME TypeControl, Die
    PROVE  TypeControl' /\ ControlInv'
<1>1. TypeControl'
  BY CrashAssumption DEF TypeControl, Die, Idle, JobPc
<1>2. ControlInv'
  BY DEF Die, ControlInv, JobOK, ControlOK, AnsweredFor, Idle, Active, Queueing
<1> QED BY <1>1, <1>2

IInvParts == /\ TypeRecord /\ RecordInv
             /\ TypeEvent /\ TypeControl /\ EventInv /\ ControlInv

\* The invariant, with its types split by the component they are about.
LEMMA Parts == IInv <=> IInvParts
  BY DEF IInv, IInvParts, TypeOK, TypeRecord, TypeEvent, TypeControl

\* Each handler makes a ledger step and restores what is not about records.
Safe == LedgerStep /\ Rest'

\* The common shape of the handlers that end a task which may be over already.
LEMMA SettleOpenStep ==
    ASSUME TypeRecord, RecordInv, NEW t \in Tasks, NEW k \in 0..3,
           NEW s \in {"cancelled", "failed"},
           task[t].status # "absent", SettleOpen(t, s, k)
    PROVE  /\ LedgerStep
           /\ event' = event
           /\ \A u \in Tasks \ {t} : task'[u] = task[u]
           /\ k = 3 => IsTerminal(t)'
           /\ IsTerminal(t) => k = 3
<1>1. s \in Terminal /\ k \in Nat
  BY DEF Terminal
<1>2. CASE IsTerminal(t)
  BY <1>2 DEF SettleOpen, LedgerStep, IsTerminal
<1>3. CASE ~IsTerminal(t)
  <2>1. Settled(t, task[t].run, s, k) /\ event' = event
    BY <1>3 DEF SettleOpen
  <2>2. task[t].run \in Runs \cup {NoRun}
    BY DEF TypeRecord
  <2>3. MaySettle(t, task[t].run, s)
    BY <1>3 DEF MaySettle
  <2>4. LedgerStep
    BY <1>1, <2>1, <2>2, <2>3 DEF LedgerStep, Ended
  <2>5. /\ \A u \in Tasks : u # t => task'[u] = task[u]
        /\ task'[t] = IF k >= 1 THEN [status |-> s, run |-> NoRun] ELSE task[t]
    BY <1>1, <2>1, <2>2, <2>3, SettledFrame
  <2> QED BY <1>1, <1>3, <2>1, <2>4, <2>5 DEF IsTerminal
<1> QED BY <1>2, <1>3

\* A task is queued under a new row.
LEMMA SubmitSafe ==
    ASSUME IInvParts, NEW t \in Tasks, Submit(t)
    PROVE  Safe
<1> USE DEF IInvParts
<1>1. LedgerStep
  <2>1. CASE task[t].status = "absent"
    BY <2>1 DEF Submit, LedgerStep, Accepted
  <2>2. CASE task[t].status # "absent"
    BY <2>2 DEF Submit, LedgerStep
  <2> QED BY <2>1, <2>2
<1>2. TypeControl'
  BY DEF TypeControl, Submit, Goto, Alive, JobPc
<1>3. TypeEvent' /\ EventInv'
  BY <1>1, EventsKept DEF Submit
<1>4. /\ \A u \in Tasks \ {t} : task'[u] = task[u] /\ job'[u] = job[u]
      /\ job'[t] = [job[t] EXCEPT !.pc = "waiting"]
      /\ task'[t].status = IF task[t].status = "absent" THEN "queued"
                                                        ELSE task[t].status
  BY DEF Submit, Goto, TypeControl, TypeRecord
<1>5. JobOK(t) /\ ControlOK(t) /\ AnsweredFor(t) /\ t \notin todo
  BY DEF ControlInv, Submit, ControlOK
<1>6. ~job'[t].resumed /\ job'[t].pc = "waiting"
  BY <1>4, <1>5 DEF JobOK, Submit, TypeControl
<1>7. task'[t].status = "queued" \/ IsTerminal(t)'
  BY <1>4, <1>5 DEF Submit, AnsweredFor, IsTerminal
<1>8. JobOK(t)' /\ ControlOK(t)' /\ AnsweredFor(t)'
  BY <1>5, <1>6, <1>7 DEF JobOK, ControlOK, AnsweredFor, Submit, Alive, Active, Queueing
<1>9. ControlInv'
  BY <1>1, <1>4, <1>8, OthersKept DEF Submit, Alive
<1> QED BY <1>1, <1>2, <1>3, <1>9 DEF Safe, Rest

\* A job that goes from one place to another with nothing else happening.
LEMMA MovesSafe ==
    ASSUME IInvParts, NEW t \in Tasks, NEW p \in JobPc, phase = "up",
           p # "none", p \notin {"closing", "ingest"},
           job[t].pc # "none",
           p \in Queueing \/ job[t].pc \in Active \/ job[t].resumed,
           p \in Queueing => job[t].pc \in Queueing,
           Moves(t, p)
    PROVE  Safe
<1> USE DEF IInvParts
<1>1. LedgerStep /\ UNCHANGED event
  BY DEF Moves, ledger, LedgerStep
<1>2. TypeControl'
  BY DEF TypeControl, Moves, Goto, Alive
<1>3. TypeEvent' /\ EventInv'
  BY <1>1, EventsKept
<1>4. /\ \A u \in Tasks \ {t} : job'[u] = job[u]
      /\ job'[t] = [job[t] EXCEPT !.pc = p]
  BY DEF Moves, Goto, TypeControl
<1>5. job'[t].pc = p /\ job'[t].run = job[t].run /\ job'[t].resumed = job[t].resumed
  BY <1>4 DEF TypeControl
<1>6. JobOK(t) /\ ControlOK(t) /\ AnsweredFor(t)
  BY DEF ControlInv
<1>7. JobOK(t)' /\ ControlOK(t)' /\ AnsweredFor(t)'
  BY <1>5, <1>6 DEF JobOK, ControlOK, AnsweredFor, Moves, ledger, Alive, Active,
                    Queueing, IsTerminal
<1>8. ControlInv'
  BY <1>1, <1>4, <1>7, OthersKept DEF Moves, ledger, Alive
<1> QED BY <1>1, <1>2, <1>3, <1>8 DEF Safe, Rest

\* Waiting for the workspace, the slot and the worker's answer.
LEMMA WaitingSafe ==
    ASSUME IInvParts, NEW t \in Tasks,
           \/ TakeWorkspace(t) \/ TakeSlot(t) \/ Proceed(t) \/ StreamEnds(t)
    PROVE  Safe
<1>1. JobOK(t)
  BY DEF IInvParts, ControlInv
<1>2. CASE TakeWorkspace(t)
  BY <1>2, MovesSafe DEF TakeWorkspace, JobPc, Queueing
<1>3. CASE TakeSlot(t)
  BY <1>1, <1>3, MovesSafe DEF TakeSlot, JobOK, JobPc, Queueing
<1>4. CASE Proceed(t)
  BY <1>1, <1>4, MovesSafe DEF Proceed, JobOK, JobPc, Queueing, Active
<1>5. CASE StreamEnds(t)
  BY <1>1, <1>5, MovesSafe DEF StreamEnds, JobOK, JobPc, Queueing, Active
<1> QED BY <1>2, <1>3, <1>4, <1>5

\* A job that begins marks the run of its task as starting.
LEMMA BeginSafe ==
    ASSUME IInvParts, NEW t \in Tasks, NEW k \in 0..2, Begin(t, k)
    PROVE  Safe
<1> USE DEF IInvParts
<1>1. JobOK(t) /\ ControlOK(t) /\ AnsweredFor(t) /\ phase = "up"
  BY DEF ControlInv, JobOK, Begin
<1>2. CASE /\ IsTerminal(t) /\ job' = [job EXCEPT ![t] = Idle]
           /\ UNCHANGED <<ledger, todo, stream, cancel>> /\ Alive
  <2>1. LedgerStep /\ UNCHANGED event
    BY <1>2 DEF ledger, LedgerStep
  <2>2. TypeControl'
    BY <1>2 DEF TypeControl, Idle, JobPc, Alive
  <2>3. job'[t] = Idle /\ \A u \in Tasks \ {t} : job'[u] = job[u]
    BY <1>2 DEF TypeControl
  <2>4. JobOK(t)' /\ ControlOK(t)' /\ AnsweredFor(t)'
    BY <1>1, <1>2, <2>3 DEF JobOK, ControlOK, AnsweredFor, ledger, Alive, Idle,
                            Active, Queueing, IsTerminal
  <2>5. ControlInv'
    BY <1>2, <2>1, <2>3, <2>4, OthersKept DEF ledger, Alive
  <2> QED BY <1>1, <2>1, <2>2, <2>5, EventsKept DEF Safe, Rest
<1>3. CASE ~IsTerminal(t) /\ job[t].resumed /\ Moves(t, "open")
  BY <1>1, <1>3, MovesSafe DEF Begin, JobPc, Queueing, Active
<1>4. ASSUME ~IsTerminal(t), ~job[t].resumed, UNCHANGED <<event, final>>,
             NEW r \in Runs, run[r].status = "absent",
             \A u \in Tasks : task[u].run # r,
             task' = IF k = 0 THEN task
                     ELSE [task EXCEPT ![t] = [status |-> "running", run |-> r]],
             IF k = 2
             THEN /\ run' = [run EXCEPT ![r] = [status |-> "running", task |-> t,
                                                session |-> FALSE]]
                  /\ job' = [job EXCEPT ![t].pc = "open", ![t].run = r]
                  /\ UNCHANGED <<todo, stream, cancel>> /\ Alive
             ELSE UNCHANGED run /\ Die
      PROVE  Safe
  <2>1. task[t].status = "queued"
    BY <1>1, <1>4 DEF JobOK, Begin, Queueing
  <2>2. LedgerStep
    <3>1. CASE k = 0
      BY <1>4, <3>1 DEF LedgerStep
    <3>2. CASE k # 0
      <4>1. Delegated(t, r)
        BY <1>4, <2>1, <3>2 DEF Delegated, Present
      <4> QED BY <4>1 DEF LedgerStep
    <3> QED BY <3>1, <3>2
  <2>3. TypeEvent' /\ EventInv'
    BY <1>1, <1>4, <2>2, EventsKept
  <2>4. CASE k # 2
    BY <1>4, <2>2, <2>3, <2>4, DieControl DEF Safe, Rest
  <2>5. CASE k = 2
    <3>1. TypeControl'
      <4>1. job' \in [Tasks -> [pc : JobPc, run : Runs \cup {NoRun},
                                resumed : BOOLEAN, done : Terminal \cup {"none"}]]
        <5>1. job[t] \in [pc : JobPc, run : Runs \cup {NoRun},
                          resumed : BOOLEAN, done : Terminal \cup {"none"}]
          BY DEF TypeControl
        <5>2. job' = [job EXCEPT ![t] = [job[t] EXCEPT !.pc = "open", !.run = r]]
          BY <1>4, <2>5 DEF TypeControl
        <5> QED BY <5>1, <5>2 DEF TypeControl, JobPc
      <4> QED BY <1>4, <2>5, <4>1 DEF TypeControl, Alive
    <3>2. /\ \A u \in Tasks \ {t} : job'[u] = job[u] /\ task'[u] = task[u]
          /\ job'[t].pc = "open" /\ job'[t].run = r
          /\ run'[r].task = t
      BY <1>4, <2>5 DEF TypeControl, TypeRecord
    <3>3. task'[t].status = "running"
      BY <1>4, <2>5 DEF TypeRecord
    <3>4. JobOK(t)' /\ ControlOK(t)' /\ AnsweredFor(t)'
      BY <1>1, <1>4, <2>5, <3>2, <3>3
         DEF JobOK, ControlOK, AnsweredFor, Alive, Active, Queueing, Begin
    <3>5. ControlInv'
      BY <1>4, <2>2, <2>5, <3>2, <3>4, OthersKept DEF Alive
    <3> QED BY <2>2, <2>3, <3>1, <3>5 DEF Safe, Rest
  <2> QED BY <2>4, <2>5
<1> QED BY <1>2, <1>3, <1>4 DEF Begin

\* The run is opened under the key of its row.
LEMMA OpenSafe ==
    ASSUME IInvParts, NEW t \in Tasks, Open(t)
    PROVE  Safe
<1> USE DEF IInvParts
<1>1. JobOK(t) /\ ControlOK(t) /\ AnsweredFor(t)
  BY DEF ControlInv
<1>2. /\ phase = "up" /\ job[t].run \in Runs
      /\ run[job[t].run].task = t /\ Present(job[t].run)
  BY <1>1, NoneAssumption
     DEF JobOK, Open, Active, JobPc, Queueing, RecordInv, KnownRun
<1>3. LedgerStep
  BY <1>2 DEF Open, LedgerStep, SessionSaved
<1>4. TypeControl'
  <2>1. job' \in [Tasks -> [pc : JobPc, run : Runs \cup {NoRun},
                           resumed : BOOLEAN, done : Terminal \cup {"none"}]]
    BY GotoTyped DEF Open, JobPc
  <2>2. stream' \in [Runs -> {"none", "open", "deaf", "cancelled", "ended", "stray"} \cup Terminal]
    BY DEF Open, TypeControl
  <2> QED BY <2>1, <2>2 DEF Open, Alive, TypeControl
<1>5. /\ \A u \in Tasks \ {t} : job'[u] = job[u]
      /\ job'[t].pc = "started" /\ job'[t].run = job[t].run
  BY GotoTyped DEF Open, JobPc
<1>6. JobOK(t)' /\ ControlOK(t)' /\ AnsweredFor(t)'
  BY <1>1, <1>2, <1>3, <1>5, LedgerStepKeeps
     DEF JobOK, ControlOK, AnsweredFor, Open, Alive, Active, Queueing
<1>7. ControlInv'
  BY <1>3, <1>5, <1>6, OthersKept DEF Open, Alive
<1> QED BY <1>2, <1>3, <1>4, <1>7, EventsKept DEF Safe, Rest, Open

\* A step that changes neither the ledger nor any job's place but leaves t's
\* job, stream or cancel call at the given one.
LEMMA QuietSafe ==
    ASSUME IInvParts, NEW t \in Tasks, TypeControl',
           UNCHANGED <<ledger, phase, todo>>,
           \A u \in Tasks \ {t} : job'[u] = job[u] /\ cancel'[u] = cancel[u],
           JobOK(t)', ControlOK(t)', AnsweredFor(t)'
    PROVE  Safe
<1> USE DEF IInvParts
<1>1. LedgerStep /\ UNCHANGED event
  BY DEF ledger, LedgerStep
<1>2. TypeEvent' /\ EventInv'
  BY DEF ledger, TypeEvent, EventInv, LoggedEvent, ProcessedIsTold, Present
<1>3. ControlInv'
  BY <1>1, OthersKept DEF ledger
<1> QED BY <1>1, <1>2, <1>3 DEF Safe, Rest

\* An answer of the provider reaches the job or the cancel.
LEMMA AnswersSafe ==
    ASSUME IInvParts, NEW t \in Tasks,
           \/ OpenFails(t) \/ JobCancelAnswer(t) \/ Fetch(t) \/ Close(t)
           \/ CancelAnswer(t)
    PROVE  Safe
<1> USE DEF IInvParts
<1>1. JobOK(t) /\ ControlOK(t) /\ AnsweredFor(t)
  BY DEF ControlInv
<1>2. CASE JobCancelAnswer(t)
  <2>1. phase = "up"
    BY <1>1, <1>2 DEF JobCancelAnswer, JobOK
  <2>2. CASE Moves(t, "failing")
    BY <1>2, <2>1, <2>2, MovesSafe DEF JobCancelAnswer, JobPc, Queueing, Active
  <2>3. CASE /\ Goto(t, "stopped")
             /\ stream' = [stream EXCEPT ![job[t].run] = "cancelled"]
             /\ UNCHANGED <<ledger, todo, cancel>> /\ Alive
    <3>1. TypeControl'
      <4>1. job' \in [Tasks -> [pc : JobPc, run : Runs \cup {NoRun},
                               resumed : BOOLEAN, done : Terminal \cup {"none"}]]
        BY <2>3, GotoTyped DEF JobPc
      <4>2. stream' \in [Runs -> {"none", "open", "deaf", "cancelled", "ended", "stray"} \cup Terminal]
        BY <2>3 DEF TypeControl
      <4> QED BY <2>3, <4>1, <4>2 DEF Alive, TypeControl
    <3>2. /\ \A u \in Tasks \ {t} : job'[u] = job[u]
          /\ job'[t].pc = "stopped" /\ job'[t].run = job[t].run
      BY <2>3, GotoTyped DEF JobPc
    <3>3. JobOK(t)' /\ ControlOK(t)' /\ AnsweredFor(t)'
      BY <1>1, <1>2, <2>1, <2>3, <3>2
         DEF JobOK, ControlOK, AnsweredFor, ledger, Alive, Active, Queueing,
             JobCancelAnswer, JobPc
    <3> QED BY <2>3, <3>1, <3>2, <3>3, QuietSafe DEF Alive
  <2> QED BY <1>2, <2>2, <2>3 DEF JobCancelAnswer
<1>3. CASE Fetch(t)
  <2>1. phase = "up" /\ job[t].run \in Runs /\ stream[job[t].run] \in Terminal
    BY <1>1, <1>3 DEF Fetch, JobOK, Active, Queueing, JobPc
  <2>2. TypeControl'
    <3>1. job' \in [Tasks -> [pc : JobPc, run : Runs \cup {NoRun},
                              resumed : BOOLEAN, done : Terminal \cup {"none"}]]
      <4>1. job[t] \in [pc : JobPc, run : Runs \cup {NoRun},
                        resumed : BOOLEAN, done : Terminal \cup {"none"}]
        BY DEF TypeControl
      <4>2. job' = [job EXCEPT ![t] = [job[t] EXCEPT !.pc = "ingest",
                                              !.done = stream[job[t].run]]]
        BY <1>3 DEF Fetch, TypeControl
      <4> QED BY <2>1, <4>1, <4>2 DEF TypeControl, JobPc
    <3> QED BY <1>3, <2>1, <3>1 DEF Fetch, TypeControl, Alive
  <2>3. /\ \A u \in Tasks \ {t} : job'[u] = job[u]
        /\ job'[t].pc = "ingest" /\ job'[t].run = job[t].run
        /\ job'[t].done \in Terminal
    BY <1>3, <2>1 DEF Fetch, TypeControl
  <2>4. JobOK(t)' /\ ControlOK(t)' /\ AnsweredFor(t)'
    BY <1>1, <1>3, <2>1, <2>3
       DEF JobOK, ControlOK, AnsweredFor, ledger, Alive, Active, Queueing, Fetch, JobPc
  <2> QED BY <1>3, <2>2, <2>3, <2>4, QuietSafe DEF Fetch, Alive
<1>4. CASE Close(t)
  <2>1. phase = "up" /\ IsTerminal(t)
    BY <1>1, <1>4 DEF Close, JobOK
  <2>2. TypeControl'
    BY <1>4 DEF Close, TypeControl, Alive, Idle, JobPc
  <2>3. job'[t] = Idle /\ \A u \in Tasks \ {t} : job'[u] = job[u]
    BY <1>4 DEF Close, TypeControl
  <2>4. JobOK(t)' /\ ControlOK(t)' /\ AnsweredFor(t)'
    BY <1>1, <1>4, <2>1, <2>3
       DEF JobOK, ControlOK, AnsweredFor, ledger, Alive, Active, Queueing, Close,
           Idle, IsTerminal
  <2> QED BY <1>4, <2>2, <2>3, <2>4, QuietSafe DEF Close, Alive
<1>5. CASE OpenFails(t)
  <2>1. TypeControl'
    <3>1. job' \in [Tasks -> [pc : JobPc, run : Runs \cup {NoRun},
                             resumed : BOOLEAN, done : Terminal \cup {"none"}]]
      BY <1>5, GotoTyped DEF OpenFails, JobPc
    <3>2. stream' \in [Runs -> {"none", "open", "deaf", "cancelled", "ended", "stray"} \cup Terminal]
      <4>1. job[t].run \in Runs
        BY <1>1, <1>5 DEF OpenFails, JobOK, Active, Queueing, JobPc
      <4> QED BY <1>5, <4>1 DEF OpenFails, TypeControl
    <3> QED BY <1>5, <3>1, <3>2 DEF OpenFails, Alive, TypeControl
  <2>2. /\ \A u \in Tasks \ {t} : job'[u] = job[u]
        /\ job'[t].pc = "failing" /\ job'[t].run = job[t].run
    BY <1>5, GotoTyped DEF OpenFails, JobPc
  <2>3. JobOK(t)' /\ ControlOK(t)' /\ AnsweredFor(t)'
    BY <1>1, <1>5, <2>2
       DEF JobOK, ControlOK, AnsweredFor, ledger, Alive, Active, Queueing, OpenFails,
           JobPc
  <2> QED BY <1>5, <2>1, <2>2, <2>3, QuietSafe DEF OpenFails, Alive
<1>6. CASE CancelAnswer(t)
  <2>1. task[t].run \in Runs \/ IsTerminal(t)
    BY <1>1, <1>6
       DEF CancelAnswer, ControlOK, RecordInv, RunField, IsTerminal, TypeRecord,
           TypeControl
  <2>2. TypeControl'
    <3>1. stream' \in [Runs -> {"none", "open", "deaf", "cancelled", "ended", "stray"} \cup Terminal]
      BY <1>6 DEF CancelAnswer, TypeControl
    <3>2. cancel' \in [Tasks -> {"none", "asking", "confirmed"}]
      BY <1>6 DEF CancelAnswer, TypeControl
    <3> QED BY <1>6, <3>1, <3>2 DEF CancelAnswer, TypeControl, Alive
  <2>3. /\ \A u \in Tasks \ {t} : cancel'[u] = cancel[u]
        /\ job' = job
    BY <1>6 DEF CancelAnswer, TypeControl
  <2>4. JobOK(t)' /\ ControlOK(t)' /\ AnsweredFor(t)'
    BY <1>1, <1>6, <2>3
       DEF JobOK, ControlOK, AnsweredFor, ledger, Alive, CancelAnswer, IsTerminal
  <2> QED BY <1>6, <2>2, <2>3, <2>4, QuietSafe DEF CancelAnswer, Alive
<1> QED BY <1>2, <1>3, <1>4, <1>5, <1>6

\* A job of a task with a worker: its task was started, and its run is known.
LEMMA ActiveJob ==
    ASSUME IInvParts, NEW t \in Tasks, job[t].pc \in Active
    PROVE  /\ phase = "up"
           /\ job[t].run \in Runs /\ Present(job[t].run)
           /\ run[job[t].run].task = t
           /\ task[t].status \notin {"absent", "queued"}
<1>1. JobOK(t)
  BY DEF IInvParts, ControlInv
<1>2. /\ phase = "up" /\ job[t].run \in Runs /\ run[job[t].run].task = t
  BY <1>1 DEF JobOK, Active, Queueing
<1>3. Present(job[t].run) /\ (task[t].run = job[t].run \/ IsTerminal(t))
  BY <1>2, NoneAssumption DEF IInvParts, RecordInv, KnownRun
<1>4. task[t].status \notin {"absent", "queued"}
  BY <1>2, <1>3, NoneAssumption DEF IInvParts, RecordInv, RunField, IsTerminal, Terminal
<1> QED BY <1>2, <1>3, <1>4

\* The end of a handler of job t that saw its task to the end, or died.
LEMMA LeavesSafe ==
    ASSUME IInvParts, NEW t \in Tasks, job[t].pc \in Active, LedgerStep,
           \A u \in Tasks \ {t} : task'[u] = task[u],
           NEW k \in Nat, NEW n \in Nat, LeavesAfter(t, k, n),
           k = n => IsTerminal(t)'
    PROVE  TypeControl' /\ ControlInv'
<1> USE DEF IInvParts
<1>1. CASE k # n
  BY <1>1, DieControl DEF LeavesAfter
<1>2. CASE k = n
  <2>1. /\ Goto(t, "closing") /\ UNCHANGED <<todo, stream, cancel>> /\ Alive
        /\ IsTerminal(t)'
    BY <1>2 DEF LeavesAfter
  <2>2. TypeControl'
    <3>1. job' \in [Tasks -> [pc : JobPc, run : Runs \cup {NoRun},
                             resumed : BOOLEAN, done : Terminal \cup {"none"}]]
      BY <2>1, GotoTyped DEF JobPc
    <3> QED BY <2>1, <3>1 DEF Alive, TypeControl
  <2>3. /\ \A u \in Tasks \ {t} : job'[u] = job[u]
        /\ job'[t].pc = "closing" /\ job'[t].run = job[t].run
    BY <2>1, GotoTyped DEF JobPc
  <2>4. JobOK(t) /\ ControlOK(t) /\ AnsweredFor(t)
    BY DEF ControlInv
  <2>5. run'[job[t].run].task = t
    BY ActiveJob, LedgerStepKeeps
  <2>6. JobOK(t)'
    BY <2>1, <2>3, <2>5, ActiveJob DEF JobOK, Alive, Queueing
  <2>7. ControlOK(t)' /\ AnsweredFor(t)'
    BY <2>1, <2>3, <2>4, LedgerStepKeeps DEF ControlOK, AnsweredFor, Alive
  <2>8. ControlInv'
    BY <2>1, <2>3, <2>6, <2>7, OthersKept DEF Alive
  <2> QED BY <2>2, <2>8
<1> QED BY <1>1, <1>2

\* A job that is cancelled or fails ends its row, unless it is final.
LEMMA JobEndsSafe ==
    ASSUME IInvParts, NEW t \in Tasks, NEW k \in 0..3,
           JobCancelled(t, k) \/ Fail(t, k)
    PROVE  Safe
<1> USE DEF IInvParts
<1>1. job[t].pc \in Active /\ LeavesAfter(t, k, 3)
  BY DEF JobCancelled, Fail, Active, JobPc, Queueing
<1>2. PICK s \in {"cancelled", "failed"} : SettleOpen(t, s, k)
  BY DEF JobCancelled, Fail
<1>3. /\ LedgerStep /\ event' = event
      /\ \A u \in Tasks \ {t} : task'[u] = task[u]
      /\ k = 3 => IsTerminal(t)'
  BY <1>1, <1>2, ActiveJob, SettleOpenStep
<1>4. TypeControl' /\ ControlInv'
  BY <1>1, <1>3, LeavesSafe
<1>5. TypeEvent' /\ EventInv'
  BY <1>1, <1>3, ActiveJob, EventsKept
<1> QED BY <1>3, <1>4, <1>5 DEF Safe, Rest

\* A job that waits for its turn belongs to a task that was accepted.
LEMMA QueueingJob ==
    ASSUME IInvParts, NEW t \in Tasks, job[t].pc \in Queueing
    PROVE  task[t].status # "absent"
<1> USE DEF IInvParts
<1>1. JobOK(t)
  BY DEF ControlInv
<1>2. CASE ~job[t].resumed
  BY <1>1, <1>2 DEF JobOK, IsTerminal, Terminal
<1>3. CASE job[t].resumed
  <2>1. job[t].run \in Runs /\ run[job[t].run].task = t
    BY <1>1, <1>3 DEF JobOK
  <2>2. task[t].run = job[t].run \/ IsTerminal(t)
    BY <2>1, NoneAssumption DEF RecordInv, KnownRun
  <2> QED BY <2>1, <2>2, NoneAssumption
          DEF RecordInv, RunField, IsTerminal, Terminal
<1> QED BY <1>2, <1>3

\* A job whose provider or project is gone ends its row.
LEMMA ResolveFailsSafe ==
    ASSUME IInvParts, NEW t \in Tasks, NEW k \in 0..3, ResolveFails(t, k)
    PROVE  Safe
<1> USE DEF IInvParts
<1>1. /\ JobOK(t) /\ ControlOK(t) /\ AnsweredFor(t) /\ phase = "up"
      /\ task[t].status # "absent"
  BY QueueingJob DEF ControlInv, ResolveFails, Queueing
<1>2. /\ LedgerStep /\ event' = event
      /\ \A u \in Tasks \ {t} : task'[u] = task[u]
      /\ k = 3 => IsTerminal(t)'
  BY <1>1, SettleOpenStep DEF ResolveFails
<1>3. TypeEvent' /\ EventInv'
  BY <1>1, <1>2, EventsKept
<1>4. CASE k # 3
  BY <1>2, <1>3, <1>4, DieControl DEF ResolveFails, Safe, Rest
<1>5. CASE k = 3
  <2>1. /\ job' = [job EXCEPT ![t] = Idle]
        /\ UNCHANGED <<todo, stream, cancel, phase, crashes>> /\ IsTerminal(t)'
    BY <1>2, <1>5 DEF ResolveFails, Alive
  <2>2. TypeControl'
    BY <2>1 DEF TypeControl, Idle, JobPc
  <2>3. job'[t] = Idle /\ \A u \in Tasks \ {t} : job'[u] = job[u]
    BY <2>1 DEF TypeControl
  <2>4. JobOK(t)'
    BY <1>1, <2>1, <2>3 DEF JobOK, Idle, Active, Queueing, JobPc
  <2>5. ControlOK(t)' /\ AnsweredFor(t)'
    BY <1>1, <2>1 DEF ControlOK, AnsweredFor, IsTerminal, Terminal
  <2>6. ControlInv'
    BY <1>2, <2>1, <2>3, <2>4, <2>5, OthersKept
  <2> QED BY <1>2, <1>3, <2>2, <2>6 DEF Safe, Rest
<1> QED BY <1>4, <1>5

\* A confirmed cancel ends the row it asked about.
LEMMA CancelConfirmedSafe ==
    ASSUME IInvParts, NEW t \in Tasks, NEW k \in 0..3, CancelConfirmed(t, k)
    PROVE  Safe
<1> USE DEF IInvParts
<1>1. JobOK(t) /\ ControlOK(t) /\ AnsweredFor(t) /\ phase = "up"
      /\ task[t].status \notin {"absent", "queued"}
  BY DEF ControlInv, ControlOK, CancelConfirmed
<1>2. /\ LedgerStep /\ event' = event
      /\ \A u \in Tasks \ {t} : task'[u] = task[u]
      /\ k = 3 => IsTerminal(t)'
  BY <1>1, SettleOpenStep DEF CancelConfirmed
<1>3. TypeEvent' /\ EventInv'
  BY <1>1, <1>2, EventsKept
<1>4. CASE k # 3
  BY <1>2, <1>3, <1>4, DieControl DEF CancelConfirmed, Safe, Rest
<1>5. CASE k = 3
  <2>1. /\ cancel' = [cancel EXCEPT ![t] = "none"]
        /\ UNCHANGED <<todo, job, stream, phase, crashes>> /\ IsTerminal(t)'
    BY <1>2, <1>5 DEF CancelConfirmed, Alive
  <2>2. TypeControl'
    BY <2>1 DEF TypeControl
  <2>3. cancel'[t] = "none" /\ \A u \in Tasks \ {t} : cancel'[u] = cancel[u]
    BY <2>1 DEF TypeControl
  <2>4. JobOK(t)'
    <3>1. ASSUME job[t].run \in Runs, run[job[t].run].task = t
          PROVE  run'[job[t].run].task = t
      BY <1>2, <3>1, LedgerStepKeeps, NoneAssumption DEF RecordInv, KnownRun
    <3> QED BY <1>1, <2>1, <3>1 DEF JobOK
  <2>5. ControlOK(t)' /\ AnsweredFor(t)'
    BY <1>1, <1>2, <2>1, <2>3, LedgerStepKeeps DEF ControlOK, AnsweredFor, IsTerminal
  <2>6. ControlInv'
    <3>1. \A u \in Tasks \ {t} : /\ task'[u] = task[u] /\ job'[u] = job[u]
                                 /\ cancel'[u] = cancel[u]
                                 /\ u \in todo' <=> u \in todo
      BY <1>2, <2>1, <2>3
    <3> QED BY <1>2, <2>1, <2>4, <2>5, <3>1, OthersKept
  <2> QED BY <1>2, <1>3, <2>2, <2>6 DEF Safe, Rest
<1> QED BY <1>4, <1>5

\* A cancel ends a row at once or asks the provider.
LEMMA CancelSafe ==
    ASSUME IInvParts, NEW t \in Tasks, NEW k \in 0..3, Cancel(t, k)
    PROVE  Safe
<1> USE DEF IInvParts
<1>1. JobOK(t) /\ ControlOK(t) /\ AnsweredFor(t) /\ phase = "up" /\ t \notin todo
  BY DEF ControlInv, ControlOK, Cancel
<1>2. CASE task[t].status = "queued"
  <2>1. /\ LedgerStep /\ event' = event
        /\ \A u \in Tasks \ {t} : task'[u] = task[u]
        /\ k = 3 => IsTerminal(t)'
    BY <1>2, SettleOpenStep DEF Cancel
  <2>2. TypeEvent' /\ EventInv'
    BY <1>1, <2>1, EventsKept
  <2>3. CASE k # 3
    BY <1>2, <2>1, <2>2, <2>3, DieControl DEF Cancel, Safe, Rest
  <2>4. CASE k = 3
    <3>1. UNCHANGED <<todo, job, stream, cancel, phase, crashes>> /\ IsTerminal(t)'
      BY <1>2, <2>1, <2>4 DEF Cancel, Alive
    <3>2. TypeControl'
      BY <3>1 DEF TypeControl
    <3>3. JobOK(t)'
      <4>1. ASSUME job[t].run \in Runs, run[job[t].run].task = t
            PROVE  run'[job[t].run].task = t
        BY <2>1, <4>1, LedgerStepKeeps, NoneAssumption DEF RecordInv, KnownRun
      <4> QED BY <1>1, <3>1, <4>1 DEF JobOK
    <3>4. ControlOK(t)' /\ AnsweredFor(t)'
      BY <1>1, <1>2, <2>1, <3>1 DEF ControlOK, AnsweredFor, Cancel, IsTerminal
    <3>5. ControlInv'
      BY <2>1, <3>1, <3>3, <3>4, OthersKept
    <3> QED BY <2>1, <2>2, <3>2, <3>5 DEF Safe, Rest
  <2> QED BY <2>3, <2>4
<1>3. CASE task[t].status # "queued"
  <2>1. /\ task[t].status \in {"running", "cancelling"}
        /\ task' = [task EXCEPT ![t].status = "cancelling"]
        /\ cancel' = [cancel EXCEPT ![t] = IF Registered(t) THEN "asking" ELSE "none"]
        /\ UNCHANGED <<run, event, final, todo, job, stream, phase, crashes>>
    BY <1>3 DEF Cancel, Alive
  <2>2. LedgerStep
    BY <2>1 DEF LedgerStep, CancelMarked
  <2>3. TypeEvent' /\ EventInv'
    BY <1>1, <2>1, <2>2, EventsKept
  <2>4. TypeControl'
    BY <2>1 DEF TypeControl
  <2>5. /\ \A u \in Tasks \ {t} : cancel'[u] = cancel[u] /\ task'[u] = task[u]
        /\ task'[t].status = "cancelling"
    BY <2>1 DEF TypeControl, TypeRecord
  <2>6. JobOK(t)'
    <3>1. ~IsTerminal(t) /\ task[t].status # "queued"
      BY <2>1 DEF IsTerminal, Terminal
    <3>2. ~(~job[t].resumed /\ job[t].pc \in Queueing) /\ job[t].pc # "closing"
      BY <1>1, <3>1 DEF JobOK
    <3> QED BY <1>1, <2>1, <3>2 DEF JobOK
  <2>7. ControlOK(t)' /\ AnsweredFor(t)'
    BY <1>1, <2>1, <2>5 DEF ControlOK, AnsweredFor, Terminal
  <2>8. ControlInv'
    BY <2>1, <2>2, <2>5, <2>6, <2>7, <1>1, OthersKept
  <2> QED BY <2>2, <2>3, <2>4, <2>8 DEF Safe, Rest
<1> QED BY <1>2, <1>3

\* An event of the run is logged and applied.
LEMMA IngestSafe ==
    ASSUME IInvParts, NEW t \in Tasks, NEW k \in 0..5, Ingest(t, k)
    PROVE  Safe
<1> USE DEF IInvParts
<1>1. JobOK(t) /\ job[t].pc \in Active
  BY DEF Ingest, Active, JobPc, Queueing, ControlInv
<1>2. CASE ~Accepts(t, job[t].run)
  BY <1>1, <1>2, ActiveJob, MovesSafe DEF Ingest, Active, JobPc, Queueing
<1>3. CASE Accepts(t, job[t].run)
  <2> DEFINE r == job[t].run
             s == job[t].done
  <2>1. /\ k \in 1..5 /\ k - 1 \in Nat /\ k \in Nat
        /\ Settled(t, r, s, k - 1)
        /\ event' = [event EXCEPT ![r] = [state |-> IF k = 5 THEN "processed"
                                                            ELSE "logged",
                                          status |-> s]]
        /\ LeavesAfter(t, k, 5)
    BY <1>3 DEF Ingest, Logged
  <2>2. /\ r \in Runs /\ s \in Terminal /\ phase = "up" /\ Present(r)
        /\ run[r].task = t /\ task[t].run = r
        /\ task[t].status \notin {"absent", "queued"}
    BY <1>1, <1>3, ActiveJob DEF Accepts, JobOK, Ingest
  <2>3. ~IsTerminal(t)
    BY <2>2, NoneAssumption DEF RecordInv, RunField, IsTerminal
  <2>4. MaySettle(t, r, s)
    BY <2>2, <2>3 DEF MaySettle
  <2>5. LedgerStep
    BY <2>1, <2>2, <2>4 DEF LedgerStep, Ended
  <2>6. /\ \A u \in Tasks \ {t} : task'[u] = task[u]
        /\ task'[t] = IF k - 1 >= 1 THEN [status |-> s, run |-> NoRun] ELSE task[t]
        /\ k - 1 >= 3 => final'[t] = s
    BY <2>1, <2>2, <2>4, SettledFrame
  <2>7. TypeControl' /\ ControlInv'
    <3>1. k = 5 => IsTerminal(t)'
      BY <2>2, <2>6 DEF IsTerminal
    <3> QED BY <1>1, <2>1, <2>5, <2>6, <3>1, LeavesSafe
  <2>8. TypeEvent'
    BY <2>1, <2>2 DEF TypeEvent
  <2>9. /\ \A q \in Runs : Present(q) => /\ run'[q].status # "absent"
                                         /\ run'[q].task = run[q].task
        /\ \A u \in Tasks : final[u] # "nothing" => final'[u] = final[u]
    BY <2>5, LedgerStepKeeps
  <2>10. \A q \in Runs \ {r} : event'[q] = event[q] /\ event[q].state # "logged"
    BY <2>1, <2>2 DEF TypeEvent, EventInv, LoggedEvent
  <2>11. /\ event'[r].status = s
         /\ event'[r].state = IF k = 5 THEN "processed" ELSE "logged"
    BY <2>1, <2>2 DEF TypeEvent
  <2>12. \A q \in Runs : event[q].state # "none" =>
             /\ Present(q) /\ event[q].status \in Terminal
             /\ run[q].task \in Tasks
    BY DEF EventInv, LoggedEvent, RecordInv, KnownRun
  <2> HIDE DEF r, s
  <2>13. k # 5 => phase' # "up"
    BY <2>1 DEF LeavesAfter, Die
  <2>14. LoggedEvent'
    <3> SUFFICES ASSUME NEW q \in Runs, event'[q].state # "none"
                 PROVE  /\ run'[q].status # "absent" /\ event'[q].status \in Terminal
                        /\ event'[q].state = "logged" =>
                            /\ phase' # "up"
                            /\ \/ task'[run'[q].task].run = q
                               \/ task'[run'[q].task].status = event'[q].status
      BY DEF LoggedEvent, Present
    <3>1. CASE q # r
      BY <2>9, <2>10, <2>12, <3>1
    <3>2. CASE q = r
      BY <2>1, <2>2, <2>6, <2>9, <2>11, <2>13, <3>2
    <3> QED BY <3>1, <3>2
  <2>15. ProcessedIsTold'
    <3> SUFFICES ASSUME NEW q \in Runs, event'[q].state = "processed"
                 PROVE  final'[run'[q].task] = event'[q].status
      BY DEF ProcessedIsTold
    <3>1. CASE q # r
      BY <2>9, <2>10, <2>12, <3>1 DEF EventInv, ProcessedIsTold, Terminal
    <3>2. CASE q = r
      BY <2>1, <2>2, <2>6, <2>9, <2>11, <3>2
    <3> QED BY <3>1, <3>2
  <2> QED BY <2>5, <2>7, <2>8, <2>14, <2>15 DEF Safe, Rest, EventInv
<1> QED BY <1>2, <1>3

\* Recovery applies a logged event that was not processed.
LEMMA RecoverEventSafe ==
    ASSUME IInvParts, NEW r \in Runs, NEW k \in 0..4, RecoverEvent(r, k)
    PROVE  Safe
<1> USE DEF IInvParts
<1>a. phase = "recovering" /\ event[r].state = "logged"
  BY DEF RecoverEvent
<1>b. /\ Present(r) /\ event[r].status \in Terminal /\ run[r].task \in Tasks
      /\ task[run[r].task].run = r \/ task[run[r].task].status = event[r].status
      /\ task[run[r].task].run = r \/ IsTerminal(run[r].task)
  BY <1>a DEF EventInv, LoggedEvent, RecordInv, KnownRun
<1>c. PICK t \in Tasks, s \in Terminal : t = run[r].task /\ s = event[r].status
  BY <1>b
<1>1. /\ phase = "recovering"
      /\ Settled(t, r, s, k)
      /\ event' = [event EXCEPT ![r] = [state |-> IF k = 4 THEN "processed"
                                                          ELSE "logged",
                                        status |-> s]]
      /\ IF k = 4 THEN UNCHANGED <<todo, job, stream, cancel, phase, crashes>>
                  ELSE Die
      /\ k \in Nat
  <2>1. k + 1 = 5 <=> k = 4
    OBVIOUS
  <2>2. Logged(r, s, k + 1)
    BY <1>c DEF RecoverEvent
  <2>3. event' = [event EXCEPT ![r] = [state |-> IF k = 4 THEN "processed"
                                                          ELSE "logged",
                                       status |-> s]]
    BY <2>1, <2>2 DEF Logged
  <2>4. k = 4 => UNCHANGED <<todo, job, stream, cancel, phase, crashes>>
    BY DEF RecoverEvent, Alive
  <2> QED BY <1>a, <1>c, <2>3, <2>4 DEF RecoverEvent
<1>2. /\ Present(r)
      /\ task[t].run = r \/ task[t].status = s
      /\ task[t].run = r \/ IsTerminal(t)
  BY <1>b, <1>c
<1>3. task[t].run = r => ~IsTerminal(t) /\ task[t].status \notin {"absent", "queued"}
  BY <1>2, NoneAssumption DEF RecordInv, RunField, IsTerminal
<1>4. MaySettle(t, r, s)
  BY <1>c, <1>2, <1>3 DEF MaySettle, IsTerminal, Terminal
<1>5. LedgerStep
  BY <1>1, <1>2, <1>4 DEF LedgerStep, Ended
<1>6. /\ \A u \in Tasks \ {t} : task'[u] = task[u]
      /\ task'[t] = IF k >= 1 THEN [status |-> s, run |-> NoRun] ELSE task[t]
      /\ k >= 3 => final'[t] = s
  BY <1>1, <1>2, <1>4, SettledFrame
<1>7. TypeEvent'
  BY <1>1, <1>2 DEF TypeEvent
<1>8. /\ \A q \in Runs : Present(q) => /\ run'[q].status # "absent"
                                       /\ run'[q].task = run[q].task
      /\ \A u \in Tasks : final[u] # "nothing" => final'[u] = final[u]
  BY <1>5, LedgerStepKeeps
<1>9. /\ \A q \in Runs \ {r} : event'[q] = event[q]
      /\ event'[r].status = s
      /\ event'[r].state = IF k = 4 THEN "processed" ELSE "logged"
  BY <1>1 DEF TypeEvent
<1>10. \A q \in Runs : event[q].state # "none" =>
           /\ Present(q) /\ event[q].status \in Terminal
           /\ run[q].task \in Tasks
  BY DEF EventInv, LoggedEvent, RecordInv, KnownRun
<1>11. \A q \in Runs \ {r} : Present(q) => run[q].task # t
  BY <1>c, <1>2 DEF RecordInv, OneRunPerTask, Present
<1>12. phase' # "up"
  BY <1>1 DEF Die
<1>13. run'[r].task = t /\ run'[r].status # "absent"
  BY <1>c, <1>2, <1>8
<1>14. LoggedEvent'
  <2> SUFFICES ASSUME NEW q \in Runs, event'[q].state # "none"
               PROVE  /\ run'[q].status # "absent" /\ event'[q].status \in Terminal
                      /\ event'[q].state = "logged" =>
                          /\ phase' # "up"
                          /\ \/ task'[run'[q].task].run = q
                             \/ task'[run'[q].task].status = event'[q].status
    BY DEF LoggedEvent, Present
  <2>1. CASE q # r
    <3>1. /\ Present(q) /\ event[q].state # "none" /\ run[q].task \in Tasks \ {t}
          /\ event'[q] = event[q] /\ run'[q].task = run[q].task
      BY <1>8, <1>9, <1>10, <1>11, <2>1
    <3>2. task'[run'[q].task] = task[run[q].task]
      BY <1>6, <3>1
    <3> QED BY <1>8, <1>10, <1>12, <3>1, <3>2 DEF EventInv, LoggedEvent
  <2>2. CASE q = r
    BY <1>2, <1>6, <1>9, <1>12, <1>13, <2>2
  <2> QED BY <2>1, <2>2
<1>15. ProcessedIsTold'
  <2> SUFFICES ASSUME NEW q \in Runs, event'[q].state = "processed"
               PROVE  final'[run'[q].task] = event'[q].status
    BY DEF ProcessedIsTold
  <2>1. CASE q # r
    BY <1>8, <1>9, <1>10, <2>1 DEF EventInv, ProcessedIsTold, Terminal
  <2>2. CASE q = r
    BY <1>6, <1>9, <1>13, <2>2
  <2> QED BY <2>1, <2>2
<1>16. CASE k # 4
  BY <1>1, <1>5, <1>7, <1>14, <1>15, <1>16, DieControl DEF Safe, Rest, EventInv
<1>17. CASE k = 4
  <2>1. UNCHANGED <<todo, job, stream, cancel, phase, crashes>>
    BY <1>1, <1>17
  <2>2. TypeControl'
    BY <2>1 DEF TypeControl
  <2>3. IsTerminal(t)'
    BY <1>2, <1>6, <1>17 DEF IsTerminal
  <2>4. JobOK(t) /\ ControlOK(t) /\ AnsweredFor(t)
    BY <1>2 DEF ControlInv
  <2>5. JobOK(t)'
    <3>1. ASSUME job[t].run \in Runs, run[job[t].run].task = t
          PROVE  run'[job[t].run].task = t
      BY <1>2, <1>8, <3>1, NoneAssumption DEF RecordInv, KnownRun
    <3> QED BY <2>1, <2>3, <2>4, <3>1 DEF JobOK
  <2>6. ControlOK(t)' /\ AnsweredFor(t)'
    BY <1>1, <2>1, <2>3, <2>4 DEF ControlOK, AnsweredFor, IsTerminal, Terminal
  <2>7. ControlInv'
    BY <1>2, <1>5, <1>6, <2>1, <2>5, <2>6, OthersKept
  <2> QED BY <1>5, <1>7, <1>14, <1>15, <2>2, <2>7 DEF Safe, Rest, EventInv
<1> QED BY <1>16, <1>17

\* Recovery schedules a task, resumes its run, or ends its row.
LEMMA RecoverTaskSafe ==
    ASSUME IInvParts, NEW t \in Tasks, NEW k \in 0..3, RecoverTask(t, k)
    PROVE  Safe
<1> USE DEF IInvParts
<1>1. /\ JobOK(t) /\ ControlOK(t) /\ AnsweredFor(t)
      /\ phase = "recovering" /\ AllProcessed /\ task[t].status # "absent"
      /\ cancel[t] = "none" /\ job[t].pc \in {"none", "waiting"}
  BY DEF RecoverTask, ControlInv, ControlOK, JobOK
<1>2. CASE task[t].status = "queued" \/ CanResume(t)
  <2>1. /\ job' = [job EXCEPT ![t] = [pc |-> "waiting", run |-> task[t].run,
                                      resumed |-> CanResume(t), done |-> "none"]]
        /\ todo' = todo \ {t}
        /\ UNCHANGED <<ledger, stream, cancel, phase, crashes>>
    BY <1>2 DEF RecoverTask, Alive
  <2>3. CanResume(t) \in BOOLEAN
    BY DEF CanResume
  <2>4. /\ job'[t] = [pc |-> "waiting", run |-> task[t].run,
                      resumed |-> CanResume(t), done |-> "none"]
        /\ \A u \in Tasks \ {t} : job'[u] = job[u]
    BY <2>1 DEF TypeControl
  <2>5. TypeControl'
    <3>1. job' \in [Tasks -> [pc : JobPc, run : Runs \cup {NoRun},
                              resumed : BOOLEAN, done : Terminal \cup {"none"}]]
      BY <2>1, <2>3 DEF TypeControl, TypeRecord, JobPc
    <3> QED BY <2>1, <3>1 DEF TypeControl
  <2>6. LedgerStep /\ UNCHANGED event
    BY <2>1 DEF ledger, LedgerStep
  <2>7. CanResume(t) => task[t].run \in Runs /\ run[task[t].run].task = t
    BY DEF CanResume, RecordInv, OwnRun, Present, TypeRecord
  <2>8. JobOK(t)'
    BY <1>1, <1>2, <2>1, <2>4, <2>7 DEF JobOK, Active, Queueing, ledger, IsTerminal
  <2>9. ControlOK(t)' /\ AnsweredFor(t)'
    BY <1>1, <2>1, <2>4 DEF ControlOK, AnsweredFor
  <2>10. ControlInv'
    BY <2>1, <2>4, <2>6, <2>8, <2>9, OthersKept DEF ledger
  <2> QED BY <1>1, <2>5, <2>6, <2>10, EventsKept DEF Safe, Rest
<1>3. CASE ~(task[t].status = "queued" \/ CanResume(t))
  <2>1. /\ LedgerStep /\ event' = event
        /\ \A u \in Tasks \ {t} : task'[u] = task[u]
        /\ k = 3 => IsTerminal(t)'
    BY <1>1, <1>3, SettleOpenStep DEF RecoverTask
  <2>2. TypeEvent' /\ EventInv'
    BY <1>1, <2>1, EventsKept
  <2>3. CASE k # 3
    BY <1>3, <2>1, <2>2, <2>3, DieControl DEF RecoverTask, Safe, Rest
  <2>4. CASE k = 3
    <3>1. /\ todo' = todo \ {t} /\ UNCHANGED <<job, stream, cancel, phase, crashes>>
          /\ IsTerminal(t)'
      BY <1>3, <2>1, <2>4 DEF RecoverTask, Alive
    <3>2. TypeControl'
      BY <3>1 DEF TypeControl
    <3>3. JobOK(t)'
      <4>1. ASSUME job[t].run \in Runs, run[job[t].run].task = t
            PROVE  run'[job[t].run].task = t
        BY <2>1, <4>1, LedgerStepKeeps, NoneAssumption DEF RecordInv, KnownRun
      <4> QED BY <1>1, <3>1, <4>1 DEF JobOK
    <3>4. ControlOK(t)' /\ AnsweredFor(t)'
      BY <1>1, <3>1 DEF ControlOK, AnsweredFor, IsTerminal
    <3>5. ControlInv'
      BY <2>1, <3>1, <3>3, <3>4, OthersKept
    <3> QED BY <2>1, <2>2, <3>2, <3>5 DEF Safe, Rest
  <2> QED BY <2>3, <2>4
<1> QED BY <1>2, <1>3

\* The worker, the death of the process and the frame of start().
LEMMA ProcessSafe ==
    ASSUME IInvParts,
           (\E r \in Runs : WorkerEnds(r)) \/ Crash \/ Restart \/ Started
    PROVE  Safe
<1> USE DEF IInvParts
<1>1. LedgerStep /\ UNCHANGED ledger
  BY DEF LedgerStep, WorkerEnds, Crash, Restart, Started, ledger
<1>2. CASE \E r \in Runs : WorkerEnds(r)
  <2>1. PICK r \in Runs : WorkerEnds(r)
    BY <1>2
  <2>2. stream' \in [Runs -> {"none", "open", "deaf", "cancelled", "ended", "stray"} \cup Terminal]
    BY <2>1, OutcomesAssumption DEF WorkerEnds, TypeControl
  <2>3. UNCHANGED <<ledger, todo, job, cancel, phase, crashes>>
    BY <2>1 DEF WorkerEnds, Alive
  <2>4. TypeControl'
    BY <2>2, <2>3 DEF TypeControl
  <2>5. ControlInv'
    BY <2>3 DEF ControlInv, JobOK, ControlOK, AnsweredFor, IsTerminal, ledger
  <2>6. TypeEvent' /\ EventInv'
    BY <2>3 DEF ledger, TypeEvent, EventInv, LoggedEvent, ProcessedIsTold, Present
  <2> QED BY <1>1, <2>4, <2>5, <2>6 DEF Safe, Rest
<1>3. CASE Crash
  <2>1. TypeControl' /\ ControlInv'
    BY <1>3, DieControl DEF Crash
  <2>2. TypeEvent' /\ EventInv'
    BY <1>1, <1>3, EventsKept DEF Crash, Die, ledger
  <2> QED BY <1>1, <2>1, <2>2 DEF Safe, Rest
<1>4. CASE Restart
  <2>1. TypeControl'
    BY <1>4 DEF Restart, TypeControl
  <2>2. TypeEvent' /\ EventInv'
    BY <1>1, <1>4, EventsKept DEF Restart, ledger
  <2>3. ControlInv'
    BY <1>4 DEF Restart, ControlInv, JobOK, ControlOK, AnsweredFor, ledger,
                IsTerminal
  <2> QED BY <1>1, <2>1, <2>2, <2>3 DEF Safe, Rest
<1>5. CASE Started
  <2>1. TypeControl'
    BY <1>5 DEF Started, TypeControl
  <2>2. TypeEvent' /\ EventInv'
    BY <1>1, <1>5, EventsKept DEF Started, ledger
  <2>3. ControlInv'
    BY <1>5 DEF Started, ControlInv, JobOK, ControlOK, AnsweredFor, ledger,
                IsTerminal
  <2> QED BY <1>1, <2>1, <2>2, <2>3 DEF Safe, Rest
<1> QED BY <1>2, <1>3, <1>4, <1>5

-----------------------------------------------------------------------------
(* Every step, and the invariant *)

\* Every step is safe.
LEMMA NextSafe == ASSUME IInvParts, Next PROVE Safe
<1>1. ASSUME NEW t \in Tasks, DispatchStep(t) PROVE Safe
  BY <1>1, ResolveFailsSafe, WaitingSafe, BeginSafe, OpenSafe, AnswersSafe, JobEndsSafe, IngestSafe
     DEF DispatchStep
<1>2. ASSUME NEW t \in Tasks, CancelStep(t) PROVE Safe
  BY <1>2, AnswersSafe, CancelConfirmedSafe DEF CancelStep
<1>3. ASSUME NEW t \in Tasks, NEW k \in 0..3, Cancel(t, k) PROVE Safe
  BY <1>3, CancelSafe
<1>4. ASSUME Recovery PROVE Safe
  BY <1>4, RecoverEventSafe, RecoverTaskSafe, ProcessSafe DEF Recovery
<1> QED BY <1>1, <1>2, <1>3, <1>4, SubmitSafe, ProcessSafe DEF Next

\* So is a stutter.
LEMMA StutterSafe == ASSUME IInvParts, UNCHANGED vars PROVE Safe
<1> USE DEF IInvParts, vars, ledger
<1>1. LedgerStep
  BY DEF LedgerStep
<1>2. TypeEvent' /\ TypeControl'
  BY DEF TypeEvent, TypeControl
<1>3. EventInv'
  BY DEF EventInv, LoggedEvent, ProcessedIsTold, Present
<1>4. ControlInv'
  BY DEF ControlInv, JobOK, ControlOK, AnsweredFor, IsTerminal
<1> QED BY <1>1, <1>2, <1>3, <1>4 DEF Safe, Rest

\* The gateway starts with an empty ledger.
LEMMA InitIInv == Init => IInvParts
<1> SUFFICES ASSUME Init PROVE IInvParts
  OBVIOUS
<1> USE DEF Init
<1>1. TypeRecord /\ TypeEvent
  BY DEF TypeRecord, TypeEvent, TaskStatus
<1>2. TypeControl
  BY CrashAssumption DEF TypeControl, Idle, JobPc
<1>3. RecordInv
  BY NoneAssumption
     DEF RecordInv, RunField, OwnRun, KnownRun, OutcomeAgrees, FinalAgrees,
         OneRunPerTask, Present, Terminal
<1>4. EventInv
  BY DEF EventInv, LoggedEvent, ProcessedIsTold
<1>5. ControlInv
  BY DEF ControlInv, JobOK, ControlOK, AnsweredFor, Idle, Active, Queueing
<1> QED BY <1>1, <1>2, <1>3, <1>4, <1>5 DEF IInvParts

\* The inductive invariant holds of every behaviour: whatever handlers,
\* crashes and recoveries are interleaved, records, events and jobs stay in the
\* relation the handlers rely on.
THEOREM Invariance == Spec => []IInv
<1>1. Init => IInvParts
  BY InitIInv
<1>2. IInvParts /\ [Next]_vars => IInvParts'
  <2> SUFFICES ASSUME IInvParts, [Next]_vars PROVE IInvParts'
    OBVIOUS
  <2>1. Safe
    BY NextSafe, StutterSafe
  <2>2. TypeRecord' /\ RecordInv'
    BY <2>1, LedgerStepRecord DEF Safe, IInvParts
  <2> QED BY <2>1, <2>2 DEF Safe, Rest, IInvParts
<1>3. IInvParts => IInv
  BY Parts
<1> QED BY <1>1, <1>2, <1>3, PTL DEF Spec

\* The ledger and the scheduler's memory keep the types of their records.
THEOREM TypeCorrect == Spec => []TypeOK
<1>1. IInv => TypeOK
  BY DEF IInv
<1> QED BY <1>1, Invariance, PTL

\* An ended run and its task have ended with the same status, whichever of the
\* worker's result, a cancel, a failure and a recovery came first.
THEOREM OutcomesAgree == Spec => []OutcomeAgrees
<1>1. IInv => OutcomeAgrees
  BY DEF IInv, RecordInv
<1> QED BY <1>1, Invariance, PTL

\* The final delivery of a task carries the status the task ended with.
THEOREM FinalsAgree == Spec => []FinalAgrees
<1>1. IInv => FinalAgrees
  BY DEF IInv, RecordInv
<1> QED BY <1>1, Invariance, PTL

\* A crash in the middle of a Done event's reduction loses nothing.
THEOREM ProcessedTold == Spec => []ProcessedIsTold
<1>1. IInv => ProcessedIsTold
  BY DEF IInv, EventInv
<1> QED BY <1>1, Invariance, PTL

\* Replayed requests and restarts never give a task a second run.
THEOREM SingleRun == Spec => []OneRunPerTask
<1>1. IInv => OneRunPerTask
  BY DEF IInv, RecordInv
<1> QED BY <1>1, Invariance, PTL

\* While the process is up, every task that is not over has a dispatch job.
THEOREM NoneForgotten == Spec => []NobodyForgotten
<1>1. IInv => NobodyForgotten
  BY DEF IInv, ControlInv, AnsweredFor, ControlOK, NobodyForgotten
<1> QED BY <1>1, Invariance, PTL

\* No handler attempts a transition the ledger's validators refuse.
THEOREM AllWritesAccepted == Spec => WritesAccepted
<1>1. IInv /\ [Next]_vars =>
        [ /\ \A t \in Tasks : LegalTask(task[t], task'[t])
          /\ \A r \in Runs : LegalRun(run[r], run'[r]) ]_vars
  BY Parts, NextSafe, LedgerStepLegal DEF IInvParts, Safe
<1> QED BY <1>1, Invariance, PTL DEF Spec, WritesAccepted

\* The scheduler implements the promise to the conversation: one settlement
\* per task, and at most one final delivery, of that settlement.
THEOREM PromiseKept == Spec => KeepsPromise
<1>1. Init => Promise!Init
  BY DEF Init, Promise!Init, IsTerminal, Terminal
<1>2. IInv /\ [Next]_vars => [Promise!Next]_(Promise!vars)
  BY Parts, NextSafe, StutterSafe, LedgerStepPromise DEF IInvParts, Safe
<1> QED BY <1>1, <1>2, Invariance, PTL DEF Spec, KeepsPromise, Promise!Spec

-----------------------------------------------------------------------------
(* Workspaces and slots *)

\* The gateway has not let go of the worker of r.
At(r) == stream[r] \notin {"none", "ended", "stray"}

\* Such a worker belongs to a job, which has it as its run.
Held(r) ==
    At(r) => /\ run[r].task \in Tasks
             /\ job[run[r].task].pc \in Active /\ job[run[r].task].run = r

\* A cancellation is under way only for a job that has its run, or for a task
\* that is over.
Asked(t) == cancel[t] # "none" => IsTerminal(t) \/ job[t].pc \in Active

SlotHolders == {t \in Tasks : HoldsSlot(t)}

Exclusive ==
    /\ \A t, u \in Tasks : HoldsWorkspace(t) /\ HoldsWorkspace(u)
                           /\ Workspace[t] = Workspace[u] => t = u
    /\ IsFiniteSet(SlotHolders) /\ Cardinality(SlotHolders) <= Slots

LockInv == (\A t \in Tasks : Asked(t)) /\ (\A r \in Runs : Held(r)) /\ Exclusive

\* What every step keeps, as the proof of the invariant shows.
LEMMA StepKeeps ==
    ASSUME IInvParts, Next
    PROVE  /\ \A t \in Tasks : IsTerminal(t) => IsTerminal(t)'
           /\ \A r \in Runs : Present(r) => run'[r].task = run[r].task
           /\ TypeControl'
<1>1. Safe
  BY NextSafe
<1> QED BY <1>1, LedgerStepKeeps DEF Safe, Rest, IInvParts, IsTerminal

\* A process that died holds nothing.
LEMMA DieLocks ==
    ASSUME TypeControl, Die
    PROVE  LockInv'
<1>1. /\ \A t \in Tasks : job'[t] = Idle /\ cancel'[t] = "none"
      /\ \A r \in Runs : stream'[r] = "none"
  BY DEF Die
<1>2. (\A t \in Tasks : Asked(t)') /\ (\A r \in Runs : Held(r)')
  BY <1>1 DEF Asked, Held, At
<1>3. SlotHolders' = {} /\ \A t \in Tasks : ~HoldsWorkspace(t)'
  BY <1>1 DEF SlotHolders, HoldsSlot, HoldsWorkspace, Idle
<1>4. Exclusive'
  BY <1>3, FS_EmptySet, SlotsAssumption DEF Exclusive
<1> QED BY <1>2, <1>4 DEF LockInv

\* Who holds nothing new disturbs nobody.
LEMMA ReleaseKept ==
    ASSUME Exclusive, \A u \in Tasks : HoldsSlot(u)' => HoldsSlot(u),
           \A u \in Tasks : HoldsWorkspace(u)' => HoldsWorkspace(u)
    PROVE  Exclusive'
<1>1. SlotHolders' \subseteq SlotHolders
  BY DEF SlotHolders
<1>2. /\ IsFiniteSet(SlotHolders')
      /\ Cardinality(SlotHolders') <= Cardinality(SlotHolders)
      /\ Cardinality(SlotHolders') \in Nat /\ Cardinality(SlotHolders) \in Nat
  BY <1>1, FS_Subset, FS_CardinalityType DEF Exclusive
<1>3. Cardinality(SlotHolders') <= Slots
  BY <1>2, SlotsAssumption DEF Exclusive
<1> QED BY <1>2, <1>3 DEF Exclusive

\* A step of task t that takes up no worker but that of t's own run.
LEMMA OthersLocked ==
    ASSUME IInvParts, Next, LockInv, NEW t \in Tasks,
           \A u \in Tasks \ {t} : job'[u] = job[u] /\ cancel'[u] = cancel[u],
           \A r \in Runs :
              At(r)' => At(r) \/ (job[t].pc \in Active /\ r = job[t].run),
           job[t].pc \in Active =>
              \/ job'[t].pc \in Active /\ job'[t].run = job[t].run
              \/ \A r \in Runs : r = job[t].run => ~At(r)',
           Asked(t)'
    PROVE  (\A u \in Tasks : Asked(u)') /\ (\A r \in Runs : Held(r)')
<1>1. ASSUME NEW u \in Tasks, u # t
      PROVE  Asked(u)'
  <2>1. Asked(u) /\ job'[u] = job[u] /\ cancel'[u] = cancel[u]
    BY <1>1 DEF LockInv
  <2>2. IsTerminal(u) => IsTerminal(u)'
    BY StepKeeps
  <2> QED BY <2>1, <2>2 DEF Asked
<1>2. ASSUME NEW r \in Runs, At(r)'
      PROVE  /\ run'[r].task \in Tasks
             /\ job'[run'[r].task].pc \in Active /\ job'[run'[r].task].run = r
  <2> DEFINE u == run[r].task
  <2>1. CASE At(r)
    <3>1. u \in Tasks /\ job[u].pc \in Active /\ job[u].run = r
      BY <2>1 DEF LockInv, Held
    <3>2. Present(r)
      BY <3>1, ActiveJob
    <3>3. run'[r].task = u
      BY <3>2, StepKeeps
    <3>4. CASE u = t
      BY <1>2, <3>1, <3>3, <3>4
    <3>5. CASE u # t
      BY <3>1, <3>3, <3>5
    <3> QED BY <3>4, <3>5
  <2>2. CASE ~At(r)
    <3>1. job[t].pc \in Active /\ r = job[t].run
      BY <1>2, <2>2
    <3>2. Present(r) /\ run[r].task = t
      BY <3>1, ActiveJob
    <3>3. run'[r].task = t
      BY <3>2, StepKeeps
    <3> QED BY <1>2, <3>1, <3>3
  <2> QED BY <2>1, <2>2
<1>3. \A r \in Runs : Held(r)'
  BY <1>2 DEF Held
<1> QED BY <1>1, <1>3

\* A step that leaves every job where it is and takes up no worker.
LEMMA HeldSame ==
    ASSUME IInvParts, Next, LockInv, job' = job, \A r \in Runs : At(r)' => At(r)
    PROVE  \A r \in Runs : Held(r)'
<1> SUFFICES ASSUME NEW r \in Runs, At(r)'
             PROVE  /\ run'[r].task \in Tasks
                    /\ job'[run'[r].task].pc \in Active
                    /\ job'[run'[r].task].run = r
  BY DEF Held
<1>1. /\ run[r].task \in Tasks
      /\ job[run[r].task].pc \in Active /\ job[run[r].task].run = r
  BY DEF LockInv, Held
<1>2. Present(r)
  BY <1>1, ActiveJob
<1> QED BY <1>1, <1>2, StepKeeps

\* A step of task t that frees what it held, or keeps it.
LEMMA StepLocked ==
    ASSUME IInvParts, Next, LockInv, NEW t \in Tasks,
           \A u \in Tasks \ {t} : job'[u] = job[u] /\ cancel'[u] = cancel[u],
           \A r \in Runs :
              At(r)' => At(r) \/ (job[t].pc \in Active /\ r = job[t].run),
           job[t].pc \in Active =>
              \/ job'[t].pc \in Active /\ job'[t].run = job[t].run
              \/ \A r \in Runs : r = job[t].run => ~At(r)',
           Asked(t)',
           HoldsSlot(t)' => HoldsSlot(t), HoldsWorkspace(t)' => HoldsWorkspace(t)
    PROVE  LockInv'
<1>1. (\A u \in Tasks : Asked(u)') /\ (\A r \in Runs : Held(r)')
  BY OthersLocked
<1>2. /\ \A u \in Tasks : HoldsSlot(u)' => HoldsSlot(u)
      /\ \A u \in Tasks : HoldsWorkspace(u)' => HoldsWorkspace(u)
  BY DEF HoldsSlot, HoldsWorkspace
<1>3. Exclusive'
  BY <1>2, ReleaseKept DEF LockInv
<1> QED BY <1>1, <1>3 DEF LockInv

\* A job that only moves keeps its run, and its cancellation its condition.
LEMMA MovesLock ==
    ASSUME IInvParts, LockInv, NEW t \in Tasks, NEW p \in JobPc, Moves(t, p),
           \/ p \in Active
           \/ job[t].pc = "waiting" /\ p = "slot"
           \/ job[t].pc = "slot" /\ p = "lock"
    PROVE  /\ Asked(t)' /\ stream' = stream
           /\ job'[t].pc = p /\ job'[t].run = job[t].run
           /\ \A u \in Tasks \ {t} : job'[u] = job[u] /\ cancel'[u] = cancel[u]
           /\ \A r \in Runs : At(r)' => At(r)
<1>1. /\ job'[t].pc = p /\ job'[t].run = job[t].run
      /\ \A u \in Tasks \ {t} : job'[u] = job[u]
  BY DEF Moves, Goto, IInvParts, TypeControl
<1>2. UNCHANGED <<ledger, stream, cancel>>
  BY DEF Moves
<1>3. IsTerminal(t)' <=> IsTerminal(t)
  BY <1>2 DEF IsTerminal, ledger
<1>4. Asked(t)
  BY DEF LockInv
<1>5. Asked(t)'
  BY <1>1, <1>2, <1>3, <1>4 DEF Asked, Active, Queueing
<1> QED BY <1>1, <1>2, <1>5 DEF At

\* A job that has its slot and moves on.
LEMMA MovesLocked ==
    ASSUME IInvParts, Next, LockInv, NEW t \in Tasks, NEW p \in Active,
           Moves(t, p), HoldsSlot(t)
    PROVE  LockInv'
<1>1. /\ Asked(t)' /\ job'[t].pc = p /\ job'[t].run = job[t].run
      /\ \A u \in Tasks \ {t} : job'[u] = job[u] /\ cancel'[u] = cancel[u]
      /\ \A r \in Runs : At(r)' => At(r)
  BY MovesLock DEF Active
<1>2. HoldsWorkspace(t)
  BY DEF HoldsSlot, HoldsWorkspace
<1> QED BY <1>1, <1>2, StepLocked

\* Taking the workspace.
LEMMA TakeWorkspaceLocked ==
    ASSUME IInvParts, Next, LockInv, NEW t \in Tasks, TakeWorkspace(t)
    PROVE  LockInv'
<1>0. /\ Moves(t, "slot") /\ job[t].pc = "waiting" /\ "slot" \in JobPc
      /\ \A u \in Tasks : Workspace[u] = Workspace[t] => ~HoldsWorkspace(u)
  BY DEF TakeWorkspace, JobPc
<1>1. /\ Asked(t)' /\ job'[t].pc = "slot"
      /\ \A u \in Tasks \ {t} : job'[u] = job[u] /\ cancel'[u] = cancel[u]
      /\ \A r \in Runs : At(r)' => At(r)
  BY <1>0, MovesLock
<1>2. (\A u \in Tasks : Asked(u)') /\ (\A r \in Runs : Held(r)')
  <2>1. job[t].pc \notin Active
    BY <1>0 DEF Active, Queueing
  <2> QED BY <1>1, <2>1, OthersLocked
<1>3. /\ \A u \in Tasks : HoldsSlot(u)' <=> HoldsSlot(u)
      /\ \A u \in Tasks \ {t} : HoldsWorkspace(u)' <=> HoldsWorkspace(u)
  BY <1>0, <1>1 DEF HoldsSlot, HoldsWorkspace
<1>4. SlotHolders' = SlotHolders
  BY <1>3 DEF SlotHolders
<1>5. \A u, v \in Tasks : HoldsWorkspace(u)' /\ HoldsWorkspace(v)'
                          /\ Workspace[u] = Workspace[v] => u = v
  BY <1>0, <1>3 DEF LockInv, Exclusive
<1>6. Exclusive'
  BY <1>4, <1>5 DEF LockInv, Exclusive
<1> QED BY <1>2, <1>6 DEF LockInv

\* Taking the slot.
LEMMA TakeSlotLocked ==
    ASSUME IInvParts, Next, LockInv, NEW t \in Tasks, TakeSlot(t)
    PROVE  LockInv'
<1>0. /\ Moves(t, "lock") /\ job[t].pc = "slot" /\ "lock" \in JobPc
      /\ Cardinality(SlotHolders) < Slots
  BY DEF TakeSlot, JobPc, SlotHolders
<1>1. /\ Asked(t)' /\ job'[t].pc = "lock"
      /\ \A u \in Tasks \ {t} : job'[u] = job[u] /\ cancel'[u] = cancel[u]
      /\ \A r \in Runs : At(r)' => At(r)
  BY <1>0, MovesLock
<1>2. (\A u \in Tasks : Asked(u)') /\ (\A r \in Runs : Held(r)')
  <2>1. job[t].pc \notin Active
    BY <1>0 DEF Active, Queueing
  <2> QED BY <1>1, <2>1, OthersLocked
<1>3. /\ HoldsSlot(t)' /\ ~HoldsSlot(t)
      /\ \A u \in Tasks \ {t} : HoldsSlot(u)' <=> HoldsSlot(u)
      /\ \A u \in Tasks : HoldsWorkspace(u)' <=> HoldsWorkspace(u)
  BY <1>0, <1>1 DEF HoldsSlot, HoldsWorkspace
<1>4. SlotHolders' = SlotHolders \cup {t} /\ t \notin SlotHolders
  BY <1>3 DEF SlotHolders
<1>5. /\ IsFiniteSet(SlotHolders) /\ Cardinality(SlotHolders) \in Nat
      /\ \A u, v \in Tasks : HoldsWorkspace(u) /\ HoldsWorkspace(v)
                             /\ Workspace[u] = Workspace[v] => u = v
  BY FS_CardinalityType DEF LockInv, Exclusive
<1>6. /\ IsFiniteSet(SlotHolders')
      /\ Cardinality(SlotHolders') = Cardinality(SlotHolders) + 1
  BY <1>4, <1>5, FS_AddElement
<1>7. Cardinality(SlotHolders') <= Slots
  BY <1>0, <1>5, <1>6, SlotsAssumption
<1>8. Exclusive'
  BY <1>3, <1>5, <1>6, <1>7 DEF Exclusive
<1> QED BY <1>2, <1>8 DEF LockInv

\* A job that is over, and has let go of its worker.
LEMMA GoneLocked ==
    ASSUME IInvParts, Next, LockInv, NEW t \in Tasks,
           job' = [job EXCEPT ![t] = Idle], cancel' = cancel,
           cancel[t] = "none" \/ IsTerminal(t),
           \A r \in Runs : At(r)' => At(r),
           job[t].pc \in Active => \A r \in Runs : r = job[t].run => ~At(r)'
    PROVE  LockInv'
<1>1. job'[t] = Idle /\ \A u \in Tasks \ {t} : job'[u] = job[u]
  BY DEF IInvParts, TypeControl
<1>2. IsTerminal(t) => IsTerminal(t)'
  BY StepKeeps
<1>3. Asked(t)'
  BY <1>1, <1>2 DEF Asked
<1>4. ~HoldsSlot(t)' /\ ~HoldsWorkspace(t)'
  BY <1>1 DEF HoldsSlot, HoldsWorkspace, Idle
<1> QED BY <1>1, <1>3, <1>4, StepLocked

\* A step that leaves every job where it is and takes up no worker but that of
\* the run of t.
LEMMA StillLocked ==
    ASSUME IInvParts, Next, LockInv, NEW t \in Tasks, job' = job,
           \A u \in Tasks \ {t} : cancel'[u] = cancel[u],
           cancel'[t] # "none" => \/ cancel[t] # "none"
                                  \/ job[t].pc \in Active,
           \A r \in Runs :
              At(r)' => At(r) \/ (job[t].pc \in Active /\ r = job[t].run)
    PROVE  LockInv'
<1>1. Asked(t)
  BY DEF LockInv
<1>2. IsTerminal(t) => IsTerminal(t)'
  BY StepKeeps
<1>3. Asked(t)'
  BY <1>1, <1>2 DEF Asked
<1>4. /\ HoldsSlot(t)' => HoldsSlot(t)
      /\ HoldsWorkspace(t)' => HoldsWorkspace(t)
  BY DEF HoldsSlot, HoldsWorkspace
<1> QED BY <1>3, <1>4, StepLocked

\* Such a step that leaves the streams alone.
LEMMA KeptLocked ==
    ASSUME IInvParts, Next, LockInv, NEW t \in Tasks, job' = job,
           stream' = stream, \A u \in Tasks \ {t} : cancel'[u] = cancel[u],
           \/ cancel'[t] \in {cancel[t], "none"}
           \/ job[t].pc \in Active
    PROVE  LockInv'
<1>1. \A r \in Runs : At(r)' => At(r)
  BY DEF At
<1>2. cancel'[t] # "none" => \/ cancel[t] # "none"
                             \/ job[t].pc \in Active
  OBVIOUS
<1> QED BY <1>1, <1>2, StillLocked

\* A job that has its slot and goes on with its worker.
LEMMA ActsLocked ==
    ASSUME IInvParts, Next, LockInv, NEW t \in Tasks,
           cancel' = cancel, job'[t].pc \in Active, HoldsSlot(t),
           \A u \in Tasks \ {t} : job'[u] = job[u],
           job[t].pc \in Active => job'[t].run = job[t].run,
           \/ stream' = stream
           \/ /\ job[t].pc \in Active
              /\ \E s : stream' = [stream EXCEPT ![job[t].run] = s]
    PROVE  LockInv'
<1>1. Asked(t)'
  BY DEF Asked
<1>2. HoldsWorkspace(t)
  BY DEF HoldsSlot, HoldsWorkspace
<1>3. \A r \in Runs : At(r)' => At(r) \/ (job[t].pc \in Active /\ r = job[t].run)
  BY DEF At, IInvParts, TypeControl
<1> QED BY <1>1, <1>2, <1>3, StepLocked

\* The end of a handler of a job, or of the process.
LEMMA LeavesLocked ==
    ASSUME IInvParts, Next, LockInv, NEW t \in Tasks, NEW k, NEW n, HoldsSlot(t),
           LeavesAfter(t, k, n)
    PROVE  LockInv'
<1>1. CASE k = n
  <2>1. Goto(t, "closing") /\ UNCHANGED <<stream, cancel>>
    BY <1>1 DEF LeavesAfter
  <2>2. /\ job'[t].pc \in Active /\ job'[t].run = job[t].run
        /\ \A u \in Tasks \ {t} : job'[u] = job[u]
    BY <2>1 DEF Goto, IInvParts, TypeControl, Active, JobPc, Queueing
  <2> QED BY <2>1, <2>2, ActsLocked
<1>2. CASE k # n
  BY <1>2, DieLocks DEF LeavesAfter, IInvParts
<1> QED BY <1>1, <1>2

\* Submitting a task, and a dispatch that cannot resolve it.
LEMMA SubmitLocked ==
    ASSUME IInvParts, Next, LockInv, NEW t \in Tasks, Submit(t)
    PROVE  LockInv'
<1>1. /\ job[t].pc = "none" /\ Goto(t, "waiting") /\ UNCHANGED <<stream, cancel>>
  BY DEF Submit
<1>2. /\ job'[t].pc = "waiting"
      /\ \A u \in Tasks \ {t} : job'[u] = job[u]
  BY <1>1 DEF Goto, IInvParts, TypeControl
<1>3. Asked(t) /\ job[t].pc \notin Active
  BY <1>1 DEF LockInv, Active
<1>4. IsTerminal(t) => IsTerminal(t)'
  BY StepKeeps
<1>5. Asked(t)'
  BY <1>1, <1>3, <1>4 DEF Asked
<1>6. ~HoldsSlot(t)' /\ ~HoldsWorkspace(t)'
  BY <1>2 DEF HoldsSlot, HoldsWorkspace
<1>7. \A r \in Runs : At(r)' => At(r)
  BY <1>1 DEF At
<1> QED BY <1>1, <1>2, <1>3, <1>5, <1>6, <1>7, StepLocked

\* A job that gives up before the lock leaves the workspaces alone.
LEMMA ResolveFailsLocked ==
    ASSUME IInvParts, Next, LockInv, NEW t \in Tasks, NEW k \in 0..3,
           ResolveFails(t, k)
    PROVE  LockInv'
<1>1. CASE k = 3
  <2>1. /\ job' = [job EXCEPT ![t] = Idle] /\ UNCHANGED <<stream, cancel>>
        /\ cancel[t] = "none" /\ job[t].pc \notin Active
    BY <1>1 DEF ResolveFails, Active, Queueing
  <2>2. \A r \in Runs : At(r)' => At(r)
    BY <2>1 DEF At
  <2> QED BY <2>1, <2>2, GoneLocked
<1>2. CASE k # 3
  BY <1>2, DieLocks DEF ResolveFails, IInvParts
<1> QED BY <1>1, <1>2

\* The job under the task lock.
LEMMA BeginLocked ==
    ASSUME IInvParts, Next, LockInv, NEW t \in Tasks, NEW k \in 0..2, Begin(t, k)
    PROVE  LockInv'
<1>0. HoldsSlot(t) /\ cancel[t] = "none" /\ job[t].pc \notin Active
  BY DEF Begin, HoldsSlot, Active, Queueing
<1>1. CASE job' = [job EXCEPT ![t] = Idle]
           /\ UNCHANGED <<ledger, todo, stream, cancel>> /\ Alive
  <2>1. \A r \in Runs : At(r)' => At(r)
    BY <1>1 DEF At
  <2> QED BY <1>0, <1>1, <2>1, GoneLocked
<1>2. CASE Moves(t, "open")
  BY <1>0, <1>2, MovesLocked DEF Active, JobPc, Queueing
<1>3. ASSUME NEW r \in Runs,
             job' = [job EXCEPT ![t].pc = "open", ![t].run = r],
             UNCHANGED <<todo, stream, cancel>> /\ Alive
      PROVE  LockInv'
  <2>1. /\ job'[t].pc = "open"
        /\ \A u \in Tasks \ {t} : job'[u] = job[u]
    BY <1>3 DEF IInvParts, TypeControl
  <2>2. job'[t].pc \in Active
    BY <2>1 DEF Active, JobPc, Queueing
  <2> QED BY <1>0, <1>3, <2>1, <2>2, ActsLocked
<1>4. CASE Die
  BY <1>4, DieLocks DEF IInvParts
<1> QED BY <1>1, <1>2, <1>3, <1>4 DEF Begin

\* The job with its worker.
LEMMA WorkingLocked ==
    ASSUME IInvParts, Next, LockInv, NEW t \in Tasks,
           \/ Open(t) \/ OpenFails(t) \/ Proceed(t) \/ JobCancelAnswer(t)
           \/ Fetch(t) \/ StreamEnds(t) \/ Close(t)
    PROVE  LockInv'
<1>1. job[t].pc \in Active /\ HoldsSlot(t)
  BY DEF Open, OpenFails, Proceed, JobCancelAnswer, Fetch, StreamEnds, Close,
         Active, JobPc, Queueing, HoldsSlot
<1>2. job[t].run \in Runs
  BY <1>1, ActiveJob
<1> DEFINE On(p) == Goto(t, p) /\ UNCHANGED cancel
<1>3. ASSUME NEW p \in Active, On(p),
             \E s : stream' = [stream EXCEPT ![job[t].run] = s]
      PROVE  LockInv'
  <2>1. /\ job'[t].pc = p /\ job'[t].run = job[t].run
        /\ \A u \in Tasks \ {t} : job'[u] = job[u]
    BY <1>3 DEF Goto, IInvParts, TypeControl
  <2> QED BY <1>1, <1>3, <2>1, ActsLocked
<1>4. ASSUME NEW p \in JobPc \ {"none", "waiting", "slot", "lock"}, Moves(t, p)
      PROVE  LockInv'
  BY <1>1, <1>4, MovesLocked DEF Active, Queueing
<1>5. CASE Open(t)
  <2>1. /\ On("started") /\ stream' = [stream EXCEPT ![job[t].run] = "open"]
        /\ "started" \in Active
    BY <1>5 DEF Open, Active, JobPc, Queueing
  <2> HIDE DEF On
  <2> QED BY <1>3, <2>1
<1>6. CASE OpenFails(t)
  <2>1. /\ On("failing") /\ "failing" \in Active
        /\ \E s : stream' = [stream EXCEPT ![job[t].run] = s]
    BY <1>6 DEF OpenFails, Active, JobPc, Queueing
  <2> HIDE DEF On
  <2> QED BY <1>3, <2>1
<1>7. CASE Proceed(t) \/ StreamEnds(t)
  BY <1>4, <1>7 DEF Proceed, StreamEnds, JobPc
<1>8. CASE JobCancelAnswer(t)
  <2>1. CASE Moves(t, "failing")
    BY <1>4, <2>1 DEF JobPc
  <2>2. CASE ~Moves(t, "failing")
    <3>1. /\ On("stopped") /\ stream' = [stream EXCEPT ![job[t].run] = "cancelled"]
          /\ "stopped" \in Active
      BY <1>8, <2>2 DEF JobCancelAnswer, Active, JobPc, Queueing
    <3> HIDE DEF On
    <3> QED BY <1>3, <3>1
  <2> QED BY <2>1, <2>2
<1>9. CASE Fetch(t)
  <2>1. /\ job'[t].pc = "ingest" /\ job'[t].run = job[t].run
        /\ \A u \in Tasks \ {t} : job'[u] = job[u]
        /\ stream' = [stream EXCEPT ![job[t].run] = "ended"]
        /\ UNCHANGED cancel
    BY <1>9 DEF Fetch, IInvParts, TypeControl
  <2>2. job'[t].pc \in Active
    BY <2>1 DEF Active, JobPc, Queueing
  <2> QED BY <1>1, <2>1, <2>2, ActsLocked
<1>10. CASE Close(t)
  <2>1. IsTerminal(t)
    BY <1>10 DEF Close, IInvParts, ControlInv, JobOK
  <2>2. /\ job' = [job EXCEPT ![t] = Idle] /\ UNCHANGED cancel
        /\ \E now \in {"ended", "stray"} : stream' = [stream EXCEPT ![job[t].run] = now]
    BY <1>10 DEF Close
  <2>3. /\ \A r \in Runs : r = job[t].run => ~At(r)'
        /\ \A r \in Runs : At(r)' => At(r)
    BY <1>2, <2>2 DEF At, IInvParts, TypeControl
  <2> QED BY <2>1, <2>2, <2>3, GoneLocked
<1> QED BY <1>5, <1>6, <1>7, <1>8, <1>9, <1>10

\* A job that ends lets go of its workspace, or dies with it.
LEMMA JobEndsLocked ==
    ASSUME IInvParts, Next, LockInv, NEW t \in Tasks, NEW k \in 0..5,
           JobCancelled(t, k) \/ Ingest(t, k) \/ Fail(t, k)
    PROVE  LockInv'
<1>1. HoldsSlot(t)
  BY DEF JobCancelled, Ingest, Fail, HoldsSlot
<1>2. CASE Moves(t, "events")
  BY <1>1, <1>2, MovesLocked DEF Active, JobPc, Queueing
<1>3. CASE LeavesAfter(t, k, 3) \/ LeavesAfter(t, k, 5)
  BY <1>1, <1>3, LeavesLocked
<1> QED BY <1>2, <1>3 DEF JobCancelled, Ingest, Fail

\* Cancelling a task.
LEMMA CancelLocked ==
    ASSUME IInvParts, Next, LockInv, NEW t \in Tasks, NEW k \in 0..3,
           Cancel(t, k) \/ CancelConfirmed(t, k) \/ CancelAnswer(t)
    PROVE  LockInv'
<1>1. CASE Cancel(t, k)
  <2>1. CASE Die
    BY <2>1, DieLocks DEF IInvParts
  <2>2. CASE UNCHANGED <<todo, job, stream, cancel>> /\ Alive
    BY <2>2, KeptLocked
  <2>3. CASE /\ cancel' = [cancel EXCEPT ![t] =
                            IF Registered(t) THEN "asking" ELSE "none"]
             /\ UNCHANGED <<run, event, final, todo, job, stream>> /\ Alive
    <3>1. cancel'[t] # "none" => job[t].pc \in Active
      BY <2>3 DEF Registered, Active, Queueing, IInvParts, TypeControl
    <3>2. \A u \in Tasks \ {t} : cancel'[u] = cancel[u]
      BY <2>3 DEF IInvParts, TypeControl
    <3>3. job' = job /\ stream' = stream
      BY <2>3
    <3>4. cancel'[t] = "none" \/ job[t].pc \in Active
      BY <3>1
    <3> QED BY <3>2, <3>3, <3>4, KeptLocked
  <2> QED BY <1>1, <2>1, <2>2, <2>3 DEF Cancel
<1>2. CASE CancelConfirmed(t, k)
  <2>1. CASE k = 3
    <3>1. /\ cancel' = [cancel EXCEPT ![t] = "none"]
          /\ UNCHANGED <<todo, job, stream>> /\ Alive
      BY <1>2, <2>1 DEF CancelConfirmed
    <3>2. cancel'[t] = "none" /\ \A u \in Tasks \ {t} : cancel'[u] = cancel[u]
      BY <3>1 DEF IInvParts, TypeControl
    <3> QED BY <3>1, <3>2, KeptLocked
  <2>2. CASE k # 3
    BY <1>2, <2>2, DieLocks DEF CancelConfirmed, IInvParts
  <2> QED BY <2>1, <2>2
<1>3. CASE CancelAnswer(t)
  <2>1. cancel[t] = "asking" /\ job' = job
    BY <1>3 DEF CancelAnswer
  <2>2. \A u \in Tasks \ {t} : cancel'[u] = cancel[u]
    BY <1>3 DEF CancelAnswer, IInvParts, TypeControl
  <2>3. ASSUME ~IsTerminal(t)
        PROVE  job[t].pc \in Active /\ task[t].run = job[t].run /\ task[t].run \in Runs
    <3>1. job[t].pc \in Active
      BY <2>1, <2>3 DEF LockInv, Asked
    <3>2. job[t].run \in Runs /\ Present(job[t].run) /\ run[job[t].run].task = t
      BY <3>1, ActiveJob
    <3>3. task[t].run = job[t].run
      BY <2>3, <3>2 DEF IInvParts, RecordInv, KnownRun
    <3> QED BY <3>1, <3>2, <3>3
  <2>4. \A r \in Runs : At(r)' => At(r) \/ (job[t].pc \in Active /\ r = job[t].run)
    <3>1. CASE stream' = stream
      BY <3>1 DEF At
    <3>2. CASE ~IsTerminal(t) /\ stream' = [stream EXCEPT ![task[t].run] = "cancelled"]
      BY <2>3, <3>2 DEF At, IInvParts, TypeControl
    <3>3. CASE stream' = [r \in Runs |-> IF r = task[t].run /\ stream[r] = "open"
                                        THEN "deaf" ELSE stream[r]]
      BY <3>3 DEF At
    <3> QED BY <1>3, <3>1, <3>2, <3>3 DEF CancelAnswer
  <2> QED BY <2>1, <2>2, <2>4, StillLocked
<1> QED BY <1>1, <1>2, <1>3

\* The worker's own end, and the end of the process.
LEMMA WorkerLocked ==
    ASSUME IInvParts, Next, LockInv,
           (\E r \in Runs : WorkerEnds(r)) \/ Crash \/ Restart \/ Started
    PROVE  LockInv'
<1>1. CASE Crash
  BY <1>1, DieLocks DEF Crash, IInvParts
<1>2. CASE (\E r \in Runs : WorkerEnds(r)) \/ Restart \/ Started
  <2>1. UNCHANGED <<ledger, job, cancel>>
    BY <1>2 DEF WorkerEnds, Restart, Started
  <2>2. \A r \in Runs : At(r)' => At(r)
    <3>1. CASE \E r \in Runs : WorkerEnds(r)
      <4>1. PICK q \in Runs : WorkerEnds(q)
        BY <3>1
      <4>2. At(q) /\ \A r \in Runs \ {q} : stream'[r] = stream[r]
        BY <4>1 DEF WorkerEnds, At, IInvParts, TypeControl
      <4> QED BY <4>2 DEF At
    <3>2. CASE Restart \/ Started
      BY <3>2 DEF Restart, Started, At
    <3> QED BY <1>2, <3>1, <3>2
  <2>3. \A t \in Tasks : Asked(t)'
    BY <2>1 DEF LockInv, Asked, IsTerminal, ledger
  <2>4. \A r \in Runs : Held(r)'
    BY <2>1, <2>2, HeldSame
  <2>5. Exclusive'
    BY <2>1, ReleaseKept DEF LockInv, HoldsSlot, HoldsWorkspace
  <2> QED BY <2>3, <2>4, <2>5 DEF LockInv
<1> QED BY <1>1, <1>2

\* Recovery.
LEMMA RecoverEventLocked ==
    ASSUME IInvParts, Next, LockInv, NEW r \in Runs, NEW k \in 0..4,
           RecoverEvent(r, k)
    PROVE  LockInv'
<1>1. CASE k = 4
  <2>1. UNCHANGED <<job, stream, cancel>>
    BY <1>1 DEF RecoverEvent
  <2>2. \A t \in Tasks : IsTerminal(t) => IsTerminal(t)'
    BY StepKeeps
  <2>3. \A t \in Tasks : Asked(t)'
    BY <2>1, <2>2 DEF LockInv, Asked
  <2>4. \A q \in Runs : Held(q)'
    <3>1. \A q \in Runs : At(q)' => At(q)
      BY <2>1 DEF At
    <3> QED BY <2>1, <3>1, HeldSame
  <2>5. Exclusive'
    BY <2>1, ReleaseKept DEF LockInv, HoldsSlot, HoldsWorkspace
  <2> QED BY <2>3, <2>4, <2>5 DEF LockInv
<1>2. CASE k # 4
  BY <1>2, DieLocks DEF RecoverEvent, IInvParts
<1> QED BY <1>1, <1>2

\* Recovery takes no workspace.
LEMMA RecoverTaskLocked ==
    ASSUME IInvParts, Next, LockInv, NEW t \in Tasks, NEW k \in 0..3,
           RecoverTask(t, k)
    PROVE  LockInv'
<1>0. job[t].pc \in {"none", "waiting"} /\ cancel[t] = "none"
  BY DEF RecoverTask, IInvParts, ControlInv, JobOK, ControlOK
<1>1. CASE Die
  BY <1>1, DieLocks DEF IInvParts
<1>2. CASE UNCHANGED <<job, stream, cancel>> /\ Alive
  BY <1>2, KeptLocked
<1>3. CASE /\ task[t].status = "queued" \/ CanResume(t)
           /\ job' = [job EXCEPT ![t] = [pc |-> "waiting", run |-> task[t].run,
                                         resumed |-> CanResume(t),
                                         done |-> "none"]]
           /\ UNCHANGED <<ledger, stream, cancel>> /\ Alive
  <2>1. /\ job'[t].pc = "waiting"
        /\ \A u \in Tasks \ {t} : job'[u] = job[u]
    BY <1>3 DEF IInvParts, TypeControl
  <2>2. job[t].pc \notin Active
    BY <1>0 DEF Active, Queueing
  <2>3. UNCHANGED cancel /\ \A r \in Runs : At(r)' => At(r)
    BY <1>3 DEF At
  <2>4. Asked(t)'
    BY <1>0, <2>3 DEF Asked
  <2>5. ~HoldsSlot(t)' /\ ~HoldsWorkspace(t)'
    BY <2>1 DEF HoldsSlot, HoldsWorkspace
  <2> QED BY <2>1, <2>2, <2>3, <2>4, <2>5, StepLocked
<1> QED BY <1>1, <1>2, <1>3 DEF RecoverTask

\* Every step keeps workspaces and slots exclusive.
LEMMA NextLocked == ASSUME IInvParts, LockInv, Next PROVE LockInv'
<1>1. ASSUME NEW t \in Tasks, DispatchStep(t) PROVE LockInv'
  <2>1. CASE TakeWorkspace(t) \/ TakeSlot(t)
    BY <2>1, TakeWorkspaceLocked, TakeSlotLocked
  <2>2. CASE \/ Open(t) \/ OpenFails(t) \/ Proceed(t) \/ JobCancelAnswer(t)
             \/ Fetch(t) \/ StreamEnds(t) \/ Close(t)
    BY <2>2, WorkingLocked
  <2>3. CASE (\E k \in 0..3 : ResolveFails(t, k)) \/ (\E k \in 0..2 : Begin(t, k))
    BY <2>3, ResolveFailsLocked, BeginLocked
  <2>4. ASSUME NEW k \in 0..3, JobCancelled(t, k) \/ Fail(t, k) PROVE LockInv'
    <3>1. k \in 0..5
      OBVIOUS
    <3> QED BY <2>4, <3>1, JobEndsLocked
  <2>5. CASE \E k \in 0..5 : Ingest(t, k)
    BY <2>5, JobEndsLocked
  <2> QED BY <1>1, <2>1, <2>2, <2>3, <2>4, <2>5 DEF DispatchStep
<1>2. ASSUME NEW t \in Tasks, CancelStep(t) PROVE LockInv'
  <2>1. 0 \in 0..3
    OBVIOUS
  <2> QED BY <1>2, <2>1, CancelLocked DEF CancelStep
<1>3. ASSUME NEW t \in Tasks, NEW k \in 0..3, Cancel(t, k) PROVE LockInv'
  BY <1>3, CancelLocked
<1>4. CASE Recovery
  BY <1>4, RecoverEventLocked, RecoverTaskLocked, WorkerLocked DEF Recovery
<1> QED BY <1>1, <1>2, <1>3, <1>4, SubmitLocked, WorkerLocked DEF Next

\* Two runs in one workspace work at the same time only when the start or the
\* close of one of them failed, whatever was cancelled, failed or resumed after
\* a crash; and never more than the provider's parallel projects beside those.
THEOREM WorkspacesExclusive == Spec => []WorkspaceExclusive
<1>1. Init => LockInv
  <2> SUFFICES ASSUME Init PROVE LockInv
    OBVIOUS
  <2>1. (\A t \in Tasks : Asked(t)) /\ (\A r \in Runs : Held(r))
    BY DEF Init, Asked, Held, At
  <2>2. SlotHolders = {} /\ \A t \in Tasks : ~HoldsWorkspace(t)
    BY DEF Init, SlotHolders, HoldsSlot, HoldsWorkspace, Idle
  <2>3. Exclusive
    BY <2>2, FS_EmptySet, SlotsAssumption DEF Exclusive
  <2> QED BY <2>1, <2>3 DEF LockInv
<1>2. IInv /\ LockInv /\ [Next]_vars => LockInv'
  <2> SUFFICES ASSUME IInvParts, LockInv, [Next]_vars PROVE LockInv'
    BY Parts
  <2>1. CASE Next
    BY <2>1, NextLocked
  <2>2. CASE UNCHANGED vars
    BY <2>2 DEF vars, ledger, LockInv, Asked, Held, At, Exclusive, SlotHolders,
                HoldsSlot, HoldsWorkspace, IsTerminal
  <2> QED BY <2>1, <2>2
<1>3. IInv /\ LockInv => WorkspaceExclusive
  <2> SUFFICES ASSUME IInvParts, LockInv PROVE WorkspaceExclusive
    BY Parts
  <2> DEFINE Listened == {r \in Runs : At(r)}
             f == [r \in Listened |-> run[r].task]
  <2>1. ASSUME NEW r \in Listened
        PROVE  /\ f[r] \in Tasks /\ f[r] = run[r].task /\ job[f[r]].run = r
               /\ HoldsSlot(f[r]) /\ HoldsWorkspace(f[r])
    <3>1. run[r].task \in Tasks /\ job[run[r].task].pc \in Active
          /\ job[run[r].task].run = r
      BY <2>1 DEF LockInv, Held
    <3> QED BY <3>1 DEF HoldsSlot, HoldsWorkspace, Active, Queueing
  <2>2. \A q, r \in Listened : f[q] = f[r] => q = r
    <3> SUFFICES ASSUME NEW q \in Listened, NEW r \in Listened, f[q] = f[r]
                 PROVE  q = r
      OBVIOUS
    <3>1. job[f[q]].run = q /\ job[f[r]].run = r
      BY <2>1
    <3> QED BY <3>1
  <2>3. f \in [Listened -> SlotHolders]
    BY <2>1 DEF SlotHolders
  <2>4. {r \in AtWork : stream[r] # "stray"} = Listened
    BY DEF AtWork, At
  <2>5. \A q, r \in Listened : Workspace[run[q].task] = Workspace[run[r].task] => q = r
    <3> SUFFICES ASSUME NEW q \in Listened, NEW r \in Listened,
                        Workspace[run[q].task] = Workspace[run[r].task]
                 PROVE  q = r
      OBVIOUS
    <3>1. f[q] = f[r]
      BY <2>1 DEF LockInv, Exclusive
    <3> QED BY <2>2, <3>1
  <2> HIDE DEF f, Listened
  <2>6. Cardinality(Listened) <= Slots
    <3>1. f \in Injection(Listened, SlotHolders)
      BY <2>2, <2>3, Fun_IsInj
    <3>2. IsFiniteSet(SlotHolders) /\ Cardinality(SlotHolders) <= Slots
      BY DEF LockInv, Exclusive
    <3>3. /\ IsFiniteSet(Listened)
          /\ Cardinality(Listened) <= Cardinality(SlotHolders)
      BY <3>1, <3>2, FS_Injection
    <3>4. Cardinality(Listened) \in Nat /\ Cardinality(SlotHolders) \in Nat
      BY <3>2, <3>3, FS_CardinalityType
    <3> QED BY <3>2, <3>3, <3>4, SlotsAssumption
  <2>7. ASSUME NEW q \in AtWork, NEW r \in AtWork, q # r,
               Workspace[run[q].task] = Workspace[run[r].task]
        PROVE  "stray" \in {stream[q], stream[r]}
    BY <2>4, <2>5, <2>7
  <2> QED BY <2>4, <2>6, <2>7 DEF WorkspaceExclusive
<1> QED BY <1>1, <1>2, <1>3, Invariance, PTL DEF Spec
=============================================================================
