------------------------------- MODULE MCTasks -------------------------------
(***************************************************************************)
(* A task of the gateway: its scheduling and recovery (TaskLifecycle), and *)
(* around it the tools that name and control it (TaskControl), the plans   *)
(* of the coordinator that act on it (Plans), the progress its worker      *)
(* reports (Supervision), and the tools the worker pulls with              *)
(* (WorkerTools, ContextTools).  The six share no variable here; every     *)
(* behaviour explored is one of one of them.                               *)
(***************************************************************************)
EXTENDS TaskLifecycle, ProgressPromise, ToolPromise, NamePromise, PlanPromise,
        ContextPromise

CONSTANTS t1, t2, w1, w2,
          Stems, MaxTasks, MaxMain, MaxBatch, MaxAsks,
          MaxReports, MaxRevisions, QueueSize,
          MaxCalls, MaxBinds, CacheSize,
          MaxWrites, Limit, MaxChars, HitChars

VARIABLES part

VARIABLES over, receipts, hand, standing

VARIABLES marks, inHand, told

VARIABLES lean, reports, queue, putting, log, timers, ending, supUp

VARIABLES bound, binds, cache, shares

VARIABLES stored, pruned, writes, active

\* Both tasks in one workspace: the resource lock keeps them apart.
SharedWorkspace == [t \in Tasks |-> w1]

\* A contract subscribes the milestone under a condition, or for once.
Contract(condition, once) ==
    [subscribed |-> TRUE, condition |-> condition, once |-> once,
     milestone |-> TRUE, aggregate |-> TRUE, final |-> TRUE, window |-> TRUE]
Contracts == {Contract(TRUE, FALSE), Contract(FALSE, TRUE)}

\* Two requests of a worker share an id and differ in what they ask.
Asked3 == {[id |-> 1, tool |-> "share", args |-> 1],
           [id |-> 1, tool |-> "share", args |-> 2],
           [id |-> 2, tool |-> "fetch", args |-> 1]}

\* Of two tasks of a lineage and one of another: a turn id heard in two voice
\* sessions, turns of both tasks at one time, tasks that are updated, realtime
\* events of both sessions.
R(id, kind, of, sess, at, len) ==
    [id |-> id, kind |-> kind, of |-> of, sess |-> sess, at |-> at, len |-> len]
Held == {R(0, "turn", 1, 1, 0, 1), R(1, "realtime", 1, 1, 0, 1),
         R(2, "realtime", 1, 1, 1, 3), R(3, "realtime", 2, 1, 2, 1),
         R(4, "turn", 1, 1, 0, 2), R(4, "turn", 2, 2, 1, 1),
         R(5, "task", 1, 1, 2, 1), R(9, "task", 2, 2, 1, 1),
         R(10, "turn", 2, 2, 0, 1)}
Written == Held \cup
        {R(0, "turn", 2, 2, 3, 1), R(5, "task", 1, 1, 3, 1), R(6, "event", 1, 1, 4, 2),
         R(7, "event", 3, 3, 5, 1), R(8, "realtime", 2, 2, 4, 1),
         R(9, "task", 2, 2, 6, 1)}
Heard == << 1, 2, 3 >>

Controlled == INSTANCE TaskControl
Carried == INSTANCE Plans WITH
    hand <- inHand, MaxTasks <- 2, MaxCrashes <- 1
Watched == INSTANCE Supervision WITH
    Bodies <- Contracts, over <- ending, up <- supUp, MaxCrashes <- 1
Pulled == INSTANCE WorkerTools WITH Requests <- Asked3
Looked == INSTANCE ContextTools WITH
    Records <- Written, Initial <- Held, Lineage <- {1, 2}, Own <- 2,
    Session <- Heard

ASSUME InstancesAssumption ==
    /\ Controlled!TaskControlAssumption /\ Carried!PlansAssumption /\ Watched!SupervisionAssumption
    /\ Pulled!WorkerToolsAssumption /\ Looked!ContextAssumption

controlVars == << tasks, ended, late, over, undelivered, receipts, hand, standing >>
planVars == << planned, outbox, marks, given, awaits, inHand, told, planUp,
               planCrashes >>
supVars == << lean, contracts, reports, queue, putting, log, aggs, timers, said,
              ending, pc, supUp, deaths >>
toolVars == << bound, binds, calls, jobs, cache, shares >>
contextVars == << stored, pruned, writes, active, fetch, first, seen, memory >>

\* Supervision starts in several states, which the others need only once; a lean
\* gateway hardly looks at the contract.
MCInit ==
    /\ part \in {"lifecycle", "control", "plans", "supervision", "tools", "context"}
    /\ Init /\ Controlled!Init /\ Carried!Init /\ Watched!Init /\ Pulled!Init /\ Looked!Init
    /\ part # "supervision" => lean
    /\ lean => contracts = << Contract(TRUE, FALSE) >>

MCNext ==
    /\ UNCHANGED part
    /\ \/ /\ part = "lifecycle" /\ Next
          /\ UNCHANGED << controlVars, planVars, supVars, toolVars, contextVars >>
       \/ /\ part = "control" /\ Controlled!Next
          /\ UNCHANGED << vars, planVars, supVars, toolVars, contextVars >>
       \/ /\ part = "plans" /\ Carried!Next
          /\ UNCHANGED << vars, controlVars, supVars, toolVars, contextVars >>
       \/ /\ part = "supervision" /\ Watched!Next
          /\ UNCHANGED << vars, controlVars, planVars, toolVars, contextVars >>
       \/ /\ part = "tools" /\ Pulled!Next
          /\ UNCHANGED << vars, controlVars, planVars, supVars, contextVars >>
       \/ /\ part = "context" /\ Looked!Next
          /\ UNCHANGED << vars, controlVars, planVars, supVars, toolVars >>

MCSpec == MCInit /\ [][MCNext]_<< part, vars, controlVars, planVars, supVars,
                                  toolVars, contextVars >>
=============================================================================
