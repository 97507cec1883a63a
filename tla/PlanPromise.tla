----------------------------- MODULE PlanPromise -----------------------------
(***************************************************************************)
(* What the gateway promises of the plans of its coordinator: that each    *)
(* update reaches the worker it was meant for, once, and that the queue of *)
(* the owner stays within its limit.  With the part of the state that this *)
(* speaks of; Plans says how these variables change.                       *)
(***************************************************************************)
EXTENDS Integers, Sequences, SequencesExt, FiniteSets, SeqOrder

CONSTANTS
    MaxRequests,   \* requests of the owner
    MaxPlan,       \* commands of a plan
    MaxQueued      \* max_queued_tasks_per_owner

VARIABLES
    planned,   \* planned[t]: [op, status, text, run, left], in order of creation:
               \* the operation of a task, its record, and its dispatch job
    outbox,    \* provider commands [op, task, state], by time of last update
    given,     \* given[t]: the updates the worker of t was handed, in order
    awaits,    \* calls of run.send in progress: [by, op, task, taken]
    planUp,    \* the process lives
    planCrashes

Queued == { t \in DOMAIN planned : planned[t].status = "queued" }

\* An update that the gateway has accepted is not stranded in the outbox: a
\* command that waits will be replayed to its run, and one that is being sent
\* is in somebody's hands (gateway.py:3597-3603, 3975-3978).
NoneStranded ==
    planUp => \A c \in ToSet(outbox) :
                /\ (c.state = "pending") =>
                     \/ planned[c.task].run = "opening"
                     \/ c.op \in ToSet(planned[c.task].left)
                /\ (c.state = "sending") =>
                     \E a \in awaits : a.op = c.op /\ a.task = c.task

\* The queue of the owner stays within its limit, over plans that failed half
\* way and plans carried out again (gateway.py:2414-2429).
QueueBounded == Cardinality(Queued) <= MaxQueued

\* No instruction holds an update twice, however often its plan is carried
\* out.  No worker is handed one twice, and none goes to two tasks, but for a
\* plan that was in hand when the process died: a command of it that was noted
\* in a queued task finds the task running (supervision.py:643-666,
\* gateway.py:3564-3583).
Homes(op) == { t \in DOMAIN planned : op \in ToSet(planned[t].text) \union ToSet(given[t]) }
Again == { op \in (1 .. MaxRequests) \X (1 .. MaxPlan) :
             \/ \E t, u \in Homes(op) : t # u
             \/ \E t \in DOMAIN planned : Before(given[t], op, op) }
TaughtOnce ==
    /\ \A t \in DOMAIN planned : \A op \in ToSet(planned[t].text) :
           ~ Before(planned[t].text, op, op)
    /\ Cardinality(Again) <= planCrashes * MaxPlan

\* What the gateway makes of its coordinator's plans (gateway.py:2245-2306).
PlansCarried == NoneStranded /\ QueueBounded /\ TaughtOnce
=============================================================================
