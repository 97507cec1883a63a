-------------------------- MODULE ProgressPromise --------------------------
(***************************************************************************)
(* What the gateway promises of the progress of a task, and the part of    *)
(* the state that it speaks of.  Supervision says how these variables      *)
(* change.                                                                 *)
(***************************************************************************)
EXTENDS Integers, Sequences, FiniteSets, Functions

VARIABLES
    contracts,  \* the revisions of the task's contract, oldest first
    aggs,       \* the activity aggregates: [rev, events, state]
    said,       \* the deliveries: [key, topic, events], in order of creation
    pc,         \* what the gateway is at: [at, event, agg]
    deaths      \* how often the process died

\* No report is told twice or gathered twice, however often recovery reduces
\* it, and, without a crash, nothing that was gathered is lost between the
\* commit that flushes an aggregate and the one that enqueues it
\* (supervision.py:1081-1132, gateway.py:4228-4296).
ProgressToldOnce ==
    /\ \A i, j \in DOMAIN said :
         (i # j) => (said[i].events \intersect said[j].events = {})
    /\ \A a \in DOMAIN aggs : Cardinality(Range(aggs[a].events)) = Len(aggs[a].events)
    /\ \A a, b \in DOMAIN aggs :
         (a # b) => (Range(aggs[a].events) \intersect Range(aggs[b].events) = {})
    /\ (deaths = 0 /\ pc.at = "idle") =>
         \A a \in DOMAIN aggs :
           aggs[a].state = "flushed" /\ contracts[aggs[a].rev].aggregate
             => \E j \in DOMAIN said : said[j].key = << "aggregate", a >>

\* What happened first is told first: an aggregate told after a milestone, or
\* after the worker's result, holds nothing that preceded it
\* (gateway.py:4362-4371, 4460).
ProgressInOrder ==
    \A i, j \in DOMAIN said :
        (i < j /\ said[i].topic \in {"milestone", "final"} /\ said[j].topic = "aggregate")
            => \A x \in said[i].events, y \in said[j].events : x < y

\* What the user hears of a running task is told once and in its order.
ProgressTold == ProgressToldOnce /\ ProgressInOrder
=============================================================================
