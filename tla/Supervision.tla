---------------------------- MODULE Supervision ----------------------------
(***************************************************************************)
(* The progress of one task, from the worker's report_event tool to what   *)
(* the user will be told: WorkerEventChannel numbers the reports and       *)
(* queues them, the gateway commits each event with the revision of the    *)
(* supervision contract it was received under, judges it by that revision, *)
(* gathers ordinary activity into aggregates that a timer, a milestone or  *)
(* the end of the task flushes, and enqueues at most one delivery per key. *)
(* Every commit to the ledger is a step: the process may die between any   *)
(* two of them, and start() reduces again what was not marked processed.   *)
(* Interactions are the subject of module Interactions.                    *)
(***************************************************************************)
EXTENDS ProgressPromise, Integers, Sequences, SequencesExt, FiniteSetsExt

CONSTANTS
    Bodies,        \* the contract bodies a plan may put in force
    MaxReports,    \* reports of the worker
    MaxRevisions,  \* revisions of the contract
    QueueSize,     \* max_pending_events of the channel
    MaxCrashes

\* Of a body: is the milestone subscribed, under a condition, once; are
\* milestones, aggregates and the final told or held; is activity gathered.
Body == [subscribed : BOOLEAN, condition : BOOLEAN, once : BOOLEAN,
         milestone : BOOLEAN, aggregate : BOOLEAN, final : BOOLEAN,
         window : BOOLEAN]

\* Assumed by the module that instantiates this one.
SupervisionAssumption ==
    /\ Bodies \subseteq Body
    /\ {MaxReports, MaxRevisions, MaxCrashes} \subseteq Nat
    /\ QueueSize \in Nat \ {0}

VARIABLES
    lean,       \* whether the gateway runs in lean mode
    reports,    \* the reports the channel has accepted, in order of seq
    queue,      \* their numbers in the channel's queue
    putting,    \* those whose tool call waits for room in the queue
    log,        \* worker_events: [n, rev, processed], in order of commit
    timers,     \* aggregates a job of this process will flush
    over,       \* how the task ended: "no", "done" or "failed"
    up          \* "serving", "recovering" or "down"

supVars == << lean, contracts, reports, queue, putting, log, aggs, timers, said,
              over, pc, up, deaths >>
chanVars == << reports, queue, putting >>

Idle == [at |-> "idle", event |-> 0, agg |-> 0]
Payloads == [kind : {"activity"}, risk : BOOLEAN, evidence : {"none"}]
            \union [kind : {"milestone"}, risk : BOOLEAN,
                    evidence : {"met", "unmet", "foreign"}]
            \union [kind : {"done"}, risk : {FALSE}, evidence : {"none"}]

Init ==
    /\ lean \in BOOLEAN
    /\ contracts \in { << b >> : b \in Bodies }
    /\ reports = << >> /\ queue = << >> /\ putting = {}
    /\ log = << >> /\ aggs = << >> /\ timers = {} /\ said = << >>
    /\ over = "no" /\ pc = Idle /\ up = "serving" /\ deaths = 0

Serving == up = "serving" /\ pc = Idle

-----------------------------------------------------------------------------
(***************************************************************************)
(* The channel of the worker.                                              *)
(***************************************************************************)
Terminal == reports # << >> /\ Last(reports).kind = "done"

\* report and publish: the report has its number before there is room for it.
\* A report_id used again returns the event it had.
Report(p) ==
    LET n == Len(reports) + 1
        room == Len(queue) < QueueSize
    IN /\ Serving /\ over = "no" /\ ~ Terminal /\ n <= MaxReports
       /\ reports' = Append(reports, p)
       /\ queue' = IF room THEN Append(queue, n) ELSE queue
       /\ putting' = IF room THEN putting ELSE putting \union {n}
       /\ UNCHANGED << lean, contracts, log, aggs, timers, said, over, pc, up,
                       deaths >>

\* Room in the queue for the call that waits longest, unless a new one was
\* faster, or a call given up while it waited: its report is known to the
\* channel and never comes.
Put(n, given) ==
    /\ Serving /\ n \in putting
    /\ given => n = Min(putting)
    /\ putting' = putting \ {n}
    /\ IF given
         THEN Len(queue) < QueueSize /\ queue' = Append(queue, n)
         ELSE UNCHANGED queue
    /\ UNCHANGED << lean, contracts, reports, log, aggs, timers, said, over, pc, up,
                    deaths >>

-----------------------------------------------------------------------------
(***************************************************************************)
(* How an event is judged.                                                 *)
(***************************************************************************)
ReportOf(i) == reports[log[i].n]
Under(i) == contracts[log[i].rev]

\* arbitrate and _lean_arbitrate, of updates and of the end.
Accepted(e, b) ==
    \/ lean \/ e.kind # "milestone" \/ e.risk \/ ~ b.subscribed
    \/ e.evidence # "foreign" /\ (b.condition => e.evidence = "met")

Told(e, b) ==
    /\ Accepted(e, b)
    /\ \/ lean \/ e.risk
       \/ e.kind = "milestone" /\ b.subscribed /\ b.milestone
       \/ e.kind = "done" /\ b.final

Gathered(e, b) == ~ lean /\ e.kind = "activity" /\ ~ e.risk /\ b.window

\* The dedupe key of an event's own delivery.
Key(i) ==
    LET e == ReportOf(i)
    IN CASE e.kind = "done" -> << "terminal", 0 >>
         [] e.kind = "milestone" /\ ~ lean /\ Under(i).subscribed /\ Under(i).once
              -> << "milestone", 0 >>
         [] OTHER -> << "event", log[i].n >>

\* create_delivery_once
Enqueue(key, topic, events) ==
    said' = IF \E j \in DOMAIN said : said[j].key = key THEN said
            ELSE Append(said, [key |-> key, topic |-> topic, events |-> events])

-----------------------------------------------------------------------------
(***************************************************************************)
(* The gateway.                                                            *)
(***************************************************************************)
\* _fail_task and _terminal_from_cancel: the aggregates are left to their
\* timers.
EndTask ==
    /\ over' = "failed"
    /\ IF lean \/ Last(contracts).final
         THEN Enqueue(<< "terminal", 0 >>, "failure", {})
         ELSE UNCHANGED said

\* append_event: a report of a run that is over is dropped; one that was
\* overtaken in the queue fails the run; the others carry the revision in
\* force.
Ingest ==
    LET n == Head(queue)
    IN /\ Serving /\ queue # << >>
       /\ queue' = Tail(queue)
       /\ CASE over # "no" -> UNCHANGED << log, pc, said, over >>
            [] over = "no" /\ log # << >> /\ n < Last(log).n
                 -> EndTask /\ UNCHANGED << log, pc >>
            [] OTHER
                 -> /\ log' = Append(log, [n |-> n, rev |-> Len(contracts),
                                           processed |-> FALSE])
                    /\ pc' = [Idle EXCEPT !.at = "gather", !.event = Len(log) + 1]
                    /\ UNCHANGED << said, over >>
       /\ UNCHANGED << lean, contracts, reports, putting, aggs, timers, up, deaths >>

Open(rev) == { a \in DOMAIN aggs : aggs[a].state = "open" /\ aggs[a].rev = rev }

\* Mutant: an event that is already in the open aggregate is added again.
GatheredInAgain(n, rev) ==
    IF Open(rev) = {}
      THEN Append(aggs, [rev |-> rev, events |-> << n >>, state |-> "open"])
      ELSE LET a == CHOOSE a \in Open(rev) : TRUE
           IN [aggs EXCEPT ![a].events = Append(@, n)]

\* append_activity_aggregate
GatheredIn(n, rev) ==
    IF Open(rev) = {}
      THEN Append(aggs, [rev |-> rev, events |-> << n >>, state |-> "open"])
      ELSE LET a == CHOOSE a \in Open(rev) : TRUE
           IN IF Contains(aggs[a].events, n) THEN aggs
              ELSE [aggs EXCEPT ![a].events = Append(@, n)]

\* _reduce_event of an update: ordinary activity joins the open aggregate of
\* its revision, and a timer sees to it.
Gather ==
    LET i == pc.event   e == ReportOf(i)   b == Under(i)
    IN /\ pc.at = "gather"
       /\ aggs' = IF Gathered(e, b) THEN GatheredIn(log[i].n, log[i].rev) ELSE aggs
       /\ timers' = IF Gathered(e, b)
                      THEN timers \union { a \in DOMAIN aggs' : aggs'[a].state = "open"
                                                      /\ aggs'[a].rev = log[i].rev }
                      ELSE timers
       /\ pc' = [pc EXCEPT !.at = IF ~ Accepted(e, b) THEN "mark"
                                  ELSE IF e.kind = "activity" THEN "tell" ELSE "flush"]
       /\ UNCHANGED << lean, contracts, chanVars, log, said, over, up, deaths >>

\* Mutant: the milestone is told first and the aggregates are left to their
\* timers.
FlushLater ==
    /\ pc.at = "flush"
    /\ pc' = [pc EXCEPT !.at = "tell"]
    /\ UNCHANGED << lean, contracts, chanVars, log, aggs, timers, said, over, up,
                    deaths >>

\* flush_activity_aggregate, one commit, and the delivery, another: what was
\* gathered is told before the milestone or the end that follows it.
Flush ==
    LET open == { a \in DOMAIN aggs : aggs[a].state = "open" }
        a == CHOOSE x \in open : \A y \in open : x <= y
    IN /\ pc.at = "flush"
       /\ IF open = {}
            THEN pc' = [pc EXCEPT !.at = "tell"] /\ UNCHANGED aggs
            ELSE /\ aggs' = [aggs EXCEPT ![a].state = "flushed"]
                 /\ pc' = [pc EXCEPT !.at = "speak", !.agg = a]
       /\ UNCHANGED << lean, contracts, chanVars, log, timers, said, over, up,
                       deaths >>

\* The job of _schedule_aggregate wakes up; a milestone may have been faster.
Due(a) ==
    /\ Serving /\ a \in timers
    /\ timers' = timers \ {a}
    /\ IF aggs[a].state = "open"
         THEN /\ aggs' = [aggs EXCEPT ![a].state = "flushed"]
              /\ pc' = [Idle EXCEPT !.at = "speak", !.agg = a]
         ELSE UNCHANGED << aggs, pc >>
    /\ UNCHANGED << lean, contracts, chanVars, log, said, over, up, deaths >>

Speak ==
    LET a == pc.agg
    IN /\ pc.at = "speak"
       /\ IF contracts[aggs[a].rev].aggregate
            THEN Enqueue(<< "aggregate", a >>, "aggregate", Range(aggs[a].events))
            ELSE UNCHANGED said
       /\ pc' = IF pc.event = 0 THEN Idle ELSE [pc EXCEPT !.at = "flush", !.agg = 0]
       /\ UNCHANGED << lean, contracts, chanVars, log, aggs, timers, over, up,
                       deaths >>

\* The event's own delivery; the end of the worker's run ends the task.
Tell ==
    LET i == pc.event   e == ReportOf(i)
    IN /\ pc.at = "tell"
       /\ over' = IF e.kind = "done" /\ over = "no" THEN "done" ELSE over
       /\ IF Told(e, Under(i))
            THEN Enqueue(Key(i), IF e.kind = "done" THEN "final" ELSE e.kind,
                         {log[i].n})
            ELSE UNCHANGED said
       /\ pc' = [pc EXCEPT !.at = "mark"]
       /\ UNCHANGED << lean, contracts, chanVars, log, aggs, timers, up, deaths >>

\* mark_event_processed
Mark ==
    /\ pc.at = "mark"
    /\ log' = [log EXCEPT ![pc.event].processed = TRUE]
    /\ pc' = Idle
    /\ UNCHANGED << lean, contracts, chanVars, aggs, timers, said, over, up, deaths >>

\* _update_contract: the same body again is no revision.
Revise(b) ==
    /\ Serving /\ ~ lean /\ over = "no"
    /\ Len(contracts) < MaxRevisions /\ b # Last(contracts)
    /\ contracts' = Append(contracts, b)
    /\ UNCHANGED << lean, chanVars, log, aggs, timers, said, over, pc, up, deaths >>

\* A cancel that the worker confirmed, or a failure of the run.
Fail ==
    /\ Serving /\ over = "no"
    /\ EndTask
    /\ UNCHANGED << lean, contracts, chanVars, log, aggs, timers, pc, up, deaths >>

Crash ==
    /\ up # "down" /\ deaths < MaxCrashes
    /\ deaths' = deaths + 1 /\ up' = "down"
    /\ pc' = Idle /\ timers' = {} /\ queue' = << >> /\ putting' = {}
    /\ UNCHANGED << lean, contracts, reports, log, aggs, said, over >>

Start ==
    /\ up = "down" /\ up' = "recovering"
    /\ UNCHANGED << lean, contracts, chanVars, log, aggs, timers, said, over, pc,
                    deaths >>

\* start(): the events that were not marked, in order; then the task, whose
\* run cannot be resumed, fails; then the timers of the open aggregates.
Recover ==
    LET unmarked == { i \in DOMAIN log : ~ log[i].processed }
    IN /\ up = "recovering" /\ pc = Idle
       /\ IF unmarked # {}
            THEN /\ pc' = [Idle EXCEPT !.at = "gather",
                           !.event = CHOOSE i \in unmarked : \A j \in unmarked : i <= j]
                 /\ UNCHANGED << timers, said, over, up >>
            ELSE /\ up' = "serving"
                 /\ timers' = { a \in DOMAIN aggs : aggs[a].state = "open" }
                 /\ IF over = "no" THEN EndTask ELSE UNCHANGED << said, over >>
                 /\ UNCHANGED pc
       /\ UNCHANGED << lean, contracts, chanVars, log, aggs, deaths >>

-----------------------------------------------------------------------------
Next ==
    \/ \E p \in Payloads : Report(p)
    \/ \E n \in putting : Put(n, TRUE) \/ Put(n, FALSE)
    \/ Ingest \/ Gather \/ Flush \/ Speak \/ Tell \/ Mark
    \/ \E a \in timers : Due(a)
    \/ \E b \in Bodies : Revise(b)
    \/ Fail
    \/ Crash \/ Start \/ Recover

Spec == Init /\ [][Next]_supVars

=============================================================================
