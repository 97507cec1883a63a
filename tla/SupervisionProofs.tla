-------------------------- MODULE SupervisionProofs --------------------------
(***************************************************************************)
(* Proofs about Supervision, for every set of contract bodies and any      *)
(* reports, revisions, room in the queue and deaths of the process: what   *)
(* the user hears of a task is told once and in order; and, at the end,    *)
(* about WorkerTools and ContextTools, the other way between a task and    *)
(* its worker: what a worker calls is run once, and what it reads misses   *)
(* nothing.                                                                *)
(*                                                                         *)
(* Only the last event of the log can be unprocessed, so recovery reduces  *)
(* at most one event again, before anything new is logged; and what it     *)
(* did before it died is in the open aggregates and in the keys of the     *)
(* deliveries, where the second reduction finds it.                        *)
(***************************************************************************)
EXTENDS Supervision, ToolPromise, ContextPromise, SequenceTheorems, FiniteSetTheorems,
        WellFoundedInduction, TLAPS

-----------------------------------------------------------------------------
(* The inductive invariant *)

Kinds == {"activity", "milestone", "done"}
Topics == {"activity", "milestone", "final", "aggregate", "failure"}
Keys == {"terminal", "milestone", "event", "aggregate"} \X Nat
Marker == {"milestone", "final"}
Positive == Nat \ {0}

LogEntries == [n : Positive, rev : Positive, processed : BOOLEAN]
Aggregates == [rev : Positive, events : Seq(Positive), state : {"open", "flushed"}]
Sayings == [key : Keys, topic : Topics, events : SUBSET Positive]
Places == [at : {"idle", "gather", "flush", "speak", "tell", "mark"},
           event : Nat, agg : Nat]

Types ==
    /\ lean \in BOOLEAN
    /\ contracts \in Seq(Bodies) /\ contracts # << >>
    /\ reports \in Seq(Payloads)
    /\ queue \in Seq(Positive) /\ putting \subseteq Positive
    /\ log \in Seq(LogEntries) /\ aggs \in Seq(Aggregates)
    /\ timers \subseteq 1..Len(aggs)
    /\ said \in Seq(Sayings)
    /\ over \in {"no", "done", "failed"}
    /\ pc \in Places
    /\ up \in {"serving", "recovering", "down"}
    /\ deaths \in Nat

\* A report is waiting for room, in the queue or in the log, and at one of them.
ChannelOK ==
    /\ \A n \in putting : n <= Len(reports)
    /\ \A k \in 1..Len(queue) : queue[k] <= Len(reports) /\ queue[k] \notin putting
    /\ \A k, l \in 1..Len(queue) : queue[k] = queue[l] => k = l
    /\ \A i \in 1..Len(log) : /\ log[i].n \notin putting
                              /\ \A k \in 1..Len(queue) : queue[k] # log[i].n

\* The log is in the order of the reports, and only its last event may be
\* unprocessed: while the process serves, the gateway is at it.
LogOK ==
    /\ \A i \in 1..Len(log) : log[i].n <= Len(reports) /\ log[i].rev <= Len(contracts)
    /\ \A i, j \in 1..Len(log) : i < j => log[i].n < log[j].n
    /\ \A i \in 1..Len(log) :
         ~ log[i].processed => i = Len(log) /\ (up = "serving" => pc.event = i)

\* What the gateway may rely on at each of its commits: when it tells a milestone
\* or the result, every aggregate is flushed.
PlaceOK ==
    /\ pc.at = "idle" => pc = Idle
    /\ pc.event = 0 => pc.at \in {"idle", "speak"}
    /\ pc.event # 0 => pc.event \in 1..Len(log) /\ ~ log[pc.event].processed
    /\ pc.at = "speak" => /\ pc.agg \in 1..Len(aggs) /\ aggs[pc.agg].state = "flushed"
                          /\ \A j \in 1..Len(said) : said[j].key # << "aggregate", pc.agg >>
    /\ pc.at \in {"flush", "speak"} /\ pc.event # 0
         => reports[log[pc.event].n].kind # "activity"
    /\ pc.at = "tell" /\ reports[log[pc.event].n].kind # "activity"
         => \A a \in 1..Len(aggs) : aggs[a].state = "flushed"

\* An aggregate holds ordinary activity of its revision, logged and, once it is
\* flushed, processed; no report is in two of them or twice in one.
Ordinary(i) == ~ lean /\ ReportOf(i).kind = "activity" /\ ~ ReportOf(i).risk
HoldsFrom(a) ==
    \A k \in 1..Len(aggs[a].events) :
        \E i \in 1..Len(log) :
            /\ aggs[a].events[k] = log[i].n /\ aggs[a].rev = log[i].rev /\ Ordinary(i)
            /\ aggs[a].state = "flushed" => log[i].processed
RevsKnown == \A a \in 1..Len(aggs) : aggs[a].rev <= Len(contracts)
AllHold == \A a \in 1..Len(aggs) : HoldsFrom(a)
GatheredOnce ==
    \A a \in 1..Len(aggs) : \A k, l \in 1..Len(aggs[a].events) :
        aggs[a].events[k] = aggs[a].events[l] => k = l
Apart ==
    \A a, b \in 1..Len(aggs) :
        a # b => \A k \in 1..Len(aggs[a].events), l \in 1..Len(aggs[b].events) :
                    aggs[a].events[k] # aggs[b].events[l]
OneOpen ==
    \A a, b \in 1..Len(aggs) :
        aggs[a].state = "open" /\ aggs[b].state = "open" /\ aggs[a].rev = aggs[b].rev
          => a = b
AggregatesOK == RevsKnown /\ AllHold /\ GatheredOnce /\ Apart /\ OneOpen

\* A delivery tells of the failure, of a flushed aggregate, or of one event of
\* the log, under a key of its own.
OfAggregate(s) ==
    \E a \in 1..Len(aggs) : /\ s.key = << "aggregate", a >> /\ s.topic = "aggregate"
                            /\ aggs[a].state = "flushed"
                            /\ s.events = Range(aggs[a].events)
OfEvent(s) ==
    \E i \in 1..Len(log) :
        /\ s.key = Key(i) /\ s.events = {log[i].n} /\ ~ Ordinary(i)
        /\ s.topic = IF ReportOf(i).kind = "done" THEN "final" ELSE ReportOf(i).kind
SaidOK ==
    /\ \A i, j \in 1..Len(said) : said[i].key = said[j].key => i = j
    /\ \A j \in 1..Len(said) : \/ said[j].topic = "failure" /\ said[j].events = {}
                                  /\ said[j].key = << "terminal", 0 >>
                               \/ OfAggregate(said[j])
                               \/ OfEvent(said[j])

\* While the process has not died, what was flushed is told or about to be.
FlushedIsTold ==
    deaths = 0 =>
        \A a \in 1..Len(aggs) :
            aggs[a].state = "flushed" /\ contracts[aggs[a].rev].aggregate
              => \/ pc.at = "speak" /\ pc.agg = a
                 \/ \E j \in 1..Len(said) : said[j].key = << "aggregate", a >>

\* What may still be told from an aggregate came after every milestone told.
ToCome(a) == aggs[a].state = "open" \/ (pc.at = "speak" /\ pc.agg = a)
LaterComes ==
    \A j \in 1..Len(said), a \in 1..Len(aggs) :
        said[j].topic \in Marker /\ ToCome(a)
          => \A x \in said[j].events, k \in 1..Len(aggs[a].events) :
                 x < aggs[a].events[k]

IInv == /\ Types /\ ChannelOK /\ LogOK /\ PlaceOK /\ AggregatesOK
        /\ SaidOK /\ FlushedIsTold /\ LaterComes /\ ProgressInOrder

-----------------------------------------------------------------------------
(* What a step keeps                                                       *)

\* The log, the reports and the contract only grow, and an event once processed
\* stays processed.
Extended ==
    /\ lean' = lean
    /\ Len(reports) <= Len(reports')
    /\ \A r \in 1..Len(reports) : reports'[r] = reports[r]
    /\ contracts' \in Seq(Bodies) /\ Len(contracts) <= Len(contracts')
    /\ \A r \in 1..Len(contracts) : contracts'[r] = contracts[r]
    /\ Len(log) <= Len(log')
    /\ \A i \in 1..Len(log) : /\ log'[i].n = log[i].n /\ log'[i].rev = log[i].rev
                              /\ log[i].processed => log'[i].processed

\* One more delivery.
Added(s) ==
    /\ said' \in Seq(Sayings) /\ Len(said') = Len(said) + 1
    /\ \A j \in 1..Len(said) : said'[j] = said[j] /\ said[j].key # s.key
    /\ said'[Len(said) + 1] = s

Failure == [key |-> << "terminal", 0 >>, topic |-> "failure", events |-> {}]

\* The entries of the sequences, by their types.
LEMMA Entries ==
    ASSUME Types
    PROVE  /\ {Len(log), Len(aggs), Len(said), Len(reports), Len(contracts), Len(queue)}
                \subseteq Nat
           /\ DOMAIN log = 1..Len(log) /\ DOMAIN aggs = 1..Len(aggs)
           /\ DOMAIN said = 1..Len(said)
           /\ \A i \in 1..Len(log) : log[i] \in LogEntries
           /\ \A a \in 1..Len(aggs) : aggs[a] \in Aggregates
           /\ \A j \in 1..Len(said) : said[j] \in Sayings
           /\ \A r \in 1..Len(reports) : reports[r] \in Payloads
           /\ \A k \in 1..Len(queue) : queue[k] \in Positive
           /\ pc \in Places
<1>1. /\ log \in Seq(LogEntries) /\ aggs \in Seq(Aggregates) /\ said \in Seq(Sayings)
      /\ reports \in Seq(Payloads) /\ contracts \in Seq(Bodies) /\ queue \in Seq(Positive)
      /\ pc \in Places
    BY DEF Types
<1> QED BY <1>1, ElementOfSeq

\* The fields of the entries.
LEMMA Fields ==
    /\ \A e \in LogEntries : e.n \in Positive /\ e.rev \in Positive /\ e.processed \in BOOLEAN
    /\ \A g \in Aggregates : /\ g.rev \in Positive /\ g.events \in Seq(Positive)
                             /\ g.state \in {"open", "flushed"}
    /\ \A s \in Sayings : s.key \in Keys /\ s.topic \in Topics /\ s.events \subseteq Positive
    /\ \A e \in Payloads : e.kind \in Kinds /\ e.risk \in BOOLEAN
BY DEF LogEntries, Aggregates, Sayings, Payloads, Kinds

\* An event of the log is judged the same after the step.
LEMMA Judged ==
    ASSUME Types, LogOK, Extended, NEW i \in 1..Len(log)
    PROVE  /\ ReportOf(i)' = ReportOf(i) /\ Under(i)' = Under(i)
           /\ Key(i)' = Key(i) /\ Ordinary(i)' = Ordinary(i)
           /\ i \in 1..Len(log')
<1>1. /\ log'[i].n = log[i].n /\ log'[i].rev = log[i].rev /\ lean' = lean
      /\ i \in 1..Len(log')
    BY DEF Extended, Types
<1>2. log[i].n \in 1..Len(reports) /\ log[i].rev \in 1..Len(contracts)
  <2>1. log[i] \in LogEntries /\ Len(reports) \in Nat /\ Len(contracts) \in Nat
      BY Entries
  <2>2. log[i].n \in Positive /\ log[i].rev \in Positive
      BY <2>1, Fields
  <2> QED BY <2>1, <2>2 DEF LogOK, Positive
<1>3. reports'[log[i].n] = reports[log[i].n] /\ contracts'[log[i].rev] = contracts[log[i].rev]
    BY <1>2 DEF Extended
<1>4. ReportOf(i)' = ReportOf(i) /\ Under(i)' = Under(i)
    BY <1>1, <1>3 DEF ReportOf, Under
<1> QED BY <1>1, <1>4 DEF Key, Ordinary

\* The key of an event is well formed, and is not the key of an aggregate.
LEMMA KeyType ==
    ASSUME Types, LogOK, NEW i \in 1..Len(log)
    PROVE  Key(i) \in Keys /\ \A a : Key(i) # << "aggregate", a >>
<1>1. log[i].n \in Nat
    BY Entries, Fields DEF Positive
<1>2. Key(i) \in {<< "terminal", 0 >>, << "milestone", 0 >>, << "event", log[i].n >>}
    BY DEF Key
<1> QED BY <1>1, <1>2 DEF Keys

\* create_delivery_once: one more delivery, or its key is taken.
LEMMA Enqueued ==
    ASSUME said \in Seq(Sayings), NEW key \in Keys, NEW topic \in Topics,
           NEW events \in SUBSET Positive, Enqueue(key, topic, events)
    PROVE  \/ /\ said' = said
              /\ \E j \in 1..Len(said) : said[j].key = key
           \/ Added([key |-> key, topic |-> topic, events |-> events])
<1> DEFINE s == [key |-> key, topic |-> topic, events |-> events]
<1>1. s \in Sayings /\ s.key = key
    BY DEF Sayings
<1>2. DOMAIN said = 1..Len(said)
    OBVIOUS
<1>3. CASE \E j \in DOMAIN said : said[j].key = key
    BY <1>2, <1>3 DEF Enqueue
<1>4. CASE ~ \E j \in DOMAIN said : said[j].key = key
  <2>1. said' = Append(said, s)
      BY <1>4 DEF Enqueue
  <2>2. /\ said' \in Seq(Sayings) /\ Len(said') = Len(said) + 1
        /\ said'[Len(said) + 1] = s
        /\ \A j \in 1..Len(said) : said'[j] = said[j]
      BY <1>1, <2>1, AppendProperties
  <2> QED BY <1>1, <1>2, <1>4, <2>2 DEF Added
<1> QED BY <1>3, <1>4

\* The task fails: its failure is told, unless its end was.
LEMMA Ended ==
    ASSUME Types, EndTask
    PROVE  over' = "failed" /\ (said' = said \/ Added(Failure))
<1>1. << "terminal", 0 >> \in Keys /\ "failure" \in Topics /\ {} \in SUBSET Positive
    BY DEF Keys, Topics
<1> QED BY <1>1, Enqueued DEF EndTask, Types, Failure

\* What is told of an event or of a flushed aggregate stays true of it.
LEMMA StaysSaid ==
    ASSUME Types, LogOK, Extended, Len(aggs') \in Nat, Len(aggs) <= Len(aggs'),
           \A a \in 1..Len(aggs) : aggs[a].state = "flushed" => aggs'[a] = aggs[a],
           NEW s
    PROVE  (OfEvent(s) => OfEvent(s)') /\ (OfAggregate(s) => OfAggregate(s)')
<1>1. ASSUME OfEvent(s) PROVE OfEvent(s)'
  <2>1. PICK i \in 1..Len(log) :
          /\ s.key = Key(i) /\ s.events = {log[i].n} /\ ~ Ordinary(i)
          /\ s.topic = IF ReportOf(i).kind = "done" THEN "final" ELSE ReportOf(i).kind
      BY <1>1 DEF OfEvent
  <2>2. /\ ReportOf(i)' = ReportOf(i) /\ Key(i)' = Key(i) /\ Ordinary(i)' = Ordinary(i)
        /\ i \in 1..Len(log')
      BY Judged
  <2>3. log'[i].n = log[i].n
      BY DEF Extended
  <2> QED BY <2>1, <2>2, <2>3 DEF OfEvent
<1>2. ASSUME OfAggregate(s) PROVE OfAggregate(s)'
  <2>1. PICK a \in 1..Len(aggs) :
          /\ s.key = << "aggregate", a >> /\ s.topic = "aggregate"
          /\ aggs[a].state = "flushed" /\ s.events = Range(aggs[a].events)
      BY <1>2 DEF OfAggregate
  <2>2. a \in 1..Len(aggs') /\ aggs'[a] = aggs[a]
      BY <2>1 DEF Types
  <2> QED BY <2>1, <2>2 DEF OfAggregate
<1> QED BY <1>1, <1>2

\* The deliveries, when none or one more is made.
LEMMA SaidKept ==
    ASSUME Types, LogOK, SaidOK, Extended, Len(aggs') \in Nat, Len(aggs) <= Len(aggs'),
           \A a \in 1..Len(aggs) : aggs[a].state = "flushed" => aggs'[a] = aggs[a],
           NEW s,
           \/ s.topic = "failure" /\ s.events = {} /\ s.key = << "terminal", 0 >>
           \/ OfAggregate(s)'
           \/ OfEvent(s)',
           said' = said \/ Added(s)
    PROVE  SaidOK'
<1> DEFINE Says(x) == \/ x.topic = "failure" /\ x.events = {}
                         /\ x.key = << "terminal", 0 >>
                      \/ OfAggregate(x)'
                      \/ OfEvent(x)'
<1>1. ASSUME NEW j \in 1..Len(said), NEW x, x = said[j]
      PROVE  Says(x)
  <2>1. (OfEvent(x) => OfEvent(x)') /\ (OfAggregate(x) => OfAggregate(x)')
      BY StaysSaid
  <2> QED BY <1>1, <2>1 DEF SaidOK
<1>2. ASSUME NEW j \in 1..Len(said'), NEW x, x = said'[j]
      PROVE  Says(x)
  <2>1. CASE said' = said
      BY <1>1, <1>2, <2>1
  <2>2. CASE Added(s)
    <3>1. CASE j = Len(said) + 1
      <4>1. x = s
          BY <1>2, <2>2, <3>1 DEF Added
      <4> QED BY <4>1
    <3>2. CASE j \in 1..Len(said)
        BY <1>1, <1>2, <2>2, <3>2 DEF Added
    <3> QED BY <1>2, <2>2, <3>1, <3>2, Entries DEF Added
  <2> QED BY <2>1, <2>2
<1>3. \A i, j \in 1..Len(said') : said'[i].key = said'[j].key => i = j
  <2>1. CASE said' = said
      BY <2>1 DEF SaidOK
  <2>2. CASE Added(s)
    <3>1. Len(said) \in Nat
        BY Entries
    <3> QED BY <2>2, <3>1 DEF Added, SaidOK
  <2> QED BY <2>1, <2>2
<1> QED
  <2>1. ASSUME NEW j \in 1..Len(said')
        PROVE  (\/ said[j].topic = "failure" /\ said[j].events = {}
                   /\ said[j].key = << "terminal", 0 >>
                \/ OfAggregate(said[j])
                \/ OfEvent(said[j]))'
    <3>1. PICK x : x = said'[j]
        OBVIOUS
    <3>2. Says(x)
        BY <1>2, <3>1
    <3>3. CASE x.topic = "failure" /\ x.events = {} /\ x.key = << "terminal", 0 >>
        BY <3>1, <3>3
    <3>4. CASE OfAggregate(x)'
        BY <3>1, <3>4 DEF OfAggregate
    <3>5. CASE OfEvent(x)'
        BY <3>1, <3>5 DEF OfEvent
    <3> QED BY <3>2, <3>3, <3>4, <3>5
  <2> QED BY <1>3, <2>1 DEF SaidOK

\* The aggregates, when none of them changes.
LEMMA AggregatesKept ==
    ASSUME Types, LogOK, Extended, AggregatesOK, aggs' = aggs
    PROVE  AggregatesOK'
<1>1. RevsKnown'
  <2>1. Len(contracts) \in Nat /\ Len(contracts') \in Nat
        /\ Len(contracts) <= Len(contracts')
      BY Entries DEF Extended
  <2>2. \A a \in 1..Len(aggs) : aggs[a].rev \in Nat
      BY Entries, Fields DEF Positive
  <2> QED BY <2>1, <2>2 DEF AggregatesOK, RevsKnown
<1>2. ASSUME NEW a \in 1..Len(aggs) PROVE HoldsFrom(a)'
  <2> SUFFICES ASSUME NEW k \in 1..Len(aggs[a].events)
               PROVE  \E i \in 1..Len(log') :
                        /\ aggs[a].events[k] = log'[i].n /\ aggs[a].rev = log'[i].rev
                        /\ Ordinary(i)'
                        /\ aggs[a].state = "flushed" => log'[i].processed
      BY DEF HoldsFrom
  <2>1. PICK i \in 1..Len(log) :
          /\ aggs[a].events[k] = log[i].n /\ aggs[a].rev = log[i].rev /\ Ordinary(i)
          /\ aggs[a].state = "flushed" => log[i].processed
      BY DEF AggregatesOK, AllHold, HoldsFrom
  <2>2. Ordinary(i)' = Ordinary(i) /\ i \in 1..Len(log')
      BY Judged
  <2>3. /\ log'[i].n = log[i].n /\ log'[i].rev = log[i].rev
        /\ log[i].processed => log'[i].processed
      BY DEF Extended
  <2> QED BY <2>1, <2>2, <2>3
<1>3. AllHold'
    BY <1>2 DEF AllHold
<1>4. GatheredOnce' /\ Apart' /\ OneOpen'
    BY DEF AggregatesOK, GatheredOnce, Apart, OneOpen
<1> QED BY <1>1, <1>3, <1>4 DEF AggregatesOK

\* What was flushed stays told or is still about to be told.
LEMMA FlushedKept ==
    ASSUME Types, AggregatesOK, Extended, FlushedIsTold, aggs' = aggs,
           NEW s, said' = said \/ Added(s),
           deaths' = 0 => /\ deaths = 0
                          /\ pc.at = "speak" => pc'.at = "speak" /\ pc'.agg = pc.agg
    PROVE  FlushedIsTold'
<1> SUFFICES ASSUME deaths' = 0, NEW a \in 1..Len(aggs), aggs[a].state = "flushed",
                    contracts'[aggs[a].rev].aggregate
             PROVE  \/ pc'.at = "speak" /\ pc'.agg = a
                    \/ \E j \in 1..Len(said') : said'[j].key = << "aggregate", a >>
    BY DEF FlushedIsTold
<1>1. aggs[a].rev \in 1..Len(contracts)
  <2>1. aggs[a] \in Aggregates /\ Len(contracts) \in Nat
      BY Entries
  <2> QED BY <2>1, Fields DEF AggregatesOK, RevsKnown, Positive
<1>2. contracts[aggs[a].rev].aggregate
    BY <1>1 DEF Extended
<1>3. \/ pc.at = "speak" /\ pc.agg = a
      \/ \E j \in 1..Len(said) : said[j].key = << "aggregate", a >>
    BY <1>2 DEF FlushedIsTold
<1>4. CASE pc.at = "speak" /\ pc.agg = a
    BY <1>4
<1>5. CASE \E j \in 1..Len(said) : said[j].key = << "aggregate", a >>
  <2>1. PICK j \in 1..Len(said) : said[j].key = << "aggregate", a >>
      BY <1>5
  <2>2. j \in 1..Len(said') /\ said'[j] = said[j]
    <3>1. Len(said) \in Nat
        BY Entries
    <3> QED BY <3>1 DEF Added
  <2> QED BY <2>1, <2>2
<1> QED BY <1>3, <1>4, <1>5

\* What may still be told comes later than every milestone told, when no more
\* becomes of it and no milestone is added while there is any.
LEMMA LaterKept ==
    ASSUME Types, LaterComes, Len(aggs') = Len(aggs),
           \A a \in 1..Len(aggs) : aggs'[a].events = aggs[a].events,
           \A a \in 1..Len(aggs) : ToCome(a)' => ToCome(a),
           NEW s, said' = said \/ Added(s),
           s.topic \in Marker => \A a \in 1..Len(aggs) : ~ ToCome(a)'
    PROVE  LaterComes'
<1> SUFFICES ASSUME NEW j \in 1..Len(said'), NEW a \in 1..Len(aggs),
                    said'[j].topic \in Marker, ToCome(a)'
             PROVE  \A x \in said'[j].events, k \in 1..Len(aggs[a].events) :
                       x < aggs[a].events[k]
    BY DEF LaterComes
<1>1. ToCome(a)
    OBVIOUS
<1>2. CASE j \in 1..Len(said) /\ said'[j] = said[j]
    BY <1>1, <1>2 DEF LaterComes
<1>3. CASE Added(s) /\ j = Len(said) + 1
    BY <1>3 DEF Added
<1>4. Len(said) \in Nat
    BY Entries
<1> QED BY <1>2, <1>3, <1>4 DEF Added

\* The order of what is told, when what is added comes after the milestones.
LEMMA OrderKept ==
    ASSUME Types, ProgressInOrder, NEW s, said' = said \/ Added(s),
           s.topic = "aggregate" =>
             \A i \in 1..Len(said) : said[i].topic \in Marker =>
               \A x \in said[i].events, y \in s.events : x < y
    PROVE  ProgressInOrder'
<1>1. CASE said' = said
    BY <1>1 DEF ProgressInOrder
<1>2. CASE Added(s)
  <2>1. DOMAIN said = 1..Len(said) /\ Len(said) \in Nat
      BY Entries
  <2>2. DOMAIN said' = 1..(Len(said) + 1)
      BY <1>2, <2>1 DEF Added
  <2> SUFFICES ASSUME NEW i \in DOMAIN said', NEW j \in DOMAIN said', i < j,
                      said'[i].topic \in Marker, said'[j].topic = "aggregate"
               PROVE  \A x \in said'[i].events, y \in said'[j].events : x < y
      BY DEF ProgressInOrder, Marker
  <2>3. i \in 1..Len(said) /\ said'[i] = said[i]
      BY <1>2, <2>1, <2>2 DEF Added
  <2>4. CASE j = Len(said) + 1
      BY <1>2, <2>3, <2>4 DEF Added
  <2>5. CASE j \in 1..Len(said)
    <3>1. said'[j] = said[j]
        BY <1>2, <2>5 DEF Added
    <3> QED BY <2>1, <2>3, <2>5, <3>1 DEF ProgressInOrder, Marker
  <2> QED BY <2>1, <2>2, <2>4, <2>5
<1> QED BY <1>1, <1>2

\* A step that touches no aggregate and tells at most of the failure.
LEMMA Quiet ==
    ASSUME IInv, Extended, aggs' = aggs, said' = said \/ Added(Failure),
           \/ pc'.at # "speak"
           \/ pc.at = "speak" /\ pc'.agg = pc.agg,
           deaths' = 0 => deaths = 0 /\ (pc.at = "speak" => pc'.at = "speak")
    PROVE  AggregatesOK' /\ SaidOK' /\ FlushedIsTold' /\ LaterComes' /\ ProgressInOrder'
<1>1. Types /\ LogOK /\ AggregatesOK /\ SaidOK /\ FlushedIsTold /\ LaterComes
      /\ ProgressInOrder
    BY DEF IInv
<1>2. Len(aggs) \in Nat
    BY <1>1, Entries
<1>3. Failure.topic = "failure" /\ Failure.events = {} /\ Failure.key = << "terminal", 0 >>
    BY DEF Failure
<1>4. AggregatesOK'
    BY <1>1, AggregatesKept
<1>5. SaidOK'
    BY <1>1, <1>2, <1>3, SaidKept
<1>6. FlushedIsTold'
    BY <1>1, FlushedKept
<1>7. LaterComes'
  <2>1. \A a \in 1..Len(aggs) : ToCome(a)' => ToCome(a)
      BY DEF ToCome
  <2>2. Failure.topic \notin Marker
      BY <1>3 DEF Marker
  <2> QED BY <1>1, <2>1, <2>2, LaterKept
<1>8. ProgressInOrder'
    BY <1>1, <1>3, OrderKept
<1> QED BY <1>4, <1>5, <1>6, <1>7, <1>8

-----------------------------------------------------------------------------
(* The steps of the worker, of the contract and of the process             *)

\* The initial states.
LEMMA InitOK == ASSUME SupervisionAssumption, Init PROVE IInv
<1>1. PICK b \in Bodies : contracts = << b >>
    BY DEF Init
<1>2. contracts \in Seq(Bodies) /\ contracts # << >> /\ Len(contracts) = 1
    BY <1>1
<1>3. /\ reports = << >> /\ queue = << >> /\ log = << >> /\ aggs = << >> /\ said = << >>
      /\ timers = {} /\ putting = {}
      /\ pc = [at |-> "idle", event |-> 0, agg |-> 0]
    BY DEF Init, Idle
<1>4. /\ \A S : << >> \in Seq(S)
      /\ Len(<< >>) = 0
    BY EmptySeq
<1>5. Types
  <2>1. pc \in Places
      BY <1>3 DEF Places
  <2> QED BY <1>2, <1>3, <1>4, <2>1 DEF Types, Init
<1>6. ChannelOK /\ LogOK /\ AggregatesOK /\ FlushedIsTold /\ LaterComes
    BY <1>3, <1>4 DEF ChannelOK, LogOK, AggregatesOK, RevsKnown, AllHold, GatheredOnce, Apart,
                             OneOpen, FlushedIsTold, LaterComes
<1>7. PlaceOK
    BY <1>3 DEF PlaceOK, Idle
<1>8. SaidOK /\ ProgressInOrder
  <2>1. DOMAIN said = {}
      BY <1>3
  <2> QED BY <1>3, <1>4, <2>1 DEF SaidOK, ProgressInOrder
<1> QED BY <1>5, <1>6, <1>7, <1>8 DEF IInv

\* report and publish.
LEMMA ReportOK == ASSUME IInv, NEW p \in Payloads, Report(p) PROVE IInv'
<1> DEFINE n == Len(reports) + 1
<1>1. Types /\ ChannelOK /\ LogOK /\ PlaceOK
    BY DEF IInv
<1>2. /\ reports' = Append(reports, p)
      /\ queue' = IF Len(queue) < QueueSize THEN Append(queue, n) ELSE queue
      /\ putting' = IF Len(queue) < QueueSize THEN putting ELSE putting \union {n}
      /\ lean' = lean /\ contracts' = contracts /\ log' = log /\ aggs' = aggs
      /\ timers' = timers /\ said' = said /\ over' = over /\ pc' = pc /\ up' = up
      /\ deaths' = deaths
    BY DEF Report
<1>3. /\ Len(reports) \in Nat /\ Len(queue) \in Nat
      /\ \A i \in 1..Len(log) : log[i].n \in 1..Len(reports)
      /\ \A k \in 1..Len(queue) : queue[k] \in Nat
      /\ \A m \in putting : m \in Nat
  <2>1. \A i \in 1..Len(log) : log[i].n \in Positive
      BY <1>1, Entries, Fields
  <2>2. putting \subseteq Positive
      BY <1>1 DEF Types
  <2>3. Len(reports) \in Nat /\ Len(queue) \in Nat
        /\ \A k \in 1..Len(queue) : queue[k] \in Positive
      BY <1>1, Entries
  <2> QED BY <1>1, <2>1, <2>2, <2>3 DEF LogOK, Positive
<1>4. /\ reports' \in Seq(Payloads) /\ Len(reports') = n
      /\ \A r \in 1..Len(reports) : reports'[r] = reports[r]
    BY <1>1, <1>2, AppendProperties DEF Types
<1>5. n \in Positive
    BY <1>3 DEF Positive
<1>6. /\ Append(queue, n) \in Seq(Positive) /\ Len(Append(queue, n)) = Len(queue) + 1
      /\ \A k \in 1..Len(queue) : Append(queue, n)[k] = queue[k]
      /\ Append(queue, n)[Len(queue) + 1] = n
    BY <1>1, <1>5, AppendProperties DEF Types
<1>7. Types'
    BY <1>1, <1>2, <1>4, <1>5, <1>6 DEF Types
<1>8. ChannelOK'
  <2>1. CASE Len(queue) < QueueSize
      BY <1>1, <1>2, <1>3, <1>4, <1>6, <2>1 DEF ChannelOK
  <2>2. CASE ~ (Len(queue) < QueueSize)
    <3>1. queue' = queue /\ putting' = putting \union {n} /\ log' = log
        BY <1>2, <2>2
    <3>2. \A m \in putting' : m <= n
        BY <1>1, <1>3, <3>1 DEF ChannelOK
    <3>3. \A k \in 1..Len(queue) : queue[k] <= n /\ queue[k] \notin putting'
        BY <1>1, <1>3, <3>1 DEF ChannelOK
    <3>4. \A i \in 1..Len(log) : log[i].n \notin putting'
        BY <1>1, <1>3, <3>1 DEF ChannelOK
    <3> QED BY <1>1, <1>4, <3>1, <3>2, <3>3, <3>4 DEF ChannelOK
  <2> QED BY <2>1, <2>2
<1>9. LogOK'
    BY <1>1, <1>2, <1>3, <1>4 DEF LogOK
<1>10. PlaceOK'
    BY <1>1, <1>2, <1>3, <1>4 DEF PlaceOK
<1>11. Extended
    BY <1>1, <1>2, <1>3, <1>4 DEF Extended, Types
<1>12. AggregatesOK' /\ SaidOK' /\ FlushedIsTold' /\ LaterComes' /\ ProgressInOrder'
    BY <1>2, <1>11, Quiet
<1> QED BY <1>7, <1>8, <1>9, <1>10, <1>12 DEF IInv

\* Room for a report, or its call is given up.
LEMMA PutOK ==
    ASSUME IInv, NEW n \in putting, NEW given \in BOOLEAN, Put(n, given) PROVE IInv'
<1>1. Types /\ ChannelOK /\ LogOK /\ PlaceOK
    BY DEF IInv
<1>2. /\ reports' = reports /\ putting' = putting \ {n}
      /\ queue' = queue \/ queue' = Append(queue, n)
      /\ lean' = lean /\ contracts' = contracts /\ log' = log /\ aggs' = aggs
      /\ timers' = timers /\ said' = said /\ over' = over /\ pc' = pc /\ up' = up
      /\ deaths' = deaths
    BY DEF Put
<1>3. n \in Positive /\ Len(queue) \in Nat
    BY <1>1, Entries DEF Types
<1>4. /\ Append(queue, n) \in Seq(Positive) /\ Len(Append(queue, n)) = Len(queue) + 1
      /\ \A k \in 1..Len(queue) : Append(queue, n)[k] = queue[k]
      /\ Append(queue, n)[Len(queue) + 1] = n
    BY <1>1, <1>3, AppendProperties DEF Types
<1>5. Types'
    BY <1>1, <1>2, <1>4 DEF Types
<1>6. ChannelOK'
  <2>1. CASE queue' = Append(queue, n)
      BY <1>1, <1>2, <1>3, <1>4, <2>1 DEF ChannelOK
  <2>2. CASE queue' = queue
      BY <1>1, <1>2, <2>2 DEF ChannelOK
  <2> QED BY <1>2, <2>1, <2>2
<1>7. LogOK' /\ PlaceOK'
    BY <1>1, <1>2 DEF LogOK, PlaceOK
<1>8. Extended
    BY <1>1, <1>2, Entries DEF Extended, Types
<1>9. AggregatesOK' /\ SaidOK' /\ FlushedIsTold' /\ LaterComes' /\ ProgressInOrder'
    BY <1>2, <1>8, Quiet
<1> QED BY <1>5, <1>6, <1>7, <1>9 DEF IInv

\* _update_contract.
LEMMA ReviseOK == ASSUME IInv, NEW b \in Bodies, Revise(b) PROVE IInv'
<1>1. Types /\ ChannelOK /\ LogOK /\ PlaceOK
    BY DEF IInv
<1>2. /\ contracts' = Append(contracts, b)
      /\ lean' = lean /\ reports' = reports /\ queue' = queue /\ putting' = putting
      /\ log' = log /\ aggs' = aggs /\ timers' = timers /\ said' = said /\ over' = over
      /\ pc' = pc /\ up' = up /\ deaths' = deaths
    BY DEF Revise, chanVars
<1>3. /\ contracts' \in Seq(Bodies) /\ contracts' # << >>
      /\ Len(contracts') = Len(contracts) + 1 /\ Len(contracts) \in Nat
      /\ \A r \in 1..Len(contracts) : contracts'[r] = contracts[r]
    BY <1>1, <1>2, Entries, AppendProperties DEF Types
<1>4. Types'
    BY <1>1, <1>2, <1>3 DEF Types
<1>5. ChannelOK' /\ PlaceOK'
    BY <1>1, <1>2 DEF ChannelOK, PlaceOK
<1>6. LogOK'
  <2>1. \A i \in 1..Len(log) : log[i].rev \in Nat
      BY <1>1, Entries, Fields DEF Positive
  <2> QED BY <1>1, <1>2, <1>3, <2>1 DEF LogOK
<1>7. Extended
    BY <1>2, <1>3, <1>1, Entries DEF Extended
<1>8. AggregatesOK' /\ SaidOK' /\ FlushedIsTold' /\ LaterComes' /\ ProgressInOrder'
    BY <1>2, <1>7, Quiet
<1> QED BY <1>4, <1>5, <1>6, <1>8 DEF IInv

\* _fail_task.
LEMMA FailOK == ASSUME IInv, Fail PROVE IInv'
<1>1. Types /\ ChannelOK /\ LogOK /\ PlaceOK
    BY DEF IInv
<1>2. /\ lean' = lean /\ contracts' = contracts /\ reports' = reports /\ queue' = queue
      /\ putting' = putting /\ log' = log /\ aggs' = aggs /\ timers' = timers
      /\ pc' = pc /\ up' = up /\ deaths' = deaths /\ pc.at = "idle"
    BY DEF Fail, chanVars, Serving, Idle
<1>3. over' = "failed" /\ (said' = said \/ Added(Failure))
    BY <1>1, Ended DEF Fail
<1>4. Types'
    BY <1>1, <1>2, <1>3 DEF Types, Added
<1>5. ChannelOK' /\ LogOK' /\ PlaceOK'
    BY <1>1, <1>2 DEF ChannelOK, LogOK, PlaceOK
<1>6. Extended
    BY <1>2, <1>1, Entries DEF Extended, Types
<1>7. AggregatesOK' /\ SaidOK' /\ FlushedIsTold' /\ LaterComes' /\ ProgressInOrder'
    BY <1>2, <1>3, <1>6, Quiet
<1> QED BY <1>4, <1>5, <1>7 DEF IInv

\* The process dies, at any of its steps.
LEMMA CrashOK == ASSUME IInv, Crash PROVE IInv'
<1>1. Types /\ ChannelOK /\ LogOK /\ PlaceOK
    BY DEF IInv
<1>2. /\ lean' = lean /\ contracts' = contracts /\ reports' = reports /\ queue' = << >>
      /\ putting' = {} /\ log' = log /\ aggs' = aggs /\ timers' = {} /\ said' = said
      /\ over' = over /\ pc' = Idle /\ up' = "down" /\ deaths' = deaths + 1
    BY DEF Crash
<1>3. Idle.at = "idle" /\ Idle.event = 0 /\ Idle \in Places
    BY DEF Idle, Places
<1>4. << >> \in Seq(Positive) /\ Len(<< >>) = 0
    BY EmptySeq
<1>5. Types'
    BY <1>1, <1>2, <1>3, <1>4 DEF Types
<1>6. ChannelOK'
    BY <1>2, <1>4 DEF ChannelOK
<1>7. LogOK' /\ PlaceOK'
    BY <1>1, <1>2, <1>3 DEF LogOK, PlaceOK
<1>8. Extended
    BY <1>2, <1>1, Entries DEF Extended, Types
<1>9. deaths' # 0
    BY <1>1, <1>2 DEF Types
<1>10. AggregatesOK' /\ SaidOK' /\ FlushedIsTold' /\ LaterComes' /\ ProgressInOrder'
    BY <1>2, <1>3, <1>8, <1>9, Quiet
<1> QED BY <1>5, <1>6, <1>7, <1>10 DEF IInv

\* The process is started again.
LEMMA StartOK == ASSUME IInv, Start PROVE IInv'
<1>1. Types /\ ChannelOK /\ LogOK /\ PlaceOK
    BY DEF IInv
<1>2. /\ lean' = lean /\ contracts' = contracts /\ reports' = reports /\ queue' = queue
      /\ putting' = putting /\ log' = log /\ aggs' = aggs /\ timers' = timers
      /\ said' = said /\ over' = over /\ pc' = pc /\ up' = "recovering"
      /\ deaths' = deaths
    BY DEF Start, chanVars
<1>3. Types' /\ ChannelOK' /\ LogOK' /\ PlaceOK'
    BY <1>1, <1>2 DEF Types, ChannelOK, LogOK, PlaceOK
<1>4. Extended
    BY <1>2, <1>1, Entries DEF Extended, Types
<1>5. AggregatesOK' /\ SaidOK' /\ FlushedIsTold' /\ LaterComes' /\ ProgressInOrder'
    BY <1>2, <1>4, Quiet
<1> QED BY <1>3, <1>5 DEF IInv

-----------------------------------------------------------------------------
(* The steps of the gateway                                                *)

\* append_event: one event is logged under the revision in force.
LEMMA Logged ==
    ASSUME IInv, Serving, queue # << >>, over = "no",
           log = << >> \/ Head(queue) > Last(log).n,
           log' = Append(log, [n |-> Head(queue), rev |-> Len(contracts),
                               processed |-> FALSE]),
           pc' = [at |-> "gather", event |-> Len(log) + 1, agg |-> 0],
           queue' = Tail(queue), said' = said, over' = over, lean' = lean,
           contracts' = contracts, reports' = reports, putting' = putting,
           aggs' = aggs, timers' = timers, up' = up, deaths' = deaths
    PROVE  IInv'
<1> DEFINE e == [n |-> Head(queue), rev |-> Len(contracts), processed |-> FALSE]
<1>1. Types /\ ChannelOK /\ LogOK /\ PlaceOK
    BY DEF IInv
<1>2. /\ Tail(queue) \in Seq(Positive) /\ Len(Tail(queue)) = Len(queue) - 1
      /\ \A k \in 1..Len(Tail(queue)) : Tail(queue)[k] = queue[k + 1]
      /\ Head(queue) = queue[1] /\ Len(queue) \in Nat /\ Len(queue) >= 1
    BY <1>1, Entries, HeadTailProperties, EmptySeq DEF Types
<1>3. Head(queue) \in Positive /\ Head(queue) <= Len(reports) /\ Head(queue) \notin putting
    BY <1>1, <1>2, Entries DEF ChannelOK
<1>4. /\ {Len(contracts), Len(log), Len(reports)} \subseteq Nat /\ Len(contracts) \in Positive
  <2>1. Len(contracts) \in Nat /\ Len(log) \in Nat /\ Len(reports) \in Nat
      BY <1>1, Entries
  <2>2. Len(contracts) # 0
      BY <1>1, EmptySeq DEF Types
  <2> QED BY <2>1, <2>2 DEF Positive
<1>5. e \in LogEntries
    BY <1>3, <1>4 DEF LogEntries
<1>6. /\ log' \in Seq(LogEntries) /\ Len(log') = Len(log) + 1
      /\ \A i \in 1..Len(log) : log'[i] = log[i]
      /\ log'[Len(log) + 1] = e
    BY <1>1, <1>5, AppendProperties DEF Types
<1>7. /\ pc'.at = "gather" /\ pc'.event = Len(log) + 1 /\ pc'.agg = 0
      /\ pc' \in Places
  <2>1. Len(log) + 1 \in Nat
      BY <1>4
  <2> QED BY <2>1 DEF Places
<1>8. up = "serving" /\ pc.event = 0 /\ pc.at = "idle"
    BY DEF Serving, Idle
<1>9. \A i \in 1..Len(log) : log[i].processed /\ log[i].n \in Nat
  <2>1. \A i \in 1..Len(log) : log[i] \in LogEntries
      BY <1>1, Entries
  <2> QED BY <1>1, <1>4, <1>8, <2>1, Fields DEF LogOK, Positive
<1>10. \A i \in 1..Len(log) : log[i].n < Head(queue)
  <2>1. CASE log = << >>
      BY <2>1, EmptySeq
  <2>2. CASE Head(queue) > Last(log).n
    <3>1. Len(log) \in 1..Len(log) => log[Len(log)].n < Head(queue)
        BY <1>3, <1>9, <2>2 DEF Last, Positive
    <3> SUFFICES ASSUME NEW i \in 1..Len(log) PROVE log[i].n < Head(queue)
        OBVIOUS
    <3>2. Len(log) \in 1..Len(log) /\ Head(queue) \in Nat
        BY <1>3, <1>4 DEF Positive
    <3>3. i = Len(log) \/ log[i].n < log[Len(log)].n
      <4>1. i = Len(log) \/ i < Len(log)
          BY <1>4
      <4> QED BY <1>1, <3>2, <4>1 DEF LogOK
    <3> QED BY <1>9, <3>1, <3>2, <3>3
  <2> QED BY <2>1, <2>2
<1>11. Types'
    BY <1>1, <1>2, <1>6, <1>7 DEF Types
<1>12. ChannelOK'
  <2>1. \A k \in 1..Len(queue') : /\ queue'[k] = queue[k + 1] /\ k + 1 \in 1..Len(queue)
                                  /\ k + 1 # 1
      BY <1>2
  <2>2. \A k \in 1..Len(queue') : queue'[k] <= Len(reports) /\ queue'[k] \notin putting
      BY <1>1, <2>1 DEF ChannelOK
  <2>3. \A k, l \in 1..Len(queue') : queue'[k] = queue'[l] => k = l
      BY <1>1, <1>2, <2>1 DEF ChannelOK
  <2>4. ASSUME NEW i \in 1..Len(log')
        PROVE  log'[i].n \notin putting /\ \A k \in 1..Len(queue') : queue'[k] # log'[i].n
    <3>1. CASE i \in 1..Len(log)
        BY <1>1, <1>6, <2>1, <3>1 DEF ChannelOK
    <3>2. CASE i = Len(log) + 1
        BY <1>1, <1>2, <1>3, <1>6, <2>1, <3>2 DEF ChannelOK
    <3> QED BY <1>4, <1>6, <3>1, <3>2
  <2> QED BY <1>1, <2>2, <2>3, <2>4 DEF ChannelOK
<1>13. LogOK'
  <2>1. \A i \in 1..Len(log') : i \in 1..Len(log) \/ i = Len(log) + 1
      BY <1>4, <1>6
  <2>2. \A i \in 1..Len(log') : log'[i].n <= Len(reports) /\ log'[i].rev <= Len(contracts)
      BY <1>1, <1>3, <1>4, <1>6, <2>1 DEF LogOK
  <2>3. \A i, j \in 1..Len(log') : i < j => log'[i].n < log'[j].n
      BY <1>1, <1>4, <1>6, <1>10, <2>1 DEF LogOK
  <2>4. \A i \in 1..Len(log') : ~ log'[i].processed => i = Len(log') /\ pc'.event = i
      BY <1>6, <1>7, <1>9, <2>1
  <2> QED BY <2>2, <2>3, <2>4 DEF LogOK
<1>14. PlaceOK'
    BY <1>4, <1>6, <1>7 DEF PlaceOK
<1>15. Extended
    BY <1>1, <1>4, <1>6 DEF Extended, Types
<1>16. AggregatesOK' /\ SaidOK' /\ FlushedIsTold' /\ LaterComes' /\ ProgressInOrder'
    BY <1>7, <1>8, <1>15, Quiet
<1> QED BY <1>11, <1>12, <1>13, <1>14, <1>16 DEF IInv

\* A report that is not logged: its run is over, or it was overtaken.
LEMMA NotLogged ==
    ASSUME IInv, queue # << >>, pc.at = "idle", queue' = Tail(queue),
           \/ said' = said /\ over' = over
           \/ EndTask,
           log' = log, pc' = pc, lean' = lean,
           contracts' = contracts, reports' = reports, putting' = putting,
           aggs' = aggs, timers' = timers, up' = up, deaths' = deaths
    PROVE  IInv'
<1>1. Types /\ ChannelOK /\ LogOK /\ PlaceOK
    BY DEF IInv
<1>2. /\ Tail(queue) \in Seq(Positive) /\ Len(Tail(queue)) = Len(queue) - 1
      /\ \A k \in 1..Len(Tail(queue)) : Tail(queue)[k] = queue[k + 1]
      /\ Len(queue) \in Nat
    BY <1>1, Entries, HeadTailProperties DEF Types
<1>3. (over' = over \/ over' = "failed") /\ (said' = said \/ Added(Failure))
    BY <1>1, Ended
<1>4. Types'
    BY <1>1, <1>2, <1>3 DEF Types, Added
<1>5. ChannelOK'
  <2>1. \A k \in 1..Len(queue') : queue'[k] = queue[k + 1] /\ k + 1 \in 1..Len(queue)
      BY <1>2
  <2>2. \A k, l \in 1..Len(queue') : queue'[k] = queue'[l] => k = l
      BY <1>1, <1>2, <2>1 DEF ChannelOK
  <2> QED BY <1>1, <2>1, <2>2 DEF ChannelOK
<1>6. LogOK' /\ PlaceOK'
    BY <1>1 DEF LogOK, PlaceOK
<1>7. Extended
    BY <1>1, Entries DEF Extended, Types
<1>8. AggregatesOK' /\ SaidOK' /\ FlushedIsTold' /\ LaterComes' /\ ProgressInOrder'
    BY <1>3, <1>7, Quiet
<1> QED BY <1>4, <1>5, <1>6, <1>8 DEF IInv

LEMMA IngestOK == ASSUME IInv, Ingest PROVE IInv'
<1>1. /\ Serving /\ queue # << >> /\ queue' = Tail(queue)
      /\ lean' = lean /\ contracts' = contracts /\ reports' = reports
      /\ putting' = putting /\ aggs' = aggs /\ timers' = timers /\ up' = up
      /\ deaths' = deaths
    BY DEF Ingest
<1>2. pc.at = "idle"
    BY <1>1 DEF Serving, Idle
<1>3. CASE over # "no"
  <2>1. said' = said /\ over' = over /\ log' = log /\ pc' = pc
      BY <1>3 DEF Ingest
  <2> QED BY <1>1, <1>2, <2>1, NotLogged
<1>4. CASE over = "no" /\ log # << >> /\ Head(queue) < Last(log).n
  <2>1. EndTask /\ log' = log /\ pc' = pc
      BY <1>4 DEF Ingest
  <2> QED BY <1>1, <1>2, <2>1, NotLogged
<1>5. CASE over = "no" /\ (log = << >> \/ ~ (Head(queue) < Last(log).n))
  <2>1. /\ log' = Append(log, [n |-> Head(queue), rev |-> Len(contracts),
                               processed |-> FALSE])
        /\ pc' = [at |-> "gather", event |-> Len(log) + 1, agg |-> 0]
        /\ said' = said /\ over' = over
      BY <1>5 DEF Ingest, Idle
  <2>2. log # << >> => Head(queue) > Last(log).n
    <3> SUFFICES ASSUME log # << >> PROVE Head(queue) > Last(log).n
        OBVIOUS
    <3>1. Types /\ ChannelOK
        BY DEF IInv
    <3>2. Head(queue) = queue[1] /\ 1 \in 1..Len(queue) /\ queue[1] \in Nat
      <4>1. Len(queue) \in Nat /\ Len(queue) # 0
          BY <1>1, <3>1, Entries, EmptySeq DEF Types
      <4> QED BY <1>1, <3>1, <4>1, Entries DEF Types, Positive
    <3>3. Len(log) \in 1..Len(log) /\ log[Len(log)].n \in Nat
      <4>1. Len(log) \in Nat /\ Len(log) # 0
          BY <3>1, Entries, EmptySeq DEF Types
      <4>2. Len(log) \in 1..Len(log)
          BY <4>1
      <4>3. log[Len(log)] \in LogEntries
          BY <3>1, <4>2, Entries
      <4> QED BY <4>2, <4>3, Fields DEF Positive
    <3>4. log[Len(log)].n # queue[1]
        BY <3>1, <3>2, <3>3 DEF ChannelOK
    <3> QED BY <1>5, <3>2, <3>3, <3>4 DEF Last
  <2> QED BY <1>1, <1>5, <2>1, <2>2, Logged
<1> QED BY <1>3, <1>4, <1>5

\* mark_event_processed.
LEMMA MarkOK == ASSUME IInv, Mark PROVE IInv'
<1>1. Types /\ ChannelOK /\ LogOK /\ PlaceOK
    BY DEF IInv
<1>2. /\ pc.at = "mark" /\ log' = [log EXCEPT ![pc.event].processed = TRUE]
      /\ pc' = Idle
      /\ lean' = lean /\ contracts' = contracts /\ reports' = reports /\ queue' = queue
      /\ putting' = putting /\ aggs' = aggs /\ timers' = timers /\ said' = said
      /\ over' = over /\ up' = up /\ deaths' = deaths
    BY DEF Mark, chanVars
<1>3. Idle.at = "idle" /\ Idle.event = 0 /\ Idle \in Places
    BY DEF Idle, Places
<1>4. pc.event \in 1..Len(log) /\ Len(log) \in Nat
    BY <1>1, <1>2, Entries DEF PlaceOK
<1>5. /\ DOMAIN log = 1..Len(log)
      /\ \A i \in 1..Len(log) : log[i] \in LogEntries
    BY <1>1, Entries
<1>6. [log[pc.event] EXCEPT !.processed = TRUE] \in LogEntries
    BY <1>4, <1>5 DEF LogEntries
<1>7. log' = [log EXCEPT ![pc.event] = [log[pc.event] EXCEPT !.processed = TRUE]]
    BY <1>2
<1>8. log' \in Seq(LogEntries) /\ Len(log') = Len(log)
    BY <1>1, <1>4, <1>6, <1>7, ExceptSeq DEF Types
<1>9. \A i \in 1..Len(log) :
        /\ log'[i].n = log[i].n /\ log'[i].rev = log[i].rev
        /\ log'[i].processed = (log[i].processed \/ i = pc.event)
  <2> SUFFICES ASSUME NEW i \in 1..Len(log)
               PROVE  /\ log'[i].n = log[i].n /\ log'[i].rev = log[i].rev
                      /\ log'[i].processed = (log[i].processed \/ i = pc.event)
      OBVIOUS
  <2>1. log[i] \in LogEntries
      BY <1>5
  <2>2. CASE i = pc.event
      BY <1>4, <1>5, <1>7, <2>1, <2>2 DEF LogEntries
  <2>3. CASE i # pc.event
      BY <1>5, <1>7, <2>1, <2>3 DEF LogEntries
  <2> QED BY <2>2, <2>3
<1>10. Types'
    BY <1>1, <1>2, <1>3, <1>8 DEF Types
<1>11. ChannelOK'
    BY <1>1, <1>2, <1>8, <1>9 DEF ChannelOK
<1>12. LogOK'
  <2>1. \A i \in 1..Len(log) : log'[i].processed
    <3>1. ~ log[pc.event].processed /\ pc.event = Len(log)
        BY <1>1, <1>2, <1>4 DEF PlaceOK, LogOK
    <3> QED BY <1>1, <1>9, <3>1 DEF LogOK
  <2> QED BY <1>1, <1>2, <1>8, <1>9, <2>1 DEF LogOK
<1>13. PlaceOK'
    BY <1>2, <1>3 DEF PlaceOK
<1>14. Extended
    BY <1>1, <1>2, <1>8, <1>9, <1>4, Entries DEF Extended, Types
<1>15. AggregatesOK' /\ SaidOK' /\ FlushedIsTold' /\ LaterComes' /\ ProgressInOrder'
    BY <1>2, <1>3, <1>14, Quiet
<1> QED BY <1>10, <1>11, <1>12, <1>13, <1>15 DEF IInv

\* The step that has the gateway speak of the aggregate a, which it flushes: the
\* first open one before a milestone or the result, or one whose timer ran out.
LEMMA FlushOne ==
    ASSUME IInv, NEW a \in 1..Len(aggs), aggs[a].state = "open",
           pc.at # "speak", pc'.at = "speak", pc'.agg = a, pc'.event = pc.event,
           pc' \in Places,
           pc.event # 0 => pc.at = "flush",
           pc.event = 0 => up = "serving",
           aggs' = [aggs EXCEPT ![a].state = "flushed"],
           timers' \subseteq timers, lean' = lean, contracts' = contracts,
           reports' = reports, queue' = queue, putting' = putting, log' = log,
           said' = said, over' = over, up' = up, deaths' = deaths
    PROVE  IInv'
<1>1. /\ Types /\ ChannelOK /\ LogOK /\ PlaceOK /\ AggregatesOK
      /\ SaidOK /\ FlushedIsTold /\ LaterComes /\ ProgressInOrder
    BY DEF IInv
<1>2. /\ DOMAIN aggs = 1..Len(aggs) /\ Len(aggs) \in Nat
      /\ \A b \in 1..Len(aggs) : aggs[b] \in Aggregates
    BY <1>1, Entries
<1>3. [aggs[a] EXCEPT !.state = "flushed"] \in Aggregates
    BY <1>2 DEF Aggregates
<1>4. aggs' = [aggs EXCEPT ![a] = [aggs[a] EXCEPT !.state = "flushed"]]
    OBVIOUS
<1>5. aggs' \in Seq(Aggregates) /\ Len(aggs') = Len(aggs)
    BY <1>1, <1>3, <1>4, ExceptSeq DEF Types
<1>6. /\ \A b \in 1..Len(aggs) : /\ aggs'[b].events = aggs[b].events
                                 /\ aggs'[b].rev = aggs[b].rev
      /\ aggs'[a].state = "flushed"
      /\ \A b \in 1..Len(aggs) : b # a => aggs'[b] = aggs[b]
  <2>1. \A b \in 1..Len(aggs) : b # a => aggs'[b] = aggs[b]
      BY <1>2, <1>4
  <2>2. aggs'[a] = [aggs[a] EXCEPT !.state = "flushed"]
      BY <1>2, <1>4
  <2>3. /\ aggs'[a].events = aggs[a].events /\ aggs'[a].rev = aggs[a].rev
        /\ aggs'[a].state = "flushed"
      BY <1>2, <2>2 DEF Aggregates
  <2> QED BY <2>1, <2>3
<1>7. Types'
    BY <1>1, <1>5 DEF Types
<1>8. ChannelOK' /\ LogOK'
    BY <1>1 DEF ChannelOK, LogOK
\* The aggregate that is flushed was not told: only flushed ones were.
<1>9. \A j \in 1..Len(said) : said[j].key # << "aggregate", a >>
  <2> SUFFICES ASSUME NEW j \in 1..Len(said), said[j].key = << "aggregate", a >>
               PROVE  FALSE
      OBVIOUS
  <2>1. CASE said[j].key = << "terminal", 0 >>
      BY <2>1
  <2>2. CASE OfAggregate(said[j])
      BY <2>2 DEF OfAggregate
  <2>3. CASE OfEvent(said[j])
      BY <1>1, <2>3, KeyType DEF OfEvent
  <2> QED BY <1>1, <2>1, <2>2, <2>3 DEF SaidOK
<1>10. PlaceOK'
    BY <1>1, <1>5, <1>6, <1>9 DEF PlaceOK
<1>11. Extended
    BY <1>1, Entries DEF Extended, Types
\* What is in it was processed: the event at hand is no activity.
<1>12. ASSUME NEW i \in 1..Len(log), Ordinary(i) PROVE log[i].processed
  <2> SUFFICES ASSUME ~ log[i].processed PROVE FALSE
      OBVIOUS
  <2>1. CASE pc.event = 0
      BY <1>1, <2>1, Entries DEF LogOK
  <2>2. CASE pc.event # 0
    <3>1. /\ pc.event \in 1..Len(log) /\ ~ log[pc.event].processed
          /\ reports[log[pc.event].n].kind # "activity"
        BY <1>1, <2>2 DEF PlaceOK
    <3>2. pc.event = i
        BY <1>1, <3>1 DEF LogOK
    <3> QED BY <1>12, <3>1, <3>2 DEF Ordinary, ReportOf
  <2> QED BY <2>1, <2>2
<1>13. AggregatesOK'
  <2>1. ASSUME NEW b \in 1..Len(aggs) PROVE HoldsFrom(b)'
    <3> SUFFICES ASSUME NEW k \in 1..Len(aggs[b].events)
                 PROVE  \E i \in 1..Len(log) :
                          /\ aggs[b].events[k] = log[i].n /\ aggs[b].rev = log[i].rev
                          /\ Ordinary(i)'
                          /\ aggs'[b].state = "flushed" => log[i].processed
        BY <1>6 DEF HoldsFrom
    <3>1. PICK i \in 1..Len(log) :
            aggs[b].events[k] = log[i].n /\ aggs[b].rev = log[i].rev /\ Ordinary(i)
        BY <1>1 DEF AggregatesOK, AllHold, HoldsFrom
    <3>2. Ordinary(i)' = Ordinary(i)
        BY <1>1, <1>11, Judged
    <3> QED BY <1>12, <3>1, <3>2
  <2>2. \A b \in 1..Len(aggs') : aggs'[b].rev <= Len(contracts')
      BY <1>1, <1>5, <1>6 DEF AggregatesOK, RevsKnown
  <2>3. \A b \in 1..Len(aggs) : \A k, l \in 1..Len(aggs[b].events) :
           aggs[b].events[k] = aggs[b].events[l] => k = l
      BY <1>1 DEF AggregatesOK, GatheredOnce
  <2>4. \A b, c \in 1..Len(aggs) :
          aggs'[b].state = "open" /\ aggs'[c].state = "open" /\ aggs'[b].rev = aggs'[c].rev
            => b = c
      BY <1>1, <1>6 DEF AggregatesOK, OneOpen
  <2>5. \A b, c \in 1..Len(aggs) :
         b # c => \A k \in 1..Len(aggs[b].events), l \in 1..Len(aggs[c].events) :
                     aggs[b].events[k] # aggs[c].events[l]
      BY <1>1 DEF AggregatesOK, Apart
  <2>6. RevsKnown' /\ AllHold'
      BY <1>5, <2>1, <2>2 DEF RevsKnown, AllHold
  <2>7. GatheredOnce' /\ Apart'
    <3>1. \A b \in 1..Len(aggs) : aggs'[b].events = aggs[b].events
        BY <1>6
    <3>2. GatheredOnce'
        BY <1>5, <2>3, <3>1 DEF GatheredOnce
    <3>3. Apart'
        BY <1>5, <2>5, <3>1 DEF Apart
    <3> QED BY <3>2, <3>3
  <2>8. OneOpen'
      BY <1>5, <2>4 DEF OneOpen
  <2> QED BY <2>6, <2>7, <2>8 DEF AggregatesOK
<1>14. SaidOK'
  <2>1. \A b \in 1..Len(aggs) : aggs[b].state = "flushed" => aggs'[b] = aggs[b]
      BY <1>6
  <2>2. Failure.topic = "failure" /\ Failure.events = {} /\ Failure.key = << "terminal", 0 >>
      BY DEF Failure
  <2> QED BY <1>1, <1>2, <1>5, <1>11, <2>1, <2>2, SaidKept
<1>15. FlushedIsTold'
  <2> SUFFICES ASSUME deaths' = 0, NEW b \in 1..Len(aggs'), aggs'[b].state = "flushed",
                      contracts'[aggs'[b].rev].aggregate
               PROVE  \/ pc'.at = "speak" /\ pc'.agg = b
                      \/ \E j \in 1..Len(said') : said'[j].key = << "aggregate", b >>
      BY DEF FlushedIsTold
  <2>1. CASE b = a
      BY <2>1
  <2>2. CASE b # a
    <3>1. b \in 1..Len(aggs) /\ aggs'[b] = aggs[b]
        BY <1>5, <1>6, <2>2
    <3> QED BY <1>1, <3>1 DEF FlushedIsTold
  <2> QED BY <2>1, <2>2
<1>16. LaterComes'
  <2>1. \A b \in 1..Len(aggs) : ToCome(b)' => ToCome(b)
      BY <1>6 DEF ToCome
  <2>2. Failure.topic \notin Marker
      BY DEF Failure, Marker
  <2> QED BY <1>1, <1>5, <1>6, <2>1, <2>2, LaterKept
<1>17. ProgressInOrder'
    BY <1>1 DEF ProgressInOrder
<1> QED BY <1>7, <1>8, <1>10, <1>13, <1>14, <1>15, <1>16, <1>17 DEF IInv

\* A set of numbers has a first one.
LEMMA First ==
    ASSUME NEW T \in SUBSET Nat, T # {}
    PROVE  \E x \in T : \A y \in T : x <= y
<1> DEFINE R == {r \in Nat \X Nat : r[1] < r[2]}
<1>1. IsWellFoundedOn(R, Nat)
    BY NatLessThanWellFounded DEF OpToRel
<1> HIDE DEF R
<1>2. \E x \in T : \A y \in T : ~ (<< y, x >> \in R)
    BY <1>1, WFMin
<1>3. \A x, y \in T : ~ (<< y, x >> \in R) => x <= y
  <2>1. \A x, y \in Nat : y < x => << y, x >> \in R
      BY DEF R
  <2> QED BY <2>1
<1> QED BY <1>2, <1>3

\* flush_activity_aggregate, before a milestone or the result.
LEMMA FlushOK == ASSUME IInv, Flush PROVE IInv'
<1> DEFINE open == {a \in DOMAIN aggs : aggs[a].state = "open"}
           oldest == CHOOSE x \in open : \A y \in open : x <= y
<1>1. /\ Types /\ ChannelOK /\ LogOK /\ PlaceOK
    BY DEF IInv
<1>2. /\ pc.at = "flush" /\ lean' = lean /\ contracts' = contracts /\ reports' = reports
      /\ queue' = queue /\ putting' = putting /\ log' = log /\ timers' = timers
      /\ said' = said /\ over' = over /\ up' = up /\ deaths' = deaths
    BY DEF Flush, chanVars
<1>3. DOMAIN aggs = 1..Len(aggs) /\ pc \in Places
    BY <1>1, Entries
<1>4. pc.event # 0
    BY <1>1, <1>2 DEF PlaceOK
<1>5. CASE open = {}
  <2>1. pc' = [pc EXCEPT !.at = "tell"] /\ aggs' = aggs
      BY <1>5 DEF Flush
  <2>2. pc' \in Places /\ pc'.at = "tell" /\ pc'.event = pc.event
      BY <1>3, <2>1 DEF Places
  <2>3. \A a \in 1..Len(aggs) : aggs[a].state = "flushed"
    <3>1. \A a \in 1..Len(aggs) : aggs[a].state \in {"open", "flushed"}
        BY <1>1, Entries, Fields
    <3> QED BY <1>3, <1>5, <3>1
  <2>4. Types' /\ ChannelOK' /\ LogOK'
      BY <1>1, <1>2, <2>1, <2>2 DEF Types, ChannelOK, LogOK
  <2>5. PlaceOK'
      BY <1>1, <1>2, <1>4, <2>1, <2>2, <2>3 DEF PlaceOK
  <2>6. Extended
      BY <1>1, <1>2, Entries DEF Extended, Types
  <2>7. AggregatesOK' /\ SaidOK' /\ FlushedIsTold' /\ LaterComes' /\ ProgressInOrder'
      BY <1>2, <2>1, <2>2, <2>6, Quiet
  <2> QED BY <2>4, <2>5, <2>7 DEF IInv
<1>6. CASE open # {}
  <2>1. aggs' = [aggs EXCEPT ![oldest].state = "flushed"]
        /\ pc' = [pc EXCEPT !.at = "speak", !.agg = oldest]
      BY <1>6 DEF Flush
  <2>2. oldest \in open
    <3>1. open \in SUBSET Nat
        BY <1>3
    <3>2. \E x \in open : \A y \in open : x <= y
        BY <1>6, <3>1, First
    <3> QED BY <3>2
  <2>3. oldest \in 1..Len(aggs) /\ aggs[oldest].state = "open"
      BY <1>3, <2>2
  <2>4. /\ pc' \in Places /\ pc'.at = "speak" /\ pc'.agg = oldest
        /\ pc'.event = pc.event
    <3>1. oldest \in Nat
        BY <2>3
    <3> QED BY <1>3, <2>1, <3>1 DEF Places
  <2> HIDE DEF oldest
  <2> QED BY <1>2, <1>4, <2>1, <2>3, <2>4, FlushOne
<1> QED BY <1>5, <1>6

\* The timer of an aggregate.
LEMMA DueOK == ASSUME IInv, NEW a \in timers, Due(a) PROVE IInv'
<1>1. /\ Types /\ ChannelOK /\ LogOK /\ PlaceOK
    BY DEF IInv
<1>2. /\ pc.at = "idle" /\ pc.event = 0 /\ up = "serving"
      /\ timers' = timers \ {a} /\ lean' = lean /\ contracts' = contracts
      /\ reports' = reports /\ queue' = queue /\ putting' = putting /\ log' = log
      /\ said' = said /\ over' = over /\ up' = up /\ deaths' = deaths
    BY DEF Due, chanVars, Serving, Idle
<1>3. a \in 1..Len(aggs)
    BY <1>1 DEF Types
<1>4. CASE aggs[a].state = "open"
  <2>1. /\ aggs' = [aggs EXCEPT ![a].state = "flushed"]
        /\ pc' = [at |-> "speak", event |-> 0, agg |-> a]
      BY <1>4 DEF Due, Idle
  <2>2. /\ pc' \in Places /\ pc'.at = "speak" /\ pc'.agg = a /\ pc'.event = pc.event
      BY <1>2, <1>3, <2>1 DEF Places
  <2> QED BY <1>2, <1>3, <1>4, <2>1, <2>2, FlushOne
<1>5. CASE aggs[a].state # "open"
  <2>1. aggs' = aggs /\ pc' = pc
      BY <1>5 DEF Due
  <2>2. Types' /\ ChannelOK' /\ LogOK' /\ PlaceOK'
      BY <1>1, <1>2, <2>1 DEF Types, ChannelOK, LogOK, PlaceOK
  <2>3. Extended
      BY <1>1, <1>2, Entries DEF Extended, Types
  <2>4. AggregatesOK' /\ SaidOK' /\ FlushedIsTold' /\ LaterComes' /\ ProgressInOrder'
      BY <1>2, <2>1, <2>3, Quiet
  <2> QED BY <2>2, <2>4 DEF IInv
<1> QED BY <1>4, <1>5

\* The gateway tells of the aggregate it flushed.
LEMMA SpeakOK == ASSUME IInv, Speak PROVE IInv'
<1> DEFINE a == pc.agg
           s == [key |-> << "aggregate", a >>, topic |-> "aggregate",
                 events |-> Range(aggs[a].events)]
<1>1. /\ Types /\ ChannelOK /\ LogOK /\ PlaceOK /\ AggregatesOK
      /\ SaidOK /\ FlushedIsTold /\ LaterComes /\ ProgressInOrder
    BY DEF IInv
<1>2. /\ pc.at = "speak" /\ lean' = lean /\ contracts' = contracts /\ reports' = reports
      /\ queue' = queue /\ putting' = putting /\ log' = log /\ timers' = timers
      /\ aggs' = aggs /\ over' = over /\ up' = up /\ deaths' = deaths
      /\ pc' = IF pc.event = 0 THEN Idle ELSE [pc EXCEPT !.at = "flush", !.agg = 0]
    BY DEF Speak, chanVars
<1>3. /\ a \in 1..Len(aggs) /\ aggs[a].state = "flushed" /\ pc \in Places
      /\ \A j \in 1..Len(said) : said[j].key # << "aggregate", a >>
    BY <1>1, <1>2, Entries DEF PlaceOK
<1>4. /\ aggs[a].events \in Seq(Positive) /\ DOMAIN aggs[a].events = 1..Len(aggs[a].events)
  <2>1. aggs[a] \in Aggregates
      BY <1>1, <1>3, Entries
  <2> QED BY <2>1, Fields
<1>5. Range(aggs[a].events) = {aggs[a].events[k] : k \in 1..Len(aggs[a].events)}
    BY <1>4 DEF Range
<1>6. IF contracts[aggs[a].rev].aggregate THEN Added(s) ELSE said' = said
  <2>1. CASE contracts[aggs[a].rev].aggregate
    <3>1. Enqueue(<< "aggregate", a >>, "aggregate", Range(aggs[a].events))
        BY <1>2, <2>1 DEF Speak
    <3>2. << "aggregate", a >> \in Keys /\ "aggregate" \in Topics
        BY <1>3 DEF Keys, Topics
    <3>3. Range(aggs[a].events) \in SUBSET Positive
        BY <1>4, <1>5
    <3> QED BY <1>1, <1>3, <2>1, <3>1, <3>2, <3>3, Enqueued DEF Types
  <2>2. CASE ~ contracts[aggs[a].rev].aggregate
      BY <1>2, <2>2 DEF Speak
  <2> QED BY <2>1, <2>2
<1>7. said' = said \/ Added(s)
    BY <1>6
<1>8. /\ pc' \in Places /\ pc'.at \in {"idle", "flush"} /\ pc'.event = pc.event
      /\ pc.event = 0 => pc' = Idle
      /\ pc.event # 0 => pc'.at = "flush"
  <2>1. CASE pc.event = 0
      BY <1>2, <2>1 DEF Idle, Places
  <2>2. CASE pc.event # 0
      BY <1>2, <1>3, <2>2 DEF Places
  <2> QED BY <2>1, <2>2
<1>9. Types'
    BY <1>1, <1>2, <1>7, <1>8 DEF Types, Added
<1>10. ChannelOK' /\ LogOK'
    BY <1>1, <1>2, <1>8 DEF ChannelOK, LogOK
<1>11. PlaceOK'
  <2>1. CASE pc.event = 0
    <3>1. pc' = Idle /\ pc'.at = "idle" /\ pc'.event = 0
        BY <1>8, <2>1 DEF Idle
    <3> QED BY <3>1 DEF PlaceOK
  <2>2. CASE pc.event # 0
    <3>1. pc'.at = "flush" /\ pc'.event = pc.event
        BY <1>8, <2>2
    <3> QED BY <1>1, <1>2, <2>2, <3>1 DEF PlaceOK
  <2> QED BY <2>1, <2>2
<1>12. Extended
    BY <1>1, <1>2, Entries DEF Extended, Types
<1>13. AggregatesOK'
    BY <1>1, <1>2, <1>12, AggregatesKept
<1>14. PICK t : t = s
    OBVIOUS
<1>15. /\ t.key = << "aggregate", a >> /\ t.topic = "aggregate"
       /\ t.events = Range(aggs[a].events)
       /\ said' = said \/ Added(t)
    BY <1>7, <1>14
<1>16. SaidOK'
  <2>1. OfAggregate(t)'
      BY <1>2, <1>3, <1>15 DEF OfAggregate
  <2>2. Len(aggs) \in Nat
      BY <1>1, Entries
  <2> QED BY <1>1, <1>2, <1>12, <1>15, <2>1, <2>2, SaidKept
<1>17. FlushedIsTold'
  <2> SUFFICES ASSUME deaths' = 0, NEW b \in 1..Len(aggs), aggs[b].state = "flushed",
                      contracts[aggs[b].rev].aggregate
               PROVE  \E j \in 1..Len(said') : said'[j].key = << "aggregate", b >>
      BY <1>2 DEF FlushedIsTold
  <2>1. Len(said) \in Nat
      BY <1>1, Entries
  <2>2. CASE b = a
    <3>1. Added(s) /\ s.key = << "aggregate", b >>
        BY <1>6, <2>2
    <3>2. Len(said) + 1 \in 1..Len(said') /\ said'[Len(said) + 1] = s
        BY <2>1, <3>1 DEF Added
    <3> QED BY <3>1, <3>2
  <2>3. CASE b # a
    <3>1. PICK j \in 1..Len(said) : said[j].key = << "aggregate", b >>
        BY <1>1, <1>2, <2>3 DEF FlushedIsTold
    <3>2. j \in 1..Len(said') /\ said'[j] = said[j]
        BY <1>7, <2>1, <3>1 DEF Added
    <3> QED BY <3>1, <3>2
  <2> QED BY <2>2, <2>3
<1>18. LaterComes'
  <2>1. \A b \in 1..Len(aggs) : ToCome(b)' => ToCome(b)
      BY <1>2, <1>8 DEF ToCome
  <2>2. t.topic \notin Marker
      BY <1>15 DEF Marker
  <2> QED BY <1>1, <1>2, <1>15, <2>1, <2>2, LaterKept
<1>19. ProgressInOrder'
  <2>1. \A i \in 1..Len(said) : said[i].topic \in Marker =>
          \A x \in said[i].events, k \in 1..Len(aggs[a].events) : x < aggs[a].events[k]
      BY <1>1, <1>2, <1>3 DEF LaterComes, ToCome
  <2>2. \A i \in 1..Len(said) : said[i].topic \in Marker =>
          \A x \in said[i].events, y \in t.events : x < y
      BY <1>5, <1>15, <2>1
  <2> QED BY <1>1, <1>15, <2>2, OrderKept
<1> QED BY <1>9, <1>10, <1>11, <1>13, <1>16, <1>17, <1>18, <1>19 DEF IInv

\* The event's own delivery.
LEMMA TellOK == ASSUME IInv, Tell PROVE IInv'
<1> DEFINE i == pc.event
           e == ReportOf(i)
           topic == IF e.kind = "done" THEN "final" ELSE e.kind
           s == [key |-> Key(i), topic |-> topic, events |-> {log[i].n}]
<1>1. /\ Types /\ ChannelOK /\ LogOK /\ PlaceOK /\ AggregatesOK
      /\ SaidOK /\ FlushedIsTold /\ LaterComes /\ ProgressInOrder
    BY DEF IInv
<1>2. /\ pc.at = "tell" /\ lean' = lean /\ contracts' = contracts /\ reports' = reports
      /\ queue' = queue /\ putting' = putting /\ log' = log /\ timers' = timers
      /\ aggs' = aggs /\ over' \in {over, "done"} /\ up' = up /\ deaths' = deaths
      /\ pc' = [pc EXCEPT !.at = "mark"]
    BY DEF Tell, chanVars
<1>3. i \in 1..Len(log) /\ ~ log[i].processed /\ pc.event # 0
    BY <1>1, <1>2 DEF PlaceOK
<1>4. log[i].n \in Positive /\ log[i].n \in 1..Len(reports) /\ e \in Payloads
      /\ e.kind \in Kinds
  <2>1. log[i] \in LogEntries
      BY <1>1, <1>3, Entries
  <2>2. log[i].n \in Positive /\ Len(reports) \in Nat
      BY <1>1, <2>1, Fields, Entries
  <2>3. log[i].n \in 1..Len(reports)
      BY <1>1, <1>3, <2>2 DEF LogOK, Positive
  <2>4. e \in Payloads
      BY <1>1, <2>3, Entries DEF ReportOf
  <2> QED BY <2>2, <2>3, <2>4, Fields
<1>5. said' = said \/ (Told(e, Under(i)) /\ Added(s))
  <2>1. CASE Told(e, Under(i))
    <3>1. Enqueue(Key(i), topic, {log[i].n})
        BY <2>1, <1>2 DEF Tell
    <3>2. Key(i) \in Keys /\ topic \in Topics /\ {log[i].n} \in SUBSET Positive
      <4>1. Key(i) \in Keys
          BY <1>1, <1>3, KeyType
      <4> QED BY <1>4, <4>1 DEF Topics, Kinds
    <3>3. said' = said \/ Added([key |-> Key(i), topic |-> topic, events |-> {log[i].n}])
      <4>1. said \in Seq(Sayings)
          BY <1>1 DEF Types
      <4> HIDE DEF topic, i, e
      <4> QED BY <3>1, <3>2, <4>1, Enqueued
    <3> QED BY <2>1, <3>3
  <2>2. CASE ~ Told(e, Under(i))
      BY <2>2 DEF Tell
  <2> QED BY <2>1, <2>2
<1>6. PICK t : t = s
    OBVIOUS
<1>7. /\ t.key = Key(i) /\ t.topic = topic /\ t.events = {log[i].n}
      /\ said' = said \/ (Told(e, Under(i)) /\ Added(t))
    BY <1>5, <1>6
<1>8. /\ pc' \in Places /\ pc'.at = "mark" /\ pc'.event = pc.event
    BY <1>1, <1>2, Entries DEF Places
<1>9. Types'
  <2>1. over' \in {"no", "done", "failed"}
      BY <1>1, <1>2 DEF Types
  <2>2. said' \in Seq(Sayings)
      BY <1>1, <1>7 DEF Types, Added
  <2> QED BY <1>1, <1>2, <1>8, <2>1, <2>2 DEF Types
<1>10. ChannelOK' /\ LogOK'
    BY <1>1, <1>2, <1>8 DEF ChannelOK, LogOK
<1>11. PlaceOK'
    BY <1>1, <1>2, <1>3, <1>8 DEF PlaceOK
<1>12. Extended
    BY <1>1, <1>2, Entries DEF Extended, Types
<1>13. AggregatesOK'
    BY <1>1, <1>2, <1>12, AggregatesKept
<1>14. SaidOK'
  <2>1. Len(aggs) \in Nat
      BY <1>1, Entries
  <2>2. CASE said' = said
    <3>1. Failure.topic = "failure" /\ Failure.events = {}
          /\ Failure.key = << "terminal", 0 >>
        BY DEF Failure
    <3> QED BY <1>1, <1>2, <1>12, <2>1, <2>2, <3>1, SaidKept
  <2>3. CASE Told(e, Under(i)) /\ Added(t)
    <3>1. ~ Ordinary(i)
        BY <1>4, <2>3 DEF Told, Ordinary, Kinds
    <3>2. /\ Key(i)' = Key(i) /\ ReportOf(i)' = ReportOf(i) /\ Ordinary(i)' = Ordinary(i)
          /\ i \in 1..Len(log')
      <4>1. \A k \in 1..Len(log) :
              /\ ReportOf(k)' = ReportOf(k) /\ Key(k)' = Key(k)
              /\ Ordinary(k)' = Ordinary(k) /\ k \in 1..Len(log')
          BY <1>1, <1>12, Judged
      <4>2. PICK k : k = i
          OBVIOUS
      <4>3. Key(k) = Key(i) /\ ReportOf(k) = ReportOf(i) /\ Ordinary(k) = Ordinary(i)
          BY <4>2
      <4> QED BY <1>2, <1>3, <1>8, <4>1, <4>2, <4>3 DEF Key, ReportOf, Ordinary, Under
    <3>3. OfEvent(t)'
        BY <1>2, <1>3, <1>7, <3>1, <1>8 DEF OfEvent, Key, ReportOf, Ordinary, Under
    <3> QED BY <1>1, <1>2, <1>12, <2>1, <2>3, <3>3, SaidKept
  <2> QED BY <1>7, <2>2, <2>3
<1>15. FlushedIsTold'
    BY <1>1, <1>2, <1>7, <1>12, FlushedKept
<1>16. LaterComes'
  <2>1. \A b \in 1..Len(aggs) : ToCome(b)' => ToCome(b)
      BY <1>2, <1>8 DEF ToCome
  <2>2. t.topic \in Marker => \A b \in 1..Len(aggs) : ~ ToCome(b)'
    <3>1. t.topic \in Marker => e.kind # "activity"
        BY <1>7 DEF Marker
    <3>2. e.kind # "activity" => \A b \in 1..Len(aggs) : aggs[b].state = "flushed"
        BY <1>1, <1>2 DEF PlaceOK, ReportOf
    <3> QED BY <1>2, <1>8, <3>1, <3>2 DEF ToCome
  <2> QED BY <1>1, <1>2, <1>7, <2>1, <2>2, LaterKept
<1>17. ProgressInOrder'
  <2>1. t.topic # "aggregate"
      BY <1>4, <1>7 DEF Kinds
  <2> QED BY <1>1, <1>7, <2>1, OrderKept
<1> QED BY <1>9, <1>10, <1>11, <1>13, <1>14, <1>15, <1>16, <1>17 DEF IInv

\* append_activity_aggregate: what the aggregates are once an event is gathered.
\* The event is the last of the log, so no flushed aggregate has it, and the open
\* one of its revision is the only one that may.
LEMMA Gathers ==
    ASSUME IInv, NEW i \in 1..Len(log), ~ log[i].processed, Ordinary(i),
           aggs' = GatheredIn(log[i].n, log[i].rev)
    PROVE  \/ aggs' = aggs
           \/ /\ Len(aggs') = Len(aggs) + 1 /\ aggs' \in Seq(Aggregates)
              /\ \A a \in 1..Len(aggs) : /\ aggs'[a] = aggs[a]
                                         /\ ~ (aggs[a].state = "open"
                                                 /\ aggs[a].rev = log[i].rev)
              /\ aggs'[Len(aggs) + 1] =
                   [rev |-> log[i].rev, events |-> << log[i].n >>, state |-> "open"]
           \/ \E a \in 1..Len(aggs) :
                /\ aggs[a].state = "open" /\ aggs[a].rev = log[i].rev
                /\ ~ Contains(aggs[a].events, log[i].n)
                /\ Len(aggs') = Len(aggs) /\ aggs' \in Seq(Aggregates)
                /\ \A b \in 1..Len(aggs) : b # a => aggs'[b] = aggs[b]
                /\ aggs'[a].rev = aggs[a].rev /\ aggs'[a].state = "open"
                /\ aggs'[a].events = Append(aggs[a].events, log[i].n)
<1> DEFINE n == log[i].n
           rev == log[i].rev
           new == [rev |-> rev, events |-> << n >>, state |-> "open"]
<1>1. Types
    BY DEF IInv
<1>2. n \in Positive /\ rev \in Positive
  <2>1. log[i] \in LogEntries
      BY <1>1, Entries
  <2> QED BY <2>1, Fields
<1>3. /\ DOMAIN aggs = 1..Len(aggs) /\ aggs \in Seq(Aggregates) /\ Len(aggs) \in Nat
      /\ \A a \in 1..Len(aggs) : aggs[a] \in Aggregates
    BY <1>1, Entries DEF Types
<1>4. Open(rev) = {a \in 1..Len(aggs) : aggs[a].state = "open" /\ aggs[a].rev = rev}
    BY <1>3 DEF Open
<1>5. CASE Open(rev) = {}
  <2>1. aggs' = Append(aggs, new)
      BY <1>5 DEF GatheredIn
  <2>2. new \in Aggregates
    <3>1. << n >> \in Seq(Positive)
        BY <1>2
    <3> QED BY <1>2, <3>1 DEF Aggregates
  <2>3. /\ aggs' \in Seq(Aggregates) /\ Len(aggs') = Len(aggs) + 1
        /\ \A a \in 1..Len(aggs) : aggs'[a] = aggs[a]
        /\ aggs'[Len(aggs) + 1] = new
      BY <1>3, <2>1, <2>2, AppendProperties
  <2> QED BY <1>4, <1>5, <2>3
<1>6. CASE Open(rev) # {}
  <2>1. PICK a : a = CHOOSE x \in Open(rev) : TRUE
      OBVIOUS
  <2>2. a \in Open(rev)
      BY <1>6, <2>1
  <2>3. a \in 1..Len(aggs) /\ aggs[a].state = "open" /\ aggs[a].rev = rev
      BY <1>4, <2>2
  <2>4. aggs' = IF Contains(aggs[a].events, n) THEN aggs
                ELSE [aggs EXCEPT ![a].events = Append(@, n)]
      BY <1>6, <2>1 DEF GatheredIn
  <2>5. CASE Contains(aggs[a].events, n)
      BY <2>4, <2>5
  <2>6. CASE ~ Contains(aggs[a].events, n)
    <3> DEFINE more == [aggs[a] EXCEPT !.events = Append(aggs[a].events, n)]
    <3>1. aggs' = [aggs EXCEPT ![a] = more]
        BY <1>3, <2>3, <2>4, <2>6
    <3>2. aggs[a] \in Aggregates /\ aggs[a].events \in Seq(Positive)
        BY <1>3, <2>3, Fields
    <3>3. Append(aggs[a].events, n) \in Seq(Positive)
        BY <1>2, <3>2, AppendProperties
    <3>4. /\ more \in Aggregates /\ more.rev = aggs[a].rev /\ more.state = aggs[a].state
          /\ more.events = Append(aggs[a].events, n)
        BY <3>2, <3>3 DEF Aggregates
    <3> HIDE DEF more
    <3>5. /\ aggs' \in Seq(Aggregates) /\ Len(aggs') = Len(aggs)
          /\ \A b \in 1..Len(aggs) : aggs'[b] = IF b = a THEN more ELSE aggs[b]
        BY <1>3, <2>3, <3>1, <3>4, ExceptSeq
    <3> QED BY <2>3, <2>6, <3>4, <3>5
  <2> QED BY <2>5, <2>6
<1> QED BY <1>5, <1>6

\* A gathered event joins an aggregate, or opens one: which the invariant allows.
LEMMA GatheredOK ==
    ASSUME IInv, NEW i \in 1..Len(log), ~ log[i].processed, Ordinary(i),
           aggs' = GatheredIn(log[i].n, log[i].rev), aggs' # aggs,
           Extended, log' = log, contracts' = contracts
    PROVE  /\ AggregatesOK' /\ aggs' \in Seq(Aggregates)
           /\ Len(aggs) <= Len(aggs') /\ Len(aggs') \in Nat
           /\ \A a \in 1..Len(aggs) : aggs[a].state = "flushed" => aggs'[a] = aggs[a]
           /\ \A a \in 1..Len(aggs) : aggs'[a].rev = aggs[a].rev
           /\ \A a \in 1..Len(aggs) : aggs'[a].state = aggs[a].state
           /\ \A a \in 1..Len(aggs') : a \notin 1..Len(aggs) => aggs'[a].state = "open"
           /\ \A a \in 1..Len(aggs') : \A k \in 1..Len(aggs'[a].events) :
                \/ aggs'[a].events[k] = log[i].n
                \/ a \in 1..Len(aggs) /\ \E l \in 1..Len(aggs[a].events) :
                                            aggs'[a].events[k] = aggs[a].events[l]
<1> DEFINE n == log[i].n
           rev == log[i].rev
           Comes(a, k) == \E j \in 1..Len(log') :
                            /\ aggs'[a].events[k] = log'[j].n
                            /\ aggs'[a].rev = log'[j].rev /\ Ordinary(j)'
                            /\ aggs'[a].state = "flushed" => log'[j].processed
<1>1. Types /\ LogOK /\ AggregatesOK
    BY DEF IInv
<1>2. /\ n \in Positive /\ rev \in Positive /\ rev <= Len(contracts)
  <2>1. log[i] \in LogEntries
      BY <1>1, Entries
  <2> QED BY <1>1, <2>1, Fields DEF LogOK
<1>3. /\ Len(aggs) \in Nat
      /\ \A a \in 1..Len(aggs) : aggs[a].events \in Seq(Positive)
    BY <1>1, Entries, Fields
\* An aggregate that has the event already is the open one of its revision.
<1>4. ASSUME NEW a \in 1..Len(aggs), NEW k \in 1..Len(aggs[a].events),
             aggs[a].events[k] = n
      PROVE  aggs[a].state = "open" /\ aggs[a].rev = rev
  <2>1. PICK j \in 1..Len(log) :
          /\ aggs[a].events[k] = log[j].n /\ aggs[a].rev = log[j].rev
          /\ aggs[a].state = "flushed" => log[j].processed
      BY <1>1 DEF AggregatesOK, AllHold, HoldsFrom
  <2>2. j = i
    <3>1. \A l \in 1..Len(log) : log[l].n \in Nat
        BY <1>1, Entries, Fields DEF Positive
    <3>2. \A l, m \in 1..Len(log) : l < m => log[l].n < log[m].n
        BY <1>1 DEF LogOK
    <3>3. Len(log) \in Nat
        BY <1>1, Entries
    <3>4. log[j].n = log[i].n
        BY <1>4, <2>1
    <3>5. ~ (j < i) /\ ~ (i < j)
        BY <3>1, <3>2, <3>4
    <3> QED BY <3>3, <3>5
  <2>3. aggs[a].state \in {"open", "flushed"}
      BY <1>1, Entries, Fields
  <2> QED BY <2>1, <2>2, <2>3
<1>5. \A j \in 1..Len(log) : Ordinary(j)' = Ordinary(j)
    BY <1>1, Judged
<1>6. CASE /\ Len(aggs') = Len(aggs) + 1 /\ aggs' \in Seq(Aggregates)
           /\ \A a \in 1..Len(aggs) : /\ aggs'[a] = aggs[a]
                                      /\ ~ (aggs[a].state = "open" /\ aggs[a].rev = rev)
           /\ aggs'[Len(aggs) + 1] =
                [rev |-> rev, events |-> << n >>, state |-> "open"]
  <2>1. /\ aggs'[Len(aggs) + 1].rev = rev /\ aggs'[Len(aggs) + 1].state = "open"
        /\ Len(aggs'[Len(aggs) + 1].events) = 1 /\ aggs'[Len(aggs) + 1].events[1] = n
      BY <1>6
  <2>2. \A a \in 1..Len(aggs') : a \in 1..Len(aggs) \/ a = Len(aggs) + 1
      BY <1>3, <1>6
  <2>3. \A a \in 1..Len(aggs) : \A k \in 1..Len(aggs[a].events) : aggs[a].events[k] # n
      BY <1>4, <1>6
  <2>4. \A a \in 1..Len(aggs') : aggs'[a].rev <= Len(contracts')
      BY <1>1, <1>2, <1>6, <2>1, <2>2 DEF AggregatesOK, RevsKnown
  <2>5. ASSUME NEW a \in 1..Len(aggs'), NEW k \in 1..Len(aggs'[a].events)
        PROVE  Comes(a, k)
    <3>1. CASE a \in 1..Len(aggs)
      <4>1. aggs'[a] = aggs[a]
          BY <1>6, <3>1
      <4>2. PICK j \in 1..Len(log) :
              /\ aggs[a].events[k] = log[j].n /\ aggs[a].rev = log[j].rev
              /\ Ordinary(j)
              /\ aggs[a].state = "flushed" => log[j].processed
        <5>1. HoldsFrom(a)
            BY <1>1, <3>1 DEF AggregatesOK, AllHold
        <5>2. k \in 1..Len(aggs[a].events)
            BY <4>1
        <5> QED BY <5>1, <5>2 DEF HoldsFrom
      <4> QED BY <1>5, <4>1, <4>2
    <3>2. CASE a = Len(aggs) + 1
      <4>1. Len(aggs'[a].events) = 1
          BY <2>1, <3>2
      <4>2. k = 1
          BY <4>1
      <4>3. Ordinary(i)'
          BY <1>5
      <4> QED BY <2>1, <3>2, <4>2, <4>3
    <3> QED BY <2>2, <3>1, <3>2
  <2>6. \A a \in 1..Len(aggs') : \A k, l \in 1..Len(aggs'[a].events) :
          aggs'[a].events[k] = aggs'[a].events[l] => k = l
    <3> SUFFICES ASSUME NEW a \in 1..Len(aggs'), NEW k \in 1..Len(aggs'[a].events),
                        NEW l \in 1..Len(aggs'[a].events),
                        aggs'[a].events[k] = aggs'[a].events[l]
                 PROVE  k = l
        OBVIOUS
    <3>1. CASE a \in 1..Len(aggs)
      <4>1. aggs'[a] = aggs[a]
          BY <1>6, <3>1
      <4> QED BY <1>1, <3>1, <4>1 DEF AggregatesOK, GatheredOnce
    <3>2. CASE a = Len(aggs) + 1
      <4>1. Len(aggs'[a].events) = 1
          BY <2>1, <3>2
      <4> QED BY <4>1
    <3> QED BY <2>2, <3>1, <3>2
  <2>7. \A a, b \in 1..Len(aggs') :
          a # b => \A k \in 1..Len(aggs'[a].events), l \in 1..Len(aggs'[b].events) :
                      aggs'[a].events[k] # aggs'[b].events[l]
    <3> SUFFICES ASSUME NEW a \in 1..Len(aggs'), NEW b \in 1..Len(aggs'), a # b,
                        NEW k \in 1..Len(aggs'[a].events),
                        NEW l \in 1..Len(aggs'[b].events)
                 PROVE  aggs'[a].events[k] # aggs'[b].events[l]
        OBVIOUS
    <3>1. CASE a \in 1..Len(aggs) /\ b \in 1..Len(aggs)
      <4>1. aggs'[a] = aggs[a] /\ aggs'[b] = aggs[b]
          BY <1>6, <3>1
      <4> QED BY <1>1, <3>1, <4>1 DEF AggregatesOK, Apart
    <3>2. CASE a \in 1..Len(aggs) /\ b = Len(aggs) + 1
      <4>1. Len(aggs'[b].events) = 1
          BY <2>1, <3>2
      <4>2. l = 1
          BY <4>1
      <4>3. aggs'[b].events[l] = n /\ aggs'[a].events = aggs[a].events
          BY <1>6, <2>1, <3>2, <4>2
      <4> QED BY <2>3, <3>2, <4>3
    <3>3. CASE a = Len(aggs) + 1 /\ b \in 1..Len(aggs)
      <4>1. Len(aggs'[a].events) = 1
          BY <2>1, <3>3
      <4>2. k = 1
          BY <4>1
      <4>3. aggs'[a].events[k] = n /\ aggs'[b].events = aggs[b].events
          BY <1>6, <2>1, <3>3, <4>2
      <4> QED BY <2>3, <3>3, <4>3
    <3> QED BY <2>2, <3>1, <3>2, <3>3
  <2>8. \A a, b \in 1..Len(aggs') :
          aggs'[a].state = "open" /\ aggs'[b].state = "open" /\ aggs'[a].rev = aggs'[b].rev
            => a = b
      BY <1>1, <1>6, <2>1, <2>2 DEF AggregatesOK, OneOpen
  <2>9. AggregatesOK'
    <3>1. ASSUME NEW a \in 1..Len(aggs') PROVE HoldsFrom(a)'
      <4> SUFFICES ASSUME NEW k \in 1..Len(aggs'[a].events) PROVE Comes(a, k)
          BY DEF HoldsFrom
      <4> HIDE DEF Comes
      <4> QED BY <2>5
    <3>2. RevsKnown' /\ AllHold'
        BY <2>4, <3>1 DEF RevsKnown, AllHold
    <3>3. GatheredOnce' /\ Apart' /\ OneOpen'
        BY <2>6, <2>7, <2>8 DEF GatheredOnce, Apart, OneOpen
    <3> QED BY <3>2, <3>3 DEF AggregatesOK
  <2>10. \A a \in 1..Len(aggs') : \A k \in 1..Len(aggs'[a].events) :
           \/ aggs'[a].events[k] = n
           \/ a \in 1..Len(aggs) /\ \E l \in 1..Len(aggs[a].events) :
                                       aggs'[a].events[k] = aggs[a].events[l]
    <3> SUFFICES ASSUME NEW a \in 1..Len(aggs'), NEW k \in 1..Len(aggs'[a].events)
                 PROVE  \/ aggs'[a].events[k] = n
                        \/ a \in 1..Len(aggs) /\ \E l \in 1..Len(aggs[a].events) :
                                                    aggs'[a].events[k] = aggs[a].events[l]
        OBVIOUS
    <3>1. CASE a \in 1..Len(aggs)
      <4>1. aggs'[a] = aggs[a]
          BY <1>6, <3>1
      <4> QED BY <3>1, <4>1
    <3>2. CASE a = Len(aggs) + 1
        BY <2>1, <3>2
    <3> QED BY <2>2, <3>1, <3>2
  <2>11. Len(aggs) <= Len(aggs') /\ Len(aggs') \in Nat
      BY <1>3, <1>6
  <2>12. \A a \in 1..Len(aggs') : a \notin 1..Len(aggs) => aggs'[a].state = "open"
      BY <2>1, <2>2
  <2> QED BY <1>6, <2>9, <2>10, <2>11, <2>12
<1>7. CASE \E a \in 1..Len(aggs) :
             /\ aggs[a].state = "open" /\ aggs[a].rev = rev
             /\ ~ Contains(aggs[a].events, n)
             /\ Len(aggs') = Len(aggs) /\ aggs' \in Seq(Aggregates)
             /\ \A b \in 1..Len(aggs) : b # a => aggs'[b] = aggs[b]
             /\ aggs'[a].rev = aggs[a].rev /\ aggs'[a].state = "open"
             /\ aggs'[a].events = Append(aggs[a].events, n)
  <2>1. PICK a \in 1..Len(aggs) :
             /\ aggs[a].state = "open" /\ aggs[a].rev = rev
             /\ ~ Contains(aggs[a].events, n)
             /\ Len(aggs') = Len(aggs) /\ aggs' \in Seq(Aggregates)
             /\ \A b \in 1..Len(aggs) : b # a => aggs'[b] = aggs[b]
             /\ aggs'[a].rev = aggs[a].rev /\ aggs'[a].state = "open"
             /\ aggs'[a].events = Append(aggs[a].events, n)
      BY <1>7
  <2>2. /\ Len(aggs'[a].events) = Len(aggs[a].events) + 1
        /\ Len(aggs[a].events) \in Nat
        /\ \A k \in 1..Len(aggs[a].events) : aggs'[a].events[k] = aggs[a].events[k]
        /\ aggs'[a].events[Len(aggs[a].events) + 1] = n
    <3>1. aggs[a].events \in Seq(Positive)
        BY <1>3
    <3>2. aggs'[a].events = Append(aggs[a].events, n)
        BY <2>1
    <3> HIDE DEF n
    <3>3. n \in Positive
        BY <1>2
    <3> QED BY <3>1, <3>2, <3>3, AppendProperties
  <2>3. \A k \in 1..Len(aggs'[a].events) :
          k \in 1..Len(aggs[a].events) \/ k = Len(aggs[a].events) + 1
      BY <2>2
  \* No aggregate has the event yet.
  <2>4. \A b \in 1..Len(aggs) : \A k \in 1..Len(aggs[b].events) : aggs[b].events[k] # n
    <3> SUFFICES ASSUME NEW b \in 1..Len(aggs), NEW k \in 1..Len(aggs[b].events),
                        aggs[b].events[k] = n
                 PROVE  FALSE
        OBVIOUS
    <3>1. aggs[b].state = "open" /\ aggs[b].rev = rev
        BY <1>4
    <3>2. b = a
        BY <1>1, <2>1, <3>1 DEF AggregatesOK, OneOpen
    <3> QED BY <2>1, <3>2 DEF Contains
  <2>5. \A b \in 1..Len(aggs) : aggs'[b].rev = aggs[b].rev /\ aggs'[b].state = aggs[b].state
      BY <2>1
  <2>6. ASSUME NEW b \in 1..Len(aggs), NEW k \in 1..Len(aggs'[b].events)
        PROVE  Comes(b, k)
    <3>1. CASE b # a \/ k \in 1..Len(aggs[a].events)
      <4>1. k \in 1..Len(aggs[b].events) /\ aggs'[b].events[k] = aggs[b].events[k]
          BY <2>1, <2>2, <3>1
      <4>2. PICK j \in 1..Len(log) :
              /\ aggs[b].events[k] = log[j].n /\ aggs[b].rev = log[j].rev
              /\ Ordinary(j)
              /\ aggs[b].state = "flushed" => log[j].processed
          BY <1>1, <4>1 DEF AggregatesOK, AllHold, HoldsFrom
      <4> QED BY <1>5, <2>5, <4>1, <4>2
    <3>2. CASE b = a /\ k = Len(aggs[a].events) + 1
      <4>1. Ordinary(i)'
          BY <1>5
      <4> QED BY <2>1, <2>2, <3>2, <4>1
    <3> QED BY <2>3, <3>1, <3>2
  <2>7. \A b \in 1..Len(aggs) : \A k, l \in 1..Len(aggs'[b].events) :
          aggs'[b].events[k] = aggs'[b].events[l] => k = l
    <3> SUFFICES ASSUME NEW b \in 1..Len(aggs), NEW k \in 1..Len(aggs'[b].events),
                        NEW l \in 1..Len(aggs'[b].events),
                        aggs'[b].events[k] = aggs'[b].events[l]
                 PROVE  k = l
        OBVIOUS
    <3>1. CASE b # a
      <4>1. aggs'[b] = aggs[b]
          BY <2>1, <3>1
      <4> QED BY <1>1, <4>1 DEF AggregatesOK, GatheredOnce
    <3>2. CASE b = a
      <4>1. CASE k \in 1..Len(aggs[a].events) /\ l \in 1..Len(aggs[a].events)
        <5>1. aggs[a].events[k] = aggs[a].events[l]
            BY <2>2, <3>2, <4>1
        <5> QED BY <1>1, <4>1, <5>1 DEF AggregatesOK, GatheredOnce
      <4>2. CASE k \in 1..Len(aggs[a].events) /\ l = Len(aggs[a].events) + 1
          BY <2>2, <2>4, <3>2, <4>2
      <4>3. CASE k = Len(aggs[a].events) + 1 /\ l \in 1..Len(aggs[a].events)
        <5>1. aggs[a].events[l] = n
            BY <2>2, <3>2, <4>3
        <5> QED BY <2>4, <4>3, <5>1
      <4>4. CASE k = Len(aggs[a].events) + 1 /\ l = Len(aggs[a].events) + 1
          BY <4>4
      <4> QED BY <2>3, <3>2, <4>1, <4>2, <4>3, <4>4
    <3> QED BY <3>1, <3>2
  <2>8. \A b, c \in 1..Len(aggs) :
          b # c => \A k \in 1..Len(aggs'[b].events), l \in 1..Len(aggs'[c].events) :
                      aggs'[b].events[k] # aggs'[c].events[l]
    <3> SUFFICES ASSUME NEW b \in 1..Len(aggs), NEW c \in 1..Len(aggs), b # c,
                        NEW k \in 1..Len(aggs'[b].events),
                        NEW l \in 1..Len(aggs'[c].events)
                 PROVE  aggs'[b].events[k] # aggs'[c].events[l]
        OBVIOUS
    <3>1. CASE b # a /\ c # a
      <4>1. aggs'[b] = aggs[b] /\ aggs'[c] = aggs[c]
          BY <2>1, <3>1
      <4> QED BY <1>1, <4>1 DEF AggregatesOK, Apart
    <3>2. CASE b = a
      <4>1. c # a /\ aggs'[c] = aggs[c]
          BY <2>1, <3>2
      <4>2. CASE k \in 1..Len(aggs[a].events)
        <5>1. aggs'[b].events[k] = aggs[b].events[k]
            BY <2>2, <3>2, <4>2
        <5>2. k \in 1..Len(aggs[b].events)
            BY <3>2, <4>2
        <5> QED BY <1>1, <4>1, <5>1, <5>2 DEF AggregatesOK, Apart
      <4>3. CASE k = Len(aggs[a].events) + 1
          BY <2>2, <2>4, <3>2, <4>1, <4>3
      <4> QED BY <2>3, <3>2, <4>2, <4>3
    <3>3. CASE c = a
      <4>1. b # a /\ aggs'[b] = aggs[b]
          BY <2>1, <3>3
      <4>2. CASE l \in 1..Len(aggs[a].events)
        <5>1. aggs'[c].events[l] = aggs[c].events[l]
            BY <2>2, <3>3, <4>2
        <5>2. l \in 1..Len(aggs[c].events)
            BY <3>3, <4>2
        <5> QED BY <1>1, <4>1, <5>1, <5>2 DEF AggregatesOK, Apart
      <4>3. CASE l = Len(aggs[a].events) + 1
          BY <2>2, <2>4, <3>3, <4>1, <4>3
      <4> QED BY <2>3, <3>3, <4>2, <4>3
    <3> QED BY <3>1, <3>2, <3>3
  <2>9. \A b, c \in 1..Len(aggs) :
          aggs'[b].state = "open" /\ aggs'[c].state = "open" /\ aggs'[b].rev = aggs'[c].rev
            => b = c
      BY <1>1, <2>5 DEF AggregatesOK, OneOpen
  <2>10. \A b \in 1..Len(aggs) : aggs'[b].rev <= Len(contracts')
      BY <1>1, <2>5 DEF AggregatesOK, RevsKnown
  <2>11. AggregatesOK'
    <3>1. ASSUME NEW b \in 1..Len(aggs') PROVE HoldsFrom(b)'
      <4> SUFFICES ASSUME NEW k \in 1..Len(aggs'[b].events) PROVE Comes(b, k)
          BY DEF HoldsFrom
      <4> HIDE DEF Comes
      <4> QED BY <2>1, <2>6
    <3>2. Len(aggs') = Len(aggs)
        BY <2>1
    <3>3. \A b \in 1..Len(aggs') : \A k, l \in 1..Len(aggs'[b].events) :
            aggs'[b].events[k] = aggs'[b].events[l] => k = l
        BY <2>7, <3>2
    <3>4. \A b, c \in 1..Len(aggs') :
            b # c => \A k \in 1..Len(aggs'[b].events), l \in 1..Len(aggs'[c].events) :
                        aggs'[b].events[k] # aggs'[c].events[l]
      <4> DEFINE Differ(b, c) ==
                   \A k \in 1..Len(aggs'[b].events), l \in 1..Len(aggs'[c].events) :
                       aggs'[b].events[k] # aggs'[c].events[l]
      <4>1. \A b, c \in 1..Len(aggs) : b # c => Differ(b, c)
          BY <2>8
      <4> HIDE DEF Differ
      <4>2. \A b, c \in 1..Len(aggs') : b # c => Differ(b, c)
          BY <3>2, <4>1
      <4> QED BY <4>2 DEF Differ
    <3>5. \A b, c \in 1..Len(aggs') :
            aggs'[b].state = "open" /\ aggs'[c].state = "open" /\ aggs'[b].rev = aggs'[c].rev
              => b = c
        BY <2>9, <3>2
    <3>6. \A b \in 1..Len(aggs') : aggs'[b].rev <= Len(contracts')
        BY <2>10, <3>2
    <3>7. RevsKnown' /\ AllHold'
        BY <3>1, <3>6 DEF RevsKnown, AllHold
    <3>8. GatheredOnce' /\ Apart' /\ OneOpen'
        BY <3>3, <3>4, <3>5 DEF GatheredOnce, Apart, OneOpen
    <3> QED BY <3>7, <3>8 DEF AggregatesOK
  <2>12. \A b \in 1..Len(aggs) : \A k \in 1..Len(aggs'[b].events) :
           \/ aggs'[b].events[k] = n
           \/ \E l \in 1..Len(aggs[b].events) : aggs'[b].events[k] = aggs[b].events[l]
      BY <2>1, <2>2, <2>3
  <2>13. \A b \in 1..Len(aggs) : aggs[b].state = "flushed" => aggs'[b] = aggs[b]
      BY <2>1
  <2>14. Len(aggs') = Len(aggs) /\ aggs' \in Seq(Aggregates)
      BY <2>1
  <2>15. \A b \in 1..Len(aggs') : b \in 1..Len(aggs)
      BY <2>14
  <2>16. Len(aggs) <= Len(aggs') /\ Len(aggs') \in Nat
      BY <1>3, <2>14
  <2>17. \A b \in 1..Len(aggs') : \A k \in 1..Len(aggs'[b].events) :
           \/ aggs'[b].events[k] = n
           \/ b \in 1..Len(aggs) /\ \E l \in 1..Len(aggs[b].events) :
                                       aggs'[b].events[k] = aggs[b].events[l]
      BY <2>12, <2>15
  <2> QED BY <2>5, <2>11, <2>13, <2>14, <2>15, <2>16, <2>17
<1> QED BY <1>6, <1>7, Gathers

\* _reduce_event of an update.
LEMMA GatherOK == ASSUME IInv, Gather PROVE IInv'
<1> DEFINE i == pc.event
           e == ReportOf(i)
           b == Under(i)
<1>1. /\ Types /\ ChannelOK /\ LogOK /\ PlaceOK /\ AggregatesOK
      /\ SaidOK /\ FlushedIsTold /\ LaterComes /\ ProgressInOrder
    BY DEF IInv
<1>2. /\ pc.at = "gather" /\ lean' = lean /\ contracts' = contracts /\ reports' = reports
      /\ queue' = queue /\ putting' = putting /\ log' = log
      /\ said' = said /\ over' = over /\ up' = up /\ deaths' = deaths
      /\ aggs' = IF Gathered(e, b) THEN GatheredIn(log[i].n, log[i].rev) ELSE aggs
      /\ timers' \subseteq timers \union DOMAIN aggs'
    BY DEF Gather, chanVars
<1>3. i \in 1..Len(log) /\ ~ log[i].processed /\ i # 0
    BY <1>1, <1>2 DEF PlaceOK
<1>4. e.kind \in Kinds
  <2>1. log[i] \in LogEntries
      BY <1>1, <1>3, Entries
  <2>2. log[i].n \in Positive /\ Len(reports) \in Nat
      BY <1>1, <2>1, Fields, Entries
  <2>3. log[i].n \in 1..Len(reports)
      BY <1>1, <1>3, <2>2 DEF LogOK, Positive
  <2>4. e \in Payloads
      BY <1>1, <2>3, Entries DEF ReportOf
  <2> QED BY <2>4, Fields
\* Where the gateway goes on: an activity that may be told goes past the flush.
<1>5. /\ pc' \in Places /\ pc'.event = pc.event
      /\ pc'.at \in {"mark", "tell", "flush"}
      /\ pc'.at = "tell" => e.kind = "activity"
      /\ pc'.at = "flush" => e.kind # "activity"
  <2>1. pc' = [pc EXCEPT !.at = IF ~ Accepted(e, b) THEN "mark"
                                ELSE IF e.kind = "activity" THEN "tell" ELSE "flush"]
      BY DEF Gather
  <2>2. pc \in Places
      BY <1>1, Entries
  <2> QED BY <2>1, <2>2 DEF Places
<1>6. Extended
    BY <1>1, <1>2, Entries DEF Extended, Types
<1>7. ChannelOK' /\ LogOK'
    BY <1>1, <1>2, <1>5 DEF ChannelOK, LogOK
<1>8. PlaceOK'
    BY <1>1, <1>2, <1>3, <1>5 DEF PlaceOK, ReportOf
<1>9. Failure.topic = "failure" /\ Failure.events = {} /\ Failure.key = << "terminal", 0 >>
    BY DEF Failure
<1>10. CASE aggs' = aggs
  <2>1. Types'
    <3>1. timers' \subseteq 1..Len(aggs')
        BY <1>1, <1>2, <1>10, Entries DEF Types
    <3> QED BY <1>1, <1>2, <1>5, <1>10, <3>1 DEF Types
  <2>2. AggregatesOK' /\ SaidOK' /\ FlushedIsTold' /\ LaterComes' /\ ProgressInOrder'
    <3>1. pc'.at # "speak" /\ pc.at # "speak"
        BY <1>2, <1>5
    <3> QED BY <1>2, <1>6, <1>10, <3>1, Quiet
  <2> QED BY <1>7, <1>8, <2>1, <2>2 DEF IInv
<1>11. CASE aggs' # aggs
  <2>1. Gathered(e, b) /\ aggs' = GatheredIn(log[i].n, log[i].rev) /\ Ordinary(i)
      BY <1>2, <1>11 DEF Gathered, Ordinary
  <2>2. PICK m \in 1..Len(log) : m = i
      BY <1>3
  <2>3. /\ ~ log[m].processed /\ Ordinary(m)
        /\ aggs' = GatheredIn(log[m].n, log[m].rev)
      BY <1>3, <2>1, <2>2
  <2>4. /\ AggregatesOK' /\ aggs' \in Seq(Aggregates)
        /\ Len(aggs) <= Len(aggs') /\ Len(aggs') \in Nat
        /\ \A a \in 1..Len(aggs) : aggs[a].state = "flushed" => aggs'[a] = aggs[a]
        /\ \A a \in 1..Len(aggs) : aggs'[a].rev = aggs[a].rev
        /\ \A a \in 1..Len(aggs) : aggs'[a].state = aggs[a].state
        /\ \A a \in 1..Len(aggs') : a \notin 1..Len(aggs) => aggs'[a].state = "open"
        /\ \A a \in 1..Len(aggs') : \A k \in 1..Len(aggs'[a].events) :
             \/ aggs'[a].events[k] = log[m].n
             \/ a \in 1..Len(aggs) /\ \E l \in 1..Len(aggs[a].events) :
                                         aggs'[a].events[k] = aggs[a].events[l]
      BY <1>2, <1>6, <1>11, <2>3, GatheredOK
  <2>5. Types'
    <3>1. DOMAIN aggs' = 1..Len(aggs') /\ timers \subseteq 1..Len(aggs)
        BY <1>1, <2>4 DEF Types
    <3>2. 1..Len(aggs) \subseteq 1..Len(aggs')
      <4>1. Len(aggs) \in Nat
          BY <1>1, Entries
      <4> QED BY <2>4, <4>1
    <3>3. timers' \subseteq 1..Len(aggs')
        BY <1>2, <3>1, <3>2
    <3> QED BY <1>1, <1>2, <1>5, <2>4, <3>3 DEF Types
  <2>6. SaidOK'
      BY <1>1, <1>2, <1>6, <1>9, <2>4, SaidKept
  <2>7. FlushedIsTold'
    <3> SUFFICES ASSUME deaths' = 0, NEW a \in 1..Len(aggs'), aggs'[a].state = "flushed",
                        contracts'[aggs'[a].rev].aggregate
                 PROVE  \E j \in 1..Len(said') : said'[j].key = << "aggregate", a >>
        BY DEF FlushedIsTold
    <3>1. a \in 1..Len(aggs)
        BY <2>4
    <3>2. aggs[a].state = "flushed" /\ contracts[aggs[a].rev].aggregate
        BY <1>2, <2>4, <3>1
    <3> QED BY <1>1, <1>2, <3>1, <3>2 DEF FlushedIsTold
  \* What is gathered now came after every milestone that was told.
  <2>8. LaterComes'
    <3>0. said' = said
        BY <1>2
    <3> SUFFICES ASSUME NEW j \in 1..Len(said), NEW a \in 1..Len(aggs'),
                        said[j].topic \in Marker, ToCome(a)',
                        NEW x \in said[j].events, NEW k \in 1..Len(aggs'[a].events)
                 PROVE  x < aggs'[a].events[k]
        BY <3>0 DEF LaterComes
    <3>1. CASE aggs'[a].events[k] = log[m].n
      <4>1. OfEvent(said[j])
          BY <1>1 DEF SaidOK, OfAggregate, Marker
      <4>2. PICK l \in 1..Len(log) :
              /\ said[j].events = {log[l].n} /\ ~ Ordinary(l)
          BY <4>1 DEF OfEvent
      <4>3. l # m /\ m = Len(log) /\ Len(log) \in Nat
          BY <1>1, <2>3, <4>2, Entries DEF LogOK
      <4> QED BY <1>1, <3>1, <4>2, <4>3 DEF LogOK
    <3>2. CASE a \in 1..Len(aggs) /\ \E l \in 1..Len(aggs[a].events) :
                                        aggs'[a].events[k] = aggs[a].events[l]
      <4>1. ToCome(a)
          BY <1>5, <2>4, <3>2 DEF ToCome
      <4> QED BY <1>1, <3>2, <4>1 DEF LaterComes
    <3> QED BY <2>4, <3>1, <3>2
  <2>9. ProgressInOrder'
      BY <1>1, <1>2 DEF ProgressInOrder
  <2> QED BY <1>7, <1>8, <2>4, <2>5, <2>6, <2>7, <2>8, <2>9 DEF IInv
<1> QED BY <1>10, <1>11

\* start(): the event that was not marked is reduced again; then the task fails,
\* and the open aggregates have their timers again.
LEMMA RecoverOK == ASSUME IInv, Recover PROVE IInv'
<1> DEFINE unmarked == {i \in DOMAIN log : ~ log[i].processed}
           oldest == CHOOSE i \in unmarked : \A j \in unmarked : i <= j
<1>1. /\ Types /\ ChannelOK /\ LogOK /\ PlaceOK
    BY DEF IInv
<1>2. /\ pc = Idle /\ lean' = lean /\ contracts' = contracts /\ reports' = reports
      /\ queue' = queue /\ putting' = putting /\ log' = log /\ aggs' = aggs
      /\ deaths' = deaths
    BY DEF Recover, chanVars
<1>3. pc.at = "idle"
    BY <1>2 DEF Idle
<1>4. DOMAIN log = 1..Len(log) /\ DOMAIN aggs = 1..Len(aggs) /\ Len(log) \in Nat
    BY <1>1, Entries
<1>5. Extended
    BY <1>1, <1>2, Entries DEF Extended, Types
<1>6. CASE unmarked # {}
  <2>1. /\ pc' = [Idle EXCEPT !.at = "gather", !.event = oldest]
        /\ timers' = timers /\ said' = said /\ over' = over /\ up' = up
        /\ up = "recovering"
      BY <1>6 DEF Recover
  <2>2. oldest \in unmarked
    <3>1. unmarked \in SUBSET Nat
        BY <1>4
    <3>2. \E x \in unmarked : \A y \in unmarked : x <= y
        BY <1>6, <3>1, First
    <3> QED BY <3>2
  <2>3. oldest \in 1..Len(log) /\ ~ log[oldest].processed
      BY <1>4, <2>2
  <2> HIDE DEF oldest
  <2>4. pc' = [at |-> "gather", event |-> oldest, agg |-> 0]
      BY <2>1 DEF Idle
  <2>5. /\ pc' \in Places /\ pc'.at = "gather" /\ pc'.event = oldest /\ oldest # 0
      BY <2>3, <2>4 DEF Places
  <2>6. Types' /\ ChannelOK'
      BY <1>1, <1>2, <2>1, <2>5 DEF Types, ChannelOK
  <2>7. LogOK'
      BY <1>1, <1>2, <2>1 DEF LogOK
  <2>8. PlaceOK'
      BY <1>2, <2>3, <2>5 DEF PlaceOK
  <2>9. AggregatesOK' /\ SaidOK' /\ FlushedIsTold' /\ LaterComes' /\ ProgressInOrder'
      BY <1>2, <1>3, <1>5, <2>1, <2>5, Quiet
  <2> QED BY <2>6, <2>7, <2>8, <2>9 DEF IInv
<1>7. CASE unmarked = {}
  <2>1. /\ up' = "serving" /\ pc' = pc
        /\ timers' = {a \in DOMAIN aggs : aggs[a].state = "open"}
        /\ over = "no" => EndTask
        /\ over # "no" => said' = said /\ over' = over
      BY <1>7 DEF Recover
  <2>2. /\ over' \in {"no", "done", "failed"}
        /\ said' = said \/ Added(Failure)
      BY <1>1, <2>1, Ended DEF Types
  <2>3. said' \in Seq(Sayings)
      BY <1>1, <2>2 DEF Types, Added
  <2>4. Types' /\ ChannelOK'
      BY <1>1, <1>2, <1>4, <2>1, <2>2, <2>3 DEF Types, ChannelOK
  <2>5. LogOK' /\ PlaceOK'
      BY <1>1, <1>2, <1>3, <1>4, <1>7, <2>1 DEF LogOK, PlaceOK
  <2>6. AggregatesOK' /\ SaidOK' /\ FlushedIsTold' /\ LaterComes' /\ ProgressInOrder'
      BY <1>2, <1>3, <1>5, <2>1, <2>2, Quiet
  <2> QED BY <2>4, <2>5, <2>6 DEF IInv
<1> QED BY <1>6, <1>7

-----------------------------------------------------------------------------
(* The theorems                                                            *)

\* The inductive invariant holds throughout.
THEOREM Inductive == ASSUME SupervisionAssumption PROVE Spec => []IInv
<1>1. Init => IInv
    BY InitOK
<1>2. IInv /\ [Next]_supVars => IInv'
  <2> SUFFICES ASSUME IInv, [Next]_supVars PROVE IInv'
      OBVIOUS
  <2>1. CASE \E p \in Payloads : Report(p)
      BY <2>1, ReportOK
  <2>2. CASE \E n \in putting : Put(n, TRUE) \/ Put(n, FALSE)
    <3>1. PICK n \in putting : Put(n, TRUE) \/ Put(n, FALSE)
        BY <2>2
    <3>2. TRUE \in BOOLEAN /\ FALSE \in BOOLEAN
        OBVIOUS
    <3> QED BY <3>1, <3>2, PutOK
  <2>3. CASE Ingest \/ Gather \/ Flush \/ Speak \/ Tell \/ Mark
      BY <2>3, IngestOK, GatherOK, FlushOK, SpeakOK, TellOK, MarkOK
  <2>4. CASE \E a \in timers : Due(a)
      BY <2>4, DueOK
  <2>5. CASE \E b \in Bodies : Revise(b)
      BY <2>5, ReviseOK
  <2>6. CASE Fail \/ Crash \/ Start \/ Recover
      BY <2>6, FailOK, CrashOK, StartOK, RecoverOK
  <2>7. CASE UNCHANGED supVars
    <3>1. /\ Types /\ ChannelOK /\ LogOK /\ PlaceOK
        BY DEF IInv
    <3>2. /\ lean' = lean /\ contracts' = contracts /\ reports' = reports /\ queue' = queue
          /\ putting' = putting /\ log' = log /\ aggs' = aggs /\ timers' = timers
          /\ said' = said /\ over' = over /\ pc' = pc /\ up' = up /\ deaths' = deaths
        BY <2>7 DEF supVars
    <3>3. Types' /\ ChannelOK' /\ LogOK' /\ PlaceOK'
        BY <3>1, <3>2 DEF Types, ChannelOK, LogOK, PlaceOK
    <3>4. Extended
        BY <3>1, <3>2, Entries DEF Extended, Types
    <3>5. AggregatesOK' /\ SaidOK' /\ FlushedIsTold' /\ LaterComes' /\ ProgressInOrder'
        BY <3>2, <3>4, Quiet
    <3> QED BY <3>3, <3>5 DEF IInv
  <2> QED BY <2>1, <2>2, <2>3, <2>4, <2>5, <2>6, <2>7 DEF Next
<1> QED BY <1>1, <1>2, PTL DEF Spec

\* As many different events as entries, when no entry is repeated.
LEMMA NoneRepeated ==
    ASSUME NEW S, NEW q \in Seq(S), \A k, l \in 1..Len(q) : q[k] = q[l] => k = l
    PROVE  Cardinality(Range(q)) = Len(q)
<1>1. /\ Len(q) \in Nat /\ DOMAIN q = 1..Len(q)
      /\ q \in [1..Len(q) -> Range(q)]
    BY DEF Range
<1>2. q \in Bijection(1..Len(q), Range(q))
    BY <1>1 DEF Bijection, Injection, Surjection, IsInjective, Range
<1>3. IsFiniteSet(1..Len(q)) /\ Cardinality(1..Len(q)) = Len(q)
    BY <1>1, FS_Interval
<1> QED BY <1>2, <1>3, FS_Bijection DEF ExistsBijection

\* No event is told twice: two deliveries of one event have its key, and what
\* an aggregate holds is never told on its own.
LEMMA NothingTwice ==
    ASSUME IInv, NEW i \in 1..Len(said), NEW j \in 1..Len(said), i # j
    PROVE  said[i].events \intersect said[j].events = {}
<1> SUFFICES ASSUME NEW x \in said[i].events, x \in said[j].events PROVE FALSE
    OBVIOUS
<1>1. Types /\ LogOK /\ AggregatesOK /\ SaidOK
    BY DEF IInv
<1>2. said[i].key # said[j].key
    BY <1>1 DEF SaidOK
<1>3. \A k \in 1..Len(said) : x \in said[k].events => OfAggregate(said[k]) \/ OfEvent(said[k])
    BY <1>1 DEF SaidOK
<1>4. \A m, n \in 1..Len(log) : log[m].n = log[n].n => m = n
  <2>1. \A m \in 1..Len(log) : log[m].n \in Nat
      BY <1>1, Entries, Fields DEF Positive
  <2>2. Len(log) \in Nat
      BY <1>1, Entries
  <2> SUFFICES ASSUME NEW m \in 1..Len(log), NEW n \in 1..Len(log), log[m].n = log[n].n
               PROVE  m = n
      OBVIOUS
  <2>3. ~ (m < n) /\ ~ (n < m)
      BY <1>1, <2>1 DEF LogOK
  <2> QED BY <2>2, <2>3
\* Of an aggregate: it is ordinary activity.
<1>5. ASSUME NEW k \in 1..Len(said), x \in said[k].events, OfAggregate(said[k])
      PROVE  \E a \in 1..Len(aggs) : \E l \in 1..Len(aggs[a].events), m \in 1..Len(log) :
               /\ said[k].key = << "aggregate", a >> /\ x = aggs[a].events[l]
               /\ x = log[m].n /\ Ordinary(m)
  <2>1. PICK a \in 1..Len(aggs) : said[k].key = << "aggregate", a >>
                                  /\ said[k].events = Range(aggs[a].events)
      BY <1>5 DEF OfAggregate
  <2>2. aggs[a].events \in Seq(Positive)
      BY <1>1, Entries, Fields
  <2>3. PICK l \in 1..Len(aggs[a].events) : x = aggs[a].events[l]
      BY <1>5, <2>1, <2>2 DEF Range
  <2>4. PICK m \in 1..Len(log) : aggs[a].events[l] = log[m].n /\ Ordinary(m)
      BY <1>1 DEF AggregatesOK, AllHold, HoldsFrom
  <2> QED BY <2>1, <2>3, <2>4
\* Of an event: it is not.
<1>6. ASSUME NEW k \in 1..Len(said), x \in said[k].events, OfEvent(said[k])
      PROVE  \E m \in 1..Len(log) : said[k].key = Key(m) /\ x = log[m].n /\ ~ Ordinary(m)
    BY <1>6 DEF OfEvent
<1>7. CASE OfAggregate(said[i]) /\ OfAggregate(said[j])
  <2>1. PICK a \in 1..Len(aggs) :
          /\ said[i].key = << "aggregate", a >>
          /\ \E k \in 1..Len(aggs[a].events) : x = aggs[a].events[k]
      BY <1>5, <1>7
  <2>2. PICK b \in 1..Len(aggs) :
          /\ said[j].key = << "aggregate", b >>
          /\ \E l \in 1..Len(aggs[b].events) : x = aggs[b].events[l]
      BY <1>5, <1>7
  <2>3. a # b
      BY <1>2, <2>1, <2>2
  <2>4. PICK k \in 1..Len(aggs[a].events) : x = aggs[a].events[k]
      BY <2>1
  <2>5. PICK l \in 1..Len(aggs[b].events) : x = aggs[b].events[l]
      BY <2>2
  <2> QED BY <1>1, <2>3, <2>4, <2>5 DEF AggregatesOK, Apart
<1>8. CASE OfAggregate(said[i]) /\ OfEvent(said[j])
  <2>1. PICK m \in 1..Len(log) : x = log[m].n /\ Ordinary(m)
      BY <1>5, <1>8
  <2>2. PICK n \in 1..Len(log) : x = log[n].n /\ ~ Ordinary(n)
      BY <1>6, <1>8
  <2> QED BY <1>4, <2>1, <2>2
<1>9. CASE OfEvent(said[i]) /\ OfAggregate(said[j])
  <2>1. PICK m \in 1..Len(log) : x = log[m].n /\ Ordinary(m)
      BY <1>5, <1>9
  <2>2. PICK n \in 1..Len(log) : x = log[n].n /\ ~ Ordinary(n)
      BY <1>6, <1>9
  <2> QED BY <1>4, <2>1, <2>2
<1>10. CASE OfEvent(said[i]) /\ OfEvent(said[j])
  <2>1. PICK m \in 1..Len(log) : said[i].key = Key(m) /\ x = log[m].n
      BY <1>6, <1>10
  <2>2. PICK n \in 1..Len(log) : said[j].key = Key(n) /\ x = log[n].n
      BY <1>6, <1>10
  <2>3. m = n
      BY <1>4, <2>1, <2>2
  <2> QED BY <1>2, <2>1, <2>2, <2>3
<1> QED BY <1>3, <1>7, <1>8, <1>9, <1>10

\* What the user hears of a running task is told once and in its order, however
\* reports, revisions, timers and deaths of the process interleave
\* (supervision.py:1081-1132, gateway.py:4228-4371).
THEOREM ToldOnceInOrder == ASSUME SupervisionAssumption PROVE Spec => []ProgressTold
<1>1. IInv => ProgressTold
  <2> SUFFICES ASSUME IInv PROVE ProgressTold
      OBVIOUS
  <2>1. Types /\ AggregatesOK /\ FlushedIsTold /\ ProgressInOrder
      BY DEF IInv
  <2>2. DOMAIN said = 1..Len(said) /\ DOMAIN aggs = 1..Len(aggs)
      BY <2>1, Entries
  <2>3. \A i, j \in DOMAIN said :
          (i # j) => (said[i].events \intersect said[j].events = {})
      BY <2>2, NothingTwice
  <2>4. \A a \in DOMAIN aggs : Cardinality(Range(aggs[a].events)) = Len(aggs[a].events)
    <3> SUFFICES ASSUME NEW a \in 1..Len(aggs)
                 PROVE  Cardinality(Range(aggs[a].events)) = Len(aggs[a].events)
        BY <2>2
    <3>1. aggs[a].events \in Seq(Positive)
        BY <2>1, Entries, Fields
    <3>2. \A k, l \in 1..Len(aggs[a].events) :
            aggs[a].events[k] = aggs[a].events[l] => k = l
        BY <2>1 DEF AggregatesOK, GatheredOnce
    <3> QED BY <3>1, <3>2, NoneRepeated
  <2>5. \A a, b \in DOMAIN aggs :
          (a # b) => (Range(aggs[a].events) \intersect Range(aggs[b].events) = {})
    <3> SUFFICES ASSUME NEW a \in 1..Len(aggs), NEW b \in 1..Len(aggs), a # b,
                        NEW x, x \in Range(aggs[a].events), x \in Range(aggs[b].events)
                 PROVE  FALSE
        BY <2>2
    <3>1. aggs[a].events \in Seq(Positive) /\ aggs[b].events \in Seq(Positive)
        BY <2>1, Entries, Fields
    <3>2. PICK k \in 1..Len(aggs[a].events) : x = aggs[a].events[k]
        BY <3>1 DEF Range
    <3>3. PICK l \in 1..Len(aggs[b].events) : x = aggs[b].events[l]
        BY <3>1 DEF Range
    <3> QED BY <2>1, <3>2, <3>3 DEF AggregatesOK, Apart
  <2>6. (deaths = 0 /\ pc.at = "idle") =>
          \A a \in DOMAIN aggs :
            aggs[a].state = "flushed" /\ contracts[aggs[a].rev].aggregate
              => \E j \in DOMAIN said : said[j].key = << "aggregate", a >>
      BY <2>1, <2>2 DEF FlushedIsTold
  <2> QED BY <2>1, <2>3, <2>4, <2>5, <2>6 DEF ProgressTold, ProgressToldOnce
<1> QED BY <1>1, Inductive, PTL

-----------------------------------------------------------------------------
(* The router of the tools the worker pulls with (WorkerTools).            *)
(*                                                                         *)
(* What is dispatched under the route that is bound and still runs is in   *)
(* the router's cache, because eviction stops at it; so a call that finds  *)
(* no entry of its id has no running twin.  Routes are bound in turn, so   *)
(* none of an earlier route gets a new dispatch.                           *)

CONSTANTS Requests, MaxCalls, MaxBinds, CacheSize
VARIABLES bound, binds, cache, shares
Router == INSTANCE WorkerTools

Calls == [req : Requests, binding : Nat, job : Nat,
          pc : {"refused", "loaded", "waiting", "answered"}]
Jobs == [req : Requests, binding : Nat, pc : {"new", "done"}]

RouterTypes ==
    /\ bound \in Nat /\ binds \in Nat /\ bound <= binds
    /\ calls \in Seq(Calls) /\ jobs \in Seq(Jobs) /\ cache \in Seq(Nat)

CallsOK ==
    \A i \in 1..Len(calls) :
        /\ calls[i].job <= Len(jobs) /\ calls[i].binding <= binds
        /\ calls[i].pc = "loaded" => calls[i].job = 0 /\ calls[i].binding # 0
        /\ calls[i].job # 0 => /\ jobs[calls[i].job].req = calls[i].req
                               /\ jobs[calls[i].job].binding = calls[i].binding

JobsOK == \A j \in 1..Len(jobs) : jobs[j].binding \in 1..binds

\* What runs for the route that is bound is in its cache, and nothing else is.
CacheOK ==
    /\ \A n \in 1..Len(cache) : /\ cache[n] \in 1..Len(jobs)
                                /\ jobs[cache[n]].binding = bound
    /\ \A j \in 1..Len(jobs) : jobs[j].binding = bound /\ jobs[j].pc = "new"
                                 => \E n \in 1..Len(cache) : cache[n] = j

RouterInv == RouterTypes /\ CallsOK /\ JobsOK /\ CacheOK /\ NoTwins

\* The entries of a sequence.
LEMMA Items ==
    ASSUME NEW S, NEW s \in Seq(S)
    PROVE  Len(s) \in Nat /\ DOMAIN s = 1..Len(s) /\ \A i \in 1..Len(s) : s[i] \in S
BY ElementOfSeq, LenProperties

\* The router starts without a route.
LEMMA RouterStarts == ASSUME Router!Init PROVE RouterInv
<1>1. bound = 0 /\ binds = 0 /\ calls = << >> /\ jobs = << >> /\ cache = << >>
    BY DEF Router!Init
<1>2. Len(calls) = 0 /\ Len(jobs) = 0 /\ Len(cache) = 0
    BY <1>1
<1> QED BY <1>1, <1>2 DEF RouterInv, RouterTypes, CallsOK, JobsOK, CacheOK, NoTwins

\* Bind and unbind: no job has run for the route that is bound.
LEMMA RebindOK == ASSUME RouterInv, Router!Bind \/ Router!Unbind PROVE RouterInv'
<1>1. /\ calls' = calls /\ jobs' = jobs /\ cache' = << >>
      /\ binds' \in Nat /\ bound' \in Nat /\ bound' <= binds' /\ binds <= binds'
      /\ bound' = 0 \/ bound' > binds
    BY DEF RouterInv, RouterTypes, Router!Bind, Router!Unbind
<1>2. Len(cache') = 0
    BY <1>1
<1>3. \A j \in 1..Len(jobs) : jobs[j].binding # bound' /\ jobs[j].binding \in 1..binds'
    BY <1>1 DEF RouterInv, RouterTypes, JobsOK
<1>4. \A i \in 1..Len(calls) : calls[i].binding \in Nat
  <2>1. \A i \in 1..Len(calls) : calls[i] \in Calls
      BY Items DEF RouterInv, RouterTypes
  <2> QED BY <2>1 DEF Calls
<1> QED BY <1>1, <1>2, <1>3, <1>4 DEF RouterInv, RouterTypes, CallsOK, JobsOK, CacheOK, NoTwins

\* What eviction keeps: everything that is not done.
LEMMA EvictedOK ==
    ASSUME NEW s \in Seq(Nat), s # << >>, NEW js, CacheSize \in Nat \ {0}
    PROVE  /\ Router!Evicted(s, js) \in Seq(Nat)
           /\ \A n \in 1..Len(Router!Evicted(s, js)) :
                \E m \in 1..Len(s) : Router!Evicted(s, js)[n] = s[m]
           /\ \A m \in 1..Len(s) : js[s[m]].pc # "done" =>
                \E n \in 1..Len(Router!Evicted(s, js)) : Router!Evicted(s, js)[n] = s[m]
<1> DEFINE stays == {n \in DOMAIN s : Len(s) - n < CacheSize \/ js[s[n]].pc # "done"}
           oldest == Min(stays)
<1>1. Len(s) \in stays /\ stays \in SUBSET Nat /\ \A n \in stays : n \in 1..Len(s)
    OBVIOUS
<1>2. oldest \in stays /\ \A n \in stays : oldest <= n
  <2>1. \E x \in stays : \A y \in stays : x <= y
      BY <1>1, First
  <2> QED BY <2>1 DEF Min
<1>3. Router!Evicted(s, js) = SubSeq(s, oldest, Len(s))
    BY DEF Router!Evicted, Router!Min, Min
<1>4. oldest \in 1..Len(s)
    BY <1>1, <1>2
<1> HIDE DEF oldest
<1>5. /\ SubSeq(s, oldest, Len(s)) \in Seq(Nat)
      /\ Len(SubSeq(s, oldest, Len(s))) = Len(s) - oldest + 1
      /\ \A n \in 1..(Len(s) - oldest + 1) : SubSeq(s, oldest, Len(s))[n] = s[oldest + n - 1]
  <2>1. \A i \in oldest..Len(s) : s[i] \in Nat
      BY <1>4, Items
  <2> QED BY <1>4, <2>1, SubSeqProperties
<1>6. \A m \in 1..Len(s) : js[s[m]].pc # "done" => oldest <= m
    BY <1>2
<1> DEFINE t == SubSeq(s, oldest, Len(s))
<1> HIDE DEF t
<1>7. \A n \in 1..Len(t) : \E m \in 1..Len(s) : t[n] = s[m]
  <2> SUFFICES ASSUME NEW n \in 1..Len(t) PROVE \E m \in 1..Len(s) : t[n] = s[m]
      OBVIOUS
  <2>1. oldest + n - 1 \in 1..Len(s) /\ t[n] = s[oldest + n - 1]
      BY <1>4, <1>5 DEF t
  <2> QED BY <2>1
<1>8. \A m \in 1..Len(s) : js[s[m]].pc # "done" => \E n \in 1..Len(t) : t[n] = s[m]
  <2> SUFFICES ASSUME NEW m \in 1..Len(s), js[s[m]].pc # "done"
               PROVE  \E n \in 1..Len(t) : t[n] = s[m]
      OBVIOUS
  <2>1. oldest <= m /\ oldest \in Nat /\ Len(s) \in Nat
      BY <1>4, <1>6, Items
  <2>2. m - oldest + 1 \in 1..(Len(s) - oldest + 1) /\ oldest + (m - oldest + 1) - 1 = m
      BY <2>1
  <2>3. Len(t) = Len(s) - oldest + 1 /\ t[m - oldest + 1] = s[m]
      BY <1>5, <2>2 DEF t
  <2> QED BY <2>2, <2>3
<1> QED BY <1>3, <1>5, <1>7, <1>8 DEF t


\* What move_to_end keeps: every entry.
LEMMA MovedToEnd ==
    ASSUME NEW s \in Seq(Nat), NEW n \in 1..Len(s)
    PROVE  LET t == Append(Router!RemoveAt(s, n), s[n])
           IN /\ t \in Seq(Nat)
              /\ \A k \in 1..Len(t) : \E m \in 1..Len(s) : t[k] = s[m]
              /\ \A m \in 1..Len(s) : \E k \in 1..Len(t) : t[k] = s[m]
<1> DEFINE a == SubSeq(s, 1, n - 1)
           b == SubSeq(s, n + 1, Len(s))
           c == a \o b
           t == Append(c, s[n])
<1>1. /\ a \in Seq(Nat) /\ Len(a) = n - 1 /\ \A k \in 1..(n - 1) : a[k] = s[k]
      /\ b \in Seq(Nat) /\ Len(b) = Len(s) - n /\ \A k \in 1..(Len(s) - n) : b[k] = s[n + k]
    OBVIOUS
<1> HIDE DEF a, b
<1>8. Len(s) \in Nat
    BY Items
<1>2. /\ c \in Seq(Nat) /\ Len(c) = Len(s) - 1
      /\ \A k \in 1..(n - 1) : c[k] = s[k]
      /\ \A k \in n..(Len(s) - 1) : c[k] = s[k + 1]
  <2>1. c \in Seq(Nat) /\ Len(c) = Len(a) + Len(b)
      BY <1>1, ConcatProperties
  <2>2. \A k \in 1..(Len(a) + Len(b)) : c[k] = IF k <= Len(a) THEN a[k] ELSE b[k - Len(a)]
      BY <1>1, ConcatProperties
  <2> HIDE DEF c
  <2>3. Len(c) = Len(s) - 1
      BY <1>1, <1>8, <2>1
  <2>4. \A k \in 1..(n - 1) : c[k] = s[k]
    <3> SUFFICES ASSUME NEW k \in 1..(n - 1) PROVE c[k] = s[k]
        OBVIOUS
    <3>1. k \in 1..((n - 1) + (Len(s) - n)) /\ k <= n - 1
        BY <1>8
    <3> QED BY <1>1, <2>2, <3>1
  <2>5. \A k \in n..(Len(s) - 1) : c[k] = s[k + 1]
    <3> SUFFICES ASSUME NEW k \in n..(Len(s) - 1) PROVE c[k] = s[k + 1]
        OBVIOUS
    <3>1. /\ k - (n - 1) \in 1..(Len(s) - n) /\ n + (k - (n - 1)) = k + 1
          /\ k \in 1..((n - 1) + (Len(s) - n)) /\ ~ (k <= n - 1)
        BY <1>8
    <3>2. c[k] = b[k - (n - 1)]
        BY <1>1, <2>2, <3>1
    <3> QED BY <1>1, <3>1, <3>2
  <2> QED BY <2>1, <2>3, <2>4, <2>5
<1> HIDE DEF c
<1>3. s[n] \in Nat
    BY ElementOfSeq
<1>4. /\ t \in Seq(Nat) /\ Len(t) = Len(s)
      /\ \A k \in 1..(n - 1) : t[k] = s[k]
      /\ \A k \in n..(Len(s) - 1) : t[k] = s[k + 1]
      /\ t[Len(s)] = s[n]
    BY <1>2, <1>3
<1> HIDE DEF t
<1>5. \A k \in 1..Len(t) : \E m \in 1..Len(s) : t[k] = s[m]
  <2> SUFFICES ASSUME NEW k \in 1..Len(t) PROVE \E m \in 1..Len(s) : t[k] = s[m]
      OBVIOUS
  <2>1. CASE k < n
      BY <1>4, <2>1
  <2>2. CASE k = Len(s)
      BY <1>4, <2>2
  <2>3. CASE k >= n /\ k # Len(s)
    <3>1. k \in n..(Len(s) - 1) /\ k + 1 \in 1..Len(s)
        BY <1>4, <2>3
    <3> QED BY <1>4, <3>1
  <2> QED BY <2>1, <2>2, <2>3
<1>6. \A m \in 1..Len(s) : \E k \in 1..Len(t) : t[k] = s[m]
  <2> SUFFICES ASSUME NEW m \in 1..Len(s) PROVE \E k \in 1..Len(t) : t[k] = s[m]
      OBVIOUS
  <2>1. CASE m < n
      BY <1>4, <2>1
  <2>2. CASE m = n
      BY <1>4, <2>2
  <2>3. CASE m > n
    <3>1. m - 1 \in n..(Len(s) - 1) /\ m - 1 \in 1..Len(t) /\ t[m - 1] = s[m]
        BY <1>4, <2>3
    <3> QED BY <3>1
  <2> QED BY <2>1, <2>2, <2>3
<1>7. t = Append(Router!RemoveAt(s, n), s[n])
    BY DEF t, c, a, b, Router!RemoveAt
<1> QED BY <1>4, <1>5, <1>6, <1>7

\* Which jobs run for the route that is bound does not change when a call does.
LEMMA CallMoves ==
    ASSUME RouterInv, NEW i \in 1..Len(calls), NEW c \in Calls,
           calls' = Router!Moved(i, c), c.binding = calls[i].binding,
           c.job <= Len(jobs'), c.pc # "loaded",
           c.job # 0 => jobs'[c.job].req = c.req /\ jobs'[c.job].binding = c.binding,
           jobs' \in Seq(Jobs), Len(jobs) <= Len(jobs'),
           \A j \in 1..Len(jobs) : jobs'[j].req = jobs[j].req
                                 /\ jobs'[j].binding = jobs[j].binding,
           binds' = binds
    PROVE  calls' \in Seq(Calls) /\ CallsOK'
<1>1. /\ calls \in Seq(Calls) /\ CallsOK
      /\ \A k \in 1..Len(calls) : calls[k].job \in Nat
  <2>1. \A k \in 1..Len(calls) : calls[k] \in Calls
      BY Items DEF RouterInv, RouterTypes
  <2> QED BY <2>1 DEF RouterInv, RouterTypes, Calls
<1>2. calls' = [calls EXCEPT ![i] = c]
    BY DEF Router!Moved
<1>3. /\ calls' \in Seq(Calls) /\ Len(calls') = Len(calls)
      /\ \A k \in 1..Len(calls) : calls'[k] = IF k = i THEN c ELSE calls[k]
    BY <1>1, <1>2, ExceptSeq
<1>4. Len(jobs) \in Nat /\ Len(jobs') \in Nat
    BY Items DEF RouterInv, RouterTypes
<1>5. SUFFICES ASSUME NEW k \in 1..Len(calls)
               PROVE  /\ calls'[k].job <= Len(jobs') /\ calls'[k].binding <= binds'
                      /\ calls'[k].pc = "loaded"
                           => calls'[k].job = 0 /\ calls'[k].binding # 0
                      /\ calls'[k].job # 0
                           => /\ jobs'[calls'[k].job].req = calls'[k].req
                              /\ jobs'[calls'[k].job].binding = calls'[k].binding
    BY <1>3 DEF CallsOK
<1>6. CASE k = i
    BY <1>1, <1>3, <1>6 DEF CallsOK
<1>7. CASE k # i
  <2>1. calls'[k] = calls[k] /\ calls[k].job \in Nat /\ calls[k].job <= Len(jobs)
      BY <1>1, <1>3, <1>7 DEF CallsOK
  <2>2. calls[k].job # 0 => calls[k].job \in 1..Len(jobs)
      BY <1>4, <2>1
  <2>3. calls[k].job # 0 => /\ jobs[calls[k].job].req = calls[k].req
                            /\ jobs[calls[k].job].binding = calls[k].binding
      BY <1>1 DEF CallsOK
  <2>4. calls[k].job <= Len(jobs')
      BY <1>4, <2>1
  <2>5. /\ calls[k].binding <= binds
        /\ calls[k].pc = "loaded" => calls[k].job = 0 /\ calls[k].binding # 0
      BY <1>1 DEF CallsOK
  <2> QED BY <2>1, <2>2, <2>3, <2>4, <2>5
<1> QED BY <1>6, <1>7

\* A call moves on and the jobs stay as they are.
LEMMA OnlyCallMoves ==
    ASSUME RouterInv, NEW i \in 1..Len(calls), NEW p \in {"refused", "answered"},
           calls' = Router!Moved(i, [calls[i] EXCEPT !.pc = p]),
           jobs' = jobs, cache' = cache, binds' = binds, bound' = bound
    PROVE  RouterInv'
<1>1. calls[i] \in Calls /\ [calls[i] EXCEPT !.pc = p] \in Calls
  <2>1. calls[i] \in Calls
      BY Items DEF RouterInv, RouterTypes
  <2> QED BY <2>1 DEF Calls
<1>2. calls' \in Seq(Calls) /\ CallsOK'
  <2> DEFINE c == [calls[i] EXCEPT !.pc = p]
  <2>1. /\ c.binding = calls[i].binding /\ c.job = calls[i].job /\ c.req = calls[i].req
        /\ c.pc # "loaded" /\ c \in Calls
      BY <1>1 DEF Calls
  <2>2. /\ c.job <= Len(jobs')
        /\ c.job # 0 => jobs'[c.job].req = c.req /\ jobs'[c.job].binding = c.binding
      BY <2>1 DEF RouterInv, CallsOK
  <2>3. jobs' \in Seq(Jobs) /\ Len(jobs) <= Len(jobs')
      BY Items DEF RouterInv, RouterTypes
  <2> HIDE DEF c
  <2> QED BY <2>1, <2>2, <2>3, CallMoves DEF c
<1> QED BY <1>2 DEF RouterInv, RouterTypes, JobsOK, CacheOK, NoTwins

\* A call is made.
LEMMA LoadOK == ASSUME RouterInv, NEW r \in Requests, Router!Load(r) PROVE RouterInv'
<1> DEFINE c == [req |-> r, binding |-> bound, job |-> 0,
                 pc |-> IF bound = 0 THEN "refused" ELSE "loaded"]
<1>1. /\ calls' = Append(calls, c) /\ jobs' = jobs /\ cache' = cache
      /\ binds' = binds /\ bound' = bound
    BY DEF Router!Load, Router!routeVars
<1>2. calls \in Seq(Calls) /\ CallsOK /\ Len(jobs) \in Nat /\ bound \in Nat /\ binds \in Nat
      /\ bound <= binds
    BY Items DEF RouterInv, RouterTypes
<1>3. c \in Calls /\ c.job = 0 /\ c.binding = bound /\ (c.pc = "loaded" => bound # 0)
    BY <1>2 DEF Calls
<1> HIDE DEF c
<1>4. /\ calls' \in Seq(Calls) /\ Len(calls') = Len(calls) + 1
      /\ \A k \in 1..Len(calls) : calls'[k] = calls[k]
      /\ calls'[Len(calls) + 1] = c
    BY <1>1, <1>2, <1>3, AppendProperties
<1>5. Len(calls) \in Nat
    BY <1>2, Items
<1>6. CallsOK'
  <2> SUFFICES ASSUME NEW k \in 1..Len(calls')
               PROVE  /\ calls'[k].job <= Len(jobs') /\ calls'[k].binding <= binds'
                      /\ calls'[k].pc = "loaded"
                           => calls'[k].job = 0 /\ calls'[k].binding # 0
                      /\ calls'[k].job # 0
                           => /\ jobs'[calls'[k].job].req = calls'[k].req
                              /\ jobs'[calls'[k].job].binding = calls'[k].binding
      BY DEF CallsOK
  <2>1. CASE k = Len(calls) + 1
      BY <1>1, <1>2, <1>3, <1>4, <2>1
  <2>2. CASE k \in 1..Len(calls)
      BY <1>1, <1>2, <1>4, <2>2 DEF CallsOK
  <2> QED BY <1>4, <1>5, <2>1, <2>2
<1> QED BY <1>1, <1>4, <1>6 DEF RouterInv, RouterTypes, JobsOK, CacheOK, NoTwins

\* A job is done.
LEMMA RunOK == ASSUME RouterInv, NEW j \in 1..Len(jobs), Router!Run(j) PROVE RouterInv'
<1>1. /\ jobs' = [jobs EXCEPT ![j].pc = "done"] /\ calls' = calls /\ cache' = cache
      /\ binds' = binds /\ bound' = bound
    BY DEF Router!Run, Router!routeVars
<1>2. jobs \in Seq(Jobs) /\ jobs[j] \in Jobs /\ [jobs[j] EXCEPT !.pc = "done"] \in Jobs
  <2>1. jobs[j] \in Jobs /\ jobs \in Seq(Jobs)
      BY Items DEF RouterInv, RouterTypes
  <2> QED BY <2>1 DEF Jobs
<1>3. jobs' = [jobs EXCEPT ![j] = [jobs[j] EXCEPT !.pc = "done"]]
    BY <1>1
<1>4. /\ jobs' \in Seq(Jobs) /\ Len(jobs') = Len(jobs)
      /\ \A k \in 1..Len(jobs) :
           jobs'[k] = IF k = j THEN [jobs[j] EXCEPT !.pc = "done"] ELSE jobs[k]
    BY <1>2, <1>3, ExceptSeq
<1>5. \A k \in 1..Len(jobs) : /\ jobs'[k].req = jobs[k].req
                             /\ jobs'[k].binding = jobs[k].binding
                             /\ jobs'[k].pc \in {jobs[k].pc, "done"}
    BY <1>2, <1>4 DEF Jobs
<1>6. \A i \in 1..Len(calls) : calls[i].job \in Nat
  <2>1. \A k \in 1..Len(calls) : calls[k] \in Calls
      BY Items DEF RouterInv, RouterTypes
  <2> QED BY <2>1 DEF Calls
<1>7. CallsOK'
    BY <1>1, <1>4, <1>5, <1>6 DEF RouterInv, CallsOK
<1>8. JobsOK' /\ CacheOK'
    BY <1>1, <1>4, <1>5 DEF RouterInv, JobsOK, CacheOK
<1>9. NoTwins'
  <2>1. DOMAIN jobs = 1..Len(jobs) /\ DOMAIN jobs' = 1..Len(jobs)
      BY <1>2, <1>4, Items
  <2> QED BY <1>5, <2>1 DEF RouterInv, NoTwins
<1> QED BY <1>1, <1>4, <1>7, <1>8, <1>9 DEF RouterInv, RouterTypes

\* A call reaches the router: a stale one is refused, a new one starts a job, and
\* a repeated one joins its job.
LEMMA ServeOK ==
    ASSUME RouterInv, CacheSize \in Nat \ {0}, NEW i \in 1..Len(calls), Router!Serve(i)
    PROVE  RouterInv'
<1> DEFINE c == calls[i]
           known == Router!Cached(c.req)
           new == Len(jobs) + 1
<1>1. /\ c \in Calls /\ c.pc = "loaded" /\ c.job = 0 /\ c.binding # 0
      /\ binds' = binds /\ bound' = bound
  <2>1. c \in Calls
      BY Items DEF RouterInv, RouterTypes
  <2> QED BY <2>1 DEF RouterInv, CallsOK, Router!Serve, Router!routeVars
<1>2. /\ jobs \in Seq(Jobs) /\ Len(jobs) \in Nat /\ DOMAIN jobs = 1..Len(jobs)
      /\ \A j \in 1..Len(jobs) : jobs[j] \in Jobs
      /\ cache \in Seq(Nat) /\ Len(cache) \in Nat /\ DOMAIN cache = 1..Len(cache)
      /\ \A n \in 1..Len(cache) : cache[n] \in 1..Len(jobs) /\ jobs[cache[n]].binding = bound
      /\ \A j \in 1..Len(jobs) : jobs[j].binding = bound /\ jobs[j].pc = "new"
           => \E n \in 1..Len(cache) : cache[n] = j
    BY Items DEF RouterInv, RouterTypes, CacheOK
<1>3. CASE jobs' = jobs /\ cache' = cache
           /\ calls' = Router!Moved(i, [c EXCEPT !.pc = "refused"])
    BY <1>1, <1>3, OnlyCallMoves
<1>4. CASE /\ Router!Matches(c) /\ known = {}
           /\ jobs' = Append(jobs, [req |-> c.req, binding |-> bound, pc |-> "new"])
           /\ cache' = Router!Evicted(Append(cache, new), jobs')
           /\ calls' = Router!Moved(i, [c EXCEPT !.pc = "waiting", !.job = new])
  <2> DEFINE job == [req |-> c.req, binding |-> bound, pc |-> "new"]
             entries == Append(cache, new)
             moved == [c EXCEPT !.pc = "waiting", !.job = new]
  <2>1. job \in Jobs /\ job.req = c.req /\ job.binding = bound /\ job.pc = "new"
      BY <1>1 DEF Calls, Jobs, RouterInv, RouterTypes
  <2>2. bound = c.binding /\ bound \in 1..binds
      BY <1>1, <1>4 DEF Router!Matches, RouterInv, RouterTypes, CallsOK
  <2>3. jobs' = Append(jobs, job) /\ cache' = Router!Evicted(entries, jobs')
      BY <1>4
  <2> HIDE DEF job
  <2>4. /\ jobs' \in Seq(Jobs) /\ Len(jobs') = new
        /\ \A j \in 1..Len(jobs) : jobs'[j] = jobs[j]
        /\ jobs'[new] = job
      BY <1>2, <2>1, <2>3, AppendProperties
  <2>5. /\ entries \in Seq(Nat) /\ entries # << >> /\ Len(entries) = Len(cache) + 1
        /\ \A n \in 1..Len(cache) : entries[n] = cache[n]
        /\ entries[Len(cache) + 1] = new
    <3>1. cache \in Seq(Nat) /\ new \in Nat
        BY <1>2
    <3> QED BY <3>1, AppendProperties
  <2> HIDE DEF entries
  <2>6. /\ cache' \in Seq(Nat)
        /\ \A n \in 1..Len(cache') : \E m \in 1..Len(entries) : cache'[n] = entries[m]
        /\ \A m \in 1..Len(entries) : jobs'[entries[m]].pc # "done" =>
             \E n \in 1..Len(cache') : cache'[n] = entries[m]
    <3> DEFINE kept == Router!Evicted(entries, jobs')
    <3>1. /\ kept \in Seq(Nat)
          /\ \A n \in 1..Len(kept) : \E m \in 1..Len(entries) : kept[n] = entries[m]
          /\ \A m \in 1..Len(entries) : jobs'[entries[m]].pc # "done" =>
               \E n \in 1..Len(kept) : kept[n] = entries[m]
      <4>1. entries \in Seq(Nat) /\ entries # << >> /\ CacheSize \in Nat \ {0}
          BY <2>5
      <4> QED BY <4>1, EvictedOK
    <3>2. cache' = kept
        BY <2>3
    <3> HIDE DEF kept
    <3> QED BY <3>1, <3>2
  <2>7. \A m \in 1..Len(entries) : /\ entries[m] \in 1..new
                                   /\ jobs'[entries[m]].binding = bound
    <3> SUFFICES ASSUME NEW m \in 1..Len(entries)
                 PROVE  entries[m] \in 1..new /\ jobs'[entries[m]].binding = bound
        OBVIOUS
    <3>1. CASE m \in 1..Len(cache)
      <4>1. entries[m] = cache[m] /\ cache[m] \in 1..Len(jobs)
            /\ jobs[cache[m]].binding = bound
          BY <1>2, <2>5, <3>1
      <4> QED BY <1>2, <2>4, <4>1
    <3>2. CASE m = Len(cache) + 1
        BY <1>2, <2>1, <2>4, <2>5, <3>2
    <3> QED BY <1>2, <2>5, <3>1, <3>2
  <2>8. \A j \in 1..new : jobs'[j].binding = bound /\ jobs'[j].pc = "new"
           => \E m \in 1..Len(entries) : entries[m] = j
    <3> SUFFICES ASSUME NEW j \in 1..new, jobs'[j].binding = bound, jobs'[j].pc = "new"
                 PROVE  \E m \in 1..Len(entries) : entries[m] = j
        OBVIOUS
    <3>1. CASE j = new
      <4>1. Len(cache) + 1 \in 1..Len(entries)
          BY <1>2, <2>5
      <4> QED BY <2>5, <3>1, <4>1
    <3>2. CASE j \in 1..Len(jobs)
      <4>1. PICK n \in 1..Len(cache) : cache[n] = j
          BY <1>2, <2>4, <3>2
      <4>2. n \in 1..Len(entries) /\ entries[n] = j
          BY <1>2, <2>5, <4>1
      <4> QED BY <4>2
    <3>3. j = new \/ j \in 1..Len(jobs)
      <4>1. Len(jobs) \in Nat
          BY <1>2
      <4> QED BY <4>1
    <3> QED BY <3>1, <3>2, <3>3
  <2>9. CacheOK'
    <3>1. \A n \in 1..Len(cache') : cache'[n] \in 1..Len(jobs')
                                    /\ jobs'[cache'[n]].binding = bound'
      <4> SUFFICES ASSUME NEW n \in 1..Len(cache')
                   PROVE  cache'[n] \in 1..new /\ jobs'[cache'[n]].binding = bound
          BY <1>1, <2>4
      <4>1. PICK m \in 1..Len(entries) : cache'[n] = entries[m]
          BY <2>6
      <4> QED BY <2>7, <4>1
    <3>2. \A j \in 1..Len(jobs') : jobs'[j].binding = bound' /\ jobs'[j].pc = "new"
            => \E n \in 1..Len(cache') : cache'[n] = j
      <4> SUFFICES ASSUME NEW j \in 1..new, jobs'[j].binding = bound, jobs'[j].pc = "new"
                   PROVE  \E n \in 1..Len(cache') : cache'[n] = j
          BY <1>1, <2>4
      <4>1. PICK m \in 1..Len(entries) : entries[m] = j
          BY <2>8
      <4>2. jobs'[entries[m]].pc # "done"
          BY <4>1
      <4> QED BY <2>6, <4>1, <4>2
    <3> QED BY <3>1, <3>2 DEF CacheOK
  <2>10. JobsOK'
    <3>1. \A j \in 1..new : j \in 1..Len(jobs) \/ j = new
        BY <1>2
    <3> QED BY <1>1, <2>1, <2>2, <2>4, <3>1 DEF RouterInv, JobsOK
  <2>11. NoTwins'
    <3>1. DOMAIN jobs' = 1..new
        BY <2>4, Items
    <3> SUFFICES ASSUME NEW j \in 1..new, NEW k \in 1..new, j < k,
                        jobs'[j].req.id = jobs'[k].req.id,
                        jobs'[j].binding = jobs'[k].binding
                 PROVE  jobs'[j].pc = "done"
        BY <3>1 DEF NoTwins
    <3>2. j \in 1..Len(jobs) /\ jobs'[j] = jobs[j]
        BY <1>2, <2>4
    <3>3. CASE k \in 1..Len(jobs)
        BY <1>2, <2>4, <3>2, <3>3 DEF RouterInv, NoTwins
    <3>4. CASE k = new
      <4>1. jobs[j].binding = bound /\ jobs[j].req.id = c.req.id
          BY <2>1, <2>4, <3>2, <3>4
      <4>2. \A n \in 1..Len(cache) : jobs[cache[n]].req.id # c.req.id
          BY <1>2, <1>4 DEF Router!Cached
      <4>3. jobs[j].pc # "new"
          BY <1>2, <3>2, <4>1, <4>2
      <4> QED BY <1>2, <3>2, <4>3 DEF Jobs
    <3>5. k \in 1..Len(jobs) \/ k = new
      <4>1. Len(jobs) \in Nat
          BY <1>2
      <4> QED BY <4>1
    <3> QED BY <3>3, <3>4, <3>5
  <2>12. calls' \in Seq(Calls) /\ CallsOK'
    <3>1. /\ moved \in Calls /\ moved.binding = c.binding /\ moved.job = new
          /\ moved.req = c.req /\ moved.pc = "waiting"
      <4>1. new \in Nat
          BY <1>2
      <4>2. [c EXCEPT !.pc = "waiting", !.job = new].pc = "waiting"
          BY <1>1 DEF Calls
      <4> QED BY <1>1, <4>1, <4>2 DEF Calls
    <3>2. calls' = Router!Moved(i, moved)
        BY <1>4
    <3> HIDE DEF moved
    <3>3. jobs'[moved.job].req = moved.req /\ jobs'[moved.job].binding = moved.binding
        BY <2>1, <2>2, <2>4, <3>1
    <3>4. moved.job <= Len(jobs') /\ Len(jobs) <= Len(jobs')
        BY <1>2, <2>4, <3>1
    <3> QED BY <1>1, <2>4, <3>1, <3>2, <3>3, <3>4, CallMoves
  <2> QED BY <1>1, <2>4, <2>6, <2>9, <2>10, <2>11, <2>12 DEF RouterInv, RouterTypes
<1>5. CASE /\ Router!Matches(c) /\ jobs' = jobs
           /\ \E n \in known :
                /\ Router!Same(cache[n], c.req)
                /\ cache' = Append(Router!RemoveAt(cache, n), cache[n])
                /\ calls' = Router!Moved(i, [c EXCEPT !.pc = "waiting", !.job = cache[n]])
  <2>1. PICK n \in known :
           /\ Router!Same(cache[n], c.req)
           /\ cache' = Append(Router!RemoveAt(cache, n), cache[n])
           /\ calls' = Router!Moved(i, [c EXCEPT !.pc = "waiting", !.job = cache[n]])
      BY <1>5
  <2> DEFINE moved == [c EXCEPT !.pc = "waiting", !.job = cache[n]]
  <2>2. n \in 1..Len(cache)
      BY <1>2 DEF Router!Cached
  <2>3. cache[n] \in 1..Len(jobs) /\ jobs[cache[n]].binding = bound /\ jobs[cache[n]].req = c.req
      BY <1>2, <2>1, <2>2 DEF Router!Same
  <2>4. bound = c.binding
      BY <1>5 DEF Router!Matches
  <2>5. /\ cache' \in Seq(Nat)
        /\ \A k \in 1..Len(cache') : \E m \in 1..Len(cache) : cache'[k] = cache[m]
        /\ \A m \in 1..Len(cache) : \E k \in 1..Len(cache') : cache'[k] = cache[m]
    <3> DEFINE t == Append(Router!RemoveAt(cache, n), cache[n])
    <3>1. /\ t \in Seq(Nat)
          /\ \A k \in 1..Len(t) : \E m \in 1..Len(cache) : t[k] = cache[m]
          /\ \A m \in 1..Len(cache) : \E k \in 1..Len(t) : t[k] = cache[m]
      <4>1. cache \in Seq(Nat)
          BY <1>2
      <4> QED BY <2>2, <4>1, MovedToEnd
    <3>2. cache' = t
        BY <2>1
    <3> HIDE DEF t
    <3> QED BY <3>1, <3>2
  <2>6. CacheOK'
    <3>1. \A k \in 1..Len(cache') : cache'[k] \in 1..Len(jobs')
                                    /\ jobs'[cache'[k]].binding = bound'
      <4> SUFFICES ASSUME NEW k \in 1..Len(cache')
                   PROVE  cache'[k] \in 1..Len(jobs) /\ jobs[cache'[k]].binding = bound
          BY <1>1, <1>5
      <4>1. PICK m \in 1..Len(cache) : cache'[k] = cache[m]
          BY <2>5
      <4> QED BY <1>2, <4>1
    <3>2. \A j \in 1..Len(jobs') : jobs'[j].binding = bound' /\ jobs'[j].pc = "new"
            => \E k \in 1..Len(cache') : cache'[k] = j
      <4> SUFFICES ASSUME NEW j \in 1..Len(jobs), jobs[j].binding = bound, jobs[j].pc = "new"
                   PROVE  \E k \in 1..Len(cache') : cache'[k] = j
          BY <1>1, <1>5
      <4>1. PICK m \in 1..Len(cache) : cache[m] = j
          BY <1>2
      <4> QED BY <2>5, <4>1
    <3> QED BY <3>1, <3>2 DEF CacheOK
  <2>7. calls' \in Seq(Calls) /\ CallsOK'
    <3>1. /\ moved \in Calls /\ moved.binding = c.binding /\ moved.job = cache[n]
          /\ moved.req = c.req /\ moved.pc = "waiting"
      <4>1. cache[n] \in Nat
          BY <1>2, <2>3
      <4>2. [c EXCEPT !.pc = "waiting", !.job = cache[n]].pc = "waiting"
          BY <1>1 DEF Calls
      <4> QED BY <1>1, <4>1, <4>2 DEF Calls
    <3>2. calls' = Router!Moved(i, moved)
        BY <2>1
    <3> HIDE DEF moved
    <3>3. jobs'[moved.job].req = moved.req /\ jobs'[moved.job].binding = moved.binding
        BY <1>5, <2>3, <2>4, <3>1
    <3>4. moved.job <= Len(jobs') /\ Len(jobs) <= Len(jobs')
        BY <1>2, <1>5, <2>3, <3>1
    <3> QED BY <1>1, <1>2, <1>5, <3>1, <3>2, <3>3, <3>4, CallMoves
  <2> QED BY <1>1, <1>5, <2>5, <2>6, <2>7 DEF RouterInv, RouterTypes, JobsOK, NoTwins
<1> QED BY <1>3, <1>4, <1>5 DEF Router!Serve

\* Whatever a worker calls, however often it repeats itself and however small the
\* cache is, a call is answered by its own work and nothing runs beside its twin
\* (worker_tool_router.py:163-264).
THEOREM RouterRunsOnce == ASSUME Router!WorkerToolsAssumption
                          PROVE  Router!Spec => []CallsRunOnce
<1>1. Router!Init => RouterInv
    BY RouterStarts
<1>2. ASSUME RouterInv, [Router!Next]_(Router!toolVars) PROVE RouterInv'
  <2>1. DOMAIN calls = 1..Len(calls) /\ DOMAIN jobs = 1..Len(jobs)
      BY <1>2, Items DEF RouterInv, RouterTypes
  <2>2. CASE Router!Bind \/ Router!Unbind
      BY <1>2, <2>2, RebindOK
  <2>3. CASE \E r \in Requests : Router!Load(r)
      BY <1>2, <2>3, LoadOK
  <2>4. CASE \E i \in 1..Len(calls) : Router!Serve(i)
      BY <1>2, <2>4, ServeOK DEF Router!WorkerToolsAssumption
  <2>5. CASE \E i \in 1..Len(calls) : Router!Answer(i) \/ Router!GiveUp(i)
    <3>1. PICK i \in 1..Len(calls) : Router!Answer(i) \/ Router!GiveUp(i)
        BY <2>5
    <3>2. \E p \in {"refused", "answered"} :
            calls' = Router!Moved(i, [calls[i] EXCEPT !.pc = p])
        BY <3>1 DEF Router!Answer, Router!GiveUp
    <3>3. jobs' = jobs /\ cache' = cache /\ binds' = binds /\ bound' = bound
        BY <3>1 DEF Router!Answer, Router!GiveUp, Router!routeVars
    <3> QED BY <1>2, <3>2, <3>3, OnlyCallMoves
  <2>6. CASE \E j \in 1..Len(jobs) : Router!Run(j)
      BY <1>2, <2>6, RunOK
  <2>7. CASE UNCHANGED Router!toolVars
      BY <1>2, <2>7 DEF Router!toolVars, RouterInv, RouterTypes, CallsOK, JobsOK, CacheOK, NoTwins
  <2> QED BY <1>2, <2>1, <2>2, <2>3, <2>4, <2>5, <2>6, <2>7 DEF Router!Next
<1>3. RouterInv => CallsRunOnce
  <2> SUFFICES ASSUME RouterInv PROVE CallsRunOnce
      OBVIOUS
  <2>1. DOMAIN calls = 1..Len(calls)
      BY Items DEF RouterInv, RouterTypes
  <2> QED BY <2>1 DEF RouterInv, CallsOK, CallsRunOnce, AnswersAreOwn
<1> QED BY <1>1, <1>2, <1>3, PTL DEF Router!Spec

-----------------------------------------------------------------------------
(* What the worker reads (ContextTools).                                   *)
(*                                                                         *)
(* A record of the first selection that has not been returned stands behind*)
(* the cursor: what is written meanwhile only adds records before it, the  *)
(* new record of a task comes before what the old one came before, and what*)
(* a pruned task takes with it leaves the records that the fetch has passed*)
(* in their places, or first is given up.  The exceptions are the records  *)
(* that first loses.  So when a page ends at the end of the selection,     *)
(* nothing is left.                                                        *)

CONSTANTS Records, Initial, Lineage, Own, Session, MaxWrites, Limit, MaxChars, HitChars
VARIABLES stored, pruned, writes, active
Read == INSTANCE ContextTools

Orders == {"start", "kinds", "refs"}
Record == [id : Nat, kind : {"realtime", "turn", "task", "event"}, of : Nat,
           sess : Nat, at : Nat, len : Nat]

ReadTypes ==
    /\ stored \subseteq Records /\ writes \in Nat /\ active \in BOOLEAN
    /\ fetch \in [pc : {"idle", "more", "over"}, by : Orders, cursor : Nat]
    /\ first \subseteq Records /\ seen \subseteq Records

\* The ledger holds a task once.
HeldOnce == \A q, r \in stored : q.kind = "task" /\ q.id = r.id => q = r

\* What has not been returned yet stands behind the cursor.
StillAhead ==
    /\ fetch.pc = "idle" => fetch.cursor = 0 /\ first = {}
    /\ fetch.pc = "more" =>
         \A r \in first \ seen :
           LET S == Read!Selected(fetch.by)
           IN r \in S /\ fetch.cursor < Read!Place(fetch.by, S, r)

ReadInv == ReadTypes /\ HeldOnce /\ StillAhead /\ NothingMissed

-----------------------------------------------------------------------------
(* Order                                                                   *)

\* Tuples of numbers are ordered like words.
LEMMA Lexical ==
    ASSUME NEW n \in Nat, NEW a \in [1..n -> Int], NEW b \in [1..n -> Int],
           NEW c \in [1..n -> Int]
    PROVE  /\ ~ Read!Below(a, a)
           /\ Read!Below(a, b) /\ Read!Below(b, c) => Read!Below(a, c)
           /\ a # b => Read!Below(a, b) \/ Read!Below(b, a)
<1>1. ~ Read!Below(a, a)
    BY DEF Read!Below
<1>2. ASSUME Read!Below(a, b), Read!Below(b, c) PROVE Read!Below(a, c)
  <2>1. PICK i \in 1..n : a[i] < b[i] /\ \A j \in 1..i-1 : a[j] = b[j]
      BY <1>2 DEF Read!Below
  <2>2. PICK k \in 1..n : b[k] < c[k] /\ \A j \in 1..k-1 : b[j] = c[j]
      BY <1>2 DEF Read!Below
  <2>3. CASE i <= k
    <3>1. a[i] < c[i]
        BY <2>1, <2>2, <2>3
    <3>2. \A j \in 1..i-1 : a[j] = c[j]
        BY <2>1, <2>2, <2>3
    <3> QED BY <3>1, <3>2 DEF Read!Below
  <2>4. CASE k < i
    <3>1. a[k] < c[k]
        BY <2>1, <2>2, <2>4
    <3>2. \A j \in 1..k-1 : a[j] = c[j]
        BY <2>1, <2>2, <2>4
    <3> QED BY <3>1, <3>2 DEF Read!Below
  <2> QED BY <2>3, <2>4
<1>3. ASSUME a # b PROVE Read!Below(a, b) \/ Read!Below(b, a)
  <2> DEFINE differ == {i \in 1..n : a[i] # b[i]}
  <2>0. \E i \in 1..n : a[i] # b[i]
    <3>1. (\A i \in 1..n : a[i] = b[i]) => a = b
        OBVIOUS
    <3> QED BY <1>3, <3>1
  <2>6. PICK k \in 1..n : a[k] # b[k]
      BY <2>0
  <2>1. differ \in SUBSET Nat /\ differ # {}
    <3>1. k \in differ
        BY <2>6
    <3>2. \A i \in 1..n : i \in Nat
        OBVIOUS
    <3>3. differ \subseteq 1..n
        OBVIOUS
    <3> HIDE DEF differ
    <3> QED BY <3>1, <3>2, <3>3
  <2>2. PICK i \in differ : \A j \in differ : i <= j
      BY <2>1, First
  <2>3. \A j \in 1..i-1 : a[j] = b[j]
      BY <2>2
  <2>4. i \in 1..n /\ a[i] \in Int /\ b[i] \in Int /\ a[i] # b[i]
      BY <2>2
  <2>5. a[i] < b[i] \/ b[i] < a[i]
      BY <2>4
  <2> QED BY <2>3, <2>4, <2>5 DEF Read!Below
<1> QED BY <1>1, <1>2, <1>3

\* In a finite set with a strict total order, counting what is not behind an
\* element numbers the elements from 1 on.
LEMMA Numbered ==
    ASSUME NEW S, IsFiniteSet(S), NEW Lt,
           \A x \in S : << x, x >> \notin Lt,
           \A x, y, z \in S : << x, y >> \in Lt /\ << y, z >> \in Lt => << x, z >> \in Lt,
           \A x, y \in S : x # y => << x, y >> \in Lt \/ << y, x >> \in Lt,
           NEW upTo \in [S -> SUBSET S],
           \A q, x \in S : q \in upTo[x] <=> q = x \/ << q, x >> \in Lt,
           NEW rank, rank = [x \in S |-> Cardinality(upTo[x])]
    PROVE  /\ \A x \in S : rank[x] \in 1..Cardinality(S)
           /\ \A x, y \in S : rank[x] = rank[y] => x = y
           /\ \A n \in 1..Cardinality(S) : \E x \in S : rank[x] = n
<1>1. Cardinality(S) \in Nat
    BY FS_CardinalityType
<1>2. \A x \in S : IsFiniteSet(upTo[x]) /\ Cardinality(upTo[x]) <= Cardinality(S)
    BY FS_Subset
<1>3. \A x \in S : Cardinality(upTo[x]) \in Nat /\ Cardinality(upTo[x]) # 0
  <2> SUFFICES ASSUME NEW x \in S
               PROVE  Cardinality(upTo[x]) \in Nat /\ Cardinality(upTo[x]) # 0
      OBVIOUS
  <2>1. IsFiniteSet(upTo[x]) /\ x \in upTo[x]
      BY <1>2
  <2> QED BY <2>1, FS_CardinalityType, FS_EmptySet
<1>4. \A x \in S : rank[x] = Cardinality(upTo[x])
    OBVIOUS
<1>5. \A x \in S : rank[x] \in 1..Cardinality(S)
  <2> QED BY <1>1, <1>2, <1>3, <1>4
<1>6. \A x, y \in S : << x, y >> \in Lt => rank[x] < rank[y]
  <2> SUFFICES ASSUME NEW x \in S, NEW y \in S, << x, y >> \in Lt
               PROVE  rank[x] < rank[y]
      OBVIOUS
  <2>1. upTo[x] \in SUBSET upTo[y] /\ y \in upTo[y] /\ y \notin upTo[x]
      OBVIOUS
  <2>2. Cardinality(upTo[x]) <= Cardinality(upTo[y]) /\ Cardinality(upTo[x]) # Cardinality(upTo[y])
      BY <1>2, <2>1, FS_Subset
  <2>3. Cardinality(upTo[x]) \in Nat /\ Cardinality(upTo[y]) \in Nat
      BY <1>3
  <2>4. Cardinality(upTo[x]) < Cardinality(upTo[y])
      BY <2>2, <2>3
  <2> QED BY <1>4, <2>4
<1>7. \A x, y \in S : rank[x] = rank[y] => x = y
  <2> SUFFICES ASSUME NEW x \in S, NEW y \in S, rank[x] = rank[y], x # y PROVE FALSE
      OBVIOUS
  <2>1. rank[x] < rank[y] \/ rank[y] < rank[x]
      BY <1>6
  <2>2. rank[x] \in Nat /\ rank[y] \in Nat
      BY <1>5
  <2> QED BY <2>1, <2>2
<1>8. \A n \in 1..Cardinality(S) : \E x \in S : rank[x] = n
  <2> DEFINE N == 1..Cardinality(S)
  <2>1. rank \in Injection(S, N)
      BY <1>5, <1>7 DEF Injection, IsInjective
  <2>2. IsFiniteSet(N) /\ Cardinality(N) = Cardinality(S)
    <3>1. 1 \in Int /\ Cardinality(S) \in Int /\ Cardinality(S) >= 0
        BY <1>1
    <3> QED BY <3>1, FS_Interval
  <2> HIDE DEF N
  <2>3. rank \in Surjection(S, N)
      BY <2>1, <2>2, FS_Injection
  <2> QED BY <2>3 DEF Surjection, N
<1> QED BY <1>5, <1>7, <1>8

\* What the lemmas assume of the ledger.
Ledger == stored \subseteq Records /\ HeldOnce

\* The ledger is a finite set of records.
LEMMA Holds ==
    ASSUME Read!ContextAssumption, Ledger
    PROVE  /\ IsFiniteSet(stored)
           /\ \A r \in stored : r \in Record
           /\ \A t : Read!Updated(t) \in Nat
<1>1. IsFiniteSet(stored)
  <2>1. IsFiniteSet(Records) /\ stored \in SUBSET Records
      BY DEF Read!ContextAssumption, Ledger, Read!IsFiniteSet, IsFiniteSet
  <2> QED BY <2>1, FS_Subset
<1>2. DOMAIN Read!Group = {"realtime", "turn", "task", "event"}
    BY DEF Read!Group
<1>3. \A r \in stored : r \in Record
    BY <1>2 DEF Read!ContextAssumption, Ledger, Record
<1>4. ASSUME NEW t PROVE Read!Updated(t) \in Nat
  <2> DEFINE at == {r.at : r \in {q \in stored : q.kind = "task" /\ q.of = t}}
  <2>1. at \subseteq Nat
      BY <1>3 DEF Record
  <2>2. Read!Updated(t) = IF at = {} THEN 0 ELSE CHOOSE n \in at : TRUE
      BY DEF Read!Updated
  <2> HIDE DEF at
  <2>3. CASE at = {}
      BY <2>2, <2>3
  <2>4. CASE at # {}
    <3>1. \E n \in at : TRUE
        BY <2>4
    <3>2. (CHOOSE n \in at : TRUE) \in at
        BY <3>1
    <3> QED BY <2>1, <2>2, <2>4, <3>2
  <2> QED BY <2>3, <2>4
<1> QED BY <1>1, <1>3, <1>4

\* The key of a record is a tuple of numbers, as long as its order says.
Width(by) == CASE by = "start" -> 2 [] by = "kinds" -> 6 [] by = "refs" -> 1

\* The keys of the three orders.
LEMMA KeyStart == ASSUME NEW r PROVE Read!Key("start", r) = << r.at, r.id >>
BY DEF Read!Key

LEMMA KeyKinds ==
    ASSUME NEW r
    PROVE  Read!Key("kinds", r) = << -r.at, Read!Group[r.kind], Read!Updated(r.of),
                                     r.of, r.id, r.sess >>
BY DEF Read!Key

LEMMA KeyRefs == ASSUME NEW r PROVE Read!Key("refs", r) = << r.id >>
BY DEF Read!Key

LEMMA KeyIs ==
    ASSUME Read!ContextAssumption, Ledger, NEW by \in Orders, NEW r \in stored
    PROVE  Width(by) \in Nat /\ Read!Key(by, r) \in [1..Width(by) -> Int]
<1>1. r \in Record
    BY Holds
<1>2. r.at \in Nat /\ r.of \in Nat /\ r.id \in Nat /\ r.sess \in Nat
    BY <1>1 DEF Record
<1>3. Read!Group[r.kind] \in Int
    BY <1>1 DEF Record, Read!Group
<1>4. Read!Updated(r.of) \in Int
    BY Holds
<1>5. CASE by = "start"
  <2>1. << r.at, r.id >> \in [1..2 -> Int]
      BY <1>2
  <2> QED BY <1>5, <2>1, KeyStart DEF Width
<1>6. CASE by = "refs"
  <2>1. << r.id >> \in [1..1 -> Int]
      BY <1>2
  <2> QED BY <1>6, <2>1, KeyRefs DEF Width
<1>7. CASE by = "kinds"
  <2>1. \A u, v, w, x, y, z \in Int : << u, v, w, x, y, z >> \in [1..6 -> Int]
      OBVIOUS
  <2>2. -r.at \in Int
      BY <1>2
  <2>3. r.of \in Int /\ r.id \in Int /\ r.sess \in Int
      BY <1>2
  <2>4. << -r.at, Read!Group[r.kind], Read!Updated(r.of), r.of, r.id, r.sess >> \in [1..6 -> Int]
    <3> DEFINE a == -r.at
               g == Read!Group[r.kind]
               u == Read!Updated(r.of)
    <3>1. a \in Int /\ g \in Int /\ u \in Int
        BY <1>3, <1>4, <2>2
    <3> HIDE DEF a, g, u
    <3>2. << a, g, u, r.of, r.id, r.sess >> \in [1..6 -> Int]
        BY <2>1, <2>3, <3>1
    <3> QED BY <3>2 DEF a, g, u
  <2> QED BY <1>7, <2>4, KeyKinds DEF Width
<1> QED BY <1>5, <1>6, <1>7 DEF Orders

\* Two records of a selection have different keys.
LEMMA KeysDiffer ==
    ASSUME Read!ContextAssumption, Ledger, NEW by \in Orders,
           NEW q \in Read!Selected(by), NEW r \in Read!Selected(by), q # r
    PROVE  Read!Key(by, q) # Read!Key(by, r)
<1>1. /\ q \in Read!Gathered /\ r \in Read!Gathered
      /\ by = "start" => q.kind = "realtime" /\ r.kind = "realtime"
      /\ by = "refs" => ~ Read!Ambiguous(q)
    BY DEF Read!Selected, Orders
<1>2. q \in stored /\ r \in stored /\ q \in Records /\ r \in Records
    BY <1>1 DEF Read!Gathered, Ledger
<1>3. q.id = r.id => /\ q.kind = r.kind
                     /\ q.kind = "turn" /\ q.sess # r.sess
    BY <1>2 DEF Read!ContextAssumption, Ledger, HeldOnce
<1>4. CASE by = "start"
  <2>1. q.id # r.id
      BY <1>1, <1>3, <1>4
  <2>2. << q.at, q.id >> # << r.at, r.id >>
      BY <2>1
  <2> QED BY <1>4, <2>2, KeyStart
<1>5. CASE by = "refs"
  <2>1. q.id # r.id
      BY <1>1, <1>3, <1>5 DEF Read!Ambiguous
  <2>2. << q.id >> # << r.id >>
      BY <2>1
  <2> QED BY <1>5, <2>2, KeyRefs
<1>6. CASE by = "kinds"
  <2>1. q.id # r.id \/ q.sess # r.sess
      BY <1>3
  <2>2. \A a, b, c, d, e, f, g, h : e # f \/ g # h =>
          << -q.at, a, b, q.of, e, g >> # << -r.at, c, d, r.of, f, h >>
      OBVIOUS
  <2> QED BY <1>6, <2>1, <2>2, KeyKinds
<1> QED BY <1>4, <1>5, <1>6 DEF Orders

-----------------------------------------------------------------------------
(* Places                                                                  *)

\* The places in a selection number it.
LEMMA Placed ==
    ASSUME Read!ContextAssumption, Ledger, NEW by \in Orders,
           NEW S, S = Read!Selected(by)
    PROVE  /\ IsFiniteSet(S) /\ Cardinality(S) \in Nat
           /\ \A r \in S : Read!Place(by, S, r) \in 1..Cardinality(S)
           /\ \A q, r \in S : Read!Place(by, S, q) = Read!Place(by, S, r) => q = r
           /\ \A n \in 1..Cardinality(S) : \E r \in S : Read!Place(by, S, r) = n
<1>1. S \subseteq stored
    BY DEF Read!Selected, Read!Gathered, Orders
<1>2. IsFiniteSet(S) /\ Cardinality(S) \in Nat
    BY <1>1, Holds, FS_Subset, FS_CardinalityType
<1> DEFINE K(x) == Read!Key(by, x)
           Lt == {p \in S \X S : Read!Below(K(p[1]), K(p[2]))}
           upTo == [x \in S |-> {q \in S : q = x \/ << q, x >> \in Lt}]
           rank == [x \in S |-> Cardinality(upTo[x])]
<1>3. Width(by) \in Nat /\ \A x \in S : K(x) \in [1..Width(by) -> Int]
  <2>1. Width(by) \in Nat
      BY DEF Width, Orders
  <2> QED BY <1>1, <2>1, KeyIs
<1>4. \A x, y \in S : << x, y >> \in Lt <=> Read!Below(K(x), K(y))
    OBVIOUS
<1>5. \A x, y \in S : x # y => K(x) # K(y)
    BY KeysDiffer
<1>11. \A x \in S : Read!Place(by, S, x)
                      = Cardinality({q \in S : q = x \/ Read!Below(K(q), K(x))})
    BY DEF Read!Place, Read!Cardinality, Cardinality
<1> HIDE DEF Lt, K
<1>6. \A x \in S : << x, x >> \notin Lt
    BY <1>3, <1>4, Lexical
<1>7. \A x, y, z \in S : << x, y >> \in Lt /\ << y, z >> \in Lt => << x, z >> \in Lt
  <2> SUFFICES ASSUME NEW x \in S, NEW y \in S, NEW z \in S, << x, y >> \in Lt, << y, z >> \in Lt
               PROVE  << x, z >> \in Lt
      OBVIOUS
  <2>1. Read!Below(K(x), K(y)) /\ Read!Below(K(y), K(z))
      BY <1>4
  <2>2. Read!Below(K(x), K(z))
      BY <1>3, <2>1, Lexical
  <2> QED BY <1>4, <2>2
<1>8. \A x, y \in S : x # y => << x, y >> \in Lt \/ << y, x >> \in Lt
  <2> SUFFICES ASSUME NEW x \in S, NEW y \in S, x # y
               PROVE  << x, y >> \in Lt \/ << y, x >> \in Lt
      OBVIOUS
  <2>1. K(x) # K(y)
      BY <1>5
  <2>2. Read!Below(K(x), K(y)) \/ Read!Below(K(y), K(x))
      BY <1>3, <2>1, Lexical
  <2> QED BY <1>4, <2>2
<1>9. \A x \in S : rank[x] = Read!Place(by, S, x)
  <2> SUFFICES ASSUME NEW x \in S PROVE rank[x] = Read!Place(by, S, x)
      OBVIOUS
  <2>1. {q \in S : q = x \/ << q, x >> \in Lt}
          = {q \in S : q = x \/ Read!Below(K(q), K(x))}
      BY <1>4
  <2> QED BY <2>1, <1>11
<1>12. /\ rank = [x \in S |-> Cardinality(upTo[x])]
       /\ upTo \in [S -> SUBSET S]
       /\ \A q, x \in S : q \in upTo[x] <=> q = x \/ << q, x >> \in Lt
    OBVIOUS
<1> HIDE DEF rank, upTo
<1>10. /\ \A x \in S : rank[x] \in 1..Cardinality(S)
       /\ \A x, y \in S : rank[x] = rank[y] => x = y
       /\ \A n \in 1..Cardinality(S) : \E x \in S : rank[x] = n
  <2>1. IsFiniteSet(S)
      BY <1>2
  <2> QED BY <2>1, <1>6, <1>7, <1>8, <1>12, Numbered
<1> QED BY <1>2, <1>9, <1>10

\* The selection in order: every record at its place.
LEMMA InPlace ==
    ASSUME Read!ContextAssumption, Ledger, NEW by \in Orders,
           NEW S, S = Read!Selected(by), NEW all, all = Read!Candidates(by)
    PROVE  /\ all \in Seq(S) /\ Len(all) = Cardinality(S)
           /\ \A r \in S : /\ Read!Place(by, S, r) \in 1..Len(all)
                           /\ all[Read!Place(by, S, r)] = r
           /\ ToSet(all) = S
<1> DEFINE N == Cardinality(S)
<1>1. /\ N \in Nat
      /\ \A r \in S : Read!Place(by, S, r) \in 1..N
      /\ \A q, r \in S : Read!Place(by, S, q) = Read!Place(by, S, r) => q = r
      /\ \A n \in 1..N : \E r \in S : Read!Place(by, S, r) = n
    BY Placed
<1>2. all = [n \in 1..N |-> CHOOSE r \in S : Read!Place(by, S, r) = n]
    BY DEF Read!Candidates, Read!Cardinality, Cardinality
<1> HIDE DEF N
<1>3. \A n \in 1..N : all[n] \in S /\ Read!Place(by, S, all[n]) = n
    BY <1>1, <1>2
<1>4. all \in [1..N -> S]
    BY <1>2, <1>3
<1>5. all \in Seq(S) /\ Len(all) = N /\ DOMAIN all = 1..N
    BY <1>1, <1>4, SeqDef
<1>6. \A r \in S : all[Read!Place(by, S, r)] = r
    BY <1>1, <1>3
<1>7. ToSet(all) = S
    BY <1>1, <1>3, <1>5, <1>6 DEF ToSet
<1> QED BY <1>1, <1>5, <1>6, <1>7 DEF N

-----------------------------------------------------------------------------
(* Pages                                                                   *)

\* There is a number of entries that the budget allows.
LEMMA Fits ==
    ASSUME NEW N \in Nat, NEW used
    PROVE  Read!Fitting(N, used) \in 0..N
<1> DEFINE ends == {n \in 0..N : n = N \/ ~ (used[n] < MaxChars)}
<1>1. ends \in SUBSET Nat /\ ends # {}
  <2>1. N \in ends /\ \A n \in 0..N : n \in Nat
      OBVIOUS
  <2>2. ends \subseteq 0..N
      OBVIOUS
  <2> HIDE DEF ends
  <2> QED BY <2>1, <2>2
<1>2. PICK n \in ends : \A k \in ends : n <= k
    BY <1>1, First
<1>3. n \in 0..N /\ (n < N => ~ (used[n] < MaxChars))
    BY <1>2
<1>4. \A k \in 0..n - 1 : used[k] < MaxChars
    BY <1>2, <1>3
<1>5. \E m \in 0..N : /\ \A k \in 0..m - 1 : used[k] < MaxChars
                      /\ m < N => ~ (used[m] < MaxChars)
    BY <1>3, <1>4
<1> QED BY <1>5 DEF Read!Fitting

\* A page returns what stands between its cursor and the next one, and is the
\* last one only at the end of the selection.
LEMMA PageOK ==
    ASSUME Limit \in Nat \ {0}, NEW S, NEW all \in Seq(S), NEW cursor \in Nat,
           NEW p, p = Read!Paged(all, cursor)
    PROVE  /\ p.next \in Nat /\ p.more \in BOOLEAN
           /\ ToSet(p.results) \subseteq S
           /\ \A i \in 1..Len(all) : cursor < i /\ i <= p.next => all[i] \in ToSet(p.results)
           /\ ~ p.more => p.next >= Len(all)
<1> DEFINE m == Read!Least(cursor + Limit, Len(all))
           page == SubSeq(all, cursor + 1, m)
           consumed == Read!Fitting(Len(page), Read!Chars(page))
           results == SubSeq(page, 1, consumed)
<1>1. Len(all) \in Nat /\ \A i \in 1..Len(all) : all[i] \in S
    BY Items
<1>2. m \in Nat /\ m <= Len(all)
    BY <1>1 DEF Read!Least
<1> HIDE DEF m
<1>3. /\ page \in Seq(S)
      /\ Len(page) = IF cursor < m THEN m - cursor ELSE 0
      /\ \A i \in 1..Len(page) : page[i] = all[cursor + i]
  <2>1. \A i \in cursor + 1..m : all[i] \in S
      BY <1>1, <1>2
  <2>2. cursor + 1 \in Int /\ m \in Int
      BY <1>2
  <2>3. /\ SubSeq(all, cursor + 1, m) \in Seq(S)
        /\ Len(SubSeq(all, cursor + 1, m)) = IF cursor + 1 <= m THEN m - (cursor + 1) + 1 ELSE 0
        /\ \A i \in 1..m - (cursor + 1) + 1 : SubSeq(all, cursor + 1, m)[i] = all[cursor + 1 + i - 1]
      BY <2>1, <2>2, SubSeqProperties
  <2>4. Len(page) = IF cursor < m THEN m - cursor ELSE 0
      BY <1>2, <2>3
  <2>5. \A i \in 1..Len(page) : i \in 1..m - (cursor + 1) + 1 /\ cursor + 1 + i - 1 = cursor + i
      BY <1>2, <2>4
  <2> QED BY <2>3, <2>4, <2>5
<1> HIDE DEF page
<1>4. Len(page) \in Nat
    BY <1>3, Items
<1>5. consumed \in 0..Len(page)
    BY <1>4, Fits
<1>6. p.results = results /\ p.next = cursor + consumed
    BY DEF Read!Paged, m, page
<1>7. p.more \in BOOLEAN /\ (~ p.more => ~ (consumed < Len(page)) /\ ~ (cursor + consumed < Len(all)))
    BY DEF Read!Paged, m, page
<1> HIDE DEF consumed
<1>8. /\ results \in Seq(S) /\ Len(results) = consumed
      /\ \A i \in 1..consumed : results[i] = page[i]
  <2>1. 1 \in 1..Len(page) + 1 /\ consumed \in 1 - 1..Len(page)
      BY <1>4, <1>5
  <2>2. \A i \in 1..consumed : page[i] \in S
      BY <1>3, <1>5, Items
  <2> QED BY <1>3, <1>5, <2>1, <2>2, SubSeqProperties
<1> HIDE DEF results
<1>9. /\ ToSet(results) \subseteq S
      /\ \A i \in 1..consumed : page[i] \in ToSet(results)
    BY <1>8, Items DEF ToSet
<1>10. ASSUME NEW i \in 1..Len(all), cursor < i, i <= cursor + consumed
       PROVE  all[i] \in ToSet(results)
  <2>1. i - cursor \in 1..consumed /\ cursor + (i - cursor) = i /\ i - cursor \in 1..Len(page)
      BY <1>1, <1>4, <1>5, <1>10
  <2>2. page[i - cursor] = all[i]
      BY <1>3, <2>1
  <2> QED BY <1>9, <2>1, <2>2
<1>11. ~ p.more => p.next >= Len(all)
    BY <1>1, <1>4, <1>5, <1>6, <1>7
<1>12. p.next \in Nat
    BY <1>4, <1>5, <1>6
<1> QED BY <1>6, <1>7, <1>9, <1>10, <1>11, <1>12

\* One context_fetch.
LEMMA FetchOK ==
    ASSUME Read!ContextAssumption, ReadInv, NEW by \in Orders, Read!Fetch(by)
    PROVE  ReadInv'
<1> DEFINE all == Read!Candidates(by)
           S == Read!Selected(by)
           p == Read!Paged(all, fetch.cursor)
<1>1. /\ fetch' = [pc |-> IF p.more THEN "more" ELSE "over", by |-> by, cursor |-> p.next]
      /\ first' = IF fetch.pc = "idle" THEN ToSet(all) ELSE first
      /\ seen' = seen \cup ToSet(p.results)
      /\ UNCHANGED << stored, writes, active, memory >>
      /\ fetch.pc = "idle" \/ (fetch.pc = "more" /\ by = fetch.by)
  <2>1. /\ fetch' = [pc |-> IF p.more THEN "more" ELSE "over", by |-> by, cursor |-> p.next]
        /\ first' = IF fetch.pc = "idle" THEN Read!ToSet(all) ELSE first
        /\ seen' = seen \cup Read!ToSet(p.results)
        /\ UNCHANGED << stored, writes, active, memory >>
        /\ fetch.pc = "idle" \/ (fetch.pc = "more" /\ by = fetch.by)
    <3>1. /\ fetch' = [pc |-> IF p.more THEN "more" ELSE "over", by |-> by, cursor |-> p.next]
          /\ seen' = seen \cup Read!ToSet(p.results)
        BY Zenon DEF Read!Fetch
    <3>2. first' = IF fetch.pc = "idle" THEN Read!ToSet(all) ELSE first
        BY Zenon DEF Read!Fetch
    <3>3. /\ UNCHANGED << stored, writes, active, memory >>
          /\ fetch.pc = "idle" \/ (fetch.pc = "more" /\ by = fetch.by)
        BY DEF Read!Fetch
    <3> QED BY <3>1, <3>2, <3>3
  <2> HIDE DEF p, all
  <2>2. Read!ToSet(all) = ToSet(all) /\ Read!ToSet(p.results) = ToSet(p.results)
      BY DEF Read!ToSet, ToSet
  <2> QED BY <2>1, <2>2
<1>2. ReadTypes /\ HeldOnce /\ Ledger /\ fetch.cursor \in Nat /\ Limit \in Nat \ {0}
    BY DEF ReadInv, ReadTypes, Ledger, Read!ContextAssumption
<1>3. /\ all \in Seq(S) /\ ToSet(all) = S
      /\ \A r \in S : /\ Read!Place(by, S, r) \in 1..Len(all)
                      /\ all[Read!Place(by, S, r)] = r
    BY <1>2, InPlace
<1>4. S \subseteq stored
    BY DEF Read!Selected, Read!Gathered, Orders
<1> HIDE DEF all, S
<1>5. /\ p.next \in Nat /\ p.more \in BOOLEAN
      /\ ToSet(p.results) \subseteq S
      /\ \A i \in 1..Len(all) : fetch.cursor < i /\ i <= p.next => all[i] \in ToSet(p.results)
      /\ ~ p.more => p.next >= Len(all)
    BY <1>2, <1>3, PageOK
<1> HIDE DEF p
<1>6. ReadTypes'
    BY <1>1, <1>2, <1>3, <1>4, <1>5 DEF ReadTypes, Ledger
<1>7. Len(all) \in Nat
    BY <1>3, Items
\* What is not returned stands behind the cursor, before the step and after it.
<1>8. \A r \in first' \ seen : r \in S /\ fetch.cursor < Read!Place(by, S, r)
  <2> SUFFICES ASSUME NEW r \in first' \ seen
               PROVE  r \in S /\ fetch.cursor < Read!Place(by, S, r)
      OBVIOUS
  <2>1. CASE fetch.pc = "idle"
    <3>1. r \in S /\ fetch.cursor = 0
        BY <1>1, <1>3, <2>1 DEF ReadInv, StillAhead
    <3>2. Read!Place(by, S, r) \in 1..Len(all)
        BY <1>3, <3>1
    <3> QED BY <3>1, <3>2
  <2>2. CASE fetch.pc = "more" /\ by = fetch.by
    <3>1. r \in first \ seen
        BY <1>1, <2>2
    <3> QED BY <2>2, <3>1 DEF ReadInv, StillAhead, S
  <2> QED BY <1>1, <2>1, <2>2
<1>9. \A r \in first' \ seen' : r \in S /\ p.next < Read!Place(by, S, r) /\ p.more
  <2> SUFFICES ASSUME NEW r \in first' \ seen'
               PROVE  r \in S /\ p.next < Read!Place(by, S, r) /\ p.more
      OBVIOUS
  <2>1. r \in first' \ seen /\ r \notin ToSet(p.results)
      BY <1>1
  <2>2. r \in S /\ fetch.cursor < Read!Place(by, S, r)
      BY <1>8, <2>1
  <2> DEFINE i == Read!Place(by, S, r)
  <2>3. i \in 1..Len(all) /\ all[i] = r /\ fetch.cursor < i
      BY <1>3, <2>2
  <2> HIDE DEF i
  <2>4. ~ (i <= p.next)
      BY <1>5, <2>1, <2>3
  <2>5. p.next < i
      BY <1>5, <2>3, <2>4
  <2>6. p.more
      BY <1>5, <1>7, <2>3, <2>5
  <2> QED BY <2>2, <2>5, <2>6 DEF i
<1>10. StillAhead'
  <2>1. fetch'.pc # "idle" /\ fetch'.by = by /\ fetch'.cursor = p.next
      BY <1>1
  <2>2. stored' = stored
      BY <1>1
  <2>3. Read!Selected(by)' = S
      BY <2>2 DEF S, Read!Selected, Read!Gathered, Read!Ambiguous
  <2>4. \A r : Read!Place(by, S, r)' = Read!Place(by, S, r)
      BY <2>2 DEF Read!Place, Read!Key, Read!Updated, S, Read!Selected, Read!Gathered, Read!Ambiguous
  <2> QED BY <1>9, <2>1, <2>3, <2>4 DEF StillAhead, S
<1>11. NothingMissed'
  <2>1. fetch'.pc = "over" => ~ p.more
      BY <1>1, <1>5
  <2> QED BY <1>1, <1>9, <2>1 DEF ReadInv, NothingMissed, PagesCover, MemoryTells
<1>12. HeldOnce'
    BY <1>1, <1>2 DEF HeldOnce
<1> QED BY <1>6, <1>10, <1>11, <1>12 DEF ReadInv

-----------------------------------------------------------------------------
(* Writes while the worker reads                                           *)

\* Keys of one number.
LEMMA BelowOne ==
    ASSUME NEW a, NEW b
    PROVE  Read!Below(<< a >>, << b >>) <=> a < b
<1>1. DOMAIN << a >> = {1} /\ << a >>[1] = a /\ << b >>[1] = b
    OBVIOUS
<1>2. \A j \in 1..1 - 1 : FALSE
    OBVIOUS
<1> QED BY <1>1, <1>2 DEF Read!Below

\* An update of a task changes the third number of a key: that leaves two keys
\* in their order, when they differ before it, or when they agree on it before
\* and after, or when neither changes.
LEMMA StillBelow ==
    ASSUME NEW a \in [1..6 -> Int], NEW b \in [1..6 -> Int],
           NEW c \in [1..6 -> Int], NEW d \in [1..6 -> Int],
           Read!Below(a, b),
           \A j \in 1..6 : j # 3 => c[j] = a[j] /\ d[j] = b[j],
           a[1] = b[1] /\ a[2] = b[2] => (c = a /\ d = b) \/ (a[3] = b[3] /\ c[3] = d[3])
    PROVE  Read!Below(c, d)
<1>1. DOMAIN a = 1..6 /\ DOMAIN c = 1..6
    OBVIOUS
<1>2. PICK i \in 1..6 : a[i] < b[i] /\ \A j \in 1..i - 1 : a[j] = b[j]
    BY <1>1 DEF Read!Below
<1>3. CASE i < 3
  <2>1. c[i] < d[i] /\ \A j \in 1..i - 1 : c[j] = d[j]
      BY <1>2, <1>3
  <2> QED BY <1>1, <2>1 DEF Read!Below
<1>4. CASE c = a /\ d = b
    BY <1>4
<1>5. CASE ~ (i < 3) /\ a[3] = b[3] /\ c[3] = d[3]
  <2>1. i # 3
      BY <1>2, <1>5
  <2>2. c[i] < d[i]
      BY <1>2, <2>1
  <2>3. \A j \in 1..i - 1 : c[j] = d[j]
      BY <1>2, <1>5
  <2> QED BY <1>1, <2>2, <2>3 DEF Read!Below
<1>6. ~ (i < 3) => a[1] = b[1] /\ a[2] = b[2]
    BY <1>2
<1> QED BY <1>3, <1>4, <1>5, <1>6

\* What a write does to the ledger.
LEMMA Written ==
    ASSUME Read!ContextAssumption, Ledger, NEW r \in Records, Read!Store(r)
    PROVE  /\ Ledger' /\ r \in stored' /\ r \notin stored
           /\ \A q \in stored : q \notin Read!Replaced(r) => q \in stored'
           /\ \A q \in stored' : q \in stored \/ q = r
           /\ \A q \in Read!Replaced(r) : /\ q \in stored /\ q.kind = "task" /\ r.kind = "task"
                                          /\ q.id = r.id /\ q.of = r.of /\ q.at <= r.at
           /\ \A p, q \in Read!Replaced(r) : p = q
<1>1. /\ stored' = (stored \ Read!Replaced(r)) \cup {r} /\ r \notin stored
      /\ \A q \in Read!Replaced(r) : q.at <= r.at
    BY DEF Read!Store
<1>2. \A q : q \in Read!Replaced(r) <=> q \in stored /\ q.kind = "task" /\ r.kind = "task" /\ q.id = r.id
    BY DEF Read!Replaced
<1>3. \A q \in stored : q \in Records
    BY DEF Ledger
<1>4. \A q \in Read!Replaced(r) : q.of = r.of
    BY <1>2, <1>3 DEF Read!ContextAssumption
<1>5. stored' \subseteq Records
    BY <1>1, <1>3
<1>6. HeldOnce'
  <2> SUFFICES ASSUME NEW p \in stored', NEW q \in stored', p.kind = "task", p.id = q.id
               PROVE  p = q
      BY DEF HeldOnce
  <2>1. CASE p # r /\ q # r
      BY <1>1, <2>1 DEF HeldOnce, Ledger
  <2>2. CASE p = r /\ q # r
    <3>1. q \in stored /\ q \notin Read!Replaced(r)
        BY <1>1, <2>2
    <3>2. q.kind = r.kind
        BY <1>3, <2>2, <3>1 DEF Read!ContextAssumption
    <3> QED BY <1>2, <2>2, <3>1, <3>2
  <2>3. CASE p # r /\ q = r
    <3>1. p \in stored /\ p \notin Read!Replaced(r)
        BY <1>1, <2>3
    <3>2. p.kind = r.kind
        BY <1>3, <2>3, <3>1 DEF Read!ContextAssumption
    <3> QED BY <1>2, <2>3, <3>1, <3>2
  <2> QED BY <2>1, <2>2, <2>3
<1>7. \A p, q \in Read!Replaced(r) : p = q
    BY <1>2 DEF Ledger, HeldOnce
<1> QED BY <1>1, <1>2, <1>4, <1>5, <1>6, <1>7 DEF Ledger

\* A task whose record is not written keeps its time.
LEMMA KeepsTime ==
    ASSUME Read!ContextAssumption, Ledger, NEW r \in Records, Read!Store(r),
           NEW t, r.kind = "task" => r.of # t
    PROVE  Read!Updated(t)' = Read!Updated(t)
<1> DEFINE A == {q \in stored : q.kind = "task" /\ q.of = t}
           B == {q \in stored' : q.kind = "task" /\ q.of = t}
<1>1. \A q : q \in A <=> q \in B
    BY Written
<1>2. A = B
  <2> HIDE DEF A, B
  <2> QED BY <1>1
<1>3. Read!Updated(t) = LET at == {q.at : q \in A} IN IF at = {} THEN 0 ELSE CHOOSE n \in at : TRUE
    BY DEF Read!Updated
<1>4. Read!Updated(t)' = LET at == {q.at : q \in B} IN IF at = {} THEN 0 ELSE CHOOSE n \in at : TRUE
    BY DEF Read!Updated
<1> HIDE DEF A, B
<1> QED BY <1>2, <1>3, <1>4

\* What was selected is selected still, a task by its new record.
LEMMA StaysSelected ==
    ASSUME Read!ContextAssumption, Ledger, NEW r \in Records, Read!Store(r),
           NEW by \in Orders, ~ (by = "refs" /\ Read!Renames(r)),
           NEW A, A = Read!Selected(by), NEW B, B = Read!Selected(by)'
    PROVE  \A q \in A : IF q \in Read!Replaced(r) THEN r \in B ELSE q \in B
<1> SUFFICES ASSUME NEW q \in A
             PROVE  IF q \in Read!Replaced(r) THEN r \in B ELSE q \in B
    OBVIOUS
<1>1. \A p : p \in Read!Gathered <=> /\ p \in stored /\ p.of \in Lineage
                                     /\ p.kind = "realtime" => p.sess = Session[p.of]
    BY DEF Read!Gathered
<1>2. \A p : p \in Read!Gathered' <=> /\ p \in stored' /\ p.of \in Lineage
                                      /\ p.kind = "realtime" => p.sess = Session[p.of]
    BY DEF Read!Gathered
<1>3. q \in Read!Gathered
    BY DEF Read!Selected, Orders
<1>4. CASE q \in Read!Replaced(r)
  <2>1. r \in Read!Gathered' /\ r.kind = "task" /\ q.kind = "task"
      BY <1>1, <1>2, <1>3, <1>4, Written
  <2>2. by # "start"
      BY <2>1 DEF Read!Selected
  <2> QED BY <1>4, <2>1, <2>2 DEF Read!Selected, Read!Ambiguous, Orders
<1>5. CASE q \notin Read!Replaced(r)
  <2>1. q \in Read!Gathered'
      BY <1>1, <1>2, <1>3, <1>5, Written
  <2>2. CASE by # "refs"
      BY <1>5, <2>1, <2>2 DEF Read!Selected, Orders
  <2>3. CASE by = "refs"
    <3>1. ~ Read!Ambiguous(q)
        BY <2>3 DEF Read!Selected
    <3>2. \A p \in Read!Gathered' : p \in Read!Gathered \/ p = r
        BY <1>1, <1>2, Written
    <3>3. ASSUME q.kind = "turn", NEW p \in Read!Gathered', p.kind = "turn", p.id = q.id, p.sess # q.sess
          PROVE  FALSE
      <4>1. p = r
          BY <3>1, <3>2, <3>3 DEF Read!Ambiguous
      <4>2. r.kind = "turn" /\ r.of \in Lineage /\ q.id = r.id /\ q.sess # r.sess
          BY <1>2, <3>3, <4>1
      <4> QED BY <1>3, <2>3, <3>3, <4>2 DEF Read!Renames
    <3>4. ~ Read!Ambiguous(q)'
        BY <3>3 DEF Read!Ambiguous
    <3> QED BY <1>5, <2>1, <2>3, <3>4 DEF Read!Selected
  <2> QED BY <2>2, <2>3
<1> QED BY <1>4, <1>5

\* The keys in the state that follows.
LEMMA KeyIsNext ==
    ASSUME NEW by \in Orders, NEW r
    PROVE  (Read!ContextAssumption /\ Ledger /\ r \in stored)'
             => (Read!Key(by, r) \in [1..Width(by) -> Int])'
<1>1. Read!ContextAssumption /\ Ledger /\ r \in stored => Read!Key(by, r) \in [1..Width(by) -> Int]
    BY KeyIs
<1> QED BY <1>1, PTL

\* Two records that stay and have not changed places keep their order.
LEMMA KeepsOrder ==
    ASSUME Read!ContextAssumption, Ledger, NEW r \in Records, Read!Store(r),
           NEW by \in Orders, NEW q \in Read!Selected(by), NEW x \in Read!Selected(by),
           q \notin Read!Replaced(r), x \notin Read!Replaced(r),
           x \in first, by = "kinds" => x \notin Read!Swapped(r),
           Read!Below(Read!Key(by, q), Read!Key(by, x))
    PROVE  Read!Below(Read!Key(by, q)', Read!Key(by, x)')
<1>1. q \in Read!Gathered /\ x \in Read!Gathered /\ q \in stored /\ x \in stored
    BY DEF Read!Selected, Read!Gathered, Orders
<1>2. CASE by # "kinds"
  <2>1. Read!Key(by, q)' = Read!Key(by, q) /\ Read!Key(by, x)' = Read!Key(by, x)
      BY <1>2 DEF Read!Key, Orders
  <2> QED BY <2>1
<1>3. CASE by = "kinds"
  <2> DEFINE a == Read!Key("kinds", q)
             b == Read!Key("kinds", x)
             c == Read!Key("kinds", q)'
             d == Read!Key("kinds", x)'
             u == Read!Updated(q.of)
             v == Read!Updated(x.of)
             s == Read!Updated(q.of)'
             t == Read!Updated(x.of)'
  <2>1. /\ a = << -q.at, Read!Group[q.kind], u, q.of, q.id, q.sess >>
        /\ b = << -x.at, Read!Group[x.kind], v, x.of, x.id, x.sess >>
        /\ c = << -q.at, Read!Group[q.kind], s, q.of, q.id, q.sess >>
        /\ d = << -x.at, Read!Group[x.kind], t, x.of, x.id, x.sess >>
      BY DEF Read!Key
  <2>2. /\ a \in [1..6 -> Int] /\ b \in [1..6 -> Int]
        /\ c \in [1..6 -> Int] /\ d \in [1..6 -> Int]
    <3>1. a \in [1..6 -> Int] /\ b \in [1..6 -> Int]
        BY <1>1, KeyIs DEF Width, Orders
    <3>2. Ledger' /\ q \in stored' /\ x \in stored'
        BY <1>1, Written
    <3>3. (Read!ContextAssumption /\ Ledger /\ q \in stored)'
          /\ (Read!ContextAssumption /\ Ledger /\ x \in stored)'
        BY <3>2 DEF Read!ContextAssumption
    <3>4. "kinds" \in Orders /\ Width("kinds") = 6
        BY DEF Width, Orders
    <3>5. c \in [1..6 -> Int] /\ d \in [1..6 -> Int]
        BY <3>3, <3>4, KeyIsNext
    <3> QED BY <3>1, <3>5
  <2>3. Read!Below(a, b)
      BY <1>3
  <2>4. \A j \in 1..6 : j # 3 => c[j] = a[j] /\ d[j] = b[j]
    <3> HIDE DEF a, b, c, d, u, v, s, t
    <3>1. \A j \in 1..6 : j = 1 \/ j = 2 \/ j = 3 \/ j = 4 \/ j = 5 \/ j = 6
        OBVIOUS
    <3> QED BY <2>1, <3>1
  <2>5. q.of # x.of /\ q.at = x.at /\ q.kind = x.kind => (r.kind = "task" => r.of \notin {q.of, x.of})
      BY <1>1, <1>3 DEF Read!Swapped
  <2>6. q.of # x.of /\ q.at = x.at /\ q.kind = x.kind => s = u /\ t = v
      BY <2>5, KeepsTime
  <2>7. a[1] = b[1] /\ a[2] = b[2] => q.at = x.at /\ q.kind = x.kind
    <3>1. q \in Record /\ x \in Record
        BY <1>1, Holds
    <3>2. q.at \in Nat /\ x.at \in Nat
        BY <3>1 DEF Record
    <3>3. a[1] = b[1] => q.at = x.at
      <4> HIDE DEF a, b, u, v
      <4>1. a[1] = -q.at /\ b[1] = -x.at
          BY <2>1
      <4> QED BY <3>2, <4>1
    <3>4. Read!Group[q.kind] = Read!Group[x.kind] => q.kind = x.kind
        BY <3>1 DEF Record, Read!Group
    <3>5. a[2] = b[2] => q.kind = x.kind
      <4> HIDE DEF a, b, u, v
      <4> QED BY <2>1, <3>4
    <3> QED BY <3>3, <3>5
  <2>8. a[3] = u /\ b[3] = v /\ c[3] = s /\ d[3] = t
    <3> HIDE DEF a, b, c, d, u, v, s, t
    <3> QED BY <2>1
  <2>9. q.of = x.of => u = v /\ s = t
      OBVIOUS
  <2>10. s = u /\ t = v => c = a /\ d = b
    <3> HIDE DEF a, b, c, d, u, v, s, t
    <3> QED BY <2>1
  <2> HIDE DEF a, b, c, d, u, v, s, t
  <2>11. a[1] = b[1] /\ a[2] = b[2] => (c = a /\ d = b) \/ (a[3] = b[3] /\ c[3] = d[3])
    <3> SUFFICES ASSUME a[1] = b[1], a[2] = b[2]
                 PROVE  (c = a /\ d = b) \/ (a[3] = b[3] /\ c[3] = d[3])
        OBVIOUS
    <3>1. CASE q.of = x.of
        BY <2>8, <2>9, <3>1
    <3>2. CASE q.of # x.of
        BY <2>6, <2>7, <2>10, <3>2
    <3> QED BY <3>1, <3>2
  <2>12. Read!Below(c, d)
      BY <2>2, <2>3, <2>4, <2>11, StillBelow
  <2> QED BY <1>3, <2>12 DEF c, d
<1> QED BY <1>2, <1>3

\* The new record of a task stands before what the old one stood before.
LEMMA MovesForward ==
    ASSUME Read!ContextAssumption, Ledger, NEW r \in Records, Read!Store(r),
           NEW by \in Orders, NEW q \in Read!Selected(by), NEW x \in Read!Selected(by),
           q \in Read!Replaced(r), x \notin Read!Replaced(r),
           x \in first, by = "kinds" => x \notin Read!Swapped(r),
           Read!Below(Read!Key(by, q), Read!Key(by, x))
    PROVE  Read!Below(Read!Key(by, r)', Read!Key(by, x)')
<1>1. q \in Read!Gathered /\ x \in Read!Gathered /\ q \in stored /\ x \in stored
    BY DEF Read!Selected, Read!Gathered, Orders
<1>2. q.kind = "task" /\ r.kind = "task" /\ q.id = r.id /\ q.of = r.of /\ q.at <= r.at
    BY Written
<1>3. CASE by = "start"
    BY <1>2, <1>3 DEF Read!Selected
<1>4. CASE by = "refs"
  <2>1. /\ Read!Key(by, q) = << q.id >> /\ Read!Key(by, x) = << x.id >>
        /\ Read!Key(by, r)' = << r.id >> /\ Read!Key(by, x)' = << x.id >>
      BY <1>4 DEF Read!Key
  <2> QED BY <1>2, <2>1
<1>5. CASE by = "kinds"
  <2> DEFINE a == Read!Key("kinds", q)
             b == Read!Key("kinds", x)
             c == Read!Key("kinds", r)'
             d == Read!Key("kinds", x)'
             s == Read!Updated(r.of)'
             t == Read!Updated(x.of)'
             u == Read!Updated(q.of)
             v == Read!Updated(x.of)
  <2>1. /\ a = << -q.at, Read!Group[q.kind], u, q.of, q.id, q.sess >>
        /\ b = << -x.at, Read!Group[x.kind], v, x.of, x.id, x.sess >>
        /\ c = << -r.at, Read!Group[r.kind], s, r.of, r.id, r.sess >>
        /\ d = << -x.at, Read!Group[x.kind], t, x.of, x.id, x.sess >>
      BY DEF Read!Key
  <2>2. q \in Record /\ x \in Record /\ r.at \in Nat
    <3>1. q \in Record /\ x \in Record
        BY <1>1, Holds
    <3>2. r \in stored' /\ Ledger'
        BY Written
    <3>3. r \in [id : Nat, kind : DOMAIN Read!Group, of : Nat, sess : Nat, at : Nat, len : Nat]
        BY DEF Read!ContextAssumption
    <3> QED BY <3>1, <3>3
  <2>3. q.at \in Nat /\ x.at \in Nat
      BY <2>2 DEF Record
  <2>4. Read!Group[q.kind] \in Int /\ Read!Group[x.kind] \in Int
      BY <2>2 DEF Record, Read!Group
\* A record of that time and kind would be another task's, and change places.
  <2>5. ~ (q.at = x.at /\ q.kind = x.kind)
    <3> SUFFICES ASSUME q.at = x.at, q.kind = x.kind PROVE FALSE
        OBVIOUS
    <3>1. x.of # q.of
      <4>1. x.of = q.of => x.id = q.id
          BY <1>1, <1>2 DEF Read!ContextAssumption, Ledger
      <4>2. x.id = q.id => x = q
          BY <1>1, <1>2 DEF Ledger, HeldOnce
      <4> QED BY <4>1, <4>2
    <3>2. x \in Read!Swapped(r)
        BY <1>1, <1>2, <3>1 DEF Read!Swapped
    <3> QED BY <1>5, <3>2
  <2>6. Read!Group[q.kind] = Read!Group[x.kind] => q.kind = x.kind
      BY <2>2 DEF Record, Read!Group
  <2> HIDE DEF a, b, c, d, s, t, u, v
  <2>7. /\ a[1] = -q.at /\ a[2] = Read!Group[q.kind] /\ b[1] = -x.at /\ b[2] = Read!Group[x.kind]
        /\ c[1] = -r.at /\ c[2] = Read!Group[q.kind] /\ d[1] = -x.at /\ d[2] = Read!Group[x.kind]
        /\ DOMAIN a = 1..6 /\ DOMAIN c = 1..6
      BY <1>2, <2>1
  <2>8. a[1] < b[1] \/ (a[1] = b[1] /\ a[2] < b[2])
    <3>1. PICK i \in 1..6 : a[i] < b[i] /\ \A j \in 1..i - 1 : a[j] = b[j]
        BY <1>5, <2>7 DEF Read!Below, a, b
    <3>2. i = 1 \/ i = 2 \/ (a[1] = b[1] /\ a[2] = b[2])
        BY <3>1
    <3>3. ~ (a[1] = b[1] /\ a[2] = b[2])
        BY <2>3, <2>5, <2>6, <2>7
    <3>4. i = 2 => a[1] = b[1]
        BY <3>1
    <3> QED BY <3>1, <3>2, <3>3, <3>4
  <2>9. c[1] < d[1] \/ (c[1] = d[1] /\ c[2] < d[2])
      BY <1>2, <2>2, <2>3, <2>4, <2>7, <2>8
  <2>10. Read!Below(c, d)
    <3>1. CASE c[1] < d[1]
      <4>1. \A j \in 1..1 - 1 : c[j] = d[j]
          OBVIOUS
      <4> QED BY <2>7, <3>1, <4>1 DEF Read!Below
    <3>2. CASE c[1] = d[1] /\ c[2] < d[2]
      <4>1. \A j \in 1..2 - 1 : c[j] = d[j]
          BY <3>2
      <4> QED BY <2>7, <3>2, <4>1 DEF Read!Below
    <3> QED BY <2>9, <3>1, <3>2
  <2> QED BY <1>5, <2>10 DEF c, d
<1> QED BY <1>3, <1>4, <1>5 DEF Orders

\* A record is never pushed towards the cursor.
LEMMA PushedAway ==
    ASSUME Read!ContextAssumption, Ledger, NEW r \in Records, Read!Store(r),
           NEW by \in Orders, ~ (by = "refs" /\ Read!Renames(r)),
           NEW A, A = Read!Selected(by), NEW B, B = Read!Selected(by)',
           NEW x \in A, x \notin Read!Replaced(r),
           x \in first, by = "kinds" => x \notin Read!Swapped(r)
    PROVE  /\ Read!Place(by, B, x)' \in Nat
           /\ Read!Place(by, A, x) <= Read!Place(by, B, x)'
<1> DEFINE U == {q \in A : q = x \/ Read!Below(Read!Key(by, q), Read!Key(by, x))}
           V == {q \in B : q = x \/ Read!Below(Read!Key(by, q)', Read!Key(by, x)')}
           f == [q \in U |-> IF q \in Read!Replaced(r) THEN r ELSE q]
<1>1. A \subseteq stored /\ r \notin stored
    BY Written DEF Read!Selected, Read!Gathered, Orders
<1>2. B \subseteq stored'
    BY DEF Read!Selected, Read!Gathered, Orders
<1>3. \A q \in U : f[q] \in V
  <2> SUFFICES ASSUME NEW q \in U PROVE f[q] \in V
      OBVIOUS
  <2>1. q \in A /\ (q = x \/ Read!Below(Read!Key(by, q), Read!Key(by, x)))
      OBVIOUS
  <2>2. CASE q \in Read!Replaced(r)
    <3>1. r \in B /\ f[q] = r
        BY <2>1, <2>2, StaysSelected
    <3>2. Read!Below(Read!Key(by, q), Read!Key(by, x))
        BY <2>1, <2>2
    <3>3. Read!Below(Read!Key(by, r)', Read!Key(by, x)')
        BY <2>1, <2>2, <3>2, MovesForward
    <3> QED BY <3>1, <3>3
  <2>3. CASE q \notin Read!Replaced(r)
    <3>1. q \in B /\ f[q] = q
        BY <2>1, <2>3, StaysSelected
    <3>2. q # x => Read!Below(Read!Key(by, q)', Read!Key(by, x)')
        BY <2>1, <2>3, KeepsOrder
    <3> QED BY <3>1, <3>2
  <2> QED BY <2>2, <2>3
<1>4. \A p, q \in U : f[p] = f[q] => p = q
  <2>1. \A p, q \in U : p \in Read!Replaced(r) /\ q \in Read!Replaced(r) => p = q
      BY Written
  <2>2. \A q \in U : q # r
      BY <1>1
  <2>3. \A q \in U : f[q] = IF q \in Read!Replaced(r) THEN r ELSE q
      OBVIOUS
  <2> HIDE DEF U, f
  <2> QED BY <2>1, <2>2, <2>3
<1>5. IsFiniteSet(V) /\ Cardinality(V) \in Nat
  <2>1. IsFiniteSet(Records) /\ B \in SUBSET Records
      BY <1>2, Written DEF Read!ContextAssumption, Ledger, Read!IsFiniteSet, IsFiniteSet
  <2>2. V \in SUBSET Records
      BY <2>1
  <2> HIDE DEF V
  <2> QED BY <2>1, <2>2, FS_Subset, FS_CardinalityType
<1>6. Read!Place(by, A, x) = Cardinality(U)
    BY DEF Read!Place, Read!Cardinality, Cardinality
<1>7. Read!Place(by, B, x)' = Cardinality(V)
    BY DEF Read!Place, Read!Cardinality, Cardinality
<1>8. f \in [U -> V]
  <2>1. f = [q \in U |-> f[q]]
      OBVIOUS
  <2> HIDE DEF U, V, f
  <2> QED BY <1>3, <2>1
<1> HIDE DEF U, V, f
<1>9. f \in Injection(U, V)
    BY <1>4, <1>8 DEF Injection, IsInjective
<1>10. Cardinality(U) <= Cardinality(V)
    BY <1>5, <1>9, FS_Injection
<1> QED BY <1>5, <1>6, <1>7, <1>10

\* A record is stored, or a task's record updated.
LEMMA StoreOK ==
    ASSUME Read!ContextAssumption, ReadInv, NEW r \in Records, Read!Store(r)
    PROVE  ReadInv'
<1>1. /\ writes' = writes + 1 /\ UNCHANGED << active, fetch, seen, memory >>
      /\ first' \subseteq first
    BY DEF Read!Store
<1>2. Ledger /\ Ledger' /\ ReadTypes
    BY Written DEF ReadInv, ReadTypes, Ledger
<1>3. ReadTypes' /\ HeldOnce'
    BY <1>1, <1>2 DEF ReadTypes, Ledger
<1>4. NothingMissed'
    BY <1>1 DEF ReadInv, NothingMissed, PagesCover, MemoryTells
<1>5. ASSUME fetch.pc = "more", NEW x \in first' \ seen
      PROVE  /\ x \in Read!Selected(fetch.by)'
             /\ fetch.cursor < Read!Place(fetch.by, Read!Selected(fetch.by), x)'
  <2> PICK by \in Orders : by = fetch.by
      BY <1>2 DEF ReadTypes
  <2>1. PICK A : A = Read!Selected(by)
      OBVIOUS
  <2>2. PICK B : B = Read!Selected(by)'
      OBVIOUS
  <2>3. /\ ~ (by = "refs" /\ Read!Renames(r))
        /\ x \in first /\ x \notin Read!Replaced(r)
        /\ by = "kinds" => x \notin Read!Swapped(r)
      BY <1>5 DEF Read!Store
  <2>4. x \in A /\ fetch.cursor < Read!Place(by, A, x)
      BY <1>1, <1>5, <2>1, <2>3 DEF ReadInv, StillAhead
  <2>5. x \in B
      BY <1>2, <2>1, <2>2, <2>3, <2>4, StaysSelected
  <2>6. /\ Read!Place(by, B, x)' \in Nat
        /\ Read!Place(by, A, x) <= Read!Place(by, B, x)'
      BY <1>2, <2>1, <2>2, <2>3, <2>4, PushedAway
  <2>7. fetch' = fetch
      BY <1>1
  <2>8. /\ Read!Place(by, A, x) \in Nat /\ fetch.cursor \in Nat
    <3>1. Read!Place(by, A, x) \in Nat
        BY <1>2, <2>1, <2>4, Placed
    <3>2. fetch.cursor \in Nat
        BY <1>2 DEF ReadTypes
    <3> QED BY <3>1, <3>2
  <2> QED BY <2>2, <2>4, <2>5, <2>6, <2>7, <2>8
<1>6. StillAhead'
    BY <1>1, <1>5 DEF ReadInv, StillAhead
<1> QED BY <1>3, <1>4, <1>6 DEF ReadInv

\* Records keep the order of their places.
LEMMA Ordered ==
    ASSUME Read!ContextAssumption, Ledger, NEW by \in Orders,
           NEW A, A = Read!Selected(by), NEW q \in A, NEW x \in A,
           Read!Place(by, A, q) < Read!Place(by, A, x)
    PROVE  Read!Below(Read!Key(by, q), Read!Key(by, x))
<1> DEFINE K(p) == Read!Key(by, p)
           upTo(p) == {o \in A : o = p \/ Read!Below(K(o), K(p))}
<1>1. A \subseteq stored /\ IsFiniteSet(A)
    BY Placed DEF Read!Selected, Read!Gathered, Orders
<1>2. Width(by) \in Nat /\ \A p \in A : K(p) \in [1..Width(by) -> Int]
  <2>1. Width(by) \in Nat
      BY DEF Width, Orders
  <2> QED BY <1>1, <2>1, KeyIs
<1>3. /\ Read!Place(by, A, q) = Cardinality(upTo(q))
      /\ Read!Place(by, A, x) = Cardinality(upTo(x))
    BY DEF Read!Place, Read!Cardinality, Cardinality
<1>4. q # x /\ Read!Place(by, A, q) \in Nat /\ Read!Place(by, A, x) \in Nat
    BY Placed
<1> HIDE DEF K
<1>5. Read!Below(K(q), K(x)) \/ Read!Below(K(x), K(q))
  <2>1. K(q) # K(x)
      BY <1>4, KeysDiffer DEF K
  <2> QED BY <1>2, <2>1, Lexical
<1>6. ASSUME Read!Below(K(x), K(q))
      PROVE  FALSE
  <2>1. ASSUME NEW o \in A, Read!Below(K(o), K(x))
        PROVE  Read!Below(K(o), K(q))
      BY <1>2, <1>6, <2>1, Lexical
  <2>2. upTo(x) \subseteq upTo(q) /\ upTo(q) \subseteq A
      BY <1>6, <2>1
  <2> HIDE DEF upTo
  <2>3. Cardinality(upTo(x)) <= Cardinality(upTo(q))
    <3>1. IsFiniteSet(upTo(q))
        BY <1>1, <2>2, FS_Subset
    <3> QED BY <2>2, <3>1, FS_Subset
  <2> QED BY <1>3, <1>4, <2>3
<1> QED BY <1>5, <1>6 DEF K

\* What a pruned task leaves: the other records, selected still, with their keys.
LEMMA Left ==
    ASSUME Read!ContextAssumption, Ledger, NEW t, Read!Prune(t), NEW by \in Orders,
           NEW A, A = Read!Selected(by), NEW B, B = Read!Selected(by)',
           NEW q \in A, q.of # t
    PROVE  q \in B /\ Read!Key(by, q)' = Read!Key(by, q)
<1>1. \A p : p \in stored' <=> p \in stored /\ p.of # t
    BY DEF Read!Prune, Read!Of
<1>2. \A p : p \in Read!Gathered' <=> p \in Read!Gathered /\ p.of # t
    BY <1>1 DEF Read!Gathered
<1>3. q \in Read!Gathered /\ q \in Read!Gathered'
    BY <1>2 DEF Read!Selected, Orders
<1>4. q \in B
  <2>1. CASE by # "refs"
      BY <1>3, <2>1 DEF Read!Selected, Orders
  <2>2. CASE by = "refs"
    <3>1. ~ Read!Ambiguous(q)
        BY <2>2 DEF Read!Selected
    <3>2. ~ Read!Ambiguous(q)'
        BY <1>2, <3>1 DEF Read!Ambiguous
    <3> QED BY <1>3, <2>2, <3>2 DEF Read!Selected
  <2> QED BY <2>1, <2>2
<1>5. Read!Updated(q.of)' = Read!Updated(q.of)
  <2> DEFINE C == {p \in stored : p.kind = "task" /\ p.of = q.of}
             D == {p \in stored' : p.kind = "task" /\ p.of = q.of}
  <2>1. \A p : p \in C <=> p \in D
      BY <1>1
  <2>2. C = D
    <3> HIDE DEF C, D
    <3> QED BY <2>1
  <2>3. Read!Updated(q.of) = LET at == {p.at : p \in C} IN IF at = {} THEN 0 ELSE CHOOSE n \in at : TRUE
      BY DEF Read!Updated
  <2>4. Read!Updated(q.of)' = LET at == {p.at : p \in D} IN IF at = {} THEN 0 ELSE CHOOSE n \in at : TRUE
      BY DEF Read!Updated
  <2> HIDE DEF C, D
  <2> QED BY <2>2, <2>3, <2>4
<1>6. Read!Key(by, q)' = Read!Key(by, q)
    BY <1>5 DEF Read!Key
<1> QED BY <1>4, <1>6

\* Where nothing that the fetch has passed goes, what stands behind the cursor
\* stays there: the records up to the cursor are still before it.
LEMMA NotPassed ==
    ASSUME Read!ContextAssumption, Ledger, NEW t, Read!Prune(t), NEW by \in Orders,
           NEW A, A = Read!Selected(by), NEW B, B = Read!Selected(by)',
           NEW c \in Nat, \A q \in A : q.of = t => ~ (Read!Place(by, A, q) <= c),
           NEW x \in A, x.of # t, c < Read!Place(by, A, x)
    PROVE  c < Read!Place(by, B, x)'
<1> DEFINE P == [q \in A |-> Read!Place(by, A, q)]
           D == {q \in A : P[q] <= c}
           V == {q \in B : q = x \/ Read!Below(Read!Key(by, q)', Read!Key(by, x)')}
           rank == [q \in D |-> P[q]]
<1>1. /\ IsFiniteSet(A)
      /\ \A q \in A : P[q] \in 1..Cardinality(A)
      /\ \A q, r \in A : P[q] = P[r] => q = r
      /\ \A n \in 1..Cardinality(A) : \E q \in A : P[q] = n
      /\ Cardinality(A) \in Nat
    BY Placed
<1>2. D \cup {x} \subseteq V
  <2>1. \A q \in A : q.of # t => q \in B /\ Read!Key(by, q)' = Read!Key(by, q)
      BY Left
  <2>2. ASSUME NEW q \in D
        PROVE  q \in V
    <3>1. q \in A /\ q.of # t
        BY <2>2
    <3>2. Read!Place(by, A, q) < Read!Place(by, A, x)
        BY <1>1, <2>2
    <3>3. Read!Below(Read!Key(by, q), Read!Key(by, x))
        BY <3>1, <3>2, Ordered
    <3> QED BY <2>1, <3>1, <3>3
  <2>3. x \in V
      BY <2>1
  <2> QED BY <2>2, <2>3
<1>3. IsFiniteSet(V) /\ Cardinality(V) \in Nat
  <2>1. stored' \subseteq stored /\ B \subseteq stored'
      BY DEF Read!Prune, Read!Of, Read!Selected, Read!Gathered, Orders
  <2>2. IsFiniteSet(stored) /\ V \subseteq stored
      BY <2>1, Holds
  <2> HIDE DEF V
  <2> QED BY <2>2, FS_Subset, FS_CardinalityType
<1>4. Read!Place(by, B, x)' = Cardinality(V)
    BY DEF Read!Place, Read!Cardinality, Cardinality
<1>5. x \notin D /\ D \subseteq A /\ c <= Cardinality(A)
  <2>1. P[x] \in 1..Cardinality(A) /\ c < P[x]
      BY <1>1
  <2> QED BY <1>1, <2>1
<1>6. rank \in Surjection(D, 1..c)
  <2>1. ASSUME NEW n \in 1..c
        PROVE  \E q \in D : rank[q] = n
    <3>1. PICK q \in A : P[q] = n
        BY <1>1, <1>5
    <3> QED BY <3>1
  <2>2. \A q \in D : rank[q] \in 1..c
      BY <1>1
  <2> QED BY <2>1, <2>2 DEF Surjection
<1> HIDE DEF D, V, rank, P
<1>7. IsFiniteSet(D) /\ Cardinality(D) \in Nat
    BY <1>1, <1>5, FS_Subset, FS_CardinalityType
<1>8. c <= Cardinality(D)
  <2>1. Cardinality(1..c) = c
    <3>1. 1 \in Int /\ c \in Int
        OBVIOUS
    <3> QED BY <3>1, FS_Interval
  <2> QED BY <1>6, <1>7, <2>1, FS_Surjection
<1>9. Cardinality(D \cup {x}) = Cardinality(D) + 1
    BY <1>5, <1>7, FS_AddElement
<1>10. Cardinality(D \cup {x}) <= Cardinality(V)
    BY <1>2, <1>3, FS_Subset
<1> QED BY <1>3, <1>4, <1>7, <1>8, <1>9, <1>10

\* A finished task of the lineage is pruned.
LEMMA PruneOK ==
    ASSUME Read!ContextAssumption, ReadInv, NEW t, Read!Prune(t)
    PROVE  ReadInv'
<1>1. /\ UNCHANGED << writes, active, fetch, seen, memory >>
      /\ first' \subseteq first /\ stored' \subseteq stored
    BY DEF Read!Prune, Read!Of
<1>2. Ledger /\ ReadTypes
    BY DEF ReadInv, ReadTypes, Ledger
<1>3. ReadTypes' /\ HeldOnce'
    BY <1>1, <1>2 DEF ReadTypes, Ledger, HeldOnce
<1>4. NothingMissed'
    BY <1>1 DEF ReadInv, NothingMissed, PagesCover, MemoryTells
<1>5. ASSUME fetch.pc = "more", NEW x \in first' \ seen
      PROVE  /\ x \in Read!Selected(fetch.by)'
             /\ fetch.cursor < Read!Place(fetch.by, Read!Selected(fetch.by), x)'
  <2> PICK by \in Orders : by = fetch.by
      BY <1>2 DEF ReadTypes
  <2>1. PICK A : A = Read!Selected(by)
      OBVIOUS
  <2>2. PICK B : B = Read!Selected(by)'
      OBVIOUS
  <2>3. PICK c \in Nat : c = fetch.cursor
      BY <1>2 DEF ReadTypes
  <2>4. ~ Read!Passed(t) /\ x \in first /\ x \notin Read!Of(t)
      BY <1>5 DEF Read!Prune
  <2>5. x \in A /\ c < Read!Place(by, A, x)
      BY <1>5, <2>1, <2>3, <2>4 DEF ReadInv, StillAhead
  <2>6. x.of # t
      BY <2>1, <2>4, <2>5 DEF Read!Of, Read!Selected, Read!Gathered, Orders
  <2>7. \A q \in A : q.of = t => ~ (Read!Place(by, A, q) <= c)
      BY <2>1, <2>3, <2>4 DEF Read!Passed
  <2>8. x \in B
      BY <1>2, <2>1, <2>2, <2>5, <2>6, Left
  <2>9. c < Read!Place(by, B, x)'
      BY <1>2, <2>1, <2>2, <2>5, <2>6, <2>7, NotPassed
  <2>10. fetch' = fetch
      BY <1>1
  <2> QED BY <2>2, <2>3, <2>8, <2>9, <2>10
<1>6. StillAhead'
    BY <1>1, <1>5 DEF ReadInv, StillAhead
<1> QED BY <1>3, <1>4, <1>6 DEF ReadInv

-----------------------------------------------------------------------------
(* Answers of the memory service                                           *)

\* What is kept of a hit is a number.
LEMMA TextType ==
    ASSUME MaxChars \in Int, HitChars \in Int
    PROVE  \A h, u \in Int : Read!Text(h, u) \in Int
BY DEF Read!Text, Read!Least

\* The sums of a recursive function exist: by the least length without one.
LEMMA SpentOK ==
    ASSUME MaxChars \in Int, HitChars \in Int, NEW hits \in Seq(Int)
    PROVE  \A n \in 0..Len(hits) : Read!Spent(hits)[n] \in Int
<1> DEFINE N == Len(hits)
           Sums(n, f) == f = [i \in 0..n |-> IF i = 0 THEN 0
                                             ELSE f[i - 1] + Read!Text(hits[i], f[i - 1])]
           lacks == {n \in 0..N : ~ \E f : Sums(n, f)}
<1>1. N \in Nat /\ \A i \in 1..N : hits[i] \in Int
    BY Items
<1>2. lacks = {}
  <2> SUFFICES ASSUME lacks # {} PROVE FALSE
      OBVIOUS
  <2>1. lacks \in SUBSET Nat
      BY <1>1
  <2>2. PICK n \in lacks : \A k \in lacks : n <= k
      BY <2>1, First
  <2>3. n \in 0..N /\ ~ \E f : Sums(n, f)
      BY <2>2
  <2>4. CASE n = 0
    <3> DEFINE f == [i \in 0..0 |-> 0]
    <3>1. Sums(0, f)
        OBVIOUS
    <3> HIDE DEF Sums, f
    <3> QED BY <2>3, <2>4, <3>1
  <2>5. CASE n # 0
    <3>1. n - 1 \in 0..N /\ n - 1 \notin lacks
      <4>1. n \in Nat /\ n - 1 \in 0..N /\ ~ (n <= n - 1)
          BY <1>1, <2>3, <2>5
      <4> HIDE DEF lacks
      <4> QED BY <2>2, <4>1
    <3>2. PICK f : Sums(n - 1, f)
        BY <3>1
    <3> DEFINE g == [i \in 0..n |-> IF i = n THEN f[n - 1] + Read!Text(hits[n], f[n - 1])
                                    ELSE f[i]]
    <3>3. Sums(n, g)
      <4>1. \A i \in 0..n : g[i] = IF i = 0 THEN 0 ELSE g[i - 1] + Read!Text(hits[i], g[i - 1])
        <5> SUFFICES ASSUME NEW i \in 0..n
                     PROVE  g[i] = IF i = 0 THEN 0 ELSE g[i - 1] + Read!Text(hits[i], g[i - 1])
            OBVIOUS
        <5>1. n \in Nat /\ n # 0
            BY <2>3, <2>5
        <5>2. CASE i = n
          <6>1. n - 1 \in 0..n /\ n - 1 # n /\ n \in 0..n
              BY <5>1
          <6>2. g[n - 1] = f[n - 1] /\ g[n] = f[n - 1] + Read!Text(hits[n], f[n - 1])
              BY <6>1
          <6> HIDE DEF g
          <6> QED BY <5>1, <5>2, <6>2
        <5>3. CASE i # n
          <6>1. i \in 0..n - 1
              BY <5>1, <5>3
          <6>2. f[i] = IF i = 0 THEN 0 ELSE f[i - 1] + Read!Text(hits[i], f[i - 1])
              BY <3>2, <6>1
          <6>3. g[i] = f[i]
              BY <5>3
          <6>4. i # 0 => i - 1 \in 0..n /\ i - 1 # n
              BY <5>1, <6>1
          <6>5. i # 0 => g[i - 1] = f[i - 1]
              BY <6>4
          <6> HIDE DEF g
          <6> QED BY <6>2, <6>3, <6>5
        <5> QED BY <5>2, <5>3
      <4>2. g = [i \in 0..n |-> g[i]]
          OBVIOUS
      <4> HIDE DEF g
      <4> QED BY <4>1, <4>2
    <3> HIDE DEF Sums, g
    <3> QED BY <2>3, <3>3
  <2> QED BY <2>4, <2>5
<1>3. \E f : Sums(N, f)
    BY <1>1, <1>2
<1> DEFINE used == Read!Spent(hits)
<1>4. Sums(N, used)
  <2>1. used = CHOOSE f : Sums(N, f)
      BY DEF Read!Spent
  <2> HIDE DEF Sums, used
  <2> QED BY <1>3, <2>1
<1>5. \A i \in 0..N : used[i] = IF i = 0 THEN 0 ELSE used[i - 1] + Read!Text(hits[i], used[i - 1])
  <2> HIDE DEF used
  <2> QED BY <1>4
<1> DEFINE odd == {i \in 0..N : used[i] \notin Int}
<1> HIDE DEF used
<1>6. odd = {}
  <2> SUFFICES ASSUME odd # {} PROVE FALSE
      OBVIOUS
  <2>1. odd \in SUBSET Nat
      BY <1>1
  <2>2. PICK i \in odd : \A k \in odd : i <= k
      BY <2>1, First
  <2>3. i \in 0..N /\ used[i] \notin Int
      BY <2>2
  <2>4. i # 0
      BY <1>1, <1>5, <2>3
  <2>5. i - 1 \in 0..N /\ i \in 1..N /\ i - 1 \notin odd
      BY <1>1, <2>2, <2>3, <2>4
  <2>6. used[i - 1] \in Int /\ hits[i] \in Int
      BY <1>1, <2>5
  <2>7. used[i] = used[i - 1] + Read!Text(hits[i], used[i - 1])
      BY <1>5, <2>3, <2>4
  <2>8. Read!Text(hits[i], used[i - 1]) \in Int
      BY <2>6, TextType
  <2> QED BY <2>3, <2>6, <2>7, <2>8
<1> QED BY <1>6 DEF used

\* An answer that is not marked as cut holds every hit whole.
LEMMA AnswerOK ==
    ASSUME Read!ContextAssumption, NEW hits \in Seq(Int)
    PROVE  /\ Read!Answered(hits).hits = hits
           /\ ~ Read!Answered(hits).truncated => Read!Answered(hits).texts = hits
<1> DEFINE kept == SubSeq(hits, 1, Read!Least(Limit, Len(hits)))
           told == Read!Fitting(Len(kept), Read!Spent(kept))
           texts == [n \in 1..told |-> Read!Text(kept[n], Read!Spent(kept)[n - 1])]
<1>0. MaxChars \in Int /\ HitChars \in Int /\ Limit \in Nat
    BY DEF Read!ContextAssumption
<1>1. /\ Read!Answered(hits).hits = hits
      /\ Read!Answered(hits).texts = texts
      /\ Read!Answered(hits).truncated <=> \/ Len(hits) > Limit \/ told < Len(kept)
                                           \/ \E n \in 1..told : texts[n] < kept[n]
    BY DEF Read!Answered
<1> HIDE DEF told
<1>2. ASSUME ~ Read!Answered(hits).truncated PROVE texts = hits
  <2>1. ~ (Len(hits) > Limit) /\ ~ (told < Len(kept)) /\ \A n \in 1..told : ~ (texts[n] < kept[n])
      BY <1>1, <1>2
  <2>2. Len(hits) \in Nat /\ DOMAIN hits = 1..Len(hits) /\ \A i \in 1..Len(hits) : hits[i] \in Int
      BY Items
  <2>3. Read!Least(Limit, Len(hits)) = Len(hits)
      BY <1>0, <2>1, <2>2 DEF Read!Least
  <2>4. kept = hits
    <3>1. SubSeq(hits, 1, Len(hits)) = hits
        BY SubSeqFull
    <3> QED BY <2>3, <3>1
  <2> HIDE DEF kept
  <2>5. told = Len(hits)
    <3>1. told \in 0..Len(hits)
        BY <2>2, <2>4, Fits DEF told
    <3>2. ~ (told < Len(hits))
        BY <2>1, <2>4
    <3>3. \A L \in Nat : \A a \in 0..L : ~ (a < L) => a = L
        OBVIOUS
    <3> QED BY <2>2, <3>1, <3>2, <3>3
  <2>6. \A n \in 1..Len(hits) : texts[n] = hits[n]
    <3> SUFFICES ASSUME NEW n \in 1..Len(hits) PROVE texts[n] = hits[n]
        OBVIOUS
    <3> DEFINE u == Read!Spent(hits)[n - 1]
    <3>1. u \in Int
      <4>1. n - 1 \in 0..Len(hits)
          BY <2>2
      <4> QED BY <1>0, <4>1, SpentOK
    <3>2. texts[n] = Read!Text(hits[n], u)
        BY <2>4, <2>5
    <3>3. ~ (texts[n] < hits[n])
        BY <2>1, <2>4, <2>5
    <3> HIDE DEF u, texts
    <3>4. hits[n] \in Int
        BY <2>2
    <3> QED BY <1>0, <3>1, <3>2, <3>3, <3>4 DEF Read!Text, Read!Least
  <2>7. texts = [n \in 1..Len(hits) |-> texts[n]]
      BY <2>5
  <2>8. hits = [n \in 1..Len(hits) |-> hits[n]]
      BY <2>2
  <2> HIDE DEF texts
  <2> QED BY <2>6, <2>7, <2>8
<1> QED BY <1>1, <1>2

\* One memory_search.
LEMMA SearchOK ==
    ASSUME Read!ContextAssumption, ReadInv, NEW n \in Nat,
           NEW hits \in [1..n -> {1, HitChars + 1}], Read!MemorySearch(hits)
    PROVE  ReadInv'
<1>1. memory' = Read!Answered(hits) /\ UNCHANGED << stored, writes, active, fetch, first, seen >>
    BY DEF Read!MemorySearch
<1>2. hits \in Seq(Int)
  <2>1. HitChars + 1 \in Int
      BY DEF Read!ContextAssumption
  <2>2. hits \in [1..n -> Int]
      BY <2>1
  <2> QED BY <2>2, SeqDef
<1>3. MemoryTells'
    BY <1>1, <1>2, AnswerOK DEF MemoryTells
<1>4. NothingMissed'
    BY <1>1, <1>3 DEF ReadInv, NothingMissed, PagesCover
<1>5. ReadTypes' /\ HeldOnce'
    BY <1>1 DEF ReadInv, ReadTypes, HeldOnce
<1>6. StillAhead'
  <2>1. \A by, S, r : Read!Place(by, S, r)' = Read!Place(by, S, r)
      BY <1>1 DEF Read!Place, Read!Key, Read!Updated
  <2>2. \A by : Read!Selected(by)' = Read!Selected(by)
      BY <1>1 DEF Read!Selected, Read!Gathered, Read!Ambiguous
  <2> QED BY <1>1, <2>1, <2>2 DEF ReadInv, StillAhead
<1> QED BY <1>4, <1>5, <1>6 DEF ReadInv

-----------------------------------------------------------------------------
(* The reader                                                              *)

\* The reader starts with nothing read.
LEMMA ReaderStarts == ASSUME Read!ContextAssumption, Read!Init PROVE ReadInv
<1>1. /\ stored = Initial /\ writes = 0 /\ active = TRUE
      /\ fetch = [pc |-> "idle", by |-> "start", cursor |-> 0]
      /\ first = {} /\ seen = {}
      /\ memory.truncated = FALSE /\ memory.texts = memory.hits
    BY DEF Read!Init, Read!NoAnswer
<1>2. Initial \subseteq Records /\ \A q, r \in Initial : q.kind = "task" /\ q.id = r.id => q = r
    BY DEF Read!ContextAssumption
<1>3. ReadTypes /\ HeldOnce
    BY <1>1, <1>2 DEF ReadTypes, HeldOnce, Orders
<1>4. StillAhead
    BY <1>1 DEF StillAhead
<1>5. NothingMissed
    BY <1>1 DEF NothingMissed, PagesCover, MemoryTells
<1> QED BY <1>3, <1>4, <1>5 DEF ReadInv

\* Steps that leave the ledger and the fetch alone.
LEMMA ReaderRests ==
    ASSUME ReadInv, UNCHANGED << stored, writes, fetch, first, seen, memory >>, active' \in BOOLEAN
    PROVE  ReadInv'
<1>1. ReadTypes' /\ HeldOnce' /\ NothingMissed'
    BY DEF ReadInv, ReadTypes, HeldOnce, NothingMissed, PagesCover, MemoryTells
<1>2. StillAhead'
  <2>1. \A by, S, r : Read!Place(by, S, r)' = Read!Place(by, S, r)
      BY DEF Read!Place, Read!Key, Read!Updated
  <2>2. \A by : Read!Selected(by)' = Read!Selected(by)
      BY DEF Read!Selected, Read!Gathered, Read!Ambiguous
  <2> QED BY <2>1, <2>2 DEF ReadInv, StillAhead
<1> QED BY <1>1, <1>2 DEF ReadInv

\* Every step of a reader, write and prune keeps what stands behind the cursor
\* there, or takes it off the records that are promised.
THEOREM ReaderInvariance == ASSUME Read!ContextAssumption PROVE Read!Spec => []ReadInv
<1>1. Read!Init => ReadInv
    BY ReaderStarts
<1>2. ReadInv /\ [Read!Next]_(Read!contextVars) => ReadInv'
  <2> SUFFICES ASSUME ReadInv, [Read!Next]_(Read!contextVars) PROVE ReadInv'
      OBVIOUS
  <2>1. ASSUME NEW by \in {"start", "kinds", "refs"}, Read!Fetch(by) PROVE ReadInv'
      BY <2>1, FetchOK DEF Orders
  <2>2. ASSUME NEW n \in 0 .. Limit + 1, NEW hits \in [1 .. n -> {1, HitChars + 1}],
               Read!MemorySearch(hits)
        PROVE  ReadInv'
    <3>1. n \in Nat
        OBVIOUS
    <3> QED BY <2>2, <3>1, SearchOK
  <2>3. ASSUME NEW r \in Records, Read!Store(r) PROVE ReadInv'
      BY <2>3, StoreOK
  <2>6. ASSUME NEW t \in Lineage, Read!Prune(t) PROVE ReadInv'
      BY <2>6, PruneOK
  <2>4. CASE Read!End
      BY <2>4, ReaderRests DEF Read!End
  <2>5. CASE UNCHANGED Read!contextVars
    <3>1. UNCHANGED << stored, writes, active, fetch, first, seen, memory >>
        BY <2>5 DEF Read!contextVars
    <3> QED BY <3>1, ReaderRests DEF ReadInv, ReadTypes
  <2> QED BY <2>1, <2>2, <2>3, <2>4, <2>5, <2>6 DEF Read!Next
<1> QED BY <1>1, <1>2, PTL DEF Read!Spec

\* ContextTools.NothingMissed: a fetch read to its last page has missed no
\* record of its first selection that was neither moved nor removed, unless one
\* it had passed was pruned; and an answer of the memory service says when it
\* was cut, for every set of records, budget of text and order of writes and
\* prunes.
THEOREM NothingIsMissed ==
    ASSUME Read!ContextAssumption PROVE Read!Spec => []NothingMissed
<1>1. ReadInv => NothingMissed
    BY DEF ReadInv
<1> QED BY <1>1, ReaderInvariance, PTL
=============================================================================
