----------------------------- MODULE ContextTools ----------------------------
(***************************************************************************)
(* What a worker reads of its task: GanderGateway.context_fetch returns    *)
(* the records of the task's lineage page by page, while other handlers go *)
(* on writing records and pruning tasks that have ended; memory_search     *)
(* returns what the memory service found within a budget of text.          *)
(*                                                                         *)
(* A record is [id, kind, of, sess, at, len]: the task it belongs to, the  *)
(* voice session it was heard in, its time and the length of its text.     *)
(***************************************************************************)
EXTENDS ContextPromise, FiniteSets, SequencesExt

CONSTANTS
    Records,       \* the records the ledger may hold
    Initial,       \* those it holds when the worker starts
    Lineage,       \* the tasks of the lineage of the worker's task
    Own,           \* that task: it is not terminal, so nobody prunes it
    Session,       \* Session[t]: source_voice_session_id of a task
    MaxWrites,     \* records written or updated while the worker reads
    Limit,         \* limit of a page
    MaxChars,      \* max_chars of a page; max_memory_result_chars
    HitChars       \* the cap of 4000 characters of one memory hit

\* The kinds of record, in the order in which they are gathered.
Group == [realtime |-> 0, turn |-> 1, task |-> 2, event |-> 3]

\* Two records share an id when they are the same turn id heard in two voice
\* sessions, or the same task before and after an update; the ledger holds a
\* task once.  Assumed by the module that instantiates this one.
ContextAssumption ==
    /\ IsFiniteSet(Records)
    /\ Records \subseteq [id : Nat, kind : DOMAIN Group, of : Nat, sess : Nat,
                          at : Nat, len : Nat]
    /\ \A q, r \in Records :
         /\ q # r /\ q.id = r.id =>
              q.kind = r.kind /\ (q.kind = "task" \/ (q.kind = "turn" /\ q.sess # r.sess))
         /\ q.kind = "task" /\ r.kind = "task" => (q.id = r.id <=> q.of = r.of)
    /\ Initial \subseteq Records
    /\ \A q, r \in Initial : q.kind = "task" /\ q.id = r.id => q = r
    /\ {Limit, MaxChars, HitChars} \subseteq Nat \ {0}
    /\ MaxWrites \in Nat /\ Own \in Lineage

VARIABLES
    stored,    \* the records in the ledger, of tasks that it still lists
    pruned,    \* the tasks of the lineage it lists no more
    writes,    \* records written since the start
    active     \* the run is the active run of a task that is not terminal

contextVars == << stored, pruned, writes, active, fetch, first, seen, memory >>

NoAnswer == [hits |-> << >>, texts |-> << >>, truncated |-> FALSE]

Init ==
    /\ stored = Initial /\ pruned = {} /\ writes = 0 /\ active = TRUE
    /\ fetch = [pc |-> "idle", by |-> "start", cursor |-> 0]
    /\ first = {} /\ seen = {} /\ memory = NoAnswer

-----------------------------------------------------------------------------
(* Choosing                                                                *)

\* _context_candidates: source turns, selected turns and turns of commands,
\* tasks and worker events of the lineage, and realtime events only of the
\* voice session of the task that selected them.
Gathered ==
    {r \in stored : /\ r.of \in Lineage
                    /\ r.kind = "realtime" => r.sess = Session[r.of]}

\* A turn id heard in two voice sessions of the lineage names neither turn:
\* the names a record answers to by itself are those of one session.
Ambiguous(r) ==
    /\ r.kind = "turn"
    /\ \E q \in Gathered : q.kind = "turn" /\ q.id = r.id /\ q.sess # r.sess

\* The selection of a fetch: what the task started with, or kinds of record,
\* or named references.
Selected(by) ==
    CASE by = "start" -> {r \in Gathered : r.kind = "realtime"}
      [] by = "kinds" -> {r \in Gathered : r.kind # "realtime"}
      [] by = "refs"  -> {r \in Gathered : ~ Ambiguous(r)}

\* When a task was updated last, as its record says.
Updated(t) ==
    LET at == {r.at : r \in {q \in stored : q.kind = "task" /\ q.of = t}}
    IN IF at = {} THEN 0 ELSE CHOOSE n \in at : TRUE

\* What decides the place of a record in its selection: oldest first; or newest
\* first, and at the same time in the order they were gathered in, task by task,
\* the task that was updated last coming last (list_tasks); or as named.
Key(by, r) ==
    CASE by = "start" -> << r.at, r.id >>
      [] by = "kinds" -> << -r.at, Group[r.kind], Updated(r.of), r.of, r.id, r.sess >>
      [] by = "refs"  -> << r.id >>

Below(a, b) ==
    \E i \in DOMAIN a : a[i] < b[i] /\ \A j \in 1 .. i - 1 : a[j] = b[j]

\* The place of r in the selection S, and the selection in order.
Place(by, S, r) ==
    Cardinality({q \in S : q = r \/ Below(Key(by, q), Key(by, r))})
Candidates(by) ==
    LET S == Selected(by)
    IN [n \in 1 .. Cardinality(S) |-> CHOOSE r \in S : Place(by, S, r) = n]

-----------------------------------------------------------------------------
(* Cutting                                                                 *)

Least(a, b) == IF a < b THEN a ELSE b

\* How many of N entries are returned, when used[n] is the text of the first n:
\* up to the one that exhausts the budget.
Fitting(N, used) ==
    CHOOSE n \in 0 .. N : /\ \A k \in 0 .. n - 1 : used[k] < MaxChars
                          /\ n < N => ~ (used[n] < MaxChars)

\* The text of the first n entries of a page.
Chars(page) ==
    LET used[n \in 0 .. Len(page)] ==
            IF n = 0 THEN 0 ELSE used[n - 1] + page[n].len
    IN used

\* Mutant: the cursor moves by the size of the page, not by what was returned.
PagedByLimit(all, cursor) ==
    LET page == SubSeq(all, cursor + 1, Least(cursor + Limit, Len(all)))
        next == cursor + Len(page)
    IN [results |-> SubSeq(page, 1, Fitting(Len(page), Chars(page))),
        next |-> next, more |-> next < Len(all)]

\* One context_fetch: the last entry returned may be cut.
Paged(all, cursor) ==
    LET page     == SubSeq(all, cursor + 1, Least(cursor + Limit, Len(all)))
        consumed == Fitting(Len(page), Chars(page))
        cut      == consumed < Len(page) \/ Chars(page)[consumed] > MaxChars
        next     == cursor + consumed
    IN [results |-> SubSeq(page, 1, consumed), next |-> next,
        more |-> cut \/ next < Len(all)]

\* What is kept of a hit when that much of the budget is used.
Text(hit, spent) == Least(hit, Least(HitChars, MaxChars - spent))

\* The text used by the first n hits of an answer.
Spent(hits) ==
    LET used[n \in 0 .. Len(hits)] ==
            IF n = 0 THEN 0 ELSE used[n - 1] + Text(hits[n], used[n - 1])
    IN used

\* memory_search: hits beyond the limit, a text over its cap or over what
\* is left of the budget make the answer truncated; hits after the budget
\* is used up are left out.
Answered(hits) ==
    LET kept  == SubSeq(hits, 1, Least(Limit, Len(hits)))
        told  == Fitting(Len(kept), Spent(kept))
        texts == [n \in 1 .. told |-> Text(kept[n], Spent(kept)[n - 1])]
    IN [hits |-> hits, texts |-> texts,
        truncated |-> \/ Len(hits) > Limit \/ told < Len(kept)
                      \/ \E n \in 1 .. told : texts[n] < kept[n]]

-----------------------------------------------------------------------------
(* Actions                                                                 *)

\* The first page of a fetch, or the page at next_cursor.
Fetch(by) ==
    /\ active
    /\ \/ fetch.pc = "idle"
       \/ fetch.pc = "more" /\ by = fetch.by
    /\ LET all  == Candidates(by)
           page == Paged(all, fetch.cursor)
       IN /\ fetch' = [pc |-> IF page.more THEN "more" ELSE "over", by |-> by,
                       cursor |-> page.next]
          /\ first' = IF fetch.pc = "idle" THEN ToSet(all) ELSE first
          /\ seen' = seen \cup ToSet(page.results)
    /\ UNCHANGED << stored, pruned, writes, active, memory >>

MemorySearch(hits) ==
    /\ active /\ memory = NoAnswer
    /\ memory' = Answered(hits)
    /\ UNCHANGED << stored, pruned, writes, active, fetch, first, seen >>

\* The record of the task that r replaces.
Replaced(r) == {q \in stored : q.kind = "task" /\ r.kind = "task" /\ q.id = r.id}

\* A turn heard in another voice session takes a name from one that had it.
Renames(r) ==
    /\ r.kind = "turn" /\ r.of \in Lineage
    /\ \E q \in Gathered : q.kind = "turn" /\ q.id = r.id /\ q.sess # r.sess

\* Records that change places with those of another task that have the same
\* time, when the record of one of the two tasks is updated.
Swapped(r) ==
    {q \in first : r.kind = "task" /\
       \E p \in Gathered : /\ p.kind = q.kind /\ p.at = q.at /\ p.of # q.of
                           /\ r.of \in {p.of, q.of}}

\* Another handler stores a record, or updates the lineage's task, whose
\* record moves to the time of the update.
Store(r) ==
    /\ writes < MaxWrites /\ r \notin stored /\ r.of \notin pruned
    /\ \A q \in Replaced(r) : q.at <= r.at
    /\ writes' = writes + 1
    /\ stored' = (stored \ Replaced(r)) \cup {r}
    /\ first' = CASE fetch.by = "refs" /\ Renames(r) -> {}
                  [] fetch.by = "kinds" -> first \ (Replaced(r) \cup Swapped(r))
                  [] OTHER -> first \ Replaced(r)
    /\ UNCHANGED << pruned, active, fetch, seen, memory >>

\* The records that are gathered because the ledger lists t.
Of(t) == {r \in stored : r.of = t}

\* The fetch has a record of t behind it.
Passed(t) ==
    LET S == Selected(fetch.by)
    IN \E r \in S : r.of = t /\ Place(fetch.by, S, r) <= fetch.cursor

\* A control call prunes a finished task of the lineage, such as the one that
\* the worker's task continues.  Where the fetch had passed a record of it, what
\* follows moves up, in front of a cursor that is only a number: nothing is
\* promised of such a fetch.
Prune(t) ==
    /\ t \in Lineage \ ({Own} \cup pruned)
    /\ pruned' = pruned \cup {t}
    /\ stored' = stored \ Of(t)
    /\ first' = IF Passed(t) THEN {} ELSE first \ Of(t)
    /\ UNCHANGED << writes, active, fetch, seen, memory >>

\* The task ends: _worker_tool_task refuses the calls that follow.
End ==
    /\ active /\ active' = FALSE
    /\ UNCHANGED << stored, pruned, writes, fetch, first, seen, memory >>

Next ==
    \/ \E by \in {"start", "kinds", "refs"} : Fetch(by)
    \/ \E n \in 0 .. Limit + 1 : \E hits \in [1 .. n -> {1, HitChars + 1}] :
          MemorySearch(hits)
    \/ \E r \in Records : Store(r)
    \/ \E t \in Lineage : Prune(t)
    \/ End

Spec == Init /\ [][Next]_contextVars
=============================================================================
