--------------------------- MODULE ContextPromise ----------------------------
(***************************************************************************)
(* What the gateway promises a worker that reads of its task: that the     *)
(* pages of a fetch leave nothing out, and that an answer of the memory    *)
(* service says when it was cut.  With the part of the state that this     *)
(* speaks of; ContextTools says how these variables change.                *)
(***************************************************************************)
EXTENDS Integers, Sequences

VARIABLES
    fetch,     \* the fetch in progress: [pc, by, cursor]
    first,     \* the records the first page chose from, less those that the
               \* ledger has moved or removed since, and none once one was
               \* removed that the fetch had passed
    seen,      \* the records returned so far
    memory     \* the last answer of memory_search, with the hits it was made of

\* A fetch read to its last page has returned every record of its first
\* selection that was neither moved nor removed meanwhile, whatever was written
\* between two pages and whichever task was pruned: new records only push older
\* ones away from the cursor, and records that go without having been passed
\* leave the rest behind it (context_fetch, gateway.py:1610-1657).  Where one
\* had been passed, live records slip under the cursor unread while the answer
\* is not marked truncated, and nothing is promised.
PagesCover ==
    fetch.pc = "over" => first \subseteq seen

\* An answer of the memory service that is not marked truncated is complete
\* (memory_search, gateway.py:1470-1501).
MemoryTells ==
    ~memory.truncated => memory.texts = memory.hits

\* What a worker has read it has read whole, or it was told that it has not.
NothingMissed == PagesCover /\ MemoryTells
=============================================================================
