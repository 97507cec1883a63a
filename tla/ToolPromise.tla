----------------------------- MODULE ToolPromise -----------------------------
(***************************************************************************)
(* What the tool router promises of the calls of a worker, and the part of *)
(* the state that it speaks of.  WorkerTools says how these variables      *)
(* change.                                                                 *)
(***************************************************************************)
EXTENDS Integers, Sequences

VARIABLES
    calls,     \* calls[i]: [req, binding, pc, job]
    jobs       \* jobs[j]: [req, binding, pc] the dispatch tasks

\* A call is answered by work that was done for the binding it named and for
\* what it asked, however ids collide and bindings change while it travels
\* (worker_tool_router.py:229-264).
AnswersAreOwn ==
    \A i \in DOMAIN calls :
        calls[i].job # 0 => LET j == jobs[calls[i].job] IN
                            j.req = calls[i].req /\ j.binding = calls[i].binding

\* A repeated call runs again only when its first run is over: nothing the
\* cache forgets is still running under the same route
\* (worker_tool_router.py:251-257).
NoTwins ==
    \A j, k \in DOMAIN jobs :
        j < k /\ jobs[j].req.id = jobs[k].req.id /\ jobs[j].binding = jobs[k].binding
        => jobs[j].pc = "done"

\* The router runs a call once, for the run it came from.
CallsRunOnce == AnswersAreOwn /\ NoTwins
=============================================================================
