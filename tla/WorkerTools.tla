---------------------------- MODULE WorkerTools -----------------------------
(***************************************************************************)
(* The tools a worker pulls with: an MCP process reads the route file,     *)
(* sends its call to the router (WorkerToolRouter), which runs it once for *)
(* the run that is bound and answers every repetition from its cache; the  *)
(* gateway serves memory_search and context_fetch only for the active run, *)
(* and a share goes to the event queue of the run.                         *)
(*                                                                         *)
(* External: the Codex client behind an MCP process, which may repeat a    *)
(* request, or give two requests one id, and the memory service.           *)
(***************************************************************************)
EXTENDS ToolPromise, SequencesExt, FiniteSetsExt

CONSTANTS
    Requests,      \* what a worker may ask: [id, tool, args]
    MaxCalls,      \* calls made, repetitions included
    MaxBinds,      \* bindings of the router
    CacheSize      \* max_cached_calls

\* Assumed by the module that instantiates this one.
WorkerToolsAssumption ==
    /\ Requests \subseteq [id : Nat, tool : {"share", "fetch", "memory"}, args : Nat]
    /\ {MaxCalls, MaxBinds} \subseteq Nat
    /\ CacheSize \in Nat \ {0}

VARIABLES
    bound,     \* the binding of the router's route, 0 for None; also what the
               \* route file says, which _write_route replaces at once
    binds,     \* bindings made so far
    cache,     \* _calls of the current binding: job numbers, oldest first
    shares     \* jobs whose share reached the queue of their run

toolVars == << bound, binds, calls, jobs, cache, shares >>
routeVars == << bound, binds >>

Init ==
    /\ bound = 0 /\ binds = 0
    /\ calls = << >> /\ jobs = << >> /\ cache = << >> /\ shares = {}

-----------------------------------------------------------------------------
(* Bindings: _CodexWorker.bind and unbind around a run                     *)

\* A run starts, or steers with a new turn: the route is replaced.
Bind ==
    /\ binds < MaxBinds
    /\ binds' = binds + 1 /\ bound' = binds'
    /\ cache' = << >>
    /\ UNCHANGED << calls, jobs, shares >>

\* The run is closed.
Unbind ==
    /\ bound # 0
    /\ bound' = 0 /\ cache' = << >>
    /\ UNCHANGED << binds, calls, jobs, shares >>

-----------------------------------------------------------------------------
(* A call                                                                  *)

Moved(i, c) == [calls EXCEPT ![i] = c]

\* _call_worker_tool validates the arguments and reads the route file.
Load(r) ==
    /\ Len(calls) < MaxCalls
    /\ calls' = Append(calls, [req |-> r, binding |-> bound, job |-> 0,
                               pc |-> IF bound = 0 THEN "refused" ELSE "loaded"])
    /\ UNCHANGED << jobs, cache, shares >>
    /\ UNCHANGED routeVars

\* The route a call names is the one that is bound (_matches).
Matches(c) == c.binding = bound

\* Where the cached calls of the same id are, if any, and whether a job was
\* for the same.
Cached(r) == {n \in DOMAIN cache : jobs[cache[n]].req.id = r.id}
\* Mutant: any call with the id is a repetition.
SameId(j, r) == jobs[j].req.id = r.id
Same(j, r) == jobs[j].req = r

\* Evicts the oldest calls over the bound, but stops at one still running.
Evicted(s, js) ==
    LET stays == {n \in DOMAIN s : Len(s) - n < CacheSize \/ js[s[n]].pc # "done"}
    IN SubSeq(s, Min(stays), Len(s))

\* _handle_client and the first half of _dispatch_once.
Serve(i) ==
    /\ calls[i].pc = "loaded"
    /\ LET c == calls[i]
           known == Cached(c.req)
           new == Len(jobs) + 1
       IN \/ /\ ~Matches(c)
             /\ calls' = Moved(i, [c EXCEPT !.pc = "refused"])
             /\ UNCHANGED << jobs, cache >>
          \/ /\ Matches(c) /\ known = {}
             /\ jobs' = Append(jobs, [req |-> c.req, binding |-> bound, pc |-> "new"])
             /\ cache' = Evicted(Append(cache, new), jobs')
             /\ calls' = Moved(i, [c EXCEPT !.pc = "waiting", !.job = new])
          \/ /\ Matches(c)
             /\ \E n \in known :
                  IF Same(cache[n], c.req)
                  THEN /\ cache' = Append(RemoveAt(cache, n), cache[n])
                       /\ calls' = Moved(i, [c EXCEPT !.pc = "waiting", !.job = cache[n]])
                  ELSE /\ calls' = Moved(i, [c EXCEPT !.pc = "refused"])
                       /\ UNCHANGED cache
             /\ UNCHANGED jobs
    /\ UNCHANGED shares
    /\ UNCHANGED routeVars

\* WorkerToolSession.dispatch in its own task: a share is queued for the run
\* whatever became of the route since; what the gateway's own tools return,
\* a refusal of a run that is over included, is an answer like another.
Run(j) ==
    /\ jobs[j].pc = "new"
    /\ jobs' = [jobs EXCEPT ![j].pc = "done"]
    /\ shares' = IF jobs[j].req.tool = "share" THEN shares \cup {j} ELSE shares
    /\ UNCHANGED << calls, cache >>
    /\ UNCHANGED routeVars

\* The shielded task is done: its result or its error answers the call.
Answer(i) ==
    /\ calls[i].pc = "waiting" /\ jobs[calls[i].job].pc = "done"
    /\ calls' = Moved(i, [calls[i] EXCEPT !.pc = "answered"])
    /\ UNCHANGED << jobs, cache, shares >>
    /\ UNCHANGED routeVars

\* The MCP process gives up after GANDER_WORKER_TOOL_TIMEOUT_SEC; the task
\* behind the call goes on.
GiveUp(i) ==
    /\ calls[i].pc = "waiting"
    /\ calls' = Moved(i, [calls[i] EXCEPT !.pc = "refused"])
    /\ UNCHANGED << jobs, cache, shares >>
    /\ UNCHANGED routeVars

Next ==
    \/ Bind \/ Unbind
    \/ \E r \in Requests : Load(r)
    \/ \E i \in DOMAIN calls : Serve(i) \/ Answer(i) \/ GiveUp(i)
    \/ \E j \in DOMAIN jobs : Run(j)

Spec == Init /\ [][Next]_toolVars

TypeOK ==
    /\ bound \in 0 .. MaxBinds /\ binds \in 0 .. MaxBinds
    /\ ToSet(cache) \subseteq DOMAIN jobs /\ shares \subseteq DOMAIN jobs
    /\ \A i \in DOMAIN calls : calls[i].job \in 0 .. Len(jobs)
=============================================================================
