----------------------------- MODULE CallPromise -----------------------------
(***************************************************************************)
(* What the coordinator of a session promises of the tool calls of the     *)
(* speaking model, and the part of the state that it speaks of.  TaskCalls *)
(* says how these variables change.                                        *)
(***************************************************************************)
VARIABLES live,      \* the session: the open call, and the queued answers
          jobs,      \* the coordinator's running coroutines
          served     \* <<turn, call>> for each batch that went through

(* Every answer reaches the call it was made for: a job that is about to   *)
(* feed one finds its own call open, however the late turn, the end of     *)
(* the grace, a raising handler and the client's own tools interleave.     *)
AnswersOwnCall == \A j \in jobs : j.pc \in {"feed", "excuse"} => live.open = j.call

(* A final turn carries one batch of task calls through, not two.          *)
TurnUsedOnce == \A s, t \in served : s[1] = t[1] => s = t

(* The coordinator's receive loop and jobs keep both                       *)
(* (task_tools_online.py:374-775).                                         *)
CallsBound == AnswersOwnCall /\ TurnUsedOnce
=============================================================================
