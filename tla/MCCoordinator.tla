---------------------------- MODULE MCCoordinator ----------------------------
(***************************************************************************)
(* The coordinator of a session does two things that share no variable of  *)
(* the models: it delivers what the ledger announces (Delivery) and it     *)
(* answers the tool calls of the speaking model (TaskCalls).  Every        *)
(* behaviour explored is one of the one or of the other.                   *)
(***************************************************************************)
EXTENDS Delivery, CallPromise

CONSTANTS news, question, ToolUnits, MaxTurns, MaxRaises, MaxUnfit, Grace

VARIABLES part, posted, recv, control, buffered, nonce, recovering,
          external, latest, consumed, shape, lost, raises, unfit

Calls == INSTANCE TaskCalls WITH MaxCalls <- ToolUnits

ASSUME CallsAssumption == Calls!TaskCallsAssumption

callVars == << live, posted, recv, control, buffered, nonce, recovering,
               external, latest, consumed, jobs, shape, served, lost,
               raises, unfit >>
allVars == << part, vars, callVars >>

MCInit ==
    /\ part \in {"delivery", "calls"}
    /\ Init /\ Calls!Init

MCNext ==
    \/ part = "delivery" /\ Next /\ UNCHANGED << part, callVars >>
    \/ part = "calls" /\ Calls!Next /\ UNCHANGED << part, vars >>

\* The fairness of each module, of its own behaviours.
MCFairness ==
    /\ WF_vars(part = "delivery" /\ LoopStep)
    /\ SF_vars(part = "delivery" /\ Pause)
    /\ WF_vars(part = "delivery" /\ HandlerStep)
    /\ WF_vars(part = "delivery" /\ CallAnswered)
    /\ Calls!Fairness

MCSpec == MCInit /\ [][MCNext]_allVars /\ MCFairness

\* TaskCalls.CallsAnswered, of the coordinator's receive loop and jobs
\* (task_tools_online.py:374-775).
CallsAnswered == Calls!CallsAnswered
=============================================================================
