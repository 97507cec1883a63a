----------------------------- MODULE TaskPromise -----------------------------
(***************************************************************************)
(* What the gateway promises the conversation about one delegated task:    *)
(* it is settled once, with one outcome, and the outcome the user is told  *)
(* is that one.  TaskLifecycle implements it.                              *)
(***************************************************************************)
CONSTANTS Tasks,     \* tasks the user may delegate
          Terminal   \* outcomes a task may settle with

VARIABLES outcome,   \* Tasks -> Terminal \cup {"open"}
          told       \* Tasks -> Terminal \cup {"nothing"}

vars == <<outcome, told>>

TypeOK ==
    /\ outcome \in [Tasks -> Terminal \cup {"open"}]
    /\ told \in [Tasks -> Terminal \cup {"nothing"}]

Init ==
    /\ outcome = [t \in Tasks |-> "open"]
    /\ told = [t \in Tasks |-> "nothing"]

\* The task ends; the news may be recorded in the same breath or later.
Settle(t) ==
    /\ outcome[t] = "open"
    /\ \E s \in Terminal :
        /\ outcome' = [outcome EXCEPT ![t] = s]
        /\ told' \in {told, [told EXCEPT ![t] = s]}

Tell(t) ==
    /\ outcome[t] # "open"
    /\ told[t] = "nothing"
    /\ told' = [told EXCEPT ![t] = outcome[t]]
    /\ UNCHANGED outcome

Next == \E t \in Tasks : Settle(t) \/ Tell(t)

Spec == Init /\ [][Next]_vars
=============================================================================
