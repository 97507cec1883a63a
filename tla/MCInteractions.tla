--------------------------- MODULE MCInteractions ---------------------------
EXTENDS Interactions

CONSTANTS question, approval

\* A question for the user or the coordinator, a permission for the user
\* or the contract.
AnyRoute == [i \in Asks |-> IF i = question THEN {"user", "coordinator"}
                                            ELSE {"user", "policy"}]

\* Two requests of the user that say different things.
Spoken == [m \in Replies |-> IF m \in {"t1", "plan"} THEN "allow" ELSE "deny"]
=============================================================================
