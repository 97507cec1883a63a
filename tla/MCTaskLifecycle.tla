--------------------------- MODULE MCTaskLifecycle ---------------------------
EXTENDS TaskLifecycle

CONSTANTS t1, t2, w1, w2

\* A workspace each: only the provider's slots keep them apart.
OwnWorkspace == [t \in Tasks |-> IF t = t1 THEN w1 ELSE w2]
=============================================================================
