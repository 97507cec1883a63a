--------------------------- MODULE MCCoordination ---------------------------
EXTENDS Coordination

CONSTANTS t1, t2
=============================================================================
