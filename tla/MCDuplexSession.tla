--------------------------- MODULE MCDuplexSession ---------------------------
EXTENDS DuplexSession

CONSTANTS c1, c2, c3, s1

\* Every client asks for the same session id.
SameId == [c \in Conns |-> s1]
=============================================================================
