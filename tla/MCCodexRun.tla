----------------------------- MODULE MCCodexRun -----------------------------
EXTENDS CodexRun

MCUpdates == {"u1"}
MCQueries == {"q1"}
MCAsks == {"a1"}
MCQuestions == [a \in MCAsks |-> 2]

\* A second side query comes while the first is disposed of.
TwoQueries == {"q1", "q2"}
NoQuestions == [a \in {} |-> 1]
=============================================================================
