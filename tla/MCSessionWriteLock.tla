------------------------- MODULE MCSessionWriteLock -------------------------
\* The session write lock for TLC.
EXTENDS SessionWriteLock

CONSTANTS p1, p2

\* A gateway with two callers and a second process with one.
MCCallers == {<<p1, 1>>, <<p1, 2>>, <<p2, 1>>}
=============================================================================
