------------------------- MODULE MCSessionRealtime -------------------------
\* The session page for TLC.
EXTENDS SessionRealtime

\* The demo session is neither of the sessions: nothing tells them apart.
Symmetry == Permutations(Sessions)
=============================================================================
