--------------------------- MODULE MCMirrorClient ---------------------------
\* The realtime mirror's client for TLC.
EXTENDS MirrorClient
=============================================================================
