------------------------- MODULE MCOpenClawSource -------------------------
\* The upstream connection of the gateway for TLC.
EXTENDS OpenClawSource
=============================================================================
