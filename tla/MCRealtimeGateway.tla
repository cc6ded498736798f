------------------------- MODULE MCRealtimeGateway -------------------------
\* The realtime gateway for TLC.
EXTENDS RealtimeGateway
=============================================================================
