---------------------------- MODULE MCAgentLanes ----------------------------
\* The lanes of agent runs and the gateway's run loop for TLC.
EXTENDS AgentLanes
=============================================================================
