--------------------------- MODULE MCAgentGateway ---------------------------
\* Instances of AgentGateway for TLC.
EXTENDS AgentGateway
=============================================================================
