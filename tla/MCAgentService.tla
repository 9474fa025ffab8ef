---- MODULE MCAgentService ----
\* AgentService on small instances.
EXTENDS AgentService
====
