----------------------------- MODULE MCMcpTasks -----------------------------
EXTENDS McpTasks
=============================================================================
