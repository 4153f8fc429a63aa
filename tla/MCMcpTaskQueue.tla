--------------------------- MODULE MCMcpTaskQueue ---------------------------
EXTENDS McpTaskQueue
=============================================================================
