----------------------------- MODULE MCMcpServer -----------------------------
EXTENDS McpServer
=============================================================================
