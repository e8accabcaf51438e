----------------------------- MODULE MCPanelLogin -----------------------------
EXTENDS PanelLogin

MCRequests == 1..2
=============================================================================
