--------------------------- MODULE MCPanelAccounts ---------------------------
EXTENDS PanelAccounts, TLC

CONSTANTS a1, a2

MCAccounts == {a1, a2}
MCSaved == <<a1>>
=============================================================================
