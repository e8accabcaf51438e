---------------------------- MODULE MCPanelSettings ----------------------------
(***************************************************************************)
(* Three clicks: a key is made, deleted, and another one made.  Two        *)
(* requests under way: one overtakes the other.  One port: a change of it  *)
(* is a change of the API switch under another name.                       *)
(***************************************************************************)
EXTENDS PanelSettings, TLC

CONSTANTS k1, k2

MCKeys == {k1, k2}
MCSlots == {1, 2}
KeySymmetry == Permutations(MCKeys)
=============================================================================
