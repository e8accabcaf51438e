--------------------------- MODULE MCRequestQueue ---------------------------
(***************************************************************************)
(* Three requests and two keys: enough for a lease holder with two waiters *)
(* behind it, for a waiter that leaves from the middle of the line, for a  *)
(* lease handed to a waiter that is cancelled at the same time, and for a  *)
(* second key that must stay independent of the first.                     *)
(***************************************************************************)
EXTENDS RequestQueue

CONSTANTS c1, c2, c3, k1, k2

MCCallers == {c1, c2, c3}
MCKeys    == {k1, k2}
=============================================================================
