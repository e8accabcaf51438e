-------------------------- MODULE MCAccountCreation --------------------------
(***************************************************************************)
(* Two addresses and batches of two: the second account of a batch, a      *)
(* second batch after a failed one, and the end of the supply of addresses *)
(* all occur.                                                              *)
(***************************************************************************)
EXTENDS AccountCreation

CONSTANTS e1, e2

MCEmails == {e1, e2}
=============================================================================
