--------------------------- MODULE MCAccountStore ---------------------------
(***************************************************************************)
(* Three accounts, of which two are saved at a time: enough for an order   *)
(* that still lists a removed account, and for numbers with a gap after a  *)
(* removal (RegistrationOrder up to three).  Accounts are interchangeable, *)
(* so their permutations are symmetric.                                    *)
(***************************************************************************)
EXTENDS AccountStore, TLC

CONSTANTS a1, a2, a3

MCIds == {a1, a2, a3}
MCSymmetry == Permutations(MCIds)
=============================================================================
