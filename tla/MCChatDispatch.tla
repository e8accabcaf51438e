--------------------------- MODULE MCChatDispatch ---------------------------
(***************************************************************************)
(* Two requests and two accounts: enough for a request that skips a busy   *)
(* account, queues behind the other one, waits for a cooldown, or is       *)
(* selecting while an account is saved, removed or activated.  Requests    *)
(* and accounts are interchangeable in the safety run.  The liveness run   *)
(* has one account, for which both requests have to queue, and the panel   *)
(* runs the account creator beside them.                                   *)
(***************************************************************************)
EXTENDS ChatDispatch, TLC

CONSTANTS r1, r2, a1, a2, p1

MCRequests == {r1, r2}
MCAccounts == {a1, a2}
MCOneAccount == {a1}
MCNoRuns == {}
MCOneRun == {p1}
MCSymmetry == Permutations(MCRequests) \cup Permutations(MCAccounts)
=============================================================================
