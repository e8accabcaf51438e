----------------------------- MODULE AccountSet -----------------------------
(***************************************************************************)
(* What the account vault promises the rest of the proxy: a set of saved   *)
(* accounts and one active account among them.  There is an active account *)
(* exactly when an account is saved.  The chat dispatcher is checked       *)
(* against this module, and AccountStore, which keeps the list, the order, *)
(* the credentials and the file, is checked to implement it.               *)
(***************************************************************************)
CONSTANTS Ids,      \* the account ids
          NoId      \* the active account when none is saved

VARIABLES ids,      \* the saved accounts
          active    \* activeAccountId

ActiveFits == active \in IF ids = {} THEN {NoId} ELSE ids

-----------------------------------------------------------------------------
SetInit == ids = {} /\ active = NoId

\* A login, or the account creator, saves an account; the first becomes active.
Add(a) ==
    /\ ids' = ids \cup {a}
    /\ active' = IF active = NoId THEN a ELSE active

\* Somebody makes a saved account the active one.
Activate(a) ==
    /\ a \in ids
    /\ active' = a
    /\ UNCHANGED ids

\* An account is removed.  If it was active, another one takes its place.
Drop(a) ==
    /\ a \in ids
    /\ ids' = ids \ {a}
    /\ IF active = a
       THEN active' \in IF ids = {a} THEN {NoId} ELSE ids \ {a}
       ELSE UNCHANGED active

\* The program restarts from its file, which may be older than its memory was.
Reload ==
    /\ ids' \in SUBSET Ids
    /\ active' \in IF ids' = {} THEN {NoId} ELSE ids'

SetNext == Reload \/ \E a \in Ids : Add(a) \/ Activate(a) \/ Drop(a)

SetSpec == SetInit /\ [][SetNext]_<<ids, active>>
=============================================================================
