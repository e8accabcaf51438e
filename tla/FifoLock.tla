------------------------------ MODULE FifoLock ------------------------------
(***************************************************************************)
(* What the local request queue promises its callers: for every key one    *)
(* first-come-first-served line.  The head of the line is the only caller  *)
(* that may talk to the upstream under that key; the callers behind it     *)
(* move up in the order in which they joined.                              *)
(*                                                                         *)
(* The promise is stated with the weakness the code has: a caller that     *)
(* gives up after its turn has come (Vanish) leaves its place behind, and  *)
(* the line never moves again.  README.md, "Findings", discusses it.       *)
(***************************************************************************)
EXTENDS Naturals, Sequences

CONSTANTS Callers,      \* the requests that use the queue
          Keys,         \* the account:model pairs
          Nobody        \* holds the place of a caller that vanished at the head

VARIABLE line           \* line[k]: the head holds k, the others wait for it

LineType == line \in [Keys -> Seq(Callers \cup {Nobody})]

InLine(c) == \E k \in Keys : \E i \in DOMAIN line[k] : line[k][i] = c

-----------------------------------------------------------------------------
LineInit == line = [k \in Keys |-> <<>>]

\* A caller that is in no line joins the end of one.
Join(c, k) ==
    /\ ~InLine(c)
    /\ line' = [line EXCEPT ![k] = Append(@, c)]

\* The head is done and the next caller moves up.
Leave(c, k) ==
    /\ line[k] # <<>>
    /\ Head(line[k]) = c
    /\ line' = [line EXCEPT ![k] = Tail(@)]

\* A caller behind the head gives up; the others keep their order.
GiveUp(c, k) ==
    \E i \in 2 .. Len(line[k]) :
        /\ line[k][i] = c
        /\ line' = [line EXCEPT ![k] =
                        [j \in 1 .. Len(@) - 1 |-> IF j < i THEN @[j] ELSE @[j + 1]]]

\* The head gives up without passing its turn on: nobody can leave this line.
Vanish(c, k) ==
    /\ line[k] # <<>>
    /\ Head(line[k]) = c
    /\ line' = [line EXCEPT ![k][1] = Nobody]

LineNext ==
    \E c \in Callers, k \in Keys :
        Join(c, k) \/ Leave(c, k) \/ GiveUp(c, k) \/ Vanish(c, k)

LineSpec == LineInit /\ [][LineNext]_line
=============================================================================
