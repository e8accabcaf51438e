------------------------- MODULE RequestQueueProofs -------------------------
(***************************************************************************)
(* Theorems about the local request queue, for every set of requests and   *)
(* of keys.                                                                *)
(***************************************************************************)
EXTENDS RequestQueue, SequenceTheorems, TLAPS

\* A caller that is inside the queue has asked for a real key.
KeyOK == \A c \in Callers : pc[c] # "idle" => key[c] \in Keys

\* The inductive invariant: one lease per key alone is not inductive, because the
\* step that hands a lease over needs the first waiter of the gate to be a caller
\* that is still blocked in Acquire on that very key.
IInv == TypeOK /\ KeyOK /\ OneLeasePerKey /\ GateBookkeeping

Occurs(e, s) == \E i \in DOMAIN s : s[i] = e

Distinct(s) == \A i, j \in DOMAIN s : s[i] = s[j] => i = j

-----------------------------------------------------------------------------
(* What removeWaiter's loop leaves of gate.wait.                           *)

\* Dropping the i-th element moves the later ones down by one place.
LEMMA RemoveAtShifts ==
    ASSUME NEW S, NEW s \in Seq(S), NEW i \in 1 .. Len(s)
    PROVE  RemoveAt(s, i) = [j \in 1 .. Len(s) - 1 |-> IF j < i THEN s[j] ELSE s[j + 1]]
<1> DEFINE a == SubSeq(s, 1, i - 1)
           b == SubSeq(s, i + 1, Len(s))
           t == [j \in 1 .. Len(s) - 1 |-> IF j < i THEN s[j] ELSE s[j + 1]]
<1>1. /\ a \in Seq(S)
      /\ Len(a) = i - 1
      /\ \A j \in 1 .. i - 1 : a[j] = s[j]
  OBVIOUS
<1>2. /\ b \in Seq(S)
      /\ Len(b) = Len(s) - i
      /\ \A j \in 1 .. Len(s) - i : b[j] = s[i + j]
  OBVIOUS
<1> HIDE DEF a, b
<1>3. /\ a \o b \in Seq(S)
      /\ Len(a \o b) = Len(s) - 1
      /\ \A j \in 1 .. Len(s) - 1 : (a \o b)[j] = IF j <= i - 1 THEN a[j] ELSE b[j - (i - 1)]
  <2>1. /\ a \o b \in Seq(S)
        /\ Len(a \o b) = Len(a) + Len(b)
        /\ \A j \in 1 .. Len(a) + Len(b) :
              (a \o b)[j] = IF j <= Len(a) THEN a[j] ELSE b[j - Len(a)]
    BY <1>1, <1>2, ConcatProperties, Zenon
  <2>2. Len(a) + Len(b) = Len(s) - 1
    BY <1>1, <1>2
  <2> QED BY <2>1, <2>2, <1>1
<1>4. \A j \in 1 .. Len(s) - 1 : (a \o b)[j] = t[j]
  <2>1. ASSUME NEW j \in 1 .. Len(s) - 1, j >= i
        PROVE  b[j - (i - 1)] = s[j + 1]
    <3>1. /\ j - (i - 1) \in 1 .. Len(s) - i
          /\ i + (j - (i - 1)) = j + 1
      BY <2>1
    <3> QED BY <3>1, <1>2
  <2> QED BY <1>1, <1>3, <2>1
<1>5. a \o b \in [1 .. Len(s) - 1 -> S]
  BY <1>3, LenProperties
<1>6. a \o b = t
  BY <1>4, <1>5
<1> QED BY <1>6 DEF RemoveAt, a, b

\* In a sequence without repetitions removeWaiter takes out the one occurrence of
\* the waiter and nothing else.
LEMMA RemoveFirstDistinct ==
    ASSUME NEW S, NEW s \in Seq(S), NEW e, Distinct(s),
           NEW r, r = RemoveFirst(s, e)
    PROVE  /\ r \in Seq(S)
           /\ Distinct(r)
           /\ \A x : Occurs(x, r) <=> (x # e /\ Occurs(x, s))
<1>1. CASE \A i \in 1 .. Len(s) : s[i] # e
  <2>1. r = s
    BY <1>1 DEF RemoveFirst
  <2> QED BY <2>1, <1>1 DEF Occurs
<1>2. CASE \E i \in 1 .. Len(s) : s[i] = e
  <2>1. PICK i \in 1 .. Len(s) : s[i] = e
    BY <1>2
  <2> DEFINE I == { j \in 1 .. Len(s) : s[j] = e }
             t == [j \in 1 .. Len(s) - 1 |-> IF j < i THEN s[j] ELSE s[j + 1]]
  <2>2. I = {i}
    BY <2>1 DEF Distinct
  <2>3. Min(I) = i
    BY <2>2 DEF Min
  <2>4. SelectInSeq(s, LAMBDA v : v = e) = i
    BY <2>2, <2>3 DEF SelectInSeq
  <2>5. r = t
    BY <2>1, <2>4, RemoveAtShifts DEF RemoveFirst
  <2>6. t \in Seq(S) /\ DOMAIN t = 1 .. Len(s) - 1
    <3>1. \A j \in 1 .. Len(s) - 1 : t[j] \in S
      OBVIOUS
    <3> QED BY <3>1
  <2>7. Distinct(t)
    BY <2>6 DEF Distinct
  <2>8. ASSUME NEW x
        PROVE Occurs(x, t) <=> (x # e /\ Occurs(x, s))
    <3>1. ASSUME NEW j \in DOMAIN t, t[j] = x
          PROVE x # e /\ \E l \in DOMAIN s : s[l] = x
      BY <3>1, <2>1, <2>6 DEF Distinct
    <3>2. ASSUME NEW j \in DOMAIN s, s[j] = x, x # e
          PROVE \E l \in DOMAIN t : t[l] = x
      <4>1. CASE j < i
        BY <4>1, <3>2, <2>1, <2>6
      <4>2. CASE j > i
        <5>1. j - 1 \in DOMAIN t /\ t[j - 1] = x
          BY <4>2, <3>2, <2>1, <2>6
        <5> QED BY <5>1
      <4> QED BY <4>1, <4>2, <3>2, <2>1
    <3> QED BY <3>1, <3>2 DEF Occurs
  <2> HIDE DEF t
  <2> QED BY <2>5, <2>6, <2>7, <2>8
<1> QED BY <1>1, <1>2

-----------------------------------------------------------------------------
(* The inductive invariant.                                                *)

\* Every queue starts empty.
LEMMA InitIInv == Init => IInv
<1> SUFFICES ASSUME Init PROVE IInv
  OBVIOUS
<1>1. TypeOK
  <2>1. <<>> \in Seq(Callers)
    OBVIOUS
  <2> QED BY <2>1 DEF Init, TypeOK, Places
<1>2. KeyOK /\ OneLeasePerKey
  BY DEF Init, KeyOK, OneLeasePerKey, Owns, Granted
<1>3. GateBookkeeping
  BY DEF Init, GateBookkeeping, InWait
<1> QED BY <1>1, <1>2, <1>3 DEF IInv

\* A free key has nobody in line; a busy one has a gate.
LEMMA AcquireFreeIInv ==
    ASSUME IInv, NEW c \in Callers, NEW k \in Keys, AcquireFree(c, k)
    PROVE  IInv'
<1> USE DEF IInv
<1>1. TypeOK' /\ KeyOK'
  BY DEF TypeOK, KeyOK, AcquireFree, Places
<1>2. OneLeasePerKey'
  BY DEF TypeOK, OneLeasePerKey, Owns, Granted, AcquireFree
<1>3. GateBookkeeping'
  <2>1. ~InWait(c, k) /\ \A l \in Keys : ~InWait(c, l)
    BY DEF GateBookkeeping, AcquireFree
  <2>2. wait[k] = <<>> /\ \A d \in Callers : ~InWait(d, k)
    BY DEF GateBookkeeping, InWait, AcquireFree
  <2>3. \A d \in Callers, l \in Keys : InWait(d, l)' <=> InWait(d, l)
    BY DEF InWait, AcquireFree
  <2> QED BY <2>1, <2>2, <2>3 DEF TypeOK, GateBookkeeping, AcquireFree
<1> QED BY <1>1, <1>2, <1>3

\* The newcomer is last in its line and was in none before.
LEMMA AcquireWaitIInv ==
    ASSUME IInv, NEW c \in Callers, NEW k \in Keys, AcquireWait(c, k)
    PROVE  IInv'
<1> USE DEF IInv
<1>1. /\ wait'[k] \in Seq(Callers)
      /\ Len(wait'[k]) = Len(wait[k]) + 1
      /\ \A i \in 1 .. Len(wait[k]) : wait'[k][i] = wait[k][i]
      /\ wait'[k][Len(wait[k]) + 1] = c
      /\ \A l \in Keys \ {k} : wait'[l] = wait[l]
  BY AppendProperties DEF TypeOK, AcquireWait
<1>2. /\ Len(wait[k]) \in Nat
      /\ DOMAIN wait[k] = 1 .. Len(wait[k])
      /\ DOMAIN wait'[k] = 1 .. Len(wait[k]) + 1
  BY <1>1 DEF TypeOK
<1>3. TypeOK' /\ KeyOK'
  BY <1>1, <1>2 DEF TypeOK, KeyOK, AcquireWait, Places
<1>4. OneLeasePerKey'
  BY DEF TypeOK, OneLeasePerKey, Owns, Granted, AcquireWait
<1>5. \A l \in Keys, d \in Callers : InWait(d, l)' <=> (InWait(d, l) \/ (d = c /\ l = k))
  BY <1>1, <1>2 DEF InWait
<1>6. ~InWait(c, k)
  BY DEF GateBookkeeping, AcquireWait
<1>7. GateBookkeeping'
  <2>1. \A l \in Keys : l \in gates' <=> busy'[l]
    BY DEF GateBookkeeping, AcquireWait
  <2>2. \A l \in Keys : ~busy'[l] => wait'[l] = <<>>
    BY <1>1 DEF GateBookkeeping, AcquireWait
  <2>3. \A l \in Keys, d \in Callers :
            InWait(d, l)' <=> /\ pc'[d] \in {"waiting", "leaving"}
                              /\ d \notin closed'
                              /\ key'[d] = l
    BY <1>5 DEF GateBookkeeping, AcquireWait, TypeOK
  <2>4. \A l \in Keys : \A i, j \in DOMAIN wait'[l] : wait'[l][i] = wait'[l][j] => i = j
    <3>1. \A i, j \in DOMAIN wait'[k] : wait'[k][i] = wait'[k][j] => i = j
      <4>1. \A i \in 1 .. Len(wait[k]) : wait[k][i] # c
        BY <1>2, <1>6 DEF InWait
      <4>2. \A i, j \in 1 .. Len(wait[k]) : wait[k][i] = wait[k][j] => i = j
        BY <1>2 DEF GateBookkeeping
      <4> QED BY <4>1, <4>2, <1>1, <1>2
    <3> QED BY <3>1, <1>1 DEF GateBookkeeping
  <2> QED BY <2>1, <2>2, <2>3, <2>4 DEF GateBookkeeping
<1> QED BY <1>3, <1>4, <1>7

\* The select of Acquire moves its own caller and nothing else.
LEMMA SelectIInv ==
    ASSUME IInv, NEW c \in Callers, SelectGranted(c) \/ SelectDone(c)
    PROVE  IInv'
<1> USE DEF IInv
<1>1. TypeOK' /\ KeyOK'
  BY DEF TypeOK, KeyOK, SelectGranted, SelectDone, queueVars, Places
<1>2. OneLeasePerKey'
  BY DEF TypeOK, OneLeasePerKey, Owns, Granted, SelectGranted, SelectDone, queueVars
<1>3. GateBookkeeping'
  BY DEF TypeOK, GateBookkeeping, InWait, SelectGranted, SelectDone, queueVars
<1> QED BY <1>1, <1>2, <1>3

\* A waiter that was served in the meantime is not in the line; another one leaves it.
LEMMA RemoveWaiterIInv ==
    ASSUME IInv, NEW c \in Callers, RemoveWaiter(c)
    PROVE  IInv'
<1> USE DEF IInv
<1>0. key[c] \in Keys
  BY DEF KeyOK, RemoveWaiter
<1> PICK k \in Keys : k = key[c]
  BY <1>0
<1> PICK rest : rest = RemoveFirst(wait[k], c)
  OBVIOUS
<1>1. wait[k] \in Seq(Callers) /\ Distinct(wait[k])
  BY DEF TypeOK, GateBookkeeping, Distinct
<1>2. /\ rest \in Seq(Callers)
      /\ Distinct(rest)
      /\ \A d : (\E i \in DOMAIN rest : rest[i] = d) <=> (d # c /\ InWait(d, k))
  <2>1. PICK w \in Seq(Callers) : w = wait[k]
    BY <1>1
  <2>3. rest = RemoveFirst(w, c) /\ Distinct(w)
    BY <1>1, <2>1
  <2>2. /\ rest \in Seq(Callers)
        /\ Distinct(rest)
        /\ \A d : Occurs(d, rest) <=> (d # c /\ Occurs(d, w))
    BY <2>3, RemoveFirstDistinct
  <2> QED BY <2>1, <2>2 DEF InWait, Occurs
<1>3. /\ wait' = [wait EXCEPT ![k] = IF k \in gates THEN rest ELSE @]
      /\ gates' = IF k \in gates /\ ~busy[k] /\ rest = <<>> THEN gates \ {k} ELSE gates
      /\ UNCHANGED busy
      /\ Forget(c)
      /\ pc[c] = "leaving"
  BY DEF RemoveWaiter
<1>4. gates' = gates
  BY <1>1, <1>3 DEF GateBookkeeping
<1>5. k \notin gates => wait[k] = <<>> /\ \A d : ~InWait(d, k)
  <2>1. k \notin gates => wait[k] = <<>>
    BY DEF GateBookkeeping
  <2>2. wait[k] = <<>> => \A d : ~InWait(d, k)
    BY DEF InWait
  <2> QED BY <2>1, <2>2
<1>6. /\ wait'[k] \in Seq(Callers)
      /\ Distinct(wait'[k])
      /\ \A d : InWait(d, k)' <=> (d # c /\ InWait(d, k))
      /\ \A l \in Keys \ {k} : wait'[l] = wait[l]
  <2>1. \A l \in Keys \ {k} : wait'[l] = wait[l]
    BY <1>3 DEF TypeOK
  <2>2. CASE k \in gates
    <3>1. wait'[k] = rest
      BY <1>3, <2>2 DEF TypeOK
    <3> QED BY <2>1, <3>1, <1>2 DEF InWait
  <2>3. CASE k \notin gates
    <3>1. wait'[k] = wait[k]
      BY <1>3, <2>3 DEF TypeOK
    <3> QED BY <2>1, <3>1, <1>1, <1>5, <2>3 DEF InWait
  <2> QED BY <2>2, <2>3
<1>7. TypeOK' /\ KeyOK'
  <2>1. wait' \in [Keys -> Seq(Callers)]
    BY <1>1, <1>2, <1>3 DEF TypeOK
  <2> QED BY <2>1, <1>3, <1>4 DEF TypeOK, KeyOK, Forget, Places
<1>8. OneLeasePerKey'
  BY <1>3, <1>4 DEF TypeOK, OneLeasePerKey, Owns, Granted, Forget
<1>9. GateBookkeeping'
  <2>1. \A l \in Keys : l \in gates' <=> busy'[l]
    BY <1>3, <1>4 DEF GateBookkeeping
  <2>2. \A l \in Keys : ~busy'[l] => wait'[l] = <<>>
    <3>1. ~busy[k] => wait'[k] = <<>>
      BY <1>1, <1>3, <1>5 DEF GateBookkeeping, TypeOK
    <3> QED BY <3>1, <1>3, <1>6 DEF GateBookkeeping
  <2>3. \A l \in Keys, d \in Callers :
            InWait(d, l)' <=> /\ pc'[d] \in {"waiting", "leaving"}
                              /\ d \notin closed'
                              /\ key'[d] = l
    <3>1. \A l \in Keys \ {k}, d \in Callers : InWait(d, l)' <=> InWait(d, l)
      BY <1>6 DEF InWait
    <3>2. \A l \in Keys : l # k => ~InWait(c, l)
      BY DEF GateBookkeeping
    <3>3. pc'[c] = "idle" /\ \A d \in Callers \ {c} :
              pc'[d] = pc[d] /\ key'[d] = key[d] /\ (d \in closed' <=> d \in closed)
      BY <1>3 DEF Forget, TypeOK
    <3>4. ASSUME NEW l \in Keys, NEW d \in Callers \ {c}
          PROVE InWait(d, l)' <=> InWait(d, l)
      BY <3>1, <1>6
    <3>5. \A l \in Keys : ~InWait(c, l)'
      BY <3>1, <3>2, <1>6
    <3> QED BY <3>3, <3>4, <3>5 DEF GateBookkeeping
  <2>4. \A l \in Keys : \A i, j \in DOMAIN wait'[l] : wait'[l][i] = wait'[l][j] => i = j
    BY <1>6 DEF GateBookkeeping, Distinct
  <2> QED BY <2>1, <2>2, <2>3, <2>4 DEF GateBookkeeping
<1> QED BY <1>7, <1>8, <1>9

\* The first waiter of a gate is not in the rest of its line.
LEMMA TailOfLine ==
    ASSUME NEW S, NEW s \in Seq(S), Distinct(s), s # <<>>
    PROVE  /\ Tail(s) \in Seq(S)
           /\ Head(s) \in S
           /\ Distinct(Tail(s))
           /\ Occurs(Head(s), s)
           /\ \A x : Occurs(x, Tail(s)) <=> (x # Head(s) /\ Occurs(x, s))
<1>1. /\ Tail(s) \in Seq(S)
      /\ Len(Tail(s)) = Len(s) - 1
      /\ \A i \in 1 .. Len(s) - 1 : Tail(s)[i] = s[i + 1]
      /\ Head(s) = s[1]
      /\ Head(s) \in S
      /\ Len(s) \in Nat \ {0}
  BY HeadTailProperties, EmptySeq
<1>2. DOMAIN s = 1 .. Len(s) /\ DOMAIN Tail(s) = 1 .. Len(s) - 1
  BY <1>1
<1>3. Distinct(Tail(s))
  <2>1. ASSUME NEW i \in 1 .. Len(s) - 1, NEW j \in 1 .. Len(s) - 1, Tail(s)[i] = Tail(s)[j]
        PROVE i = j
    <3>1. s[i + 1] = s[j + 1] /\ i + 1 \in DOMAIN s /\ j + 1 \in DOMAIN s
      BY <1>1, <1>2, <2>1
    <3> QED BY <3>1, <2>1 DEF Distinct
  <2> QED BY <2>1, <1>2 DEF Distinct
<1>4. ASSUME NEW x
      PROVE Occurs(x, Tail(s)) <=> (x # Head(s) /\ Occurs(x, s))
  <2>1. ASSUME NEW i \in DOMAIN Tail(s), Tail(s)[i] = x
        PROVE x # Head(s) /\ Occurs(x, s)
    <3>1. i + 1 \in DOMAIN s /\ s[i + 1] = x /\ i + 1 # 1 /\ 1 \in DOMAIN s
      BY <2>1, <1>1, <1>2
    <3> QED BY <3>1, <1>1 DEF Occurs, Distinct
  <2>2. ASSUME NEW i \in DOMAIN s, s[i] = x, x # Head(s)
        PROVE Occurs(x, Tail(s))
    <3>1. i - 1 \in DOMAIN Tail(s) /\ Tail(s)[i - 1] = x
      BY <2>2, <1>1, <1>2
    <3> QED BY <3>1 DEF Occurs
  <2> QED BY <2>1, <2>2 DEF Occurs
<1>5. Occurs(Head(s), s)
  BY <1>1, <1>2 DEF Occurs
<1> QED BY <1>1, <1>3, <1>4, <1>5

\* The owner hands the gate to the first waiter, or takes the gate away.
LEMMA ReleaseIInv ==
    ASSUME IInv, NEW c \in Callers, Release(c)
    PROVE  IInv'
<1> USE DEF IInv
<1>a. CASE pc[c] = "released"
  <2>1. UNCHANGED queueVars /\ UNCHANGED <<key, position, ctxDone>>
    BY <1>a DEF Release
  <2>2. pc' = pc
    BY <1>a DEF Release, TypeOK
  <2> QED BY <2>1, <2>2
          DEF TypeOK, KeyOK, OneLeasePerKey, GateBookkeeping, Owns, Granted, InWait, queueVars
<1>b. CASE pc[c] = "holding"
  <2>0. key[c] \in Keys
    BY <1>b DEF KeyOK
  <2> PICK k \in Keys : k = key[c]
    BY <2>0
  <2>1. /\ release(k)
        /\ pc' = [pc EXCEPT ![c] = "released"]
        /\ UNCHANGED <<key, position, ctxDone>>
    BY <1>b DEF Release
  <2>2. Owns(c, k) /\ busy[k] /\ k \in gates
    BY <1>b DEF Owns, OneLeasePerKey, GateBookkeeping
  <2>3. \A d \in Callers : Owns(d, k) => d = c
    BY <2>2 DEF OneLeasePerKey
  <2>4. CASE wait[k] = <<>>
    <3>1. /\ gates' = gates \ {k}
          /\ busy' = [busy EXCEPT ![k] = FALSE]
          /\ UNCHANGED <<wait, closed>>
      BY <2>1, <2>2, <2>4 DEF release
    <3>2. TypeOK' /\ KeyOK'
      BY <3>1, <2>1 DEF TypeOK, KeyOK, Places
    <3>3. OneLeasePerKey'
      <4>1. \A l \in Keys, d \in Callers : Owns(d, l)' <=> (Owns(d, l) /\ d # c)
        BY <3>1, <2>1, <1>b DEF Owns, Granted, TypeOK
      <4>2. \A d \in Callers : ~Owns(d, k)'
        BY <4>1, <2>3
      <4>3. \A l \in Keys : l # k => busy'[l] = busy[l]
        BY <3>1 DEF TypeOK
      <4> QED BY <4>1, <4>2, <4>3 DEF OneLeasePerKey
    <3>4. GateBookkeeping'
      <4>1. \A l \in Keys, d \in Callers : InWait(d, l)' <=> InWait(d, l)
        BY <3>1 DEF InWait
      <4> QED BY <4>1, <3>1, <2>1, <2>4, <1>b DEF GateBookkeeping, TypeOK
    <3> QED BY <3>2, <3>3, <3>4
  <2>5. CASE wait[k] # <<>>
    <3> PICK w \in Seq(Callers) : w = wait[k]
      BY DEF TypeOK
    <3>1. Distinct(w) /\ w # <<>>
      BY <2>5 DEF GateBookkeeping, Distinct
    <3> PICK n : n = Head(w)
      OBVIOUS
    <3>2. /\ Tail(w) \in Seq(Callers)
          /\ n \in Callers
          /\ Distinct(Tail(w))
          /\ Occurs(n, w)
          /\ \A x : Occurs(x, Tail(w)) <=> (x # n /\ Occurs(x, w))
      BY <3>1, TailOfLine
    <3>3. /\ wait' = [wait EXCEPT ![k] = Tail(w)]
          /\ busy' = [busy EXCEPT ![k] = TRUE]
          /\ closed' = closed \cup {n}
          /\ gates' = gates
      BY <2>1, <2>2, <2>5 DEF release
    <3>4. InWait(n, k)
      BY <3>2 DEF InWait, Occurs
    <3>5. /\ pc[n] \in {"waiting", "leaving"}
          /\ n \notin closed
          /\ key[n] = k
          /\ n # c
      BY <3>2, <3>4, <1>b DEF GateBookkeeping
    <3>6. TypeOK' /\ KeyOK'
      BY <3>2, <3>3, <2>1 DEF TypeOK, KeyOK, Places
    <3>7. OneLeasePerKey'
      <4>1. \A l \in Keys, d \in Callers :
                Owns(d, l)' <=> ((Owns(d, l) /\ d # c) \/ (d = n /\ l = k))
        BY <3>2, <3>3, <3>5, <2>1, <1>b DEF Owns, Granted, TypeOK
      <4>2. \A l \in Keys : busy'[l] = (busy[l] \/ l = k)
        BY <3>3, <2>2 DEF TypeOK
      <4>3. \A l \in Keys : ~Owns(c, l) \/ l = k
        BY DEF Owns
      <4>4. ASSUME NEW l \in Keys, NEW d \in Callers, Owns(d, l)'
            PROVE busy'[l] /\ \A e \in Callers : Owns(e, l)' => e = d
        <5>1. CASE l = k
          BY <5>1, <4>1, <4>2, <4>4, <2>3, <3>2
        <5>2. CASE l # k
          BY <5>2, <4>1, <4>2, <4>4 DEF OneLeasePerKey
        <5> QED BY <5>1, <5>2
      <4> QED BY <4>4 DEF OneLeasePerKey
    <3>8. GateBookkeeping'
      <4>1. wait'[k] = Tail(w) /\ \A l \in Keys \ {k} : wait'[l] = wait[l]
        BY <3>3 DEF TypeOK
      <4>2. \A l \in Keys, d \in Callers :
                InWait(d, l)' <=> (InWait(d, l) /\ ~(l = k /\ d = n))
        <5>1. \A d \in Callers : InWait(d, k)' <=> Occurs(d, Tail(w))
          BY <4>1 DEF InWait, Occurs
        <5>2. \A d \in Callers : InWait(d, k) <=> Occurs(d, w)
          BY DEF InWait, Occurs
        <5>3. \A l \in Keys \ {k}, d \in Callers : InWait(d, l)' <=> InWait(d, l)
          BY <4>1 DEF InWait
        <5> QED BY <5>1, <5>2, <5>3, <3>2
      <4>3. \A l \in Keys : (l \in gates' <=> busy'[l]) /\ (~busy'[l] => wait'[l] = <<>>)
        BY <4>1, <3>3, <2>2 DEF GateBookkeeping, TypeOK
      <4>4. \A l \in Keys : \A i, j \in DOMAIN wait'[l] : wait'[l][i] = wait'[l][j] => i = j
        <5>1. \A i, j \in DOMAIN wait'[k] : wait'[k][i] = wait'[k][j] => i = j
          BY <4>1, <3>2 DEF Distinct
        <5>2. ASSUME NEW l \in Keys, l # k
              PROVE \A i, j \in DOMAIN wait'[l] : wait'[l][i] = wait'[l][j] => i = j
          <6>1. wait'[l] = wait[l]
            BY <4>1, <5>2
          <6>2. \A i, j \in DOMAIN wait[l] : wait[l][i] = wait[l][j] => i = j
            BY DEF GateBookkeeping
          <6> QED BY <6>1, <6>2
        <5> QED BY <5>1, <5>2
      <4>5. \A l \in Keys, d \in Callers :
                InWait(d, l)' <=> /\ pc'[d] \in {"waiting", "leaving"}
                                  /\ d \notin closed'
                                  /\ key'[d] = l
        <5>1. pc'[c] = "released" /\ \A d \in Callers \ {c} : pc'[d] = pc[d]
          BY <2>1 DEF TypeOK
        <5>2. \A l \in Keys : ~InWait(c, l)
          BY <1>b DEF GateBookkeeping
        <5>3. key' = key
          BY <2>1
        <5> QED BY <4>2, <5>1, <5>2, <5>3, <3>3, <3>5 DEF GateBookkeeping
      <4> QED BY <4>3, <4>4, <4>5 DEF GateBookkeeping
    <3> QED BY <3>6, <3>7, <3>8
  <2> QED BY <2>4, <2>5
<1> QED BY <1>a, <1>b DEF Release

\* A caller whose lease is released leaves nothing in the queue.
LEMMA FinishIInv ==
    ASSUME IInv, NEW c \in Callers, Finish(c)
    PROVE  IInv'
<1> USE DEF IInv
<1>1. TypeOK' /\ KeyOK'
  BY DEF TypeOK, KeyOK, Finish, Forget, Places
<1>2. OneLeasePerKey'
  BY DEF TypeOK, OneLeasePerKey, Owns, Granted, Finish, Forget
<1>3. GateBookkeeping'
  <2>1. \A l \in Keys, d \in Callers : InWait(d, l)' <=> InWait(d, l)
    BY DEF InWait, Finish
  <2> QED BY <2>1 DEF TypeOK, GateBookkeeping, Finish, Forget
<1> QED BY <1>1, <1>2, <1>3

\* The context matters to the select only.
LEMMA ContextIInv ==
    ASSUME IInv, NEW c \in Callers, Cancel(c) \/ Renew(c)
    PROVE  IInv'
BY DEF IInv, TypeOK, KeyOK, OneLeasePerKey, GateBookkeeping, Owns, Granted, InWait,
       Cancel, Renew, queueVars, callerVars

\* One step per action of Next.
LEMMA NextIInv == IInv /\ [Next]_vars => IInv'
<1> SUFFICES ASSUME IInv, [Next]_vars PROVE IInv'
  OBVIOUS
<1>1. ASSUME NEW c \in Callers, NEW k \in Keys, AcquireFree(c, k) PROVE IInv'
  BY <1>1, AcquireFreeIInv
<1>2. ASSUME NEW c \in Callers, NEW k \in Keys, AcquireWait(c, k) PROVE IInv'
  BY <1>2, AcquireWaitIInv
<1>3. ASSUME NEW c \in Callers, SelectGranted(c) \/ SelectDone(c) PROVE IInv'
  BY <1>3, SelectIInv
<1>4. ASSUME NEW c \in Callers, RemoveWaiter(c) PROVE IInv'
  BY <1>4, RemoveWaiterIInv
<1>5. ASSUME NEW c \in Callers, Release(c) PROVE IInv'
  BY <1>5, ReleaseIInv
<1>6. ASSUME NEW c \in Callers, Finish(c) PROVE IInv'
  BY <1>6, FinishIInv
<1>7. ASSUME NEW c \in Callers, Cancel(c) \/ Renew(c) PROVE IInv'
  BY <1>7, ContextIInv
<1>8. CASE UNCHANGED vars
  BY <1>8 DEF vars, IInv, TypeOK, KeyOK, OneLeasePerKey, GateBookkeeping, Owns, Granted, InWait
<1>9. CASE Next
  <2>1. PICK c \in Callers :
          \/ \E k \in Keys : AcquireFree(c, k) \/ AcquireWait(c, k)
          \/ SelectGranted(c) \/ SelectDone(c) \/ RemoveWaiter(c)
          \/ Release(c) \/ Finish(c) \/ Cancel(c) \/ Renew(c)
    BY <1>9 DEF Next
  <2>2. CASE \E k \in Keys : AcquireFree(c, k) \/ AcquireWait(c, k)
    BY <2>2, <1>1, <1>2
  <2>3. CASE SelectGranted(c) \/ SelectDone(c)
    BY <2>3, <1>3
  <2>4. CASE Cancel(c) \/ Renew(c)
    BY <2>4, <1>7
  <2> QED BY <2>1, <2>2, <2>3, <2>4, <1>4, <1>5, <1>6
<1> QED BY <1>8, <1>9

\* The four conjuncts are inductive together: who owns a key, and the key of every
\* caller, are needed to know that release finds the right waiter.
THEOREM InductiveInvariant == Spec => []IInv
BY InitIInv, NextIInv, PTL DEF Spec

\* The variables of the queue keep their types, for any set of requests and keys.
THEOREM TypeCorrect == Spec => []TypeOK
BY InductiveInvariant, PTL DEF IInv

\* Two requests never hold, or are on their way to hold, the lease of one account
\* and model (queue.go Acquire and release), however many requests queue for it and
\* whichever of them are cancelled.
THEOREM MutualExclusion == Spec => []OneLeasePerKey
BY InductiveInvariant, PTL DEF IInv

\* release and removeWaiter keep q.gates and the waiter lists consistent with where
\* the callers stand: no caller blocks in Acquire without being in its gate's line.
THEOREM NoWaiterForgotten == Spec => []GateBookkeeping
BY InductiveInvariant, PTL DEF IInv

-----------------------------------------------------------------------------
(* The queue implements the first-come-first-served line of FifoLock.      *)

\* The owner heads the line of its key; a lost lease is headed by Nobody.
Heads ==
    \A k \in Keys :
        /\ \A c \in Callers : Owns(c, k) => Owner(k) = c
        /\ Orphaned(k) => Owner(k) = Nobody
        /\ ~busy[k] => wait[k] = <<>> /\ \A c \in Callers : ~Owns(c, k)

LEMMA HeadsHold == IInv => Heads
<1> SUFFICES ASSUME IInv, NEW k \in Keys
             PROVE  /\ \A c \in Callers : Owns(c, k) => Owner(k) = c
                    /\ Orphaned(k) => Owner(k) = Nobody
                    /\ ~busy[k] => wait[k] = <<>> /\ \A c \in Callers : ~Owns(c, k)
  BY DEF Heads
<1>1. ASSUME NEW c \in Callers, Owns(c, k) PROVE Owner(k) = c
  <2>1. ~Orphaned(k) /\ \A d \in Callers : Owns(d, k) <=> d = c
    BY <1>1 DEF IInv, OneLeasePerKey, Orphaned
  <2> QED BY <2>1 DEF Owner
<1>2. Orphaned(k) => Owner(k) = Nobody
  BY DEF Owner
<1>3. ~busy[k] => wait[k] = <<>> /\ \A c \in Callers : ~Owns(c, k)
  BY DEF IInv, OneLeasePerKey, GateBookkeeping
<1> QED BY <1>1, <1>2, <1>3

LEMMA HeadsHoldNext == IInv' => Heads'
BY HeadsHold, PTL

\* The line of a key whose owner and waiters stay is the same line.
LEMMA SameLine ==
    ASSUME Heads, Heads', NEW k \in Keys, busy'[k] = busy[k], wait'[k] = wait[k],
           \A c \in Callers : Owns(c, k)' <=> Owns(c, k)
    PROVE  queueLine'[k] = queueLine[k] /\ (busy[k] => Owner(k)' = Owner(k))
<1>1. busy[k] => Owner(k)' = Owner(k)
  <2>1. CASE \E c \in Callers : Owns(c, k)
    BY <2>1 DEF Heads
  <2>2. CASE busy[k] /\ \A c \in Callers : ~Owns(c, k)
    BY <2>2 DEF Heads, Orphaned
  <2> QED BY <2>1, <2>2
<1> QED BY <1>1 DEF queueLine

\* A step that leaves every owner and every waiter where they are shows nothing.
LEMMA SameLines ==
    ASSUME Heads, Heads', UNCHANGED <<busy, wait>>,
           \A k \in Keys, c \in Callers : Owns(c, k)' <=> Owns(c, k)
    PROVE  UNCHANGED queueLine
<1>1. \A k \in Keys : queueLine'[k] = queueLine[k]
  BY SameLine
<1> QED BY <1>1 DEF queueLine

\* A step at one key changes the line of that key.
LEMMA OneLine ==
    ASSUME Heads, Heads', NEW k \in Keys, NEW l, queueLine'[k] = l,
           \A m \in Keys \ {k} : busy'[m] = busy[m] /\ wait'[m] = wait[m],
           \A m \in Keys \ {k}, c \in Callers : Owns(c, m)' <=> Owns(c, m)
    PROVE  queueLine' = [queueLine EXCEPT ![k] = l]
<1>1. \A m \in Keys \ {k} : queueLine'[m] = queueLine[m]
  BY SameLine
<1> QED BY <1>1 DEF queueLine

\* Who is in a line is in Acquire or holds a lease.
LEMMA IdleInNoLine ==
    ASSUME IInv, Heads, NEW c \in Callers, pc[c] = "idle" PROVE ~Line!InLine(c)
<1> SUFFICES ASSUME NEW k \in Keys, NEW i \in DOMAIN queueLine[k], queueLine[k][i] = c PROVE FALSE
  BY DEF Line!InLine
<1>1. wait[k] \in Seq(Callers) /\ ~InWait(c, k) /\ ~Owns(c, k)
  BY DEF IInv, TypeOK, GateBookkeeping, Owns, Granted
<1>2. Owner(k) = c => ~busy[k]
  BY <1>1, NobodyIsNoCaller DEF Owner, Heads, Orphaned
<1>3. CASE ~busy[k]
  BY <1>1, <1>3 DEF queueLine, InWait
<1>4. CASE busy[k]
  <2> DEFINE w == wait[k]
             o == Owner(k)
  <2>1. queueLine[k] = <<o>> \o w /\ w \in Seq(Callers) /\ o # c
    BY <1>1, <1>2, <1>4 DEF queueLine
  <2>2. \A j \in DOMAIN w : w[j] # c
    BY <1>1 DEF InWait
  <2> HIDE DEF w, o
  <2>3. i \in 1 .. Len(w) + 1 /\ (i = 1 => (<<o>> \o w)[i] = o)
        /\ (i # 1 => (<<o>> \o w)[i] = w[i - 1] /\ i - 1 \in DOMAIN w)
    BY <2>1
  <2> QED BY <2>1, <2>2, <2>3
<1> QED BY <1>3, <1>4

LEMMA LineIs == ASSUME NEW k \in Keys PROVE queueLine[k] = IF busy[k] THEN <<Owner(k)>> \o wait[k] ELSE wait[k]
BY DEF queueLine

LEMMA LineIsNext == ASSUME NEW k \in Keys PROVE queueLine'[k] = IF busy'[k] THEN <<Owner(k)'>> \o wait'[k] ELSE wait'[k]
BY DEF queueLine

LEMMA AcquireFreeJoins ==
    ASSUME IInv, Heads, Heads', NEW c \in Callers, NEW k \in Keys, AcquireFree(c, k)
    PROVE  Line!Join(c, k)
<1>1. \A m \in Keys, d \in Callers : Owns(d, m)' <=> (Owns(d, m) \/ (d = c /\ m = k))
  BY DEF IInv, TypeOK, AcquireFree, Owns, Granted
<1>2. wait[k] = <<>> /\ wait' = wait /\ ~busy[k] /\ busy'[k] /\ \A m \in Keys \ {k} : busy'[m] = busy[m]
  BY DEF IInv, TypeOK, AcquireFree, GateBookkeeping
<1>3. Owner(k)' = c
  BY <1>1 DEF Heads
<1>4. queueLine[k] = <<>> /\ queueLine'[k] = <<c>>
  <2>1. queueLine[k] = wait[k] /\ queueLine'[k] = <<Owner(k)'>> \o wait'[k]
    BY <1>2, LineIs, LineIsNext
  <2>2. wait[k] = <<>> /\ wait'[k] = <<>> /\ <<c>> \o <<>> = <<c>>
    BY <1>2
  <2> QED BY <1>3, <2>1, <2>2, Zenon
<1>5. queueLine'[k] = Append(queueLine[k], c)
  BY <1>4
<1>6. queueLine' = [queueLine EXCEPT ![k] = Append(queueLine[k], c)]
  BY <1>1, <1>2, <1>5, OneLine
<1>7. ~Line!InLine(c)
  BY IdleInNoLine DEF AcquireFree
<1> QED BY <1>6, <1>7, Zenon DEF Line!Join

LEMMA AcquireWaitJoins ==
    ASSUME IInv, Heads, Heads', NEW c \in Callers, NEW k \in Keys, AcquireWait(c, k)
    PROVE  Line!Join(c, k)
<1>1. \A m \in Keys, d \in Callers : Owns(d, m)' <=> Owns(d, m)
  BY DEF IInv, TypeOK, AcquireWait, Owns, Granted
<1>2. /\ wait[k] \in Seq(Callers) /\ wait'[k] = Append(wait[k], c) /\ busy[k] /\ busy' = busy
      /\ \A m \in Keys \ {k} : wait'[m] = wait[m]
  BY DEF IInv, TypeOK, AcquireWait
<1>3. Owner(k)' = Owner(k)
  <2>1. CASE \E d \in Callers : Owns(d, k)
    BY <1>1, <2>1 DEF Heads
  <2>2. CASE \A d \in Callers : ~Owns(d, k)
    BY <1>1, <1>2, <2>2 DEF Heads, Orphaned
  <2> QED BY <2>1, <2>2
<1>5. queueLine'[k] = Append(queueLine[k], c)
  <2> DEFINE w == wait[k]
             o == Owner(k)
  <2>1. w \in Seq(Callers) /\ queueLine[k] = <<o>> \o w /\ queueLine'[k] = <<o>> \o Append(w, c)
    BY <1>2, <1>3, LineIs, LineIsNext
  <2> HIDE DEF w, o
  <2> QED BY <2>1
<1>6. queueLine' = [queueLine EXCEPT ![k] = Append(queueLine[k], c)]
  BY <1>1, <1>2, <1>5, OneLine
<1>7. ~Line!InLine(c)
  BY IdleInNoLine DEF AcquireWait
<1> QED BY <1>6, <1>7, Zenon DEF Line!Join

\* The waiter that gives up has been served, and vanishes at the head of its line, or has not,
\* and leaves it from behind.
LEMMA RemoveWaiterGoes ==
    ASSUME IInv, Heads, Heads', NEW c \in Callers, RemoveWaiter(c)
    PROVE  \E k \in Keys : Line!Vanish(c, k) \/ Line!GiveUp(c, k)
<1>0. key[c] \in Keys
  BY DEF IInv, KeyOK, RemoveWaiter
<1> PICK k \in Keys : k = key[c]
  BY <1>0
<1> PICK rest : rest = RemoveFirst(wait[k], c)
  OBVIOUS
<1>1. wait[k] \in Seq(Callers) /\ pc[c] = "leaving" /\ Forget(c) /\ busy' = busy
      /\ wait' = [wait EXCEPT ![k] = IF k \in gates THEN rest ELSE wait[k]]
  BY DEF IInv, TypeOK, RemoveWaiter
<1>2. busy[k] /\ k \in gates
  <2>1. CASE c \in closed
    BY <1>1, <2>1 DEF IInv, OneLeasePerKey, GateBookkeeping, Owns, Granted
  <2>2. CASE c \notin closed
    <3>1. InWait(c, k)
      BY <1>1, <2>2 DEF IInv, GateBookkeeping
    <3>2. wait[k] # <<>>
      BY <3>1 DEF InWait
    <3> QED BY <3>2 DEF IInv, GateBookkeeping
  <2> QED BY <2>1, <2>2
<1>3. wait'[k] = rest /\ \A m \in Keys \ {k} : wait'[m] = wait[m]
  BY <1>1, <1>2 DEF IInv, TypeOK
<1>4. \A m \in Keys, d \in Callers : Owns(d, m)' <=> (Owns(d, m) /\ d # c)
  BY <1>1 DEF IInv, TypeOK, Forget, Owns, Granted
<1>5. \A m \in Keys \ {k} : ~Owns(c, m)
  BY DEF Owns
<1>6. CASE c \in closed
  <2>1. Owns(c, k) /\ ~InWait(c, k)
    BY <1>1, <1>6 DEF IInv, Owns, Granted, GateBookkeeping
  <2>2. Owner(k) = c /\ \A d \in Callers : ~Owns(d, k)'
    BY <1>4, <2>1 DEF Heads
  <2>3. Owner(k)' = Nobody
    BY <1>1, <1>2, <2>2 DEF Heads, Orphaned
  <2>4. rest = wait[k]
    <3>1. \A i \in 1 .. Len(wait[k]) : wait[k][i] # c
      BY <1>1, <2>1 DEF InWait
    <3> QED BY <3>1 DEF RemoveFirst
  <2> DEFINE w == wait[k]
  <2>5. w \in Seq(Callers) /\ queueLine[k] = <<c>> \o w /\ queueLine'[k] = <<Nobody>> \o w
    <3>1. busy'[k] /\ wait'[k] = w /\ w \in Seq(Callers)
      BY <1>1, <1>2, <1>3, <2>4
    <3>2. queueLine[k] = <<Owner(k)>> \o w /\ queueLine'[k] = <<Owner(k)'>> \o wait'[k]
      BY <1>2, <3>1, LineIs, LineIsNext
    <3> QED BY <2>2, <2>3, <3>1, <3>2, Zenon
  <2> HIDE DEF w
  <2>6. /\ queueLine[k] # <<>> /\ Head(queueLine[k]) = c
        /\ queueLine'[k] = [queueLine[k] EXCEPT ![1] = Nobody]
    <3>1. <<c>> \o w # <<>> /\ Head(<<c>> \o w) = c
      BY <2>5
    <3>2. <<Nobody>> \o w = [<<c>> \o w EXCEPT ![1] = Nobody]
      <4> DEFINE a == <<Nobody>> \o w
                 b == <<c>> \o w
      <4>1. /\ a = [j \in 1 .. Len(w) + 1 |-> IF j = 1 THEN Nobody ELSE w[j - 1]]
            /\ b = [j \in 1 .. Len(w) + 1 |-> IF j = 1 THEN c ELSE w[j - 1]]
        BY <2>5
      <4>2. Len(w) \in Nat
        BY <2>5
      <4>3. ASSUME a = [j \in 1 .. Len(w) + 1 |-> IF j = 1 THEN Nobody ELSE w[j - 1]],
                   b = [j \in 1 .. Len(w) + 1 |-> IF j = 1 THEN c ELSE w[j - 1]]
            PROVE  a = [b EXCEPT ![1] = Nobody]
        <5> HIDE DEF a, b
        <5> QED BY <4>2, <4>3
      <4> QED BY <4>1, <4>3
    <3> QED BY <2>5, <3>1, <3>2, Zenon
  <2>7. queueLine' = [queueLine EXCEPT ![k] = [queueLine[k] EXCEPT ![1] = Nobody]]
    BY <1>1, <1>3, <1>4, <1>5, <2>6, OneLine
  <2>8. Line!Vanish(c, k)
    BY <2>6, <2>7, Zenon DEF Line!Vanish
  <2> QED BY <2>8
<1>7. CASE c \notin closed
  <2>1. InWait(c, k) /\ ~Owns(c, k)
    BY <1>1, <1>7 DEF IInv, GateBookkeeping, Owns, Granted
  <2>2. \A d \in Callers : Owns(d, k)' <=> Owns(d, k)
    BY <1>4, <2>1
  <2>3. Owner(k)' = Owner(k)
    <3>1. CASE \E d \in Callers : Owns(d, k)
      BY <2>2, <3>1 DEF Heads
    <3>2. CASE \A d \in Callers : ~Owns(d, k)
      BY <1>1, <1>2, <2>2, <3>2 DEF Heads, Orphaned
    <3> QED BY <3>1, <3>2
  <2> DEFINE w == wait[k]
             o == Owner(k)
  <2>4. w \in Seq(Callers) /\ Distinct(w) /\ rest = RemoveFirst(w, c)
        /\ queueLine[k] = <<o>> \o w /\ queueLine'[k] = <<o>> \o rest
    <3>1. busy'[k] /\ wait'[k] = rest /\ w \in Seq(Callers)
      BY <1>1, <1>2, <1>3
    <3>2. queueLine[k] = <<Owner(k)>> \o w /\ queueLine'[k] = <<Owner(k)'>> \o wait'[k]
      BY <1>2, <3>1, LineIs, LineIsNext
    <3>3. queueLine'[k] = <<Owner(k)>> \o rest
      BY <2>3, <3>1, <3>2, Zenon
    <3>4. Distinct(w)
      BY DEF IInv, GateBookkeeping, Distinct
    <3> QED BY <3>1, <3>2, <3>3, <3>4
  <2>5. PICK i \in 1 .. Len(w) : w[i] = c
    BY <2>1, <2>4 DEF InWait
  <2> HIDE DEF w, o
  <2>6. rest = [j \in 1 .. Len(w) - 1 |-> IF j < i THEN w[j] ELSE w[j + 1]]
    <3>1. { j \in 1 .. Len(w) : w[j] = c } = {i}
      BY <2>4, <2>5 DEF Distinct
    <3>2. Min({i}) = i
      BY DEF Min
    <3>3. SelectInSeq(w, LAMBDA v : v = c) = i
      BY <3>1, <3>2 DEF SelectInSeq
    <3>4. RemoveFirst(w, c) = RemoveAt(w, i)
      BY <2>5, <3>3 DEF RemoveFirst
    <3> QED BY <2>4, <3>4, RemoveAtShifts
  <2> DEFINE l == <<o>> \o w
             short == [j \in 1 .. Len(l) - 1 |-> IF j < i + 1 THEN l[j] ELSE l[j + 1]]
  <2>7. Len(l) = Len(w) + 1 /\ l[1] = o /\ \A j \in 1 .. Len(w) : l[j + 1] = w[j]
    BY <2>4
  <2>8. <<o>> \o rest = short
    <3>1. rest \in Seq(Callers) /\ Len(rest) = Len(w) - 1
      <4>1. \A j \in 1 .. Len(w) - 1 : (IF j < i THEN w[j] ELSE w[j + 1]) \in Callers
        BY <2>4
      <4> QED BY <2>4, <2>5, <2>6, <4>1
    <3>2. <<o>> \o rest = [j \in 1 .. Len(w) |-> IF j = 1 THEN o ELSE rest[j - 1]]
      BY <3>1
    <3>3. \A j \in 1 .. Len(w) : (IF j = 1 THEN o ELSE rest[j - 1]) = IF j < i + 1 THEN l[j] ELSE l[j + 1]
      <4> SUFFICES ASSUME NEW j \in 1 .. Len(w)
                   PROVE  (IF j = 1 THEN o ELSE rest[j - 1]) = IF j < i + 1 THEN l[j] ELSE l[j + 1]
        OBVIOUS
      <4>1. CASE j = 1
        BY <2>5, <2>7, <4>1
      <4>2. CASE j # 1
        <5>1. j - 1 \in 1 .. Len(w) - 1 /\ l[j] = w[j - 1] /\ l[j + 1] = w[j]
          <6>1. j - 1 \in 1 .. Len(w) /\ (j - 1) + 1 = j
            BY <4>2
          <6> QED BY <2>7, <4>2, <6>1
        <5>2. rest[j - 1] = IF j - 1 < i THEN w[j - 1] ELSE w[j]
          BY <2>6, <5>1
        <5> HIDE DEF l
        <5> QED BY <4>2, <5>1, <5>2
      <4> QED BY <4>1, <4>2
    <3> HIDE DEF l
    <3> QED BY <2>4, <2>7, <3>2, <3>3
  <2> HIDE DEF l
  <2>9. i + 1 \in 2 .. Len(queueLine[k]) /\ queueLine[k][i + 1] = c
    BY <2>4, <2>5, <2>7 DEF l
  <2>10. queueLine'[k] = [j \in 1 .. Len(queueLine[k]) - 1 |->
                             IF j < i + 1 THEN queueLine[k][j] ELSE queueLine[k][j + 1]]
    BY <2>4, <2>8 DEF l
  <2>11. queueLine' = [queueLine EXCEPT ![k] =
                           [j \in 1 .. Len(queueLine[k]) - 1 |->
                             IF j < i + 1 THEN queueLine[k][j] ELSE queueLine[k][j + 1]]]
    BY <1>1, <1>3, <1>4, <1>5, <2>10, OneLine
  <2>12. Line!GiveUp(c, k)
    BY <2>9, <2>11, Zenon DEF Line!GiveUp
  <2> QED BY <2>12
<1> QED BY <1>6, <1>7

\* The owner leaves the head of its line, and the first waiter is there.
LEMMA ReleaseLeaves ==
    ASSUME IInv, Heads, Heads', NEW c \in Callers, Release(c)
    PROVE  UNCHANGED queueLine \/ \E k \in Keys : Line!Leave(c, k)
<1>1. CASE pc[c] = "released"
  <2>1. UNCHANGED <<busy, wait, closed, key>> /\ pc' = pc
    BY <1>1 DEF Release, IInv, TypeOK, queueVars
  <2>2. \A k \in Keys, d \in Callers : Owns(d, k)' <=> Owns(d, k)
    BY <2>1 DEF Owns, Granted
  <2> QED BY <2>1, <2>2, SameLines
<1>2. CASE pc[c] = "holding"
  <2>0. key[c] \in Keys
    BY <1>2 DEF IInv, KeyOK
  <2> PICK k \in Keys : k = key[c]
    BY <2>0
  <2>1. release(k) /\ pc' = [pc EXCEPT ![c] = "released"] /\ key' = key
    BY <1>2 DEF Release
  <2>2. Owns(c, k) /\ busy[k] /\ k \in gates /\ wait[k] \in Seq(Callers)
    BY <1>2 DEF Owns, IInv, TypeOK, OneLeasePerKey, GateBookkeeping
  <2>3. Owner(k) = c /\ \A d \in Callers : Owns(d, k) => d = c
    BY <2>2 DEF Heads, IInv, OneLeasePerKey
  <2>4. queueLine[k] = <<c>> \o wait[k]
    BY <2>2, <2>3, LineIs
  <2>5. \A m \in Keys \ {k} : ~Owns(c, m)
    BY DEF Owns
  <2>6. CASE wait[k] = <<>>
    <3>1. wait' = wait /\ busy' = [busy EXCEPT ![k] = FALSE] /\ closed' = closed
      BY <2>1, <2>2, <2>6 DEF release
    <3>2. \A m \in Keys, d \in Callers : Owns(d, m)' <=> (Owns(d, m) /\ d # c)
      BY <1>2, <2>1, <3>1 DEF Owns, Granted, IInv, TypeOK
    <3>3. queueLine[k] = <<c>> /\ queueLine'[k] = <<>>
      <4>1. queueLine'[k] = wait'[k]
        BY <3>1, LineIsNext DEF IInv, TypeOK
      <4>2. <<c>> \o <<>> = <<c>>
        OBVIOUS
      <4> QED BY <2>4, <2>6, <3>1, <4>1, <4>2, Zenon
    <3>4. queueLine[k] # <<>> /\ Head(queueLine[k]) = c /\ queueLine'[k] = Tail(queueLine[k])
      BY <3>3
    <3>5. \A m \in Keys \ {k} : busy'[m] = busy[m] /\ wait'[m] = wait[m]
      BY <3>1 DEF IInv, TypeOK
    <3>6. queueLine' = [queueLine EXCEPT ![k] = Tail(queueLine[k])]
      BY <2>5, <3>2, <3>4, <3>5, OneLine
    <3> QED BY <3>4, <3>6, Zenon DEF Line!Leave
  <2>7. CASE wait[k] # <<>>
    <3> DEFINE w == wait[k]
               n == Head(w)
    <3>1. /\ wait' = [wait EXCEPT ![k] = Tail(w)] /\ busy' = [busy EXCEPT ![k] = TRUE]
          /\ closed' = closed \cup {n}
      BY <2>1, <2>2, <2>7 DEF release
    <3>2. InWait(n, k) /\ n \in Callers
      BY <2>2, <2>7 DEF InWait
    <3>3. pc[n] \in {"waiting", "leaving"} /\ key[n] = k /\ n # c
      BY <1>2, <3>2 DEF IInv, GateBookkeeping
    <3>4. /\ w \in Seq(Callers) /\ w # <<>> /\ queueLine[k] = <<c>> \o w
          /\ wait'[k] = Tail(w) /\ busy'[k]
      BY <2>2, <2>4, <2>7, <3>1 DEF IInv, TypeOK
    <3> HIDE DEF w
    <3>5. \A m \in Keys, d \in Callers : Owns(d, m)' <=> ((Owns(d, m) /\ d # c) \/ (d = n /\ m = k))
      BY <1>2, <2>1, <3>1, <3>2, <3>3 DEF Owns, Granted, IInv, TypeOK
    <3>6. Owner(k)' = n
      BY <3>2, <3>5 DEF Heads
    <3>7. queueLine'[k] = <<n>> \o Tail(w)
      BY <3>4, <3>6, LineIsNext
    <3>8. queueLine[k] # <<>> /\ Head(queueLine[k]) = c /\ queueLine'[k] = Tail(queueLine[k])
      <4>1. <<n>> \o Tail(w) = w
        BY <3>4
      <4>2. Tail(<<c>> \o w) = w /\ Head(<<c>> \o w) = c /\ <<c>> \o w # <<>>
        BY <3>4
      <4> QED BY <3>4, <3>7, <4>1, <4>2
    <3>9. \A m \in Keys \ {k} : busy'[m] = busy[m] /\ wait'[m] = wait[m]
      BY <3>1 DEF IInv, TypeOK
    <3>10. queueLine' = [queueLine EXCEPT ![k] = Tail(queueLine[k])]
      <4>1. \A m \in Keys \ {k}, d \in Callers : Owns(d, m)' <=> Owns(d, m)
        BY <2>5, <3>5
      <4> QED BY <3>8, <3>9, <4>1, OneLine
    <3> QED BY <3>8, <3>10, Zenon DEF Line!Leave
  <2> QED BY <2>6, <2>7
<1> QED BY <1>1, <1>2 DEF Release

\* The other steps move nobody in or out of a line.
LEMMA OthersStutter ==
    ASSUME IInv, Heads, Heads', NEW c \in Callers,
           SelectGranted(c) \/ SelectDone(c) \/ Finish(c) \/ Cancel(c) \/ Renew(c)
    PROVE  UNCHANGED queueLine
<1>1. UNCHANGED <<busy, wait>>
  BY DEF SelectGranted, SelectDone, Finish, Cancel, Renew, queueVars
<1>2. \A k \in Keys, d \in Callers : Owns(d, k)' <=> Owns(d, k)
  BY DEF IInv, TypeOK, SelectGranted, SelectDone, Finish, Cancel, Renew, Forget, Owns, Granted,
         queueVars, callerVars
<1> QED BY <1>1, <1>2, SameLines

LEMMA StepOfLine == ASSUME IInv, IInv', [Next]_vars PROVE [Line!LineNext]_queueLine
<1>0. Heads /\ Heads'
  BY HeadsHold, HeadsHoldNext
<1>1. CASE UNCHANGED vars
  <2>1. UNCHANGED <<busy, wait>> /\ \A k \in Keys, d \in Callers : Owns(d, k)' <=> Owns(d, k)
    BY <1>1 DEF vars, Owns, Granted
  <2> QED BY <1>0, <2>1, SameLines
<1>2. CASE Next
  <2>1. PICK c \in Callers :
          \/ \E k \in Keys : AcquireFree(c, k) \/ AcquireWait(c, k)
          \/ SelectGranted(c) \/ SelectDone(c) \/ RemoveWaiter(c)
          \/ Release(c) \/ Finish(c) \/ Cancel(c) \/ Renew(c)
    BY <1>2 DEF Next
  <2>2. CASE \E k \in Keys : AcquireFree(c, k) \/ AcquireWait(c, k)
    BY <1>0, <2>2, AcquireFreeJoins, AcquireWaitJoins DEF Line!LineNext
  <2>3. CASE RemoveWaiter(c)
    BY <1>0, <2>3, RemoveWaiterGoes DEF Line!LineNext
  <2>4. CASE Release(c)
    BY <1>0, <2>4, ReleaseLeaves DEF Line!LineNext
  <2>5. CASE SelectGranted(c) \/ SelectDone(c) \/ Finish(c) \/ Cancel(c) \/ Renew(c)
    BY <1>0, <2>5, OthersStutter
  <2> QED BY <2>1, <2>2, <2>3, <2>4, <2>5
<1> QED BY <1>1, <1>2

\* The queue is a first-come-first-served line per key: every step of Acquire, release and
\* removeWaiter joins, leaves, gives up or vanishes in FifoLock, or shows nothing there.
THEOREM FirstComeFirstServed == Spec => RefinesFifoLock
<1>1. Init => Line!LineInit
  BY DEF Init, Line!LineInit, queueLine
<1>2. IInv /\ IInv' /\ [Next]_vars => [Line!LineNext]_queueLine
  BY StepOfLine
<1> QED BY <1>1, <1>2, InductiveInvariant, PTL DEF Spec, RefinesFifoLock, Line!LineSpec
=============================================================================
