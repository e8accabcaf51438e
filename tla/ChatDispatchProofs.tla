------------------------- MODULE ChatDispatchProofs -------------------------
(***************************************************************************)
(* Theorems about the loop of chat, for every set of requests and accounts.*)
(***************************************************************************)
EXTENDS ChatDispatch, SequenceTheorems, TLAPS

Occurs(e, s) == \E i \in DOMAIN s : s[i] = e

Distinct(s) == \A i, j \in DOMAIN s : s[i] = s[j] => i = j

-----------------------------------------------------------------------------
(* What removeWaiter and release leave of gate.wait, as in                 *)
(* RequestQueueProofs: theorems of an instantiated module cannot be cited. *)

\* Dropping the i-th element moves the later ones down by one place.
LEMMA RemoveAtShifts ==
    ASSUME NEW S, NEW s \in Seq(S), NEW i \in 1 .. Len(s)
    PROVE  Queue!RemoveAt(s, i) = [j \in 1 .. Len(s) - 1 |-> IF j < i THEN s[j] ELSE s[j + 1]]
<1> DEFINE a == SubSeq(s, 1, i - 1)
           b == SubSeq(s, i + 1, Len(s))
           t == [j \in 1 .. Len(s) - 1 |-> IF j < i THEN s[j] ELSE s[j + 1]]
<1>1. /\ a \in Seq(S)
      /\ Len(a) = i - 1
      /\ \A j \in 1 .. i - 1 : a[j] = s[j]
  OBVIOUS
<1>2. /\ b \in Seq(S)
      /\ Len(b) = Len(s) - i
      /\ \A j \in 1 .. Len(s) - i : b[j] = s[i + j]
  OBVIOUS
<1> HIDE DEF a, b
<1>3. /\ a \o b \in Seq(S)
      /\ Len(a \o b) = Len(s) - 1
      /\ \A j \in 1 .. Len(s) - 1 : (a \o b)[j] = IF j <= i - 1 THEN a[j] ELSE b[j - (i - 1)]
  <2>1. /\ a \o b \in Seq(S)
        /\ Len(a \o b) = Len(a) + Len(b)
        /\ \A j \in 1 .. Len(a) + Len(b) :
              (a \o b)[j] = IF j <= Len(a) THEN a[j] ELSE b[j - Len(a)]
    BY <1>1, <1>2, ConcatProperties, Zenon
  <2>2. Len(a) + Len(b) = Len(s) - 1
    BY <1>1, <1>2
  <2> QED BY <2>1, <2>2, <1>1
<1>4. \A j \in 1 .. Len(s) - 1 : (a \o b)[j] = t[j]
  <2>1. ASSUME NEW j \in 1 .. Len(s) - 1, j >= i
        PROVE  b[j - (i - 1)] = s[j + 1]
    <3>1. /\ j - (i - 1) \in 1 .. Len(s) - i
          /\ i + (j - (i - 1)) = j + 1
      BY <2>1
    <3> QED BY <3>1, <1>2
  <2> QED BY <1>1, <1>3, <2>1
<1>5. a \o b \in [1 .. Len(s) - 1 -> S]
  BY <1>3, LenProperties
<1>6. a \o b = t
  BY <1>4, <1>5
<1> QED BY <1>6 DEF Queue!RemoveAt, a, b

\* In a sequence without repetitions removeWaiter takes out the one occurrence of
\* the waiter and nothing else.
LEMMA RemoveFirstDistinct ==
    ASSUME NEW S, NEW s \in Seq(S), NEW e, Distinct(s),
           NEW r, r = Queue!RemoveFirst(s, e)
    PROVE  /\ r \in Seq(S)
           /\ Distinct(r)
           /\ \A x : Occurs(x, r) <=> (x # e /\ Occurs(x, s))
<1>1. CASE \A i \in 1 .. Len(s) : s[i] # e
  <2>1. r = s
    BY <1>1 DEF Queue!RemoveFirst
  <2> QED BY <2>1, <1>1 DEF Occurs
<1>2. CASE \E i \in 1 .. Len(s) : s[i] = e
  <2>1. PICK i \in 1 .. Len(s) : s[i] = e
    BY <1>2
  <2> DEFINE I == { j \in 1 .. Len(s) : s[j] = e }
             t == [j \in 1 .. Len(s) - 1 |-> IF j < i THEN s[j] ELSE s[j + 1]]
  <2>2. I = {i}
    BY <2>1 DEF Distinct
  <2>3. Queue!Min(I) = i
    BY <2>2 DEF Queue!Min
  <2>4. Queue!SelectInSeq(s, LAMBDA v : v = e) = i
    BY <2>2, <2>3 DEF Queue!SelectInSeq
  <2>5. r = t
    BY <2>1, <2>4, RemoveAtShifts DEF Queue!RemoveFirst
  <2>6. t \in Seq(S) /\ DOMAIN t = 1 .. Len(s) - 1
    <3>1. \A j \in 1 .. Len(s) - 1 : t[j] \in S
      OBVIOUS
    <3> QED BY <3>1
  <2>7. Distinct(t)
    BY <2>6 DEF Distinct
  <2>8. ASSUME NEW x
        PROVE Occurs(x, t) <=> (x # e /\ Occurs(x, s))
    <3>1. ASSUME NEW j \in DOMAIN t, t[j] = x
          PROVE x # e /\ \E l \in DOMAIN s : s[l] = x
      BY <3>1, <2>1, <2>6 DEF Distinct
    <3>2. ASSUME NEW j \in DOMAIN s, s[j] = x, x # e
          PROVE \E l \in DOMAIN t : t[l] = x
      <4>1. CASE j < i
        BY <4>1, <3>2, <2>1, <2>6
      <4>2. CASE j > i
        <5>1. j - 1 \in DOMAIN t /\ t[j - 1] = x
          BY <4>2, <3>2, <2>1, <2>6
        <5> QED BY <5>1
      <4> QED BY <4>1, <4>2, <3>2, <2>1
    <3> QED BY <3>1, <3>2 DEF Occurs
  <2> HIDE DEF t
  <2> QED BY <2>5, <2>6, <2>7, <2>8
<1> QED BY <1>1, <1>2

\* The first waiter of a gate is not in the rest of its line.
LEMMA TailOfLine ==
    ASSUME NEW S, NEW s \in Seq(S), Distinct(s), s # <<>>
    PROVE  /\ Tail(s) \in Seq(S)
           /\ Head(s) \in S
           /\ Distinct(Tail(s))
           /\ Occurs(Head(s), s)
           /\ \A x : Occurs(x, Tail(s)) <=> (x # Head(s) /\ Occurs(x, s))
<1>1. /\ Tail(s) \in Seq(S)
      /\ Len(Tail(s)) = Len(s) - 1
      /\ \A i \in 1 .. Len(s) - 1 : Tail(s)[i] = s[i + 1]
      /\ Head(s) = s[1]
      /\ Head(s) \in S
      /\ Len(s) \in Nat \ {0}
  BY HeadTailProperties, EmptySeq
<1>2. DOMAIN s = 1 .. Len(s) /\ DOMAIN Tail(s) = 1 .. Len(s) - 1
  BY <1>1
<1>3. Distinct(Tail(s))
  <2>1. ASSUME NEW i \in 1 .. Len(s) - 1, NEW j \in 1 .. Len(s) - 1, Tail(s)[i] = Tail(s)[j]
        PROVE i = j
    <3>1. s[i + 1] = s[j + 1] /\ i + 1 \in DOMAIN s /\ j + 1 \in DOMAIN s
      BY <1>1, <1>2, <2>1
    <3> QED BY <3>1, <2>1 DEF Distinct
  <2> QED BY <2>1, <1>2 DEF Distinct
<1>4. ASSUME NEW x
      PROVE Occurs(x, Tail(s)) <=> (x # Head(s) /\ Occurs(x, s))
  <2>1. ASSUME NEW i \in DOMAIN Tail(s), Tail(s)[i] = x
        PROVE x # Head(s) /\ Occurs(x, s)
    <3>1. i + 1 \in DOMAIN s /\ s[i + 1] = x /\ i + 1 # 1 /\ 1 \in DOMAIN s
      BY <2>1, <1>1, <1>2
    <3> QED BY <3>1, <1>1 DEF Occurs, Distinct
  <2>2. ASSUME NEW i \in DOMAIN s, s[i] = x, x # Head(s)
        PROVE Occurs(x, Tail(s))
    <3>1. i - 1 \in DOMAIN Tail(s) /\ Tail(s)[i - 1] = x
      BY <2>2, <1>1, <1>2
    <3> QED BY <3>1 DEF Occurs
  <2> QED BY <2>1, <2>2 DEF Occurs
<1>5. Occurs(Head(s), s)
  BY <1>1, <1>2 DEF Occurs
<1> QED BY <1>1, <1>3, <1>4, <1>5

-----------------------------------------------------------------------------
(* The lease: the part of the queue's invariant that keeps it exclusive    *)

\* The callers in a gate's line are different ones that still wait for it.
InLine(k) ==
    /\ Distinct(wait[k])
    /\ \A c \in Requests : Occurs(c, wait[k]) =>
          pc[c] \in {"waiting", "leaving"} /\ c \notin closed /\ key[c] = k

Exclusive ==
    /\ Queue!TypeOK
    /\ \A c \in Requests : pc[c] # "idle" => key[c] \in Accounts
    /\ Queue!OneLeasePerKey
    /\ \A k \in Accounts : InLine(k)
    /\ \A k \in Accounts : busy[k] \/ wait[k] # <<>> => k \in gates

LEMMA QueueInit == Queue!Init => Exclusive
<1> SUFFICES ASSUME Queue!Init PROVE Exclusive
  OBVIOUS
<1>1. <<>> \in Seq(Requests) OBVIOUS
<1>2. Queue!TypeOK BY <1>1 DEF Queue!Init, Queue!TypeOK, Queue!Places
<1>3. \A k \in Accounts : InLine(k) BY DEF Queue!Init, InLine, Distinct, Occurs
<1> QED BY <1>2, <1>3 DEF Exclusive, Queue!Init, Queue!OneLeasePerKey, Queue!Owns, Queue!Granted

LEMMA AcquireFreeExclusive ==
  ASSUME Exclusive, NEW c \in Requests, NEW k \in Accounts, Queue!AcquireFree(c, k)
  PROVE  Exclusive'
<1> USE DEF Exclusive
<1>1. Queue!TypeOK' BY DEF Queue!TypeOK, Queue!AcquireFree, Queue!Places
<1>2. \A d \in Requests : pc'[d] # "idle" => key'[d] \in Accounts
  BY DEF Queue!TypeOK, Queue!AcquireFree
<1>3. Queue!OneLeasePerKey'
  BY DEF Queue!TypeOK, Queue!OneLeasePerKey, Queue!Owns, Queue!Granted, Queue!AcquireFree
<1>4. ASSUME NEW l \in Accounts PROVE InLine(l)'
  <2>1. wait' = wait /\ closed' = closed BY DEF Queue!AcquireFree
  <2>2. InLine(l) OBVIOUS
  <2>3. \A d \in Requests : Occurs(d, wait[l]) => d # c BY <2>2 DEF InLine, Queue!AcquireFree
  <2>4. \A d \in Requests : d # c => pc'[d] = pc[d] /\ key'[d] = key[d]
    BY DEF Queue!TypeOK, Queue!AcquireFree
  <2> QED BY <2>1, <2>2, <2>3, <2>4 DEF InLine
<1>5. \A l \in Accounts : busy'[l] \/ wait'[l] # <<>> => l \in gates'
  BY DEF Queue!TypeOK, Queue!AcquireFree
<1> QED BY <1>1, <1>2, <1>3, <1>4, <1>5

LEMMA AcquireWaitExclusive ==
  ASSUME Exclusive, NEW c \in Requests, NEW k \in Accounts, Queue!AcquireWait(c, k)
  PROVE  Exclusive'
<1> USE DEF Exclusive
<1>1. PICK w \in Seq(Requests) : w = wait[k] BY DEF Queue!TypeOK
<1>2. /\ wait'[k] = Append(w, c) /\ wait' \in [Accounts -> Seq(Requests)]
      /\ \A l \in Accounts : l # k => wait'[l] = wait[l]
  BY <1>1 DEF Queue!TypeOK, Queue!AcquireWait
<1>n. Len(wait[k]) + 1 \in Nat BY DEF Queue!TypeOK
<1>3. Queue!TypeOK'
  <2> DEFINE n == Len(wait[k]) + 1
  <2>1. position' = [position EXCEPT ![c] = n] BY DEF Queue!AcquireWait
  <2>2. n \in Nat BY <1>n
  <2> HIDE DEF n
  <2> QED BY <1>2, <2>1, <2>2 DEF Queue!TypeOK, Queue!AcquireWait, Queue!Places
<1>4. \A d \in Requests : pc'[d] # "idle" => key'[d] \in Accounts
  BY DEF Queue!TypeOK, Queue!AcquireWait
<1>5. Queue!OneLeasePerKey'
  BY DEF Queue!TypeOK, Queue!OneLeasePerKey, Queue!Owns, Queue!Granted, Queue!AcquireWait
<1>6. /\ pc'[c] = "waiting" /\ c \notin closed' /\ key'[c] = k
      /\ \A d \in Requests : d # c =>
            pc'[d] = pc[d] /\ key'[d] = key[d] /\ (d \in closed' <=> d \in closed)
  BY DEF Queue!TypeOK, Queue!AcquireWait
<1>7. \A l \in Accounts : ~Occurs(c, wait[l]) BY DEF InLine, Queue!AcquireWait
<1>8. ASSUME NEW l \in Accounts, l # k PROVE InLine(l)'
  <2>1. InLine(l) /\ wait'[l] = wait[l] BY <1>2, <1>8
  <2> QED BY <2>1, <1>6, <1>7 DEF InLine
<1>9. InLine(k)'
  <2>1. /\ Len(Append(w, c)) = Len(w) + 1 /\ DOMAIN Append(w, c) = 1..(Len(w) + 1)
        /\ \A i \in 1..Len(w) : Append(w, c)[i] = w[i]
        /\ Append(w, c)[Len(w) + 1] = c
        /\ Len(w) \in Nat /\ DOMAIN w = 1..Len(w)
    BY AppendProperties
  <2>2. InLine(k) OBVIOUS
  <2>3. \A i \in 1..Len(w) : w[i] # c BY <1>1, <1>7, <2>1 DEF Occurs
  <2>4. \A i, j \in 1..Len(w) : w[i] = w[j] => i = j BY <1>1, <2>1, <2>2 DEF InLine, Distinct
  <2>5. Distinct(Append(w, c)) BY <2>1, <2>3, <2>4 DEF Distinct
  <2>6. \A d : Occurs(d, Append(w, c)) => d = c \/ Occurs(d, w) BY <2>1 DEF Occurs
  <2> QED BY <1>1, <1>2, <1>6, <2>2, <2>5, <2>6 DEF InLine
<1>10. \A l \in Accounts : busy'[l] \/ wait'[l] # <<>> => l \in gates'
  BY <1>2 DEF Queue!AcquireWait
<1> QED BY <1>3, <1>4, <1>5, <1>8, <1>9, <1>10

LEMMA SelectExclusive ==
  ASSUME Exclusive, NEW c \in Requests, Queue!SelectGranted(c) \/ Queue!SelectDone(c)
  PROVE  Exclusive'
<1> USE DEF Exclusive
<1>1. Queue!TypeOK'
  BY DEF Queue!TypeOK, Queue!SelectGranted, Queue!SelectDone, Queue!queueVars, Queue!Places
<1>2. Queue!OneLeasePerKey'
  BY DEF Queue!TypeOK, Queue!OneLeasePerKey, Queue!Owns, Queue!Granted, Queue!SelectGranted,
     Queue!SelectDone, Queue!queueVars
<1>3. UNCHANGED <<gates, busy, wait, closed, key>>
  BY DEF Queue!SelectGranted, Queue!SelectDone, Queue!queueVars
<1>4. /\ pc[c] = "waiting" /\ pc'[c] \in {"holding", "leaving"}
      /\ \A d \in Requests : d # c => pc'[d] = pc[d]
      /\ pc'[c] = "holding" => c \in closed
  BY DEF Queue!TypeOK, Queue!SelectGranted, Queue!SelectDone
<1>5. ASSUME NEW l \in Accounts PROVE InLine(l)'
  <2>1. InLine(l) OBVIOUS
  <2> QED BY <2>1, <1>3, <1>4 DEF InLine
<1> QED BY <1>1, <1>2, <1>3, <1>4, <1>5

LEMMA RemoveWaiterExclusive ==
  ASSUME Exclusive, NEW c \in Requests, Queue!RemoveWaiter(c)
  PROVE  Exclusive'
<1> USE DEF Exclusive
<1>1. pc[c] = "leaving" /\ key[c] \in Accounts BY DEF Queue!RemoveWaiter
<1> PICK k \in Accounts : k = key[c] BY <1>1
<1> PICK rest : rest = Queue!RemoveFirst(wait[k], c) OBVIOUS
<1>2. PICK w \in Seq(Requests) : w = wait[k] BY DEF Queue!TypeOK
<1>3. rest \in Seq(Requests) /\ Distinct(rest)
      /\ \A d : Occurs(d, rest) <=> (d # c /\ Occurs(d, w))
  <2>1. Distinct(w) BY <1>2 DEF InLine
  <2>2. rest = Queue!RemoveFirst(w, c) BY <1>2
  <2> QED BY <2>1, <2>2, RemoveFirstDistinct
<1>4. /\ wait' = [wait EXCEPT ![k] = IF k \in gates THEN rest ELSE @]
      /\ gates' = IF k \in gates /\ ~busy[k] /\ rest = <<>> THEN gates \ {k} ELSE gates
      /\ UNCHANGED busy /\ Queue!Forget(c)
  BY DEF Queue!RemoveWaiter
<1>5. k \notin gates => wait[k] = <<>> OBVIOUS
<1>6. /\ wait'[k] \in Seq(Requests) /\ Distinct(wait'[k])
      /\ \A d : Occurs(d, wait'[k]) <=> (d # c /\ Occurs(d, wait[k]))
      /\ \A l \in Accounts : l # k => wait'[l] = wait[l]
  <2>1. \A l \in Accounts : l # k => wait'[l] = wait[l] BY <1>4 DEF Queue!TypeOK
  <2>2. CASE k \in gates
    <3>1. wait'[k] = rest BY <1>4, <2>2 DEF Queue!TypeOK
    <3> QED BY <2>1, <3>1, <1>2, <1>3
  <2>3. CASE k \notin gates
    <3>1. wait'[k] = wait[k] /\ wait[k] = <<>> BY <1>4, <1>5, <2>3 DEF Queue!TypeOK
    <3>2. InLine(k) OBVIOUS
    <3>3. \A d : ~Occurs(d, wait[k]) BY <3>1 DEF Occurs
    <3> QED BY <2>1, <3>1, <3>2, <3>3, <1>2 DEF InLine
  <2> QED BY <2>2, <2>3
<1>7. Queue!TypeOK'
  <2>1. wait' \in [Accounts -> Seq(Requests)] BY <1>2, <1>3, <1>4 DEF Queue!TypeOK
  <2>2. gates' \in SUBSET Accounts BY <1>4 DEF Queue!TypeOK
  <2> QED BY <2>1, <2>2, <1>4 DEF Queue!TypeOK, Queue!Forget, Queue!Places
<1>8. /\ pc'[c] = "idle"
      /\ \A d \in Requests : d # c =>
            pc'[d] = pc[d] /\ key'[d] = key[d] /\ (d \in closed' <=> d \in closed)
  BY <1>4 DEF Queue!TypeOK, Queue!Forget
<1>9. Queue!OneLeasePerKey'
  BY <1>4, <1>8 DEF Queue!OneLeasePerKey, Queue!Owns, Queue!Granted
<1>10. ASSUME NEW l \in Accounts PROVE InLine(l)'
  <2>1. InLine(l) OBVIOUS
  <2>2. l # k => ~Occurs(c, wait[l]) BY <2>1 DEF InLine
  <2>3. Distinct(wait'[l])
    BY <2>1, <1>6 DEF InLine
  <2>4. ASSUME NEW d \in Requests, Occurs(d, wait'[l]) PROVE d # c /\ Occurs(d, wait[l])
    BY <2>2, <2>4, <1>6
  <2> QED BY <2>1, <2>3, <2>4, <1>8 DEF InLine
<1>11. ASSUME NEW l \in Accounts, busy'[l] \/ wait'[l] # <<>> PROVE l \in gates'
  <2>1. CASE l = k
    <3>1. CASE k \in gates
      <4>1. wait'[k] = rest BY <1>4, <3>1 DEF Queue!TypeOK
      <4> QED BY <4>1, <3>1, <2>1, <1>11, <1>4
    <3>2. CASE k \notin gates
      <4>1. wait'[k] = wait[k] BY <1>4, <3>2 DEF Queue!TypeOK
      <4> QED BY <4>1, <3>2, <2>1, <1>11, <1>4
    <3> QED BY <3>1, <3>2
  <2>2. CASE l # k
    BY <2>2, <1>11, <1>6, <1>4
  <2> QED BY <2>1, <2>2
<1> QED BY <1>7, <1>8, <1>9, <1>10, <1>11

\* Only the owner of a lease releases it: either nobody owns the account then, or the
\* first of the line does.
LEMMA ReleaseExclusive ==
  ASSUME Exclusive, NEW c \in Requests, Queue!Release(c)
  PROVE  Exclusive'
<1> USE DEF Exclusive
<1>p. /\ pc'[c] = "released" /\ \A d \in Requests : d # c => pc'[d] = pc[d]
      /\ pc' \in [Requests -> Queue!Places] /\ UNCHANGED <<key, position, ctxDone>>
      /\ pc[c] \in {"holding", "released"}
  BY DEF Queue!TypeOK, Queue!Release, Queue!Places
<1>k. key[c] \in Accounts BY <1>p
<1> PICK k \in Accounts : k = key[c] BY <1>k
<1>n. \A l \in Accounts : ~Occurs(c, wait[l]) BY <1>p DEF InLine
<1>1. CASE UNCHANGED <<gates, busy, wait, closed>>
  <2>1. Queue!TypeOK' BY <1>1, <1>p DEF Queue!TypeOK
  <2>2. \A d \in Requests, l \in Accounts : Queue!Owns(d, l)' => Queue!Owns(d, l)
    BY <1>1, <1>p DEF Queue!Owns, Queue!Granted
  <2>3. Queue!OneLeasePerKey' BY <2>2, <1>1 DEF Queue!OneLeasePerKey
  <2>4. ASSUME NEW l \in Accounts PROVE InLine(l)'
    <3>1. InLine(l) OBVIOUS
    <3> QED BY <3>1, <1>1, <1>p, <1>n DEF InLine
  <2> QED BY <2>1, <2>3, <2>4, <1>1, <1>p
<1>2. CASE pc[c] = "holding" /\ k \in gates /\ Queue!release(k)
  <2>1. \A d \in Requests : Queue!Owns(d, k) => d = c
    BY <1>2 DEF Queue!OneLeasePerKey, Queue!Owns
  <2>2. CASE wait[k] = <<>>
    <3>1. /\ gates' = gates \ {k} /\ busy' = [busy EXCEPT ![k] = FALSE]
          /\ UNCHANGED <<wait, closed>>
      BY <1>2, <2>2 DEF Queue!release
    <3>2. Queue!TypeOK' BY <3>1, <1>p DEF Queue!TypeOK
    <3>3. \A d \in Requests, l \in Accounts :
              Queue!Owns(d, l)' => Queue!Owns(d, l) /\ d # c
      BY <3>1, <1>p DEF Queue!Owns, Queue!Granted
    <3>4. \A l \in Accounts : l # k => busy'[l] = busy[l] BY <3>1 DEF Queue!TypeOK
    <3>5. Queue!OneLeasePerKey' BY <3>3, <3>4, <2>1 DEF Queue!OneLeasePerKey
    <3>6. ASSUME NEW l \in Accounts PROVE InLine(l)'
      <4>1. InLine(l) OBVIOUS
      <4> QED BY <4>1, <3>1, <1>p, <1>n DEF InLine
    <3>7. \A l \in Accounts : busy'[l] \/ wait'[l] # <<>> => l \in gates'
      BY <2>2, <3>1 DEF Queue!TypeOK
    <3> QED BY <3>2, <3>5, <3>6, <3>7, <1>p
  <2>3. CASE wait[k] # <<>>
    <3> PICK w \in Seq(Requests) : w = wait[k] BY DEF Queue!TypeOK
    <3>1. Distinct(w) /\ w # <<>> BY <2>3 DEF InLine
    <3> PICK n : n = Head(w) OBVIOUS
    <3>2. /\ Tail(w) \in Seq(Requests) /\ n \in Requests /\ Distinct(Tail(w)) /\ Occurs(n, w)
          /\ \A x : Occurs(x, Tail(w)) <=> (x # n /\ Occurs(x, w))
      BY <3>1, TailOfLine
    <3>3. /\ wait' = [wait EXCEPT ![k] = Tail(w)] /\ busy' = [busy EXCEPT ![k] = TRUE]
          /\ closed' = closed \cup {n} /\ gates' = gates
      BY <1>2, <2>3 DEF Queue!release
    <3>4. /\ pc[n] \in {"waiting", "leaving"} /\ n \notin closed /\ key[n] = k /\ n # c
      BY <3>2, <1>p DEF InLine
    <3>5. Queue!TypeOK' BY <3>2, <3>3, <1>p DEF Queue!TypeOK
    <3>6. \A l \in Accounts, d \in Requests :
              Queue!Owns(d, l)' => (Queue!Owns(d, l) /\ d # c) \/ (d = n /\ l = k)
      BY <3>3, <3>4, <1>p DEF Queue!Owns, Queue!Granted
    <3>7. \A l \in Accounts : busy'[l] = (busy[l] \/ l = k)
      BY <3>3 DEF Queue!TypeOK
    <3>8. ASSUME NEW l \in Accounts, NEW d \in Requests, Queue!Owns(d, l)'
          PROVE  busy'[l] /\ \A e \in Requests : Queue!Owns(e, l)' => e = d
      <4>1. CASE l = k
        BY <4>1, <3>6, <3>7, <3>8, <2>1
      <4>2. CASE l # k
        BY <4>2, <3>6, <3>7, <3>8 DEF Queue!OneLeasePerKey
      <4> QED BY <4>1, <4>2
    <3>9. Queue!OneLeasePerKey' BY <3>8 DEF Queue!OneLeasePerKey
    <3>10. wait'[k] = Tail(w) /\ \A l \in Accounts : l # k => wait'[l] = wait[l]
      BY <3>3 DEF Queue!TypeOK
    <3>11. ASSUME NEW l \in Accounts PROVE InLine(l)'
      <4>1. InLine(l) /\ InLine(k) OBVIOUS
      <4>2. CASE l = k
        BY <4>1, <4>2, <3>2, <3>3, <3>10, <1>p, <1>n DEF InLine
      <4>3. CASE l # k
        <5>1. ~Occurs(n, wait[l]) BY <4>1, <4>3, <3>2, <3>4 DEF InLine
        <5> QED BY <4>1, <4>3, <5>1, <3>3, <3>10, <1>p, <1>n DEF InLine
      <4> QED BY <4>2, <4>3
    <3>12. \A l \in Accounts : busy'[l] \/ wait'[l] # <<>> => l \in gates'
      BY <3>3, <3>7, <3>10, <1>2
    <3> QED BY <3>5, <3>9, <3>11, <3>12, <1>p
  <2> QED BY <2>2, <2>3
<1> QED BY <1>1, <1>2 DEF Queue!Release, Queue!release, Queue!queueVars

LEMMA FinishExclusive ==
  ASSUME Exclusive, NEW c \in Requests, Queue!Finish(c)
  PROVE  Exclusive'
<1> USE DEF Exclusive
<1>1. Queue!TypeOK' BY DEF Queue!TypeOK, Queue!Finish, Queue!Forget, Queue!Places
<1>2. /\ pc[c] = "released" /\ pc'[c] = "idle" /\ UNCHANGED <<gates, busy, wait>>
      /\ \A d \in Requests : d # c =>
            pc'[d] = pc[d] /\ key'[d] = key[d] /\ (d \in closed' <=> d \in closed)
  BY DEF Queue!TypeOK, Queue!Finish, Queue!Forget
<1>3. Queue!OneLeasePerKey' BY <1>2 DEF Queue!OneLeasePerKey, Queue!Owns, Queue!Granted
<1>4. ASSUME NEW l \in Accounts PROVE InLine(l)'
  <2>1. InLine(l) OBVIOUS
  <2> QED BY <2>1, <1>2 DEF InLine
<1> QED BY <1>1, <1>2, <1>3, <1>4

\* A context that ends, or a new one, does not touch the queue.
LEMMA ContextExclusive ==
  ASSUME Exclusive, UNCHANGED <<gates, busy, wait, closed, pc, key, position>>,
         ctxDone' \in SUBSET Requests
  PROVE  Exclusive'
<1> USE DEF Exclusive
<1>1. Queue!TypeOK' BY DEF Queue!TypeOK
<1>2. Queue!OneLeasePerKey' BY DEF Queue!OneLeasePerKey, Queue!Owns, Queue!Granted
<1>3. ASSUME NEW l \in Accounts PROVE InLine(l)'
  <2>1. InLine(l) OBVIOUS
  <2> QED BY <2>1 DEF InLine
<1> QED BY <1>1, <1>2, <1>3

LEMMA QueueKeeps ==
  ASSUME Exclusive, Queue!Next \/ UNCHANGED queueVars
  PROVE  Exclusive'
<1>1. CASE UNCHANGED queueVars
  BY <1>1, ContextExclusive DEF queueVars, Exclusive, Queue!TypeOK
<1>2. ASSUME NEW c \in Requests, NEW k \in Accounts,
             Queue!AcquireFree(c, k) \/ Queue!AcquireWait(c, k)
      PROVE  Exclusive'
  BY <1>2, AcquireFreeExclusive, AcquireWaitExclusive
<1>3. ASSUME NEW c \in Requests,
             \/ Queue!SelectGranted(c) \/ Queue!SelectDone(c) \/ Queue!RemoveWaiter(c)
             \/ Queue!Release(c) \/ Queue!Finish(c)
      PROVE  Exclusive'
  BY <1>3, SelectExclusive, RemoveWaiterExclusive, ReleaseExclusive, FinishExclusive
<1>4. ASSUME NEW c \in Requests, Queue!Cancel(c) \/ Queue!Renew(c)
      PROVE  Exclusive'
  BY <1>4, ContextExclusive DEF Exclusive, Queue!TypeOK, Queue!Cancel, Queue!Renew,
     Queue!queueVars, Queue!callerVars
<1> QED BY <1>1, <1>2, <1>3, <1>4 DEF Queue!Next

-----------------------------------------------------------------------------
(* chat                                                                    *)

Chat == [place : Places, listed : SUBSET Accounts, chosen : Accounts \cup {NoAccount},
         authorized : BOOLEAN, skips : [Accounts -> Skips], created : BOOLEAN,
         best : BOOLEAN, cut : BOOLEAN, reply : Replies]

\* A request with the local variables x stands in the queue at p, for account k: it has an
\* account exactly from its choice to the judgement, and the lease is for that one.
Fits(x, p, k) ==
    /\ x.place \in {"busyCheck", "acquire", "queued", "upstream", "judge"} <=>
           x.chosen \in Accounts
    /\ x.place = "queued" => p \in {"waiting", "leaving"}
    /\ x.place = "upstream" => p = "holding"
    /\ x.place = "judge" => p = "released"
    /\ x.place \notin {"queued", "upstream", "judge"} => p = "idle"
    /\ x.place \in {"queued", "upstream"} => k = x.chosen
    /\ x.place = "idle" => x.skips = NoSkips

Standing ==
    /\ req \in [Requests -> Chat]
    /\ \A r \in Requests : Fits(req[r], pc[r], key[r])

Outside ==
    /\ ids \subseteq Accounts
    /\ active \in Accounts \cup {NoAccount}
    /\ creator \in Requests \cup AdminRuns \cup {NoRequest}

\* The creator's lock is with the request that runs it, if one does.
Creating == \A r \in Requests : creator = r <=> At(r, "create")

\* The inductive invariant: two requests with one account are excluded only because each
\* of them holds the lease of the account it talks with.
IInv == Exclusive /\ Standing /\ Outside /\ Creating

\* What NoHammering says of a request whose local variables x become y; and only a request
\* that wants the creator begins to run it.
Tame(x, y) ==
    /\ y.place = "create" => x.place \in {"wantCreator", "create"}
    /\ \A a \in Accounts :
        /\ x.place = "judge" /\ x.chosen = a /\ y.place = "select" => y.skips[a] # "none"
        /\ x.place = "pick" /\ y.chosen = a => x.skips[a] = "none"
        /\ x.skips[a] # "none" /\ y.skips[a] = "none" =>
              x.place \in {"exhausted", "cooldown", "create"} \/ y.place = "idle"

\* Request r does one step.
Moves(r, y) ==
    /\ y \in Chat /\ Local(r, y) /\ Fits(y, pc'[r], key'[r]) /\ Tame(req[r], y)
    /\ \A q \in Requests : q # r => pc'[q] = pc[q] /\ key'[q] = key[q]

LEMMA MovesStand ==
  ASSUME Standing, NEW r \in Requests, NEW y, Moves(r, y)
  PROVE  Standing'
  BY DEF Standing, Moves, Local

LEMMA BlockSkips ==
  ASSUME NEW x \in Chat, NEW a \in Accounts, NEW how \in {"hard", "cooling"}
  PROVE  /\ Block(x, a, how) \in [Accounts -> Skips]
         /\ Block(x, a, how)[a] # "none"
         /\ \A b \in Accounts : x.skips[b] # "none" => Block(x, a, how)[b] # "none"
  BY DEF Chat, Block, Skips

LEMMA Rounds ==
  ASSUME NEW x \in Chat
  PROVE  /\ NewRound(x) \in Chat /\ NewRound(x).place = "select"
         /\ NewRound(x).chosen = x.chosen
         /\ BestEffort(x) \in Chat /\ BestEffort(x).place = "select"
         /\ BestEffort(x).chosen = x.chosen
<1>1. NoSkips \in [Accounts -> Skips] BY DEF NoSkips, Skips
<1>2. /\ NewRound(x) \in Chat /\ NewRound(x).place = "select"
      /\ NewRound(x).chosen = x.chosen
  BY <1>1 DEF NewRound, Chat, Places
<1> QED BY <1>2 DEF BestEffort, Chat

LEMMA FreshChat ==
  ASSUME NEW reply \in Replies, NEW place \in Places
  PROVE  LET x == [Fresh EXCEPT !.reply = reply]
             y == [Fresh EXCEPT !.place = place]
         IN  /\ x \in Chat /\ x.place = "idle" /\ x.chosen = NoAccount /\ x.skips = NoSkips
             /\ y \in Chat /\ y.place = place /\ y.chosen = NoAccount
<1>1. NoSkips \in [Accounts -> Skips] BY DEF NoSkips, Skips
<1>2. Fresh \in Chat /\ Fresh.place = "idle" /\ Fresh.chosen = NoAccount /\ Fresh.skips = NoSkips
  BY <1>1 DEF Fresh, Chat, Places, Replies
<1> QED BY <1>2 DEF Chat

LEMMA Due ==
  ASSUME NEW x \in Chat, NEW due
  PROVE  DueBack(x, due) \in Chat /\ DueBack(x, due).place = "select"
         /\ DueBack(x, due).chosen = x.chosen
<1> DEFINE back == [a \in Accounts |-> IF a \in due THEN "none" ELSE x.skips[a]]
<1>1. back \in [Accounts -> Skips] BY DEF Chat, Skips
<1>2. DueBack(x, due) = [x EXCEPT !.skips = back, !.place = "select"] BY DEF DueBack
<1> HIDE DEF back
<1> QED BY <1>1, <1>2 DEF Chat, Places

\* r stays outside the queue.
LEMMA Roams ==
  ASSUME IInv, NEW r \in Requests, NEW y \in Chat, Local(r, y), UNCHANGED queueVars,
         pc[r] = "idle", y.place \notin {"queued", "upstream", "judge"},
         y.place \in {"busyCheck", "acquire"} <=> y.chosen \in Accounts,
         y.place = "idle" => y.skips = NoSkips, Tame(req[r], y)
  PROVE  Moves(r, y)
  BY DEF Moves, Fits, queueVars

LEMMA Idle ==
  ASSUME IInv, NEW r \in Requests, req[r].place \notin {"queued", "upstream", "judge"}
  PROVE  req[r] \in Chat /\ pc[r] = "idle" /\ Fits(req[r], pc[r], key[r])
  BY DEF IInv, Standing, Fits

Moved(r) == \E y : Moves(r, y)

\* Its local variables do not change; its place in the queue may.
LEMMA Stays ==
  ASSUME IInv, NEW r \in Requests, req' = req, Fits(req[r], pc'[r], key'[r]),
         \A q \in Requests : q # r => pc'[q] = pc[q] /\ key'[q] = key[q]
  PROVE  Moved(r)
<1>1. req[r] \in Chat /\ Fits(req[r], pc[r], key[r]) BY DEF IInv, Standing
<1>2. Local(r, req[r]) BY DEF IInv, Standing, Local
<1>3. Tame(req[r], req[r]) BY <1>1 DEF Tame, Fits
<1> QED BY <1>1, <1>2, <1>3 DEF Moves, Moved

\* It ends with an answer.
LEMMA Returns ==
  ASSUME IInv, NEW r \in Requests, NEW reply \in Replies, Return(r, reply),
         UNCHANGED queueVars, req[r].place \notin {"queued", "upstream", "judge", "pick"}
  PROVE  Moved(r)
<1> DEFINE y == [Fresh EXCEPT !.reply = reply]
<1>1. y \in Chat /\ y.place = "idle" /\ y.chosen = NoAccount /\ y.skips = NoSkips
  BY FreshChat DEF Places
<1>2. Local(r, y) BY DEF Return
<1> HIDE DEF y
<1>3. Tame(req[r], y) BY <1>1 DEF Tame
<1>4. pc[r] = "idle" BY Idle
<1>5. Moves(r, y) BY <1>1, <1>2, <1>3, <1>4, NoAccountIsNoAccount, Roams
<1> QED BY <1>5 DEF Moved

\* It goes to another place outside the queue, with the account and the skips it has.
LEMMA Goes ==
  ASSUME IInv, NEW r \in Requests, NEW y \in Chat, Local(r, y), UNCHANGED queueVars,
         req[r].place \notin {"queued", "upstream", "judge"},
         y.place \notin {"queued", "upstream", "judge", "idle"},
         y.chosen = req[r].chosen,
         y.place \in {"busyCheck", "acquire"} <=> req[r].place \in {"busyCheck", "acquire"},
         y.skips = req[r].skips \/ req[r].place \in {"exhausted", "cooldown", "create"},
         y.place = "create" => req[r].place = "wantCreator"
  PROVE  Moved(r)
<1>1. pc[r] = "idle" /\ Fits(req[r], pc[r], key[r]) BY Idle
<1>2. y.chosen \in Accounts <=> req[r].place \in {"busyCheck", "acquire"} BY <1>1 DEF Fits
<1>3. Tame(req[r], y) BY <1>1 DEF Tame, Fits
<1>4. Moves(r, y) BY <1>1, <1>2, <1>3, Roams
<1> QED BY <1>4 DEF Moved

LEMMA StartMoves ==
  ASSUME IInv, NEW r \in Requests, Start(r)
  PROVE  Moved(r)
<1> DEFINE y == [Fresh EXCEPT !.place = "select"]
<1>1. y \in Chat /\ y.place = "select" /\ y.chosen = NoAccount
  BY FreshChat DEF Places, Replies
<1>2. Local(r, y) /\ UNCHANGED queueVars /\ req[r].place = "idle" BY DEF Start, At, OnlyLocal
<1> HIDE DEF y
<1>3. pc[r] = "idle" /\ Fits(req[r], pc[r], key[r]) BY <1>2, Idle
<1>4. Tame(req[r], y) BY <1>1, <1>2, <1>3 DEF Tame, Fits, NoSkips
<1>5. Moves(r, y) BY <1>1, <1>2, <1>3, <1>4, NoAccountIsNoAccount, Roams
<1> QED BY <1>5 DEF Moved

LEMMA ContextMoves ==
  ASSUME IInv, NEW r \in Requests, Renew(r) \/ Disconnect(r)
  PROVE  Moved(r)
<1>1. req' = req /\ pc' = pc /\ key' = key
  BY DEF Renew, Disconnect, Queue!Renew, Queue!Cancel, Queue!callerVars
<1>2. Fits(req[r], pc'[r], key'[r]) BY <1>1 DEF IInv, Standing
<1> QED BY <1>1, <1>2, Stays

LEMMA SelectMoves ==
  ASSUME IInv, NEW r \in Requests, SelectAndDrop(r) \/ ListAccounts(r)
  PROVE  Moved(r)
<1>0. req[r] \in Chat /\ ids \subseteq Accounts BY DEF IInv, Standing, Outside
<1>1. CASE SelectAndDrop(r)
  <2> DEFINE y == [req[r] EXCEPT !.place = "selectBest"]
  <2>1. y \in Chat /\ y.place = "selectBest" /\ y.chosen = req[r].chosen /\ y.skips = req[r].skips
    BY <1>0 DEF Chat, Places
  <2>2. Local(r, y) /\ UNCHANGED queueVars /\ req[r].place = "select"
    BY <1>1 DEF SelectAndDrop, At, Go
  <2> HIDE DEF y
  <2> QED BY <2>1, <2>2, Goes
<1>2. CASE ListAccounts(r)
  <2> DEFINE y == [req[r] EXCEPT !.place = "pick", !.listed = ids]
  <2>1. y \in Chat /\ y.place = "pick" /\ y.chosen = req[r].chosen /\ y.skips = req[r].skips
    BY <1>0 DEF Chat, Places
  <2>2. Local(r, y) /\ UNCHANGED queueVars /\ req[r].place \in {"select", "selectBest"}
    BY <1>2 DEF ListAccounts, At, OnlyLocal
  <2> HIDE DEF y
  <2> QED BY <2>1, <2>2, Goes
<1> QED BY <1>1, <1>2

\* An account is chosen among those that are not skipped.
LEMMA Chooses ==
  ASSUME IInv, NEW r \in Requests, NEW a \in Open(r), NEW balance \in Balances,
         Local(r, Selected(r, a, balance)), UNCHANGED queueVars, At(r, "pick")
  PROVE  Moved(r)
<1> DEFINE x == req[r]
           tight == [x EXCEPT !.listed = {}, !.skips = Block(x, a, "hard"), !.place = "select"]
           next == IF x.best THEN "acquire" ELSE "busyCheck"
           chosen == [x EXCEPT !.listed = {}, !.chosen = a, !.place = next]
<1>0. /\ x \in Chat /\ pc[r] = "idle" /\ x.chosen \notin Accounts /\ x.place = "pick"
      /\ a \in Accounts /\ x.skips[a] = "none"
  BY Idle DEF At, Fits, Open, Skipped, Chat
<1> HIDE DEF x
<1>1. CASE Local(r, tight)
  <2>1. tight \in Chat /\ tight.place = "select" /\ tight.chosen = x.chosen
        /\ tight.skips = Block(x, a, "hard")
    BY <1>0, BlockSkips DEF Chat, Places
  <2>2. \A b \in Accounts : x.skips[b] # "none" => tight.skips[b] # "none"
    BY <1>0, <2>1, BlockSkips
  <2> HIDE DEF tight
  <2>3. Tame(x, tight) BY <1>0, <2>1, <2>2 DEF Tame
  <2>4. Moves(r, tight) BY <1>0, <1>1, <2>1, <2>3, Roams DEF x
  <2> QED BY <2>4 DEF Moved
<1>2. CASE Local(r, chosen)
  <2>1. next \in {"acquire", "busyCheck"} OBVIOUS
  <2> HIDE DEF next
  <2>2. chosen \in Chat /\ chosen.place = next /\ chosen.chosen = a /\ chosen.skips = x.skips
    BY <1>0, <2>1 DEF Chat, Places
  <2> HIDE DEF chosen
  <2>3. Tame(x, chosen) BY <1>0, <2>1, <2>2 DEF Tame
  <2>4. Moves(r, chosen) BY <1>0, <1>2, <2>1, <2>2, <2>3, Roams DEF x
  <2> QED BY <2>4 DEF Moved
<1> QED BY <1>1, <1>2 DEF Selected, x

LEMMA PickMoves ==
  ASSUME IInv, NEW r \in Requests,
         PickEligible(r) \/ PickUnread(r) \/ PickNone(r) \/ PickNoAccount(r)
  PROVE  Moved(r)
<1>1. CASE PickEligible(r)
  <2>1. PICK look \in [Open(r) -> Balances] : \E a \in BestEligible(r, look) :
            ActivateChosen(a) /\ Local(r, Selected(r, a, look[a]))
    BY <1>1 DEF PickEligible
  <2>2. PICK a \in BestEligible(r, look) : Local(r, Selected(r, a, look[a])) BY <2>1
  <2>3. a \in Open(r) BY DEF BestEligible
  <2>4. PICK balance \in Balances : balance = look[a] BY <2>3
  <2> QED BY <1>1, <2>2, <2>3, <2>4, Chooses DEF PickEligible
<1>2. CASE PickUnread(r)
  <2>1. PICK a \in Open(r) : Local(r, Selected(r, a, "error")) BY <1>2 DEF PickUnread
  <2>2. "error" \in Balances BY DEF Balances
  <2> QED BY <1>2, <2>1, <2>2, Chooses DEF PickUnread
<1>0. req[r] \in Chat BY DEF IInv, Standing
<1>3. CASE PickNone(r)
  <2> DEFINE y == [req[r] EXCEPT !.listed = {}, !.place = "exhausted"]
  <2>1. y \in Chat /\ y.place = "exhausted" /\ y.chosen = req[r].chosen /\ y.skips = req[r].skips
    BY <1>0 DEF Chat, Places
  <2>2. Local(r, y) /\ UNCHANGED queueVars /\ req[r].place = "pick"
    BY <1>3 DEF PickNone, At, OnlyLocal
  <2> HIDE DEF y
  <2> QED BY <2>1, <2>2, Goes
<1>4. CASE PickNoAccount(r)
  <2> DEFINE y == [req[r] EXCEPT !.authorized = FALSE, !.place = "noAccount"]
  <2>1. y \in Chat /\ y.place = "noAccount" /\ y.chosen = req[r].chosen /\ y.skips = req[r].skips
    BY <1>0 DEF Chat, Places
  <2>2. Local(r, y) /\ UNCHANGED queueVars /\ req[r].place = "pick"
    BY <1>4 DEF PickNoAccount, At, OnlyLocal
  <2> HIDE DEF y
  <2> QED BY <2>1, <2>2, Goes
<1> QED BY <1>1, <1>2, <1>3, <1>4

LEMMA ReleaseExpiredMoves ==
  ASSUME IInv, NEW r \in Requests, ReleaseExpired(r)
  PROVE  Moved(r)
<1>0. req[r] \in Chat BY DEF IInv, Standing
<1>1. PICK due : Local(r, DueBack(req[r], due)) BY DEF ReleaseExpired
<1>2. PICK y : y = DueBack(req[r], due) OBVIOUS
<1>3. y \in Chat /\ y.place = "select" /\ y.chosen = req[r].chosen BY <1>0, <1>2, Due
<1>4. Local(r, y) /\ UNCHANGED queueVars /\ req[r].place = "exhausted"
  BY <1>1, <1>2 DEF ReleaseExpired, At, OnlyLocal
<1> QED BY <1>3, <1>4, Goes

LEMMA ExhaustedMoves ==
  ASSUME IInv, NEW r \in Requests, Exhausted(r)
  PROVE  Moved(r)
<1> DEFINE asked == [req[r] EXCEPT !.created = TRUE]
           asks == [req[r] EXCEPT !.created = TRUE, !.place = "wantCreator"]
           verdict == [req[r] EXCEPT !.place = "verdict"]
<1>0. req[r] \in Chat /\ req[r].place = "exhausted" /\ UNCHANGED queueVars
  BY DEF IInv, Standing, Exhausted, At, OnlyLocal
<1>1. /\ asked \in Chat /\ asked.chosen = req[r].chosen
      /\ asks \in Chat /\ asks.place = "wantCreator" /\ asks.chosen = req[r].chosen
      /\ verdict \in Chat /\ verdict.place = "verdict" /\ verdict.chosen = req[r].chosen
  BY <1>0 DEF Chat, Places
<1>2. \/ Local(r, asks) \/ Local(r, BestEffort(asked)) \/ Local(r, BestEffort(req[r]))
      \/ Local(r, verdict)
  BY DEF Exhausted, Go
<1> HIDE DEF asked, asks, verdict
<1>3. CASE Local(r, asks)
  BY <1>0, <1>1, <1>3, Goes
<1>4. CASE Local(r, verdict)
  BY <1>0, <1>1, <1>4, Goes
<1>5. ASSUME NEW x \in Chat, x.chosen = req[r].chosen, Local(r, BestEffort(x))
      PROVE  Moved(r)
  <2>1. PICK y : y = BestEffort(x) OBVIOUS
  <2>2. y \in Chat /\ y.place = "select" /\ y.chosen = req[r].chosen BY <1>5, <2>1, Rounds
  <2> QED BY <1>0, <1>5, <2>1, <2>2, Goes
<1> QED BY <1>0, <1>1, <1>2, <1>3, <1>4, <1>5

LEMMA NoAccountSavedMoves ==
  ASSUME IInv, NEW r \in Requests, NoAccountSaved(r)
  PROVE  Moved(r)
<1> DEFINE asks == [req[r] EXCEPT !.created = TRUE, !.place = "wantCreator"]
<1>0. req[r] \in Chat /\ req[r].place = "noAccount" /\ UNCHANGED queueVars
  BY DEF IInv, Standing, NoAccountSaved, At, OnlyLocal
<1>1. /\ asks \in Chat /\ asks.place = "wantCreator" /\ asks.chosen = req[r].chosen
      /\ asks.skips = req[r].skips
  BY <1>0 DEF Chat, Places
<1>2. Local(r, asks) \/ Return(r, "authMissing") BY DEF NoAccountSaved
<1>3. "authMissing" \in Replies BY DEF Replies
<1> HIDE DEF asks
<1> QED BY <1>0, <1>1, <1>2, <1>3, Goes, Returns

LEMMA CreatorMoves ==
  ASSUME IInv, NEW r \in Requests, CreatorStart(r) \/ CreatorEnd(r)
  PROVE  Moved(r)
<1>0. req[r] \in Chat /\ UNCHANGED queueVars
  BY DEF IInv, Standing, CreatorStart, CreatorEnd
<1>1. CASE CreatorStart(r)
  <2> DEFINE y == [req[r] EXCEPT !.place = "create"]
  <2>1. y \in Chat /\ y.place = "create" /\ y.chosen = req[r].chosen /\ y.skips = req[r].skips
    BY <1>0 DEF Chat, Places
  <2>2. Local(r, y) /\ req[r].place = "wantCreator" BY <1>1 DEF CreatorStart, At, Go
  <2> HIDE DEF y
  <2> QED BY <1>0, <2>1, <2>2, Goes
<1>2. CASE CreatorEnd(r)
  <2>1. /\ req[r].place = "create"
        /\ \/ Local(r, NewRound(req[r])) \/ Local(r, BestEffort(req[r]))
           \/ Return(r, "authMissing")
    BY <1>2 DEF CreatorEnd, At
  <2>2. PICK new, best : new = NewRound(req[r]) /\ best = BestEffort(req[r]) OBVIOUS
  <2>3. /\ new \in Chat /\ new.place = "select" /\ new.chosen = req[r].chosen
        /\ best \in Chat /\ best.place = "select" /\ best.chosen = req[r].chosen
    BY <1>0, <2>2, Rounds
  <2>4. "authMissing" \in Replies BY DEF Replies
  <2>5. Local(r, new) \/ Local(r, best) \/ Return(r, "authMissing") BY <2>1, <2>2
  <2> QED BY <1>0, <2>1, <2>3, <2>4, <2>5, Goes, Returns
<1> QED BY <1>1, <1>2

LEMMA VerdictMoves ==
  ASSUME IInv, NEW r \in Requests, Verdict(r) \/ CooldownOver(r) \/ CooldownCut(r)
  PROVE  Moved(r)
<1>0. req[r] \in Chat /\ UNCHANGED queueVars
  BY DEF IInv, Standing, Verdict, CooldownOver, CooldownCut, OnlyLocal
<1>r. "gaveUp" \in Replies /\ "waitCancelled" \in Replies BY DEF Replies
<1>1. CASE Verdict(r)
  <2> DEFINE y == [req[r] EXCEPT !.place = "cooldown"]
  <2>1. y \in Chat /\ y.place = "cooldown" /\ y.chosen = req[r].chosen /\ y.skips = req[r].skips
    BY <1>0 DEF Chat, Places
  <2>2. req[r].place = "verdict" /\ (Local(r, y) \/ Return(r, "gaveUp"))
    BY <1>1 DEF Verdict, At, Go
  <2> HIDE DEF y
  <2> QED BY <1>0, <1>r, <2>1, <2>2, Goes, Returns
<1>2. CASE CooldownOver(r) \/ CooldownCut(r)
  <2>1. /\ req[r].place = "cooldown"
        /\ (\E due : Local(r, DueBack(req[r], due))) \/ Return(r, "waitCancelled")
    BY <1>2 DEF CooldownOver, CooldownCut, At
  <2>2. CASE Return(r, "waitCancelled")
    BY <1>0, <1>r, <2>1, <2>2, Returns
  <2>3. ASSUME NEW due, Local(r, DueBack(req[r], due)) PROVE Moved(r)
    <3>1. PICK y : y = DueBack(req[r], due) OBVIOUS
    <3>2. y \in Chat /\ y.place = "select" /\ y.chosen = req[r].chosen BY <1>0, <3>1, Due
    <3> QED BY <1>0, <2>1, <2>3, <3>1, <3>2, Goes
  <2> QED BY <2>1, <2>2, <2>3
<1> QED BY <1>1, <1>2

LEMMA BusyCheckMoves ==
  ASSUME IInv, NEW r \in Requests, BusyCheck(r)
  PROVE  Moved(r)
<1> DEFINE x == req[r]
           a == x.chosen
           skips == Block(x, a, "cooling")
           skip == [x EXCEPT !.skips = skips, !.chosen = NoAccount, !.place = "select"]
           go == [x EXCEPT !.place = "acquire"]
<1>0. x \in Chat /\ x.place = "busyCheck" /\ UNCHANGED queueVars /\ pc[r] = "idle"
      /\ a \in Accounts
  BY Idle DEF BusyCheck, At, OnlyLocal, Fits
<1>1. Local(r, skip) \/ Local(r, go) BY DEF BusyCheck, Go
<1>2. /\ skips \in [Accounts -> Skips]
      /\ \A b \in Accounts : x.skips[b] # "none" => skips[b] # "none"
  BY <1>0, BlockSkips
<1> HIDE DEF skips
<1>3. /\ skip \in Chat /\ skip.place = "select" /\ skip.chosen = NoAccount /\ skip.skips = skips
      /\ go \in Chat /\ go.place = "acquire" /\ go.chosen = a /\ go.skips = x.skips
  BY <1>0, <1>2 DEF Chat, Places
<1> HIDE DEF skip, go
<1>4. CASE Local(r, skip)
  <2>1. Tame(x, skip) BY <1>0, <1>2, <1>3 DEF Tame
  <2>2. Moves(r, skip) BY <1>0, <1>3, <1>4, <2>1, NoAccountIsNoAccount, Roams
  <2> QED BY <2>2 DEF Moved
<1>5. CASE Local(r, go)
  BY <1>0, <1>3, <1>5, Goes
<1> QED BY <1>1, <1>4, <1>5

\* Send begins the upstream call.
LEMMA Sends ==
  ASSUME IInv, NEW r \in Requests, Send(r), req[r].place \in {"acquire", "queued"},
         pc'[r] = "holding", key'[r] = req[r].chosen,
         \A q \in Requests : q # r => pc'[q] = pc[q] /\ key'[q] = key[q]
  PROVE  Moved(r)
<1> DEFINE cut == r \in ctxDone
           y == [req[r] EXCEPT !.place = "upstream", !.cut = cut]
<1>0. req[r] \in Chat /\ req[r].chosen \in Accounts BY DEF IInv, Standing, Fits
<1>1. Local(r, y) BY DEF Send
<1>2. cut \in BOOLEAN OBVIOUS
<1> HIDE DEF cut
<1>3. y \in Chat /\ y.place = "upstream" /\ y.chosen = req[r].chosen /\ y.skips = req[r].skips
  BY <1>0, <1>2 DEF Chat, Places
<1> HIDE DEF y
<1>4. Fits(y, pc'[r], key'[r]) BY <1>0, <1>3 DEF Fits
<1>5. Tame(req[r], y) BY <1>3 DEF Tame
<1> QED BY <1>1, <1>3, <1>4, <1>5 DEF Moves, Moved

LEMMA AcquireMoves ==
  ASSUME IInv, NEW r \in Requests, Acquire(r)
  PROVE  Moved(r)
<1>0. req[r] \in Chat /\ req[r].place = "acquire" /\ req[r].chosen \in Accounts
  BY DEF IInv, Standing, Fits, Acquire, At
<1>1. CASE Queue!AcquireFree(r, req[r].chosen) /\ Send(r)
  <2>1. /\ pc'[r] = "holding" /\ key'[r] = req[r].chosen
        /\ \A q \in Requests : q # r => pc'[q] = pc[q] /\ key'[q] = key[q]
    BY <1>1 DEF Queue!AcquireFree, IInv, Exclusive, Queue!TypeOK
  <2> QED BY <1>0, <1>1, <2>1, Sends
<1>2. CASE Queue!AcquireWait(r, req[r].chosen) /\ Go(r, "queued")
  <2> DEFINE y == [req[r] EXCEPT !.place = "queued"]
  <2>1. /\ pc'[r] = "waiting" /\ key'[r] = req[r].chosen
        /\ \A q \in Requests : q # r => pc'[q] = pc[q] /\ key'[q] = key[q]
    BY <1>2 DEF Queue!AcquireWait, IInv, Exclusive, Queue!TypeOK
  <2>2. y \in Chat /\ y.place = "queued" /\ y.chosen = req[r].chosen /\ y.skips = req[r].skips
    BY <1>0 DEF Chat, Places
  <2>3. Local(r, y) BY <1>2 DEF Go
  <2> HIDE DEF y
  <2>4. Fits(y, pc'[r], key'[r]) BY <1>0, <2>1, <2>2 DEF Fits
  <2>5. Tame(req[r], y) BY <1>0, <2>2 DEF Tame
  <2> QED BY <2>1, <2>2, <2>3, <2>4, <2>5 DEF Moves, Moved
<1> QED BY <1>1, <1>2 DEF Acquire

LEMMA WaitMoves ==
  ASSUME IInv, NEW r \in Requests, Granted(r) \/ LeaveQueue(r) \/ QueueCancelled(r)
  PROVE  Moved(r)
<1>0. /\ req[r] \in Chat /\ req[r].place = "queued" /\ req[r].chosen \in Accounts
      /\ key[r] = req[r].chosen /\ Fits(req[r], pc[r], key[r])
  BY DEF IInv, Standing, Fits, Granted, LeaveQueue, QueueCancelled, At
<1>1. CASE Granted(r)
  <2>1. /\ pc'[r] = "holding" /\ key' = key
        /\ \A q \in Requests : q # r => pc'[q] = pc[q]
    BY <1>1 DEF Granted, Queue!SelectGranted, IInv, Exclusive, Queue!TypeOK
  <2> QED BY <1>0, <1>1, <2>1, Sends DEF Granted
<1>2. CASE LeaveQueue(r)
  <2>1. /\ pc'[r] = "leaving" /\ key' = key /\ req' = req
        /\ \A q \in Requests : q # r => pc'[q] = pc[q]
    BY <1>2 DEF LeaveQueue, Queue!SelectDone, IInv, Exclusive, Queue!TypeOK
  <2>2. Fits(req[r], pc'[r], key'[r]) BY <1>0, <2>1 DEF Fits
  <2> QED BY <2>1, <2>2, Stays
<1>3. CASE QueueCancelled(r)
  <2> DEFINE y == [Fresh EXCEPT !.reply = "queueCancelled"]
  <2>1. /\ pc'[r] = "idle"
        /\ \A q \in Requests : q # r => pc'[q] = pc[q] /\ key'[q] = key[q]
    BY <1>3 DEF QueueCancelled, Queue!RemoveWaiter, Queue!Forget, IInv, Exclusive, Queue!TypeOK
  <2>2. y \in Chat /\ y.place = "idle" /\ y.chosen = NoAccount /\ y.skips = NoSkips
    BY FreshChat DEF Replies, Places
  <2>3. Local(r, y) BY <1>3 DEF QueueCancelled, Return
  <2> HIDE DEF y
  <2>4. Fits(y, pc'[r], key'[r]) BY <2>1, <2>2, NoAccountIsNoAccount DEF Fits
  <2>5. Tame(req[r], y) BY <1>0, <2>2 DEF Tame
  <2> QED BY <2>1, <2>2, <2>3, <2>4, <2>5 DEF Moves, Moved
<1> QED BY <1>1, <1>2, <1>3

LEMMA UpstreamEndMoves ==
  ASSUME IInv, NEW r \in Requests, UpstreamEnd(r)
  PROVE  Moved(r)
<1> DEFINE y == [req[r] EXCEPT !.place = "judge"]
<1>0. req[r] \in Chat /\ req[r].place = "upstream" /\ req[r].chosen \in Accounts
  BY DEF IInv, Standing, Fits, UpstreamEnd, At
<1>1. /\ pc'[r] = "released" /\ key' = key
      /\ \A q \in Requests : q # r => pc'[q] = pc[q]
  BY DEF UpstreamEnd, Queue!Release, IInv, Exclusive, Queue!TypeOK
<1>2. y \in Chat /\ y.place = "judge" /\ y.chosen = req[r].chosen /\ y.skips = req[r].skips
  BY <1>0 DEF Chat, Places
<1>3. Local(r, y) BY DEF UpstreamEnd, Go
<1> HIDE DEF y
<1>4. Fits(y, pc'[r], key'[r]) BY <1>0, <1>1, <1>2 DEF Fits
<1>5. Tame(req[r], y) BY <1>0, <1>2 DEF Tame
<1> QED BY <1>1, <1>2, <1>3, <1>4, <1>5 DEF Moves, Moved

LEMMA JudgeMoves ==
  ASSUME IInv, NEW r \in Requests, Judge(r)
  PROVE  Moved(r)
<1> DEFINE x == req[r]
<1>0. x \in Chat /\ x.place = "judge" /\ x.chosen \in Accounts
  BY DEF IInv, Standing, Fits, Judge, At
<1>1. /\ pc'[r] = "idle"
      /\ \A q \in Requests : q # r => pc'[q] = pc[q] /\ key'[q] = key[q]
  BY DEF Judge, Queue!Finish, Queue!Forget, IInv, Exclusive, Queue!TypeOK
<1>2. \/ Return(r, "answered") \/ Return(r, "failed")
      \/ Local(r, AfterFailure(x, "rejected")) \/ Local(r, AfterFailure(x, "transient"))
  BY DEF Judge, Outcomes
<1>3. ASSUME NEW reply \in Replies, Return(r, reply) PROVE Moved(r)
  <2> DEFINE y == [Fresh EXCEPT !.reply = reply]
  <2>1. y \in Chat /\ y.place = "idle" /\ y.chosen = NoAccount /\ y.skips = NoSkips
    BY FreshChat DEF Places
  <2>2. Local(r, y) BY <1>3 DEF Return
  <2> HIDE DEF y
  <2>3. Fits(y, pc'[r], key'[r]) BY <1>1, <2>1, NoAccountIsNoAccount DEF Fits
  <2>4. Tame(x, y) BY <1>0, <2>1 DEF Tame
  <2> QED BY <1>1, <2>1, <2>2, <2>3, <2>4 DEF Moves, Moved
<1>4. ASSUME NEW out \in {"rejected", "transient"}, Local(r, AfterFailure(x, out))
      PROVE  Moved(r)
  <2> DEFINE how == IF out = "rejected" THEN "hard" ELSE "cooling"
             skips == Block(x, x.chosen, how)
             y == [x EXCEPT !.skips = skips, !.chosen = NoAccount, !.cut = FALSE,
                            !.place = "select"]
  <2>1. how \in {"hard", "cooling"} OBVIOUS
  <2>2. Local(r, y) BY <1>4 DEF AfterFailure
  <2> HIDE DEF how
  <2>3. /\ skips \in [Accounts -> Skips] /\ skips[x.chosen] # "none"
        /\ \A b \in Accounts : x.skips[b] # "none" => skips[b] # "none"
    BY <1>0, <2>1, BlockSkips
  <2> HIDE DEF skips, x
  <2>4. y \in Chat /\ y.place = "select" /\ y.chosen = NoAccount /\ y.skips = skips
    BY <1>0, <2>3 DEF Chat, Places
  <2> HIDE DEF y
  <2>5. Fits(y, pc'[r], key'[r]) BY <1>1, <2>4, NoAccountIsNoAccount DEF Fits
  <2>6. Tame(x, y) BY <1>0, <2>3, <2>4 DEF Tame
  <2> QED BY <1>1, <2>2, <2>4, <2>5, <2>6 DEF Moves, Moved, x
<1>5. "answered" \in Replies /\ "failed" \in Replies BY DEF Replies
<1> HIDE DEF x
<1> QED BY <1>2, <1>3, <1>4, <1>5

-----------------------------------------------------------------------------
(* Every step                                                              *)

\* One request moves, or none does.
LEMMA StepMoves ==
  ASSUME IInv, [Next]_vars
  PROVE  (\E r \in Requests : Moved(r)) \/ UNCHANGED <<req, pc, key>>
<1>1. ASSUME NEW r \in Requests, Start(r) \/ Renew(r) \/ Disconnect(r) \/ Step(r) \/ CreatorStart(r)
      PROVE  Moved(r)
  BY <1>1, StartMoves, ContextMoves, SelectMoves, PickMoves, ReleaseExpiredMoves, ExhaustedMoves,
     NoAccountSavedMoves, CreatorMoves, VerdictMoves, BusyCheckMoves, AcquireMoves, WaitMoves,
     UpstreamEndMoves, JudgeMoves
  DEF Step
<1>2. ASSUME NEW a \in Accounts, Login(a) \/ RemoveAccount(a) \/ ActivateAccount(a)
      PROVE  UNCHANGED <<req, pc, key>>
  BY <1>2 DEF Login, RemoveAccount, ActivateAccount, queueVars
<1>3. ASSUME NEW p \in AdminRuns, RunAccountCreator(p) \/ RunAccountCreatorEnds(p)
      PROVE  UNCHANGED <<req, pc, key>>
  BY <1>3 DEF RunAccountCreator, RunAccountCreatorEnds, queueVars
<1>4. UNCHANGED vars => UNCHANGED <<req, pc, key>> BY DEF vars, queueVars
<1> QED BY <1>1, <1>2, <1>3, <1>4 DEF Next

\* chat uses the queue through Acquire, its select, removeWaiter and Release only.
LEMMA StepUsesQueue ==
  ASSUME IInv, [Next]_vars
  PROVE  Queue!Next \/ UNCHANGED queueVars
<1>1. ASSUME NEW r \in Requests, Acquire(r) PROVE Queue!Next
  <2>1. req[r].chosen \in Accounts BY <1>1 DEF IInv, Standing, Fits, Acquire, At
  <2> QED BY <1>1, <2>1 DEF Acquire, Queue!Next
<1>2. ASSUME NEW r \in Requests,
             \/ Renew(r) \/ Disconnect(r) \/ Granted(r) \/ LeaveQueue(r) \/ QueueCancelled(r)
             \/ UpstreamEnd(r) \/ Judge(r)
      PROVE  Queue!Next
  BY <1>2 DEF Renew, Disconnect, Granted, LeaveQueue, QueueCancelled, UpstreamEnd, Judge, Queue!Next
<1>3. ASSUME NEW r \in Requests,
             \/ Start(r) \/ SelectAndDrop(r) \/ ListAccounts(r) \/ PickEligible(r) \/ PickUnread(r)
             \/ PickNone(r) \/ PickNoAccount(r) \/ ReleaseExpired(r) \/ Exhausted(r)
             \/ NoAccountSaved(r) \/ CreatorStart(r) \/ CreatorEnd(r) \/ Verdict(r)
             \/ CooldownOver(r) \/ CooldownCut(r) \/ BusyCheck(r)
      PROVE  UNCHANGED queueVars
  BY <1>3 DEF Start, SelectAndDrop, ListAccounts, PickEligible, PickUnread, PickNone,
     PickNoAccount, ReleaseExpired, Exhausted, NoAccountSaved, CreatorStart, CreatorEnd, Verdict,
     CooldownOver, CooldownCut, BusyCheck, OnlyLocal
<1>4. ASSUME NEW a \in Accounts, Login(a) \/ RemoveAccount(a) \/ ActivateAccount(a)
      PROVE  UNCHANGED queueVars
  BY <1>4 DEF Login, RemoveAccount, ActivateAccount
<1>5. UNCHANGED vars => UNCHANGED queueVars BY DEF vars
<1>6. ASSUME NEW p \in AdminRuns, RunAccountCreator(p) \/ RunAccountCreatorEnds(p)
      PROVE  UNCHANGED queueVars
  BY <1>6 DEF RunAccountCreator, RunAccountCreatorEnds
<1> QED BY <1>1, <1>2, <1>3, <1>4, <1>5, <1>6 DEF Next, Step

\* A selection activates a saved account, or finds that it is not saved any more.
LEMMA StepUsesVault ==
  ASSUME IInv, [Next]_vars
  PROVE  Vault!SetNext \/ UNCHANGED vaultVars
<1>0. ids \subseteq Accounts BY DEF IInv, Outside
<1>1. ASSUME NEW a, ActivateChosen(a) PROVE Vault!SetNext \/ UNCHANGED vaultVars
  BY <1>0, <1>1 DEF ActivateChosen, Vault!Activate, Vault!SetNext
<1>2. ASSUME NEW r \in Requests, SelectAndDrop(r) \/ PickEligible(r) \/ PickUnread(r)
      PROVE  Vault!SetNext \/ UNCHANGED vaultVars
  BY <1>1, <1>2 DEF SelectAndDrop, PickEligible, PickUnread
<1>3. ASSUME NEW r \in Requests,
             \/ Start(r) \/ ListAccounts(r) \/ PickNone(r) \/ PickNoAccount(r) \/ ReleaseExpired(r)
             \/ Exhausted(r) \/ NoAccountSaved(r) \/ CreatorStart(r) \/ CreatorEnd(r) \/ Verdict(r)
             \/ CooldownOver(r) \/ CooldownCut(r) \/ BusyCheck(r) \/ Renew(r) \/ Disconnect(r)
             \/ Acquire(r) \/ Granted(r) \/ LeaveQueue(r) \/ QueueCancelled(r) \/ UpstreamEnd(r)
             \/ Judge(r)
      PROVE  UNCHANGED vaultVars
  BY <1>3 DEF Start, ListAccounts, PickNone, PickNoAccount, ReleaseExpired, Exhausted,
     NoAccountSaved, CreatorStart, CreatorEnd, Verdict, CooldownOver, CooldownCut, BusyCheck,
     Renew, Disconnect, Acquire, Granted, LeaveQueue, QueueCancelled, UpstreamEnd, Judge, OnlyLocal
<1>4. ASSUME NEW a \in Accounts, Login(a) \/ RemoveAccount(a) \/ ActivateAccount(a)
      PROVE  Vault!SetNext
  BY <1>4 DEF Login, RemoveAccount, ActivateAccount, Vault!SetNext
<1>5. UNCHANGED vars => UNCHANGED vaultVars BY DEF vars
<1>6. ASSUME NEW p \in AdminRuns, RunAccountCreator(p) \/ RunAccountCreatorEnds(p)
      PROVE  UNCHANGED vaultVars
  BY <1>6 DEF RunAccountCreator, RunAccountCreatorEnds
<1> QED BY <1>2, <1>3, <1>4, <1>5, <1>6 DEF Next, Step

LEMMA OutsideKeeps ==
  ASSUME IInv, [Next]_vars
  PROVE  Outside'
<1>0. ids \subseteq Accounts /\ active \in Accounts \cup {NoAccount}
      /\ creator \in Requests \cup AdminRuns \cup {NoRequest}
  BY DEF IInv, Outside
<1>1. ids' \subseteq Accounts /\ active' \in Accounts \cup {NoAccount}
  <2>1. CASE UNCHANGED vaultVars
    BY <1>0, <2>1 DEF vaultVars
  <2>2. CASE Vault!Reload
    BY <2>2 DEF Vault!Reload
  <2>3. ASSUME NEW a \in Accounts, Vault!Add(a) \/ Vault!Activate(a) \/ Vault!Drop(a)
        PROVE  ids' \subseteq Accounts /\ active' \in Accounts \cup {NoAccount}
    BY <1>0, <2>3 DEF Vault!Add, Vault!Activate, Vault!Drop
  <2> QED BY <2>1, <2>2, <2>3, StepUsesVault DEF Vault!SetNext
<1>2. creator' \in Requests \cup AdminRuns \cup {NoRequest}
  <2>1. ASSUME NEW r \in Requests, CreatorStart(r) \/ CreatorEnd(r)
        PROVE  creator' \in Requests \cup AdminRuns \cup {NoRequest}
    BY <2>1 DEF CreatorStart, CreatorEnd
  <2>2. \/ \E r \in Requests : CreatorStart(r) \/ CreatorEnd(r)
        \/ \E p \in AdminRuns : RunAccountCreator(p) \/ RunAccountCreatorEnds(p)
        \/ UNCHANGED creator
    BY DEF Next, Step, vars, Start, SelectAndDrop, ListAccounts, PickEligible, PickUnread, PickNone,
       PickNoAccount, ReleaseExpired, Exhausted, NoAccountSaved, Verdict, CooldownOver,
       CooldownCut, BusyCheck, Renew, Disconnect, Acquire, Granted, LeaveQueue, QueueCancelled,
       UpstreamEnd, Judge, OnlyLocal, Login, RemoveAccount, ActivateAccount
  <2> QED BY <1>0, <2>1, <2>2 DEF RunAccountCreator, RunAccountCreatorEnds
<1> QED BY <1>1, <1>2 DEF Outside

LEMMA CreatingKeeps ==
  ASSUME IInv, [Next]_vars
  PROVE  Creating'
<1>0. req \in [Requests -> Chat] /\ Creating BY DEF IInv, Standing
<1>1. ASSUME NEW r \in Requests, CreatorStart(r) PROVE Creating'
  <2>1. creator = NoRequest /\ creator' = r /\ Local(r, [req[r] EXCEPT !.place = "create"])
    BY <1>1 DEF CreatorStart, Go
  <2>2. req'[r].place = "create" /\ \A q \in Requests : q # r => req'[q] = req[q]
    BY <1>0, <2>1 DEF Local, Chat
  <2> QED BY <1>0, <2>1, <2>2, NoRequestIsNoRequest DEF Creating, At
<1>2. ASSUME NEW r \in Requests, CreatorEnd(r) PROVE Creating'
  <2>1. /\ creator = r /\ creator' = NoRequest
        /\ \/ Local(r, NewRound(req[r])) \/ Local(r, BestEffort(req[r]))
           \/ Return(r, "authMissing")
    BY <1>0, <1>2 DEF CreatorEnd, Creating
  <2>2. "authMissing" \in Replies BY DEF Replies
  <2>3. [Fresh EXCEPT !.reply = "authMissing"].place = "idle" BY <2>2, FreshChat DEF Places
  <2>4. NewRound(req[r]).place = "select" /\ BestEffort(req[r]).place = "select"
    BY <1>0, Rounds
  <2>5. req'[r].place # "create" /\ \A q \in Requests : q # r => req'[q] = req[q]
    BY <1>0, <2>1, <2>3, <2>4 DEF Local, Return
  <2> QED BY <1>0, <2>1, <2>5, NoRequestIsNoRequest DEF Creating, At
<1>3. ASSUME NEW r \in Requests,
             \/ Start(r) \/ SelectAndDrop(r) \/ ListAccounts(r) \/ PickEligible(r) \/ PickUnread(r)
             \/ PickNone(r) \/ PickNoAccount(r) \/ ReleaseExpired(r) \/ Exhausted(r)
             \/ NoAccountSaved(r) \/ Verdict(r) \/ CooldownOver(r) \/ CooldownCut(r)
             \/ BusyCheck(r) \/ Acquire(r) \/ Granted(r) \/ QueueCancelled(r) \/ UpstreamEnd(r)
             \/ Judge(r)
      PROVE  Creating'
  <2>1. req[r].place \notin {"wantCreator", "create"} /\ UNCHANGED creator
    BY <1>3 DEF At, Start, SelectAndDrop, ListAccounts, PickEligible, PickUnread, PickNone,
       PickNoAccount, ReleaseExpired, Exhausted, NoAccountSaved, Verdict, CooldownOver, CooldownCut,
       BusyCheck, Acquire, Granted, QueueCancelled, UpstreamEnd, Judge, OnlyLocal
  <2>2. PICK y : Moves(r, y)
    BY <1>3, StartMoves, SelectMoves, PickMoves, ReleaseExpiredMoves, ExhaustedMoves,
       NoAccountSavedMoves, VerdictMoves, BusyCheckMoves, AcquireMoves, WaitMoves, UpstreamEndMoves,
       JudgeMoves
    DEF Moved
  <2>3. /\ req'[r].place # "create"
        /\ \A q \in Requests : q # r => req'[q] = req[q]
    BY <1>0, <2>1, <2>2 DEF Moves, Local, Tame
  <2> QED BY <1>0, <2>1, <2>3 DEF Creating, At
<1>4. CASE UNCHANGED <<creator, req>>
  BY <1>0, <1>4 DEF Creating, At
<1>5. ASSUME NEW r \in Requests, Renew(r) \/ Disconnect(r) \/ LeaveQueue(r)
      PROVE  UNCHANGED <<creator, req>>
  BY <1>5 DEF Renew, Disconnect, LeaveQueue
<1>6. ASSUME NEW a \in Accounts, Login(a) \/ RemoveAccount(a) \/ ActivateAccount(a)
      PROVE  UNCHANGED <<creator, req>>
  BY <1>6 DEF Login, RemoveAccount, ActivateAccount
<1>7. UNCHANGED vars => UNCHANGED <<creator, req>> BY DEF vars
<1>8. ASSUME NEW p \in AdminRuns, RunAccountCreator(p) \/ RunAccountCreatorEnds(p)
      PROVE  Creating'
  BY <1>0, <1>8, NoRequestIsNoRequest, RunsAreNoRequests
  DEF RunAccountCreator, RunAccountCreatorEnds, Creating, At
<1> QED BY <1>1, <1>2, <1>3, <1>4, <1>5, <1>6, <1>7, <1>8 DEF Next, Step

LEMMA Initially == Init => IInv
<1> SUFFICES ASSUME Init PROVE IInv
  OBVIOUS
<1>1. Exclusive BY QueueInit DEF Init
<1>2. Fresh \in Chat /\ Fresh.place = "idle" /\ Fresh.chosen = NoAccount /\ Fresh.skips = NoSkips
  <2>1. NoSkips \in [Accounts -> Skips] BY DEF NoSkips, Skips
  <2> QED BY <2>1 DEF Fresh, Chat, Places, Replies
<1>3. Standing
  BY <1>2, NoAccountIsNoAccount DEF Init, Standing, Fits, Queue!Init
<1>4. Outside BY DEF Init, Outside, Vault!SetInit
<1>5. Creating BY <1>2, NoRequestIsNoRequest DEF Init, Creating, At
<1> QED BY <1>1, <1>3, <1>4, <1>5 DEF IInv

LEMMA Inductive == IInv /\ [Next]_vars => IInv'
<1> SUFFICES ASSUME IInv, [Next]_vars PROVE IInv'
  OBVIOUS
<1>1. Exclusive' BY StepUsesQueue, QueueKeeps DEF IInv
<1>2. Standing'
  <2>1. CASE UNCHANGED <<req, pc, key>>
    BY <2>1 DEF IInv, Standing
  <2>2. ASSUME NEW r \in Requests, Moved(r) PROVE Standing'
    BY <2>2, MovesStand DEF Moved, IInv
  <2> QED BY <2>1, <2>2, StepMoves
<1> QED BY <1>1, <1>2, OutsideKeeps, CreatingKeeps DEF IInv

LEMMA Invariance == Spec => []IInv
  BY Initially, Inductive, PTL DEF Spec

-----------------------------------------------------------------------------
(* The results                                                             *)

\* Type correctness of chat, the queue and the vault together.
THEOREM Typing == Spec => []TypeOK
<1>1. IInv => TypeOK BY DEF IInv, Exclusive, Standing, Outside, Chat, TypeOK
<1> QED BY <1>1, Invariance, PTL

\* Two requests never talk to the upstream with one account, however many requests there are.
THEOREM Exclusion == Spec => []OneUpstreamPerAccount
<1>1. ASSUME IInv, NEW r \in Requests, NEW s \in Requests,
             At(r, "upstream"), At(s, "upstream"), req[r].chosen = req[s].chosen
      PROVE  r = s
  <2>1. Fits(req[r], pc[r], key[r]) /\ Fits(req[s], pc[s], key[s])
    BY <1>1 DEF IInv, Standing
  <2>2. PICK a \in Accounts : a = req[r].chosen BY <1>1, <2>1 DEF Fits, At
  <2>3. Queue!Owns(r, a) /\ Queue!Owns(s, a) BY <1>1, <2>1, <2>2 DEF Fits, At, Queue!Owns
  <2> QED BY <1>1, <2>3 DEF IInv, Exclusive, Queue!OneLeasePerKey
<1>2. IInv => OneUpstreamPerAccount BY <1>1 DEF OneUpstreamPerAccount
<1> QED BY <1>2, Invariance, PTL

\* Every behaviour of chat is one of the local queue: whatever is proved of RequestQueue
\* for its callers holds for the requests.
THEOREM UsesQueue == Spec => Queue!Spec
<1>1. IInv /\ [Next]_vars => [Queue!Next]_(Queue!vars)
  BY StepUsesQueue DEF queueVars, Queue!vars
<1>2. Init => Queue!Init BY DEF Init
<1> QED BY <1>1, <1>2, Invariance, PTL DEF Spec, Queue!Spec

\* A request that waits keeps nothing that others wait for: the lease of an account is with an
\* upstream call, on its way to a request in the queue, or lost; the creator's lock is with the
\* one request that runs it, or with none of them.
THEOREM NoDeadlock == Spec => []NoHoldAndWait
<1>1. ASSUME IInv, NEW a \in Accounts, busy[a], ~Queue!Orphaned(a)
      PROVE  \E r \in Requests : /\ req[r].chosen = a
                                 /\ At(r, "upstream") \/ (At(r, "queued") /\ r \in closed)
  <2>1. PICK r \in Requests : Queue!Owns(r, a) BY <1>1 DEF Queue!Orphaned
  <2>2. Fits(req[r], pc[r], key[r]) /\ req[r] \in Chat BY <1>1 DEF IInv, Standing
  <2>3. CASE pc[r] = "holding"
    BY <2>1, <2>2, <2>3 DEF Fits, At, Queue!Owns
  <2>4. CASE pc[r] \in {"waiting", "leaving"} /\ r \in closed
    BY <2>1, <2>2, <2>4 DEF Fits, At, Queue!Owns
  <2> QED BY <2>1, <2>3, <2>4 DEF Queue!Owns, Queue!Granted
<1>2. IInv => NoHoldAndWait BY <1>1 DEF NoHoldAndWait, IInv, Creating
<1> QED BY <1>2, Invariance, PTL

\* A failed account is skipped, a skipped account is not chosen, and it comes back only when
\* every account was tried or a new one was made.
THEOREM Skipping == Spec => NoHammering
<1> DEFINE Allowed(r, a) ==
          /\ At(r, "judge") /\ req[r].chosen = a /\ At(r, "select")' => Skipped(r, a)'
          /\ At(r, "pick") /\ req'[r].chosen = a => ~Skipped(r, a)
          /\ Skipped(r, a) /\ ~Skipped(r, a)' =>
                req[r].place \in {"exhausted", "cooldown", "create"} \/ At(r, "idle")'
<1>1. ASSUME IInv, [Next]_vars, NEW r \in Requests, NEW a \in Accounts
      PROVE  Allowed(r, a)
  <2>0. Fits(req[r], pc[r], key[r]) BY <1>1 DEF IInv, Standing
  <2>1. CASE req'[r] = req[r]
    BY <2>0, <2>1 DEF At, Skipped, Fits
  <2>2. CASE req'[r] # req[r]
    <3>1. PICK q \in Requests : Moved(q) BY <1>1, <2>2, StepMoves
    <3>2. PICK y : Moves(q, y) BY <3>1 DEF Moved
    <3>3. q = r /\ req'[r] = y BY <2>2, <3>2, <1>1 DEF Moves, Local, IInv, Standing
    <3>4. Tame(req[r], req'[r]) BY <3>2, <3>3 DEF Moves
    <3> QED BY <3>4 DEF Tame, At, Skipped
  <2> QED BY <2>1, <2>2
<1>2. IInv /\ [Next]_vars => [\A r \in Requests, a \in Accounts : Allowed(r, a)]_vars
  BY <1>1
<1> QED BY <1>2, Invariance, PTL DEF Spec, NoHammering
=============================================================================
