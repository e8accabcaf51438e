------------------------- MODULE AccountStoreProofs -------------------------
(***************************************************************************)
(* Theorems about the credential vault, for every set of accounts and of   *)
(* secrets, and every number of saved accounts.                            *)
(***************************************************************************)
EXTENDS AccountStore, SequenceTheorems, WellFoundedInduction, TLAPS

-----------------------------------------------------------------------------
(* Induction up to a number, over a set instead of a predicate, and        *)
(* recursion with it: what the loops over the list of accounts need.       *)

\* A set of natural numbers that is not empty has a least one.
LEMMA LeastNatural ==
    ASSUME NEW T, T \subseteq Nat, T # {}
    PROVE  \E m \in T : \A y \in T : m <= y
<1> DEFINE R == OpToRel(<, Nat)
<1>1. IsWellFoundedOn(R, Nat)
  BY NatLessThanWellFounded
<1>2. PICK m \in T : \A y \in T : ~ (<<y, m>> \in R)
  <2> HIDE DEF R
  <2> QED BY <1>1, WFMin, Zenon
<1>3. R = {s \in Nat \X Nat : s[1] < s[2]}
  BY DEF OpToRel
<1>4. \A y \in T : m <= y
  <2> SUFFICES ASSUME NEW y \in T, y < m PROVE FALSE
    OBVIOUS
  <2>1. <<y, m>> \in {s \in Nat \X Nat : s[1] < s[2]}
    OBVIOUS
  <2> HIDE DEF R
  <2> QED BY <1>2, <1>3, <2>1
<1> QED BY <1>4

\* The least number that is missing would have a predecessor that is there.
LEMMA InductionUpTo ==
    ASSUME NEW n \in Nat, NEW T, 0 \in T, \A i \in 1 .. n : i - 1 \in T => i \in T
    PROVE  \A i \in 0 .. n : i \in T
<1> DEFINE B == {i \in 0 .. n : i \notin T}
<1>1. ASSUME B # {} PROVE FALSE
  <2>1. PICK m \in B : \A y \in B : m <= y
    <3>1. B \subseteq Nat
      OBVIOUS
    <3> HIDE DEF B
    <3> QED BY <1>1, <3>1, LeastNatural
  <2>2. m \in 1 .. n /\ m - 1 \in 0 .. n
    OBVIOUS
  <2>3. m - 1 \in T
    BY <2>1, <2>2
  <2> QED BY <2>2, <2>3
<1> QED BY <1>1

\* A loop that computes a value of V from its index and the value before.
Maps(step, n, V) == \A i \in 1 .. n : \A v \in V : step[i][v] \in V

Runs(f, n, V, v0, step) ==
    f \in [0 .. n -> V] /\ f[0] = v0 /\ \A i \in 1 .. n : f[i] = step[i][f[i - 1]]

\* Such a loop can be run.
LEMMA RecursionUpTo ==
    ASSUME NEW n \in Nat, NEW V, NEW v0 \in V, NEW step, Maps(step, n, V)
    PROVE  \E f : Runs(f, n, V, v0, step)
<1> DEFINE Ready(m) == \E f : Runs(f, m, V, v0, step)
           T == {m \in 0 .. n : Ready(m)}
<1>1. Ready(0)
  <2> DEFINE g == [i \in 0 .. 0 |-> v0]
  <2>1. Runs(g, 0, V, v0, step)
    BY DEF Runs
  <2> QED BY <2>1
<1>2. ASSUME NEW m \in 1 .. n, Ready(m - 1)
      PROVE  Ready(m)
  <2>1. PICK f : Runs(f, m - 1, V, v0, step)
    BY <1>2
  <2> DEFINE g == [i \in 0 .. m |-> IF i = m THEN step[m][f[m - 1]] ELSE f[i]]
  <2>2. step[m][f[m - 1]] \in V
    BY <2>1 DEF Runs, Maps
  <2>3. g \in [0 .. m -> V]
    BY <2>1, <2>2 DEF Runs
  <2>4. g[0] = v0 /\ \A i \in 1 .. m : g[i] = step[i][g[i - 1]]
    BY <2>1 DEF Runs
  <2>5. Runs(g, m, V, v0, step)
    BY <2>3, <2>4 DEF Runs
  <2> QED BY <2>5
<1> HIDE DEF Ready
<1>3. 0 \in T /\ \A m \in 1 .. n : m - 1 \in T => m \in T
  BY <1>1, <1>2
<1>4. n \in T
  <2>1. \A i \in 0 .. n : i \in T
    <3> HIDE DEF T
    <3> QED BY <1>3, InductionUpTo
  <2> QED BY <2>1
<1> QED BY <1>4 DEF Ready

-----------------------------------------------------------------------------
(* Numbered, MaxOf and Without.                                            *)

\* MaxOf is one of the orders, or 0 for an empty list, and no order is above it.
LEMMA MaxOfBounds ==
    ASSUME NEW list \in Seq(Account)
    PROVE  MaxOf(list) \in Nat /\ \A i \in DOMAIN list : list[i].order <= MaxOf(list)
<1> DEFINE Orders(k) == {0} \cup {list[i].order : i \in 1 .. k}
           Bounded(k) == \E n \in Orders(k) : \A i \in 1 .. k : list[i].order <= n
           T == {k \in 0 .. Len(list) : Bounded(k)}
<1>1. Len(list) \in Nat /\ DOMAIN list = 1 .. Len(list)
  OBVIOUS
<1>2. \A i \in 1 .. Len(list) : list[i].order \in Nat
  <2>1. \A i \in 1 .. Len(list) : list[i] \in Account
    OBVIOUS
  <2> QED BY <2>1 DEF Account
<1>3. 0 \in T
  OBVIOUS
<1>4. ASSUME NEW k \in 1 .. Len(list), k - 1 \in T
      PROVE  k \in T
  <2>1. PICK n \in Orders(k - 1) : \A i \in 1 .. k - 1 : list[i].order <= n
    BY <1>4
  <2>2. n \in Nat /\ n \in Orders(k) /\ list[k].order \in Orders(k)
    BY <1>2
  <2>3. CASE list[k].order <= n
    <3>1. \A i \in 1 .. k : list[i].order <= n
      BY <2>1, <2>2, <2>3
    <3>2. Bounded(k)
      BY <2>2, <3>1
    <3> HIDE DEF Bounded
    <3> QED BY <1>1, <3>2
  <2>4. CASE ~(list[k].order <= n)
    <3>1. \A i \in 1 .. k : list[i].order <= list[k].order
      BY <1>2, <2>1, <2>2, <2>4
    <3>2. Bounded(k)
      BY <2>2, <3>1
    <3> HIDE DEF Bounded
    <3> QED BY <1>1, <3>2
  <2> QED BY <2>3, <2>4
<1>5. Bounded(Len(list))
  <2>1. \A i \in 0 .. Len(list) : i \in T
    <3> HIDE DEF T
    <3> QED BY <1>1, <1>3, <1>4, InductionUpTo
  <2> HIDE DEF Bounded
  <2> QED BY <1>1, <2>1
<1>6. \E n \in {0} \cup {list[i].order : i \in DOMAIN list} : \A i \in DOMAIN list : list[i].order <= n
  BY <1>1, <1>5
<1>7. /\ MaxOf(list) \in {0} \cup {list[i].order : i \in DOMAIN list}
      /\ \A i \in DOMAIN list : list[i].order <= MaxOf(list)
  BY <1>6 DEF MaxOf
<1> QED BY <1>1, <1>2, <1>7

DistinctIds(list) == \A i, j \in DOMAIN list : list[i].id = list[j].id => i = j

Increasing(list) == \A i, j \in DOMAIN list : i < j => list[i].order < list[j].order

Positive(list) == \A i \in DOMAIN list : list[i].order > 0

Legacy(list) == \A i \in DOMAIN list : list[i].order = 0

\* s has the accounts other than a among the first n of the list, each as it is and in
\* the order they had.
Kept(s, list, a, n) ==
    /\ s \in Seq(Account)
    /\ \A m \in DOMAIN s : \E i \in 1 .. n : s[m] = list[i] /\ list[i].id # a
    /\ \A i \in 1 .. n : list[i].id # a => \E m \in DOMAIN s : s[m] = list[i]
    /\ \A m, l \in DOMAIN s : m < l =>
          \E i, j \in 1 .. n : i < j /\ s[m] = list[i] /\ s[l] = list[j]

\* That is what the filter keeps.
LEMMA WithoutKeeps ==
    ASSUME NEW list \in Seq(Account), NEW a
    PROVE  Kept(Without(list, a), list, a, Len(list))
<1> DEFINE n == Len(list)
           kept[i \in 0 .. n] ==
             IF i = 0 THEN <<>>
             ELSE IF list[i].id = a THEN kept[i - 1] ELSE Append(kept[i - 1], list[i])
           step == [i \in 1 .. n |-> [s \in Seq(Account) |->
                      IF list[i].id = a THEN s ELSE Append(s, list[i])]]
<1>1. n \in Nat /\ DOMAIN list = 1 .. n /\ \A i \in 1 .. n : list[i] \in Account
  OBVIOUS
<1>2. Maps(step, n, Seq(Account))
  BY <1>1 DEF Maps
<1>3. \E f : Runs(f, n, Seq(Account), <<>>, step)
  <2>1. <<>> \in Seq(Account)
    OBVIOUS
  <2> HIDE DEF step, n
  <2> QED BY <1>1, <1>2, <2>1, RecursionUpTo, Zenon
<1> PICK f : Runs(f, n, Seq(Account), <<>>, step)
  BY <1>3
<1>4. \A i \in 1 .. n : step[i][f[i - 1]] =
          IF list[i].id = a THEN f[i - 1] ELSE Append(f[i - 1], list[i])
  <2>1. \A i \in 1 .. n : f[i - 1] \in Seq(Account)
    BY <1>1 DEF Runs
  <2> QED BY <2>1
<1>5. f = [i \in 0 .. n |->
             IF i = 0 THEN <<>>
             ELSE IF list[i].id = a THEN f[i - 1] ELSE Append(f[i - 1], list[i])]
  <2> DEFINE g == [i \in 0 .. n |->
                     IF i = 0 THEN <<>>
                     ELSE IF list[i].id = a THEN f[i - 1] ELSE Append(f[i - 1], list[i])]
  <2> HIDE DEF step, kept
  <2>1. ASSUME NEW i \in 0 .. n PROVE g[i] = f[i]
    <3>1. CASE i = 0
      BY <3>1 DEF Runs
    <3>2. CASE i # 0
      <4>1. i \in 1 .. n
        BY <1>1, <3>2
      <4>2. f[i] = step[i][f[i - 1]]
        BY <4>1 DEF Runs
      <4>3. step[i][f[i - 1]] = IF list[i].id = a THEN f[i - 1] ELSE Append(f[i - 1], list[i])
        BY <1>4, <4>1
      <4> QED BY <3>2, <4>2, <4>3
    <3> QED BY <3>1, <3>2
  <2>2. f = [i \in 0 .. n |-> f[i]] /\ g = [i \in 0 .. n |-> g[i]]
    BY DEF Runs
  <2> HIDE DEF g
  <2>3. f = g
    BY <2>1, <2>2
  <2> QED BY <2>3 DEF g
<1>6. kept = [i \in 0 .. n |->
             IF i = 0 THEN <<>>
             ELSE IF list[i].id = a THEN kept[i - 1] ELSE Append(kept[i - 1], list[i])]
  <2> HIDE DEF step
  <2> QED BY <1>5
<1>7. Without(list, a) = kept[n]
  BY Zenon DEF Without
<1> HIDE DEF kept, step, n
<1> DEFINE T == {i \in 0 .. n : Kept(kept[i], list, a, i)}
<1>8. 0 \in T
  <2>1. kept[0] = <<>>
    BY <1>1, <1>6
  <2>2. Kept(<<>>, list, a, 0)
    BY DEF Kept
  <2> QED BY <1>1, <2>1, <2>2
<1>9. ASSUME NEW i \in 1 .. n, i - 1 \in T
      PROVE  i \in T
  <2> DEFINE s == kept[i - 1]
  <2>1. Kept(s, list, a, i - 1) /\ i - 1 \in 0 .. n /\ i \in 0 .. n
    BY <1>1, <1>9
  <2>2. kept[i] = IF list[i].id = a THEN s ELSE Append(s, list[i])
    <3>1. i \in 0 .. n /\ i # 0
      BY <1>1
    <3> QED BY <1>6, <3>1, Zenon
  <2> HIDE DEF s
  <2>3. CASE list[i].id = a
    <3>1. Kept(s, list, a, i)
      BY <1>1, <2>1, <2>3 DEF Kept
    <3> QED BY <2>1, <2>2, <2>3, <3>1
  <2>4. CASE list[i].id # a
    <3> DEFINE t == Append(s, list[i])
    <3>1. /\ t \in Seq(Account) /\ DOMAIN s = 1 .. Len(s) /\ DOMAIN t = 1 .. Len(s) + 1
          /\ Len(s) \in Nat
          /\ t[Len(s) + 1] = list[i] /\ \A m \in 1 .. Len(s) : t[m] = s[m]
      BY <1>1, <2>1 DEF Kept
    <3> HIDE DEF t
    <3>2. \A m \in DOMAIN t : \E j \in 1 .. i : t[m] = list[j] /\ list[j].id # a
      BY <1>1, <2>1, <2>4, <3>1 DEF Kept
    <3>3. \A j \in 1 .. i : list[j].id # a => \E m \in DOMAIN t : t[m] = list[j]
      BY <1>1, <2>1, <2>4, <3>1 DEF Kept
    <3>4. ASSUME NEW m \in DOMAIN t, NEW l \in DOMAIN t, m < l
          PROVE  \E j, k \in 1 .. i : j < k /\ t[m] = list[j] /\ t[l] = list[k]
      <4>1. CASE l = Len(s) + 1
        <5>1. m \in DOMAIN s
          BY <3>1, <3>4, <4>1
        <5>2. PICK j \in 1 .. i - 1 : s[m] = list[j]
          BY <2>1, <5>1 DEF Kept
        <5>3. j < i /\ j \in 1 .. i /\ i \in 1 .. i /\ t[m] = list[j] /\ t[l] = list[i]
          BY <1>1, <3>1, <4>1, <5>1, <5>2
        <5> QED BY <5>3
      <4>2. CASE l # Len(s) + 1
        <5>1. m \in DOMAIN s /\ l \in DOMAIN s
          BY <3>1, <3>4, <4>2
        <5>2. PICK j, k \in 1 .. i - 1 : j < k /\ s[m] = list[j] /\ s[l] = list[k]
          BY <2>1, <3>4, <5>1 DEF Kept
        <5>3. j \in 1 .. i /\ k \in 1 .. i /\ t[m] = list[j] /\ t[l] = list[k]
          BY <1>1, <3>1, <5>1, <5>2
        <5> QED BY <5>2, <5>3
      <4> QED BY <4>1, <4>2
    <3>5. Kept(t, list, a, i)
      BY <3>1, <3>2, <3>3, <3>4 DEF Kept
    <3> QED BY <2>1, <2>2, <2>4, <3>5 DEF t
  <2> QED BY <2>3, <2>4
<1>10. \A i \in 0 .. n : i \in T
  <2> HIDE DEF T
  <2> QED BY <1>1, <1>8, <1>9, InductionUpTo
<1>11. Kept(kept[n], list, a, n)
  BY <1>1, <1>10
<1> QED BY <1>1, <1>7, <1>11 DEF n

\* load leaves a list that has its numbers alone.
LEMMA NumberedKeeps ==
    ASSUME NEW list \in Seq(Account), Positive(list)
    PROVE  Numbered(list) = list
<1>1. \A i \in DOMAIN list : list[i] \in Account /\ list[i].order # 0
  <2>1. \A i \in DOMAIN list : list[i] \in Account
    OBVIOUS
  <2> QED BY <2>1 DEF Account, Positive
<1>2. \A i \in DOMAIN list : [list[i] EXCEPT !.order = list[i].order] = list[i]
  BY <1>1 DEF Account
<1> DEFINE next[i \in 0 .. Len(list)] ==
             IF i = 0 THEN 0
             ELSE IF list[i].order = 0 THEN next[i - 1] + 1
             ELSE IF list[i].order > next[i - 1] THEN list[i].order ELSE next[i - 1]
<1>3. Numbered(list) = [i \in DOMAIN list |->
                           [list[i] EXCEPT !.order = IF @ = 0 THEN next[i] ELSE @]]
  BY Zenon DEF Numbered
<1> HIDE DEF next
<1>4. \A i \in DOMAIN list : [list[i] EXCEPT !.order = IF @ = 0 THEN next[i] ELSE @] = list[i]
  BY <1>1, <1>2
<1>5. Numbered(list) = [i \in DOMAIN list |-> list[i]]
  BY <1>3, <1>4
<1> QED BY <1>5

\* It numbers the accounts of an older file from 1 on.
LEMMA NumberedFromOne ==
    ASSUME NEW list \in Seq(Account), Legacy(list)
    PROVE  Numbered(list) = [i \in DOMAIN list |-> [list[i] EXCEPT !.order = i]]
<1> DEFINE n == Len(list)
           next[i \in 0 .. n] ==
             IF i = 0 THEN 0
             ELSE IF list[i].order = 0 THEN next[i - 1] + 1
             ELSE IF list[i].order > next[i - 1] THEN list[i].order ELSE next[i - 1]
           f == [i \in 0 .. n |-> i]
<1>1. n \in Nat /\ DOMAIN list = 1 .. n /\ \A i \in 1 .. n : list[i].order = 0
  BY DEF Legacy
<1> HIDE DEF n
<1>2. f = [i \in 0 .. n |->
             IF i = 0 THEN 0
             ELSE IF list[i].order = 0 THEN f[i - 1] + 1
             ELSE IF list[i].order > f[i - 1] THEN list[i].order ELSE f[i - 1]]
  BY <1>1
<1>3. next = [i \in 0 .. n |->
             IF i = 0 THEN 0
             ELSE IF list[i].order = 0 THEN next[i - 1] + 1
             ELSE IF list[i].order > next[i - 1] THEN list[i].order ELSE next[i - 1]]
  <2> HIDE DEF f
  <2> QED BY <1>2
<1>4. Numbered(list) = [i \in DOMAIN list |->
                           [list[i] EXCEPT !.order = IF @ = 0 THEN next[i] ELSE @]]
  BY Zenon DEF Numbered, n
<1> HIDE DEF next, f
<1> DEFINE T == {i \in 0 .. n : next[i] = i}
<1>5. 0 \in T
  BY <1>1, <1>3
<1>6. ASSUME NEW i \in 1 .. n, i - 1 \in T
      PROVE  i \in T
  <2>1. i \in 0 .. n /\ i # 0 /\ next[i - 1] = i - 1
    BY <1>1, <1>6
  <2>2. next[i] = next[i - 1] + 1
    BY <1>1, <1>3, <2>1
  <2> QED BY <2>1, <2>2
<1>7. \A i \in 0 .. n : i \in T
  <2> HIDE DEF T
  <2> QED BY <1>1, <1>5, <1>6, InductionUpTo
<1>8. \A i \in DOMAIN list : list[i].order = 0 /\ next[i] = i
  BY <1>1, <1>7
<1> QED BY <1>4, <1>8

-----------------------------------------------------------------------------
(* The inductive invariant.                                                *)

\* The active account is saved, and there is one when an account is saved.
Fits(data) == data.active \in IF IdsOf(data.list) = {} THEN {NoId} ELSE IdsOf(data.list)

\* What the methods make of the store, whether or not they can save it.
Sound(data) ==
    /\ data \in Data
    /\ Positive(data.list)
    /\ DistinctIds(data.list)
    /\ ~data.torn => Increasing(data.list)
    /\ Fits(data)

\* What a version of the program without orders has left.
Older(data) ==
    /\ data \in Data
    /\ Legacy(data.list)
    /\ DistinctIds(data.list)
    /\ Fits(data)

\* QueueOrder speaks of memory, but a restart makes memory of the file: so the file, too,
\* is in order or else without any numbers, never with a mixture.
IInv ==
    /\ Sound(mem)
    /\ disk = NoFile \/ Sound(disk) \/ Older(disk)
    /\ up \in BOOLEAN
    /\ reply \in {"none", "ok", "failed", "refused"}
    /\ AckedIsOnDisk

\* No account is active exactly when none is saved.
LEMMA ActiveId ==
    ASSUME NEW data, data \in Data, Fits(data)
    PROVE  IdsOf(data.list) \subseteq Ids /\ (data.active = NoId <=> IdsOf(data.list) = {})
<1>1. \A i \in DOMAIN data.list : data.list[i] \in Account
  BY DEF Data
<1>2. IdsOf(data.list) \subseteq Ids
  BY <1>1 DEF IdsOf, Account
<1> QED BY <1>2, NoIdIsNoId DEF Fits

LEMMA EmptyIsSound == Sound(Empty)
  BY DEF Sound, Empty, Data, Positive, DistinctIds, Increasing, Fits, IdsOf

\* Memory is empty, and the file has no account twice.
LEMMA InitIInv == Init => IInv
<1> SUFFICES ASSUME Init PROVE IInv
  OBVIOUS
<1>1. Sound(mem) /\ up \in BOOLEAN /\ reply = "none"
  BY EmptyIsSound DEF Init
<1>2. ASSUME NEW list \in LegacyLists, NEW a \in IdsOf(list),
             disk = [list |-> list, active |-> a, torn |-> FALSE]
      PROVE  Older(disk)
  <2> PICK n \in 1 .. MaxSaved : \E s \in Injection(1 .. n, Ids) :
            list = [i \in DOMAIN s |-> [id |-> s[i], order |-> 0, secrets |-> {}]]
    BY DEF LegacyLists
  <2>1. PICK s \in Injection(1 .. n, Ids) :
            list = [i \in DOMAIN s |-> [id |-> s[i], order |-> 0, secrets |-> {}]]
    OBVIOUS
  <2>2. s \in [1 .. n -> Ids] /\ \A i, j \in 1 .. n : s[i] = s[j] => i = j
    BY DEF Injection, IsInjective
  <2>3. n \in Nat
    BY <2>1
  <2>4. DOMAIN list = 1 .. n
    BY <2>1, <2>2
  <2>5. ASSUME NEW i \in 1 .. n
        PROVE  list[i] \in Account /\ list[i].id = s[i] /\ list[i].order = 0
    <3> DEFINE x == s[i]
    <3>1. list[i] = [id |-> x, order |-> 0, secrets |-> {}] /\ x \in Ids
      BY <2>1, <2>2
    <3> HIDE DEF x
    <3>2. [id |-> x, order |-> 0, secrets |-> {}] \in Account
      BY <3>1 DEF Account
    <3>3. list[i] \in Account /\ list[i].id = x /\ list[i].order = 0
      BY <3>1, <3>2
    <3> QED BY <3>3 DEF x
  <2>6. list \in Seq(Account)
    <3>1. list \in [1 .. n -> Account]
      BY <2>1, <2>2, <2>4, <2>5
    <3>2. list \in UNION {[1 .. m -> Account] : m \in Nat}
      BY <2>3, <3>1
    <3> HIDE DEF Account
    <3> QED BY <3>2, SeqDef, Zenon
  <2>7. Legacy(list) /\ DistinctIds(list)
    BY <2>2, <2>4, <2>5 DEF Legacy, DistinctIds
  <2>8. IdsOf(list) \subseteq Ids
    BY <2>2, <2>4, <2>5 DEF IdsOf
  <2> QED BY <1>2, <2>6, <2>7, <2>8 DEF Older, Data, Fits
<1>3. disk = NoFile \/ Older(disk)
  BY <1>2 DEF Init
<1> QED BY <1>1, <1>3 DEF IInv, AckedIsOnDisk

\* An id names the one place of its account.
LEMMA IndexOfPlace ==
    ASSUME NEW list \in Seq(Account), DistinctIds(list), NEW a \in IdsOf(list)
    PROVE  /\ IndexOf(list, a) \in DOMAIN list
           /\ list[IndexOf(list, a)].id = a
           /\ \A i \in DOMAIN list : list[i].id = a => i = IndexOf(list, a)
<1>1. \E i \in DOMAIN list : list[i].id = a
  BY DEF IdsOf
<1>2. IndexOf(list, a) \in DOMAIN list /\ list[IndexOf(list, a)].id = a
  BY <1>1 DEF IndexOf
<1> QED BY <1>2 DEF DistinctIds

\* Every account of the first list that is in the second, too, has kept its secrets.
Carries(list, new) ==
    \A i \in DOMAIN list, j \in DOMAIN new :
        list[i].id = new[j].id => list[i].secrets \subseteq new[j].secrets

\* A change of the secrets of one account changes nothing else.
SecretsSet(list, n, held, next) ==
    /\ next \in Seq(Account)
    /\ DOMAIN next = DOMAIN list
    /\ \A i \in DOMAIN list : /\ next[i].id = list[i].id
                              /\ next[i].order = list[i].order
                              /\ next[i].secrets = IF i = n THEN held ELSE list[i].secrets

LEMMA SecretsChange ==
    ASSUME NEW list \in Seq(Account), NEW n \in DOMAIN list, NEW held \in SUBSET Secrets
    PROVE  SecretsSet(list, n, held, [list EXCEPT ![n].secrets = held])
<1> DEFINE next == [list EXCEPT ![n].secrets = held]
<1>1. DOMAIN list = 1 .. Len(list) /\ Len(list) \in Nat
      /\ \A i \in 1 .. Len(list) : list[i] \in Account
  OBVIOUS
<1>2. DOMAIN next = DOMAIN list
  OBVIOUS
<1>3. \A i \in DOMAIN list : /\ next[i] \in Account
                             /\ next[i].id = list[i].id
                             /\ next[i].order = list[i].order
                             /\ next[i].secrets = IF i = n THEN held ELSE list[i].secrets
  BY <1>1 DEF Account
<1>4. next \in [1 .. Len(list) -> Account]
  BY <1>1, <1>3
<1> HIDE DEF next
<1>5. next \in Seq(Account)
  BY <1>1, <1>4, SeqDef
<1>6. SecretsSet(list, n, held, next)
  BY <1>2, <1>3, <1>5 DEF SecretsSet
<1> QED BY <1>6 DEF next

LEMMA SecretsChangeIsSound ==
    ASSUME NEW data, Sound(data), NEW n \in DOMAIN data.list, NEW held \in SUBSET Secrets,
           NEW next, next = [data.list EXCEPT ![n].secrets = held]
    PROVE  /\ Sound([data EXCEPT !.list = next])
           /\ IdsOf(next) = IdsOf(data.list)
<1>1. data.list \in Seq(Account) /\ data \in Data
  BY DEF Sound, Data
<1>2. /\ next \in Seq(Account)
      /\ DOMAIN next = DOMAIN data.list
      /\ \A i \in DOMAIN data.list : next[i].id = data.list[i].id /\ next[i].order = data.list[i].order
  <2>1. SecretsSet(data.list, n, held, next)
    BY <1>1, SecretsChange, Zenon
  <2> QED BY <2>1 DEF SecretsSet
<1> DEFINE d == [data EXCEPT !.list = next]
<1>3. d \in Data /\ d.list = next /\ d.active = data.active /\ d.torn = data.torn
  BY <1>1, <1>2 DEF Data
<1> HIDE DEF d
<1>4. IdsOf(next) = IdsOf(data.list)
  BY <1>2 DEF IdsOf
<1>5. Positive(next) /\ DistinctIds(next) /\ (~data.torn => Increasing(next))
  BY <1>2 DEF Sound, Positive, DistinctIds, Increasing
<1>6. Sound(d)
  BY <1>3, <1>4, <1>5 DEF Sound, Fits
<1> QED BY <1>4, <1>6 DEF d

\* A new account gets a number behind those that are taken.
LEMMA AppendIsSound ==
    ASSUME NEW data, Sound(data), NEW a \in Ids, a \notin IdsOf(data.list),
           NEW held \in SUBSET Secrets,
           NEW next, next = Append(data.list, [id |-> a, order |-> MaxOf(data.list) + 1, secrets |-> held])
    PROVE  /\ Sound([data EXCEPT !.list = next,
                                 !.active = IF data.active = NoId THEN a ELSE data.active])
           /\ IdsOf(next) = IdsOf(data.list) \cup {a}
           /\ Carries(data.list, next)
<1> DEFINE list == data.list
           max == MaxOf(list)
           entry == [id |-> a, order |-> max + 1, secrets |-> held]
           active == IF data.active = NoId THEN a ELSE data.active
           d == [data EXCEPT !.list = next, !.active = active]
<1>1. list \in Seq(Account) /\ data \in Data
  BY DEF Sound, Data
<1>2. max \in Nat /\ \A i \in DOMAIN list : list[i].order <= max
  BY <1>1, MaxOfBounds
<1> HIDE DEF max
<1>3. entry \in Account
  BY <1>2 DEF Account
<1>4. /\ next \in Seq(Account) /\ DOMAIN list = 1 .. Len(list) /\ Len(list) \in Nat
      /\ DOMAIN next = 1 .. Len(list) + 1
      /\ next[Len(list) + 1] = entry /\ \A i \in 1 .. Len(list) : next[i] = list[i]
  <2>1. next = Append(list, entry)
    BY DEF max
  <2> HIDE DEF list, entry
  <2>2. Append(list, entry) \in Seq(Account) /\ Len(Append(list, entry)) = Len(list) + 1
    BY <1>1, <1>3
  <2>3. \A i \in 1 .. Len(list) : Append(list, entry)[i] = list[i]
    BY <1>1, <1>3
  <2>4. Append(list, entry)[Len(list) + 1] = entry
    BY <1>1, <1>3
  <2> QED BY <1>1, <2>1, <2>2, <2>3, <2>4, LenProperties
<1>5. \A i \in DOMAIN next : i \in DOMAIN list \/ i = Len(list) + 1
  BY <1>4
<1>6. IdsOf(next) = IdsOf(list) \cup {a}
  <2>1. next[Len(list) + 1].id = a /\ Len(list) + 1 \in DOMAIN next
    BY <1>4
  <2>2. \A i \in DOMAIN list : i \in DOMAIN next /\ next[i].id = list[i].id
    BY <1>4
  <2> HIDE DEF list
  <2> QED BY <1>5, <2>1, <2>2 DEF IdsOf
<1>7. \A i \in DOMAIN list : list[i].id # a
  BY DEF IdsOf
<1>8. DistinctIds(next)
  BY <1>4, <1>5, <1>7 DEF DistinctIds, Sound
<1>9. Positive(next)
  BY <1>2, <1>4, <1>5 DEF Positive, Sound
<1>10. ASSUME ~data.torn PROVE Increasing(next)
  <2> SUFFICES ASSUME NEW i \in DOMAIN next, NEW j \in DOMAIN next, i < j
               PROVE  next[i].order < next[j].order
    BY DEF Increasing
  <2>1. i \in DOMAIN list /\ list[i] \in Account
    BY <1>1, <1>4
  <2>2. CASE j \in DOMAIN list
    BY <1>4, <1>10, <2>1, <2>2 DEF Sound, Increasing
  <2>3. CASE j = Len(list) + 1
    <3>1. list[i].order <= max /\ list[i].order \in Nat
      BY <1>2, <2>1 DEF Account
    <3> QED BY <1>2, <1>4, <2>1, <2>3, <3>1
  <2> QED BY <1>5, <2>2, <2>3
<1>11. Carries(list, next)
  BY <1>4, <1>5, <1>7 DEF Carries, Sound, DistinctIds
<1>12. data.active = NoId \/ data.active \in IdsOf(list)
  BY DEF Sound, Fits
<1>13. active \in IdsOf(list) \cup {a} /\ active \in Ids \cup {NoId}
  BY <1>1, <1>12 DEF Data
<1> HIDE DEF active, entry, list
<1>14. d \in Data /\ d.list = next /\ d.active = active /\ d.torn = data.torn
  BY <1>1, <1>4, <1>13 DEF Data
<1> HIDE DEF d
<1>15. Sound(d)
  BY <1>6, <1>8, <1>9, <1>10, <1>13, <1>14 DEF Sound, Fits
<1> QED BY <1>6, <1>11, <1>15 DEF d, list, active

-----------------------------------------------------------------------------
(* What every method makes of the store.                                   *)

\* The store becomes data, and perhaps the file does; its accounts are ids.
Becomes(data, ids, active) ==
    SaveLocked(data) /\ Sound(data) /\ IdsOf(data.list) = ids /\ data.active = active

LEMMA UpsertYields ==
    ASSUME IInv, NEW a \in Ids, NEW fresh \in SUBSET (Secrets \cap {"zai"}), Upsert(a, fresh)
    PROVE  \E data : /\ Becomes(data, IdsOf(mem.list) \cup {a}, IF mem.active = NoId THEN a ELSE mem.active)
                     /\ Carries(mem.list, data.list)
<1> DEFINE active == IF mem.active = NoId THEN a ELSE mem.active
<1>1. Sound(mem) /\ mem \in Data /\ mem.list \in Seq(Account) /\ DistinctIds(mem.list)
  BY DEF IInv, Sound, Data
<1>2. CASE a \in IdsOf(mem.list)
  <2> DEFINE n == IndexOf(mem.list, a)
             held == mem.list[n].secrets \cup fresh
             list == [mem.list EXCEPT ![n].secrets = held]
  <2>1. n \in DOMAIN mem.list /\ mem.list[n].id = a
    BY <1>1, <1>2, IndexOfPlace
  <2>2. SaveLocked([mem EXCEPT !.list = list, !.active = active])
    BY <1>2 DEF Upsert
  <2>3. active = mem.active
    BY <1>1, <1>2, ActiveId DEF Sound
  <2>4. mem.list[n] \in Account
    BY <1>1, <2>1
  <2>5. held \in SUBSET Secrets
    BY <2>4 DEF Account
  <2> HIDE DEF n, held
  <2>6. Sound([mem EXCEPT !.list = list]) /\ IdsOf(list) = IdsOf(mem.list)
    BY <1>1, <2>1, <2>5, SecretsChangeIsSound
  <2>7. SecretsSet(mem.list, n, held, list)
    BY <1>1, <2>1, <2>5, SecretsChange, Zenon
  <2>8. Carries(mem.list, list)
    BY <1>1, <2>7 DEF Carries, SecretsSet, DistinctIds, held
  <2> HIDE DEF list, active
  <2> DEFINE d == [mem EXCEPT !.list = list]
  <2>9. d = [mem EXCEPT !.list = list, !.active = active] /\ d.list = list /\ d.active = active
    BY <1>1, <2>3 DEF Data
  <2>10. IdsOf(d.list) = IdsOf(mem.list) \cup {a}
    BY <1>2, <2>6, <2>9
  <2> HIDE DEF d
  <2>11. SaveLocked(d) /\ Sound(d)
    BY <2>2, <2>6, <2>9 DEF d
  <2> QED BY <2>8, <2>9, <2>10, <2>11 DEF Becomes, active
<1>3. CASE a \notin IdsOf(mem.list)
  <2> DEFINE list == Append(mem.list, [id |-> a, order |-> MaxOf(mem.list) + 1, secrets |-> fresh])
             d == [mem EXCEPT !.list = list, !.active = active]
  <2>1. SaveLocked(d)
    BY <1>3 DEF Upsert
  <2>2. fresh \in SUBSET Secrets
    OBVIOUS
  <2>3. Sound(d) /\ IdsOf(list) = IdsOf(mem.list) \cup {a} /\ Carries(mem.list, list)
    BY <1>1, <1>3, <2>2, AppendIsSound, Zenon
  <2>4. d.list = list /\ d.active = active
    BY <1>1 DEF Data
  <2> HIDE DEF d, list, active
  <2> QED BY <2>1, <2>3, <2>4 DEF Becomes, active
<1> QED BY <1>2, <1>3

LEMMA UpdateYields ==
    ASSUME IInv, NEW a \in Ids, NEW isKey \in BOOLEAN, UpdateCodingPlanAPIKey(a, isKey)
    PROVE  \E data : /\ Becomes(data, IdsOf(mem.list), mem.active)
                     /\ isKey => Carries(mem.list, data.list)
                     /\ \A i \in DOMAIN mem.list, j \in DOMAIN data.list :
                           mem.list[i].id = data.list[j].id /\ mem.list[i].id # a
                              => mem.list[i].secrets \subseteq data.list[j].secrets
<1> DEFINE n == IndexOf(mem.list, a)
           held == IF isKey THEN mem.list[n].secrets \cup {"plan"} ELSE mem.list[n].secrets \ {"plan"}
           list == [mem.list EXCEPT ![n].secrets = held]
           d == [mem EXCEPT !.list = list]
<1>1. /\ Sound(mem) /\ mem \in Data /\ mem.list \in Seq(Account) /\ DistinctIds(mem.list)
      /\ a \in IdsOf(mem.list) /\ "plan" \in Secrets
  BY DEF IInv, Sound, Data, UpdateCodingPlanAPIKey
<1>2. n \in DOMAIN mem.list /\ mem.list[n].id = a
  BY <1>1, IndexOfPlace
<1>3. SaveLocked(d)
  BY <1>1, <1>2 DEF UpdateCodingPlanAPIKey, Data
<1>4. mem.list[n] \in Account
  BY <1>1, <1>2
<1>5. held \in SUBSET Secrets
  BY <1>1, <1>4 DEF Account
<1>6. isKey => mem.list[n].secrets \subseteq held
  OBVIOUS
<1> HIDE DEF n, held
<1>7. Sound(d) /\ IdsOf(list) = IdsOf(mem.list)
  BY <1>1, <1>2, <1>5, SecretsChangeIsSound
<1>8. SecretsSet(mem.list, n, held, list)
  BY <1>1, <1>2, <1>5, SecretsChange, Zenon
<1>9. d.list = list /\ d.active = mem.active
  BY <1>1 DEF Data
<1> HIDE DEF d, list
<1>10. isKey => Carries(mem.list, list)
  BY <1>1, <1>6, <1>8 DEF Carries, SecretsSet, DistinctIds
<1>11. ASSUME NEW i \in DOMAIN mem.list, NEW j \in DOMAIN list,
              mem.list[i].id = list[j].id, mem.list[i].id # a
       PROVE  mem.list[i].secrets \subseteq list[j].secrets
  BY <1>1, <1>2, <1>8, <1>11 DEF SecretsSet, DistinctIds
<1> QED BY <1>3, <1>7, <1>9, <1>10, <1>11 DEF Becomes

LEMMA ActivateYields ==
    ASSUME IInv, NEW a \in Ids, Activate(a)
    PROVE  \E data : Becomes(data, IdsOf(mem.list), a) /\ Carries(mem.list, data.list)
<1> DEFINE d == [mem EXCEPT !.active = a]
<1>1. Sound(mem) /\ mem \in Data /\ a \in IdsOf(mem.list) /\ SaveLocked(d)
  BY DEF IInv, Sound, Activate
<1>2. d \in Data /\ d.list = mem.list /\ d.active = a /\ d.torn = mem.torn
  BY <1>1 DEF Data
<1> HIDE DEF d
<1>3. Sound(d)
  BY <1>1, <1>2 DEF Sound, Fits
<1>4. Carries(mem.list, d.list)
  BY <1>1, <1>2 DEF Carries, Sound, DistinctIds
<1> QED BY <1>1, <1>2, <1>3, <1>4 DEF Becomes

\* Every saved account is listed once, so that the accepted order numbers all of them.
LEMMA ReorderAllYields ==
    ASSUME IInv, NEW order \in Injection(1 .. Len(mem.list), Ids), ReorderAll(order)
    PROVE  \E data : Becomes(data, IdsOf(mem.list), mem.active) /\ Carries(mem.list, data.list)
<1> DEFINE n == Len(mem.list)
           at(i) == IndexOf(mem.list, order[i])
           list == [i \in DOMAIN order |-> [mem.list[at(i)] EXCEPT !.order = i]]
           d == [mem EXCEPT !.list = list, !.torn = FALSE]
<1>1. /\ Sound(mem) /\ mem \in Data /\ mem.list \in Seq(Account) /\ DistinctIds(mem.list)
      /\ IdsOf(mem.list) = Range(order) /\ SaveLocked(d)
  BY DEF IInv, Sound, Data, ReorderAll
<1>2. n \in Nat /\ order \in [1 .. n -> Ids] /\ \A i, j \in 1 .. n : order[i] = order[j] => i = j
  BY <1>1 DEF Injection, IsInjective
<1> HIDE DEF n
<1>3. DOMAIN order = 1 .. n /\ \A i \in 1 .. n : order[i] \in IdsOf(mem.list)
  BY <1>1, <1>2 DEF Range
<1>4. ASSUME NEW i \in 1 .. n
      PROVE  at(i) \in DOMAIN mem.list /\ mem.list[at(i)].id = order[i]
  BY <1>1, <1>3, IndexOfPlace
<1> HIDE DEF at
<1>5. ASSUME NEW i \in 1 .. n
      PROVE  /\ list[i] \in Account /\ list[i].id = order[i] /\ list[i].order = i
             /\ list[i].secrets = mem.list[at(i)].secrets
  <2>1. mem.list[at(i)] \in Account /\ i \in Nat
    BY <1>1, <1>2, <1>4
  <2>2. list[i] = [mem.list[at(i)] EXCEPT !.order = i]
    BY <1>3
  <2> QED BY <1>4, <2>1, <2>2 DEF Account
<1>6. DOMAIN list = 1 .. n
  BY <1>3
<1>7. list \in Seq(Account)
  <2>1. list \in [1 .. n -> Account]
    BY <1>3, <1>5
  <2>2. list \in UNION {[1 .. m -> Account] : m \in Nat}
    BY <1>2, <2>1
  <2> HIDE DEF list, Account
  <2> QED BY <2>2, SeqDef, Zenon
<1> HIDE DEF list
<1>8. Positive(list) /\ DistinctIds(list) /\ Increasing(list)
  BY <1>2, <1>5, <1>6 DEF Positive, DistinctIds, Increasing
<1>9. IdsOf(list) = IdsOf(mem.list)
  <2>1. IdsOf(list) = {order[i] : i \in 1 .. n}
    BY <1>5, <1>6 DEF IdsOf
  <2> QED BY <1>1, <1>3, <2>1 DEF Range
<1>10. Carries(mem.list, list)
  <2> SUFFICES ASSUME NEW i \in DOMAIN mem.list, NEW j \in DOMAIN list, mem.list[i].id = list[j].id
               PROVE  mem.list[i].secrets \subseteq list[j].secrets
    BY DEF Carries
  <2>1. i = at(j)
    BY <1>1, <1>4, <1>5, <1>6 DEF DistinctIds
  <2> QED BY <1>5, <1>6, <2>1
<1>11. d \in Data /\ d.list = list /\ d.active = mem.active
  BY <1>1, <1>7 DEF Data
<1> HIDE DEF d
<1>12. Sound(d)
  BY <1>1, <1>8, <1>9, <1>11 DEF Sound, Fits
<1> QED BY <1>1, <1>9, <1>10, <1>11, <1>12 DEF Becomes

\* The refused order changes numbers, if any, and says so.
LEMMA ReorderUnknownYields ==
    ASSUME IInv, NEW order \in Injection(1 .. Len(mem.list), Ids), ReorderUnknown(order)
    PROVE  /\ Sound(mem') /\ IdsOf(mem'.list) = IdsOf(mem.list) /\ mem'.active = mem.active
           /\ Carries(mem.list, mem'.list)
<1> DEFINE old == mem.list
           listed(i) == old[i].id \in Range(order)
           place(i) == CHOOSE n \in DOMAIN order : order[n] = old[i].id
           reached == {i \in DOMAIN old : \A j \in 1 .. i : listed(j)}
           list == [i \in DOMAIN old |->
                      IF i \in reached THEN [old[i] EXCEPT !.order = place(i)] ELSE old[i]]
           torn == mem.torn \/ reached # {}
<1>1. Sound(mem) /\ mem \in Data /\ old \in Seq(Account) /\ DistinctIds(old)
  BY DEF IInv, Sound, Data
<1>2. mem' = [mem EXCEPT !.list = list, !.torn = torn]
  BY DEF ReorderUnknown
<1>3. DOMAIN order = 1 .. Len(old) /\ Len(old) \in Nat /\ DOMAIN old = 1 .. Len(old)
  BY <1>1 DEF Injection
<1>4. ASSUME NEW i \in reached PROVE place(i) \in Nat \ {0}
  <2>1. i \in 1 .. i
    BY <1>3
  <2>2. \E n \in DOMAIN order : order[n] = old[i].id
    BY <2>1 DEF Range
  <2>3. place(i) \in DOMAIN order
    BY <2>2
  <2> HIDE DEF place
  <2> QED BY <1>3, <2>3
<1>5. torn \in BOOLEAN /\ (~torn => reached = {} /\ ~mem.torn)
  BY <1>1 DEF Data
<1> HIDE DEF place, reached, torn
<1>6. ASSUME NEW i \in DOMAIN old
      PROVE  /\ list[i] \in Account /\ list[i].id = old[i].id /\ list[i].order > 0
             /\ list[i].secrets = old[i].secrets
             /\ i \notin reached => list[i] = old[i]
  <2>1. old[i] \in Account /\ old[i].order > 0
    BY <1>1 DEF Sound, Positive
  <2>2. CASE i \in reached
    <3>1. list[i] = [old[i] EXCEPT !.order = place(i)]
      BY <2>2
    <3> QED BY <1>4, <2>1, <2>2, <3>1 DEF Account
  <2>3. CASE i \notin reached
    BY <2>1, <2>3 DEF Account
  <2> QED BY <2>2, <2>3
<1>7. DOMAIN list = DOMAIN old
  OBVIOUS
<1>8. list \in Seq(Account)
  <2>1. list \in [1 .. Len(old) -> Account]
    BY <1>3, <1>6
  <2> HIDE DEF list
  <2> QED BY <1>3, <2>1, SeqDef
<1> HIDE DEF list
<1>9. mem' \in Data /\ mem'.list = list /\ mem'.active = mem.active /\ mem'.torn = torn
  BY <1>1, <1>2, <1>5, <1>8 DEF Data
<1>10. IdsOf(list) = IdsOf(old)
  BY <1>6, <1>7 DEF IdsOf
<1>11. Positive(list) /\ DistinctIds(list)
  BY <1>1, <1>6, <1>7 DEF Positive, DistinctIds
<1>12. ~torn => Increasing(list)
  BY <1>1, <1>5, <1>6, <1>7 DEF Sound, Increasing
<1>13. Carries(old, list)
  BY <1>1, <1>6, <1>7 DEF Carries, DistinctIds
<1> QED BY <1>1, <1>9, <1>10, <1>11, <1>12, <1>13 DEF Sound, Fits

\* What Remove keeps is in order, and the first of it takes over when it must.
LEMMA RemoveYields ==
    ASSUME IInv, NEW a \in Ids, Remove(a)
    PROVE  \E data, active :
              /\ Becomes(data, IdsOf(mem.list) \ {a}, active)
              /\ IF mem.active = a
                 THEN active \in IF IdsOf(mem.list) = {a} THEN {NoId} ELSE IdsOf(mem.list) \ {a}
                 ELSE active = mem.active
              /\ Carries(mem.list, data.list)
<1> DEFINE old == mem.list
           rest == Without(old, a)
           active == IF mem.active # a THEN mem.active ELSE IF rest = <<>> THEN NoId ELSE rest[1].id
           d == [mem EXCEPT !.list = rest, !.active = active]
<1>1. /\ Sound(mem) /\ mem \in Data /\ old \in Seq(Account) /\ DistinctIds(old)
      /\ a \in IdsOf(old)
  BY DEF IInv, Sound, Data, Remove
<1>2. SaveLocked(d)
  BY DEF Remove
<1>3. Kept(rest, old, a, Len(old))
  BY <1>1, WithoutKeeps
<1> HIDE DEF rest
<1>4. /\ rest \in Seq(Account)
      /\ DOMAIN old = 1 .. Len(old)
      /\ \A m \in DOMAIN rest : \E i \in DOMAIN old : rest[m] = old[i] /\ old[i].id # a
      /\ \A i \in DOMAIN old : old[i].id # a => \E m \in DOMAIN rest : rest[m] = old[i]
      /\ \A m, l \in DOMAIN rest : m < l =>
            \E i, j \in DOMAIN old : i < j /\ rest[m] = old[i] /\ rest[l] = old[j]
  <2>1. DOMAIN old = 1 .. Len(old)
    BY <1>1, LenProperties
  <2> HIDE DEF old
  <2>2. rest \in Seq(Account)
    BY <1>3 DEF Kept
  <2>3. \A m \in DOMAIN rest : \E i \in DOMAIN old : rest[m] = old[i] /\ old[i].id # a
    BY <1>3, <2>1 DEF Kept
  <2>4. \A i \in DOMAIN old : old[i].id # a => \E m \in DOMAIN rest : rest[m] = old[i]
    BY <1>3, <2>1 DEF Kept
  <2>5. \A m, l \in DOMAIN rest : m < l =>
            \E i, j \in DOMAIN old : i < j /\ rest[m] = old[i] /\ rest[l] = old[j]
    <3> SUFFICES ASSUME NEW m \in DOMAIN rest, NEW l \in DOMAIN rest, m < l
                 PROVE  \E i, j \in DOMAIN old : i < j /\ rest[m] = old[i] /\ rest[l] = old[j]
      OBVIOUS
    <3>1. PICK i, j \in 1 .. Len(old) : i < j /\ rest[m] = old[i] /\ rest[l] = old[j]
      BY <1>3, Zenon DEF Kept
    <3> QED BY <2>1, <3>1
  <2> QED BY <2>1, <2>2, <2>3, <2>4, <2>5
<1>5. DOMAIN rest = 1 .. Len(rest) /\ Len(rest) \in Nat
  BY <1>4
<1>6. Positive(rest)
  BY <1>1, <1>4 DEF Sound, Positive
<1>7. DistinctIds(rest)
  <2> SUFFICES ASSUME NEW m \in DOMAIN rest, NEW l \in DOMAIN rest, m < l
               PROVE  rest[m].id # rest[l].id
    BY <1>5 DEF DistinctIds
  <2>1. PICK i, j \in DOMAIN old : i < j /\ rest[m] = old[i] /\ rest[l] = old[j]
    BY <1>4
  <2> QED BY <1>1, <1>4, <2>1 DEF DistinctIds
<1>8. ~mem.torn => Increasing(rest)
  BY <1>1, <1>4 DEF Sound, Increasing
<1>9. IdsOf(rest) = IdsOf(old) \ {a}
  BY <1>4 DEF IdsOf
<1>10. Carries(old, rest)
  <2> SUFFICES ASSUME NEW i \in DOMAIN old, NEW m \in DOMAIN rest, old[i].id = rest[m].id
               PROVE  old[i].secrets \subseteq rest[m].secrets
    BY DEF Carries
  <2>1. PICK j \in DOMAIN old : rest[m] = old[j]
    BY <1>4
  <2>2. i = j
    BY <1>1, <2>1 DEF DistinctIds
  <2> QED BY <2>1, <2>2
<1>11. IdsOf(old) \subseteq Ids /\ (mem.active = NoId <=> IdsOf(old) = {})
  BY <1>1, ActiveId DEF Sound
<1>12. mem.active \in IdsOf(old)
  BY <1>1, <1>11 DEF Sound, Fits
<1>13. active \in IF IdsOf(rest) = {} THEN {NoId} ELSE IdsOf(rest)
  <2>1. CASE mem.active # a
    BY <1>9, <1>12, <2>1
  <2>2. CASE mem.active = a /\ rest = <<>>
    <3>1. IdsOf(rest) = {}
      BY <2>2 DEF IdsOf
    <3> QED BY <2>2, <3>1
  <2>3. CASE mem.active = a /\ rest # <<>>
    <3>1. 1 \in DOMAIN rest
      BY <1>4, <1>5, <2>3
    <3>2. rest[1].id \in IdsOf(rest)
      BY <3>1 DEF IdsOf
    <3> QED BY <2>3, <3>2
  <2> QED BY <2>1, <2>2, <2>3
<1>14. mem.active # a => active = mem.active
  OBVIOUS
<1> HIDE DEF active
<1>15. active \in Ids \cup {NoId}
  BY <1>9, <1>11, <1>13
<1>16. d \in Data /\ d.list = rest /\ d.active = active /\ d.torn = mem.torn
  BY <1>1, <1>4, <1>15 DEF Data
<1> HIDE DEF d
<1>17. Sound(d)
  BY <1>6, <1>7, <1>8, <1>13, <1>16 DEF Sound, Fits
<1>18. Becomes(d, IdsOf(old) \ {a}, active)
  BY <1>2, <1>9, <1>16, <1>17 DEF Becomes
<1>19. active \in IF IdsOf(old) = {a} THEN {NoId} ELSE IdsOf(old) \ {a}
  <2>1. IdsOf(rest) = {} <=> IdsOf(old) = {a}
    <3> HIDE DEF old
    <3> QED BY <1>1, <1>9
  <2> QED BY <1>9, <1>13, <2>1
<1> QED BY <1>10, <1>14, <1>16, <1>18, <1>19

\* A file that an older version has left is put in order when it is loaded.
LEMMA LoadedIsSound ==
    ASSUME NEW data, Sound(data) \/ Older(data)
    PROVE  /\ Sound([data EXCEPT !.list = Numbered(data.list)])
           /\ Sound(data) => [data EXCEPT !.list = Numbered(data.list)] = data
<1> DEFINE old == data.list
           list == Numbered(old)
           d == [data EXCEPT !.list = list]
<1>1. data \in Data /\ old \in Seq(Account)
  BY DEF Sound, Older, Data
<1>2. ASSUME Sound(data) PROVE d = data
  <2>1. list = old
    BY <1>1, <1>2, NumberedKeeps DEF Sound
  <2> HIDE DEF list
  <2> QED BY <1>1, <2>1 DEF Data
<1>3. ASSUME Older(data) PROVE Sound(d)
  <2>1. list = [i \in DOMAIN old |-> [old[i] EXCEPT !.order = i]]
    BY <1>1, <1>3, NumberedFromOne DEF Older
  <2>2. DOMAIN old = 1 .. Len(old) /\ Len(old) \in Nat
    BY <1>1
  <2> HIDE DEF list
  <2>3. DOMAIN list = DOMAIN old
    BY <2>1
  <2>4. ASSUME NEW i \in DOMAIN old
        PROVE  list[i] \in Account /\ list[i].id = old[i].id /\ list[i].order = i /\ i \in Nat \ {0}
    <3>1. old[i] \in Account /\ i \in Nat \ {0}
      BY <1>1, <2>2
    <3>2. list[i] = [old[i] EXCEPT !.order = i]
      BY <2>1
    <3> QED BY <3>1, <3>2 DEF Account
  <2>5. list \in Seq(Account)
    <3>1. list \in [1 .. Len(old) -> Account]
      BY <2>1, <2>2, <2>4
    <3> QED BY <2>2, <3>1, SeqDef
  <2>6. Positive(list) /\ DistinctIds(list) /\ Increasing(list)
    BY <1>3, <2>3, <2>4 DEF Older, Positive, DistinctIds, Increasing
  <2>7. IdsOf(list) = IdsOf(old)
    BY <2>3, <2>4 DEF IdsOf
  <2>8. d \in Data /\ d.list = list /\ d.active = data.active /\ d.torn = data.torn
    BY <1>1, <2>5 DEF Data
  <2> HIDE DEF d
  <2> QED BY <1>3, <2>6, <2>7, <2>8 DEF Older, Sound, Fits
<1> HIDE DEF list, d
<1>4. Sound(d) /\ (Sound(data) => d = data)
  BY <1>2, <1>3
<1> QED BY <1>4 DEF d, list

LEMMA NewStoreYields ==
    ASSUME IInv, NewStore
    PROVE  Sound(mem') /\ (disk' = NoFile \/ Sound(disk') \/ Older(disk')) /\ up' /\ reply' = "none"
<1>1. CASE disk = NoFile
  <2>1. mem' = Empty /\ UNCHANGED disk /\ up' = TRUE /\ reply' = "none"
    BY <1>1 DEF NewStore
  <2> QED BY <1>1, <2>1, EmptyIsSound
<1>2. CASE disk # NoFile
  <2> DEFINE data == [disk EXCEPT !.list = Numbered(disk.list)]
  <2>1. Sound(data)
    BY <1>2, LoadedIsSound DEF IInv
  <2>2. mem' = data /\ disk' \in {disk, data} /\ up' = TRUE /\ reply' = "none"
    BY <1>2 DEF NewStore
  <2> HIDE DEF data
  <2> QED BY <1>2, <2>1, <2>2 DEF IInv
<1> QED BY <1>1, <1>2

\* Saved or not, memory has changed, and the outcome says whether the file has.
LEMMA SaveLockedIInv ==
    ASSUME IInv, NEW data, Sound(data), SaveLocked(data)
    PROVE  IInv'
  BY DEF IInv, SaveLocked, AckedIsOnDisk

LEMMA StepIInv == IInv /\ [Next]_vars => IInv'
<1> SUFFICES ASSUME IInv, [Next]_vars PROVE IInv'
  OBVIOUS
<1>1. ASSUME NEW a \in Ids, NEW fresh \in SUBSET (Secrets \cap {"zai"}), Upsert(a, fresh)
      PROVE  IInv'
  BY <1>1, UpsertYields, SaveLockedIInv DEF Becomes
<1>2. ASSUME NEW a \in Ids, NEW isKey \in BOOLEAN, UpdateCodingPlanAPIKey(a, isKey)
      PROVE  IInv'
  BY <1>2, UpdateYields, SaveLockedIInv DEF Becomes
<1>3. ASSUME NEW a \in Ids, Activate(a)
      PROVE  IInv'
  BY <1>3, ActivateYields, SaveLockedIInv DEF Becomes
<1>4. ASSUME NEW a \in Ids, Remove(a)
      PROVE  IInv'
  BY <1>4, RemoveYields, SaveLockedIInv DEF Becomes
<1>5. ASSUME NEW a \in Ids, RemoveBackupFails(a)
      PROVE  IInv'
  BY <1>5 DEF IInv, RemoveBackupFails, AckedIsOnDisk
<1>6. ASSUME NEW order \in Injection(1 .. Len(mem.list), Ids), ReorderAll(order)
      PROVE  IInv'
  BY <1>6, ReorderAllYields, SaveLockedIInv DEF Becomes
<1>7. ASSUME NEW order \in Injection(1 .. Len(mem.list), Ids), ReorderUnknown(order)
      PROVE  IInv'
  <2>1. Sound(mem')
    BY <1>7, ReorderUnknownYields
  <2>2. reply' = "refused" /\ UNCHANGED <<disk, up>>
    BY <1>7 DEF ReorderUnknown
  <2> QED BY <2>1, <2>2 DEF IInv, AckedIsOnDisk
<1>8. CASE Crash
  BY <1>8, EmptyIsSound DEF IInv, Crash, AckedIsOnDisk
<1>9. CASE NewStore
  BY <1>9, NewStoreYields DEF IInv, AckedIsOnDisk
<1>10. CASE UNCHANGED vars
  BY <1>10 DEF IInv, vars, Sound, Older, AckedIsOnDisk
<1> QED BY <1>1, <1>2, <1>3, <1>4, <1>5, <1>6, <1>7, <1>8, <1>9, <1>10 DEF Next

LEMMA Invariance == Spec => []IInv
  BY InitIInv, StepIInv, PTL DEF Spec

-----------------------------------------------------------------------------
(* The theorems.                                                           *)

\* Memory and file keep their types, and every account in memory has a number: also
\* after the program has loaded the file of a version that had no numbers.
THEOREM Typing == Spec => []TypeOK
<1>1. IInv => TypeOK
  BY DEF IInv, TypeOK, Sound, Older, Positive
<1> QED BY <1>1, Invariance, PTL

\* The list is in the order of its numbers, whatever is saved, removed, reordered, lost by
\* a failed save or read again after a crash, unless an order has been refused half-way.
THEOREM Queue == Spec => []QueueOrder
<1>1. IInv => QueueOrder
  BY DEF IInv, QueueOrder, Ordered, Sound, DistinctIds, Increasing
<1> QED BY <1>1, Invariance, PTL

\* A method that reports success has written what it has changed.
THEOREM Acknowledged == Spec => []AckedIsOnDisk
<1>1. IInv => AckedIsOnDisk
  BY DEF IInv
<1> QED BY <1>1, Invariance, PTL

\* What an account still has, seen through the list that is in memory.
LEMMA CarriedSecrets ==
    ASSUME Sound(mem), Sound(mem'), NEW a \in Ids,
           \A i \in DOMAIN mem.list, j \in DOMAIN mem'.list :
              mem.list[i].id = mem'.list[j].id /\ mem.list[i].id = a
                 => mem.list[i].secrets \subseteq mem'.list[j].secrets
    PROVE  SecretsOf(a) \subseteq SecretsOf(a)' \/ a \notin IdsOf(mem'.list)
<1>1. CASE a \in IdsOf(mem.list) /\ a \in IdsOf(mem'.list)
  <2> DEFINE i == IndexOf(mem.list, a)
             j == IndexOf(mem'.list, a)
  <2>1. i \in DOMAIN mem.list /\ mem.list[i].id = a
    BY <1>1, IndexOfPlace DEF Sound, Data
  <2>2. j \in DOMAIN mem'.list /\ mem'.list[j].id = a
    BY <1>1, IndexOfPlace DEF Sound, Data
  <2>3. mem.list[i].secrets \subseteq mem'.list[j].secrets
    BY <2>1, <2>2
  <2>4. SecretsOf(a) = mem.list[i].secrets
    BY <1>1 DEF SecretsOf
  <2>5. SecretsOf(a)' = mem'.list[j].secrets
    BY <1>1 DEF SecretsOf
  <2> QED BY <2>3, <2>4, <2>5
<1>2. CASE a \notin IdsOf(mem.list)
  BY <1>2 DEF SecretsOf
<1> QED BY <1>1, <1>2

\* No login and no change of another account loses a secret, for any two steps of the
\* running program: Upsert merges, Reorder and Remove keep the accounts as they are.
THEOREM Secrecy == Spec => SecretsKept
<1> DEFINE Kind(a) == \/ SecretsOf(a) \subseteq SecretsOf(a)'
                      \/ a \notin IdsOf(mem'.list)
                      \/ UpdateCodingPlanAPIKey(a, FALSE)
<1>1. ASSUME IInv, IInv', [Next]_vars, up, up', NEW a \in Ids
      PROVE  Kind(a)
  <2>1. Sound(mem) /\ Sound(mem')
    BY <1>1 DEF IInv
  <2>2. ASSUME Carries(mem.list, mem'.list) PROVE Kind(a)
    BY <2>1, <2>2, CarriedSecrets DEF Carries
  <2>3. ASSUME NEW data, NEW ids, NEW active, Becomes(data, ids, active)
        PROVE  mem' = data
    BY <2>3 DEF Becomes, SaveLocked
  <2> HIDE DEF Kind
  <2>4. ASSUME NEW b \in Ids, NEW fresh \in SUBSET (Secrets \cap {"zai"}), Upsert(b, fresh)
        PROVE  Kind(a)
    BY <1>1, <2>2, <2>3, <2>4, UpsertYields
  <2>5. ASSUME NEW b \in Ids, NEW isKey \in BOOLEAN, UpdateCodingPlanAPIKey(b, isKey)
        PROVE  Kind(a)
    <3>1. PICK data : /\ Becomes(data, IdsOf(mem.list), mem.active)
                      /\ isKey => Carries(mem.list, data.list)
                      /\ \A i \in DOMAIN mem.list, j \in DOMAIN data.list :
                            mem.list[i].id = data.list[j].id /\ mem.list[i].id # b
                               => mem.list[i].secrets \subseteq data.list[j].secrets
      BY <1>1, <2>5, UpdateYields
    <3>2. mem' = data
      BY <2>3, <3>1
    <3>3. CASE isKey
      BY <2>2, <3>1, <3>2, <3>3
    <3>4. CASE ~isKey /\ a = b
      BY <2>5, <3>4 DEF Kind
    <3>5. CASE a # b
      BY <2>1, <3>1, <3>2, <3>5, CarriedSecrets DEF Kind
    <3> QED BY <3>3, <3>4, <3>5
  <2>6. ASSUME NEW b \in Ids, Activate(b) PROVE Kind(a)
    BY <1>1, <2>2, <2>3, <2>6, ActivateYields
  <2>7. ASSUME NEW b \in Ids, Remove(b) PROVE Kind(a)
    BY <1>1, <2>2, <2>3, <2>7, RemoveYields
  <2>8. ASSUME NEW order \in Injection(1 .. Len(mem.list), Ids),
               ReorderAll(order) \/ ReorderUnknown(order)
        PROVE  Kind(a)
    BY <1>1, <2>2, <2>3, <2>8, ReorderAllYields, ReorderUnknownYields
  <2>9. ASSUME UNCHANGED mem PROVE Kind(a)
    BY <2>9 DEF Kind, SecretsOf
  <2>10. UNCHANGED mem \/ (~Crash /\ ~NewStore)
    BY <1>1 DEF Crash, NewStore
  <2> QED BY <1>1, <2>4, <2>5, <2>6, <2>7, <2>8, <2>9, <2>10 DEF Next, vars, RemoveBackupFails
<1>2. IInv /\ IInv' /\ [Next]_vars => [up /\ up' => \A a \in Ids : Kind(a)]_vars
  BY <1>1
<1> QED BY <1>2, Invariance, PTL DEF Spec, SecretsKept

\* The vault is a set of accounts with an active one: every method adds, activates or
\* drops an account, or changes neither; a restart may bring an older set back.
THEOREM Refinement == Spec => KeepsPromise
<1> DEFINE ids == IdsOf(mem.list)
           active == mem.active
<1>1. Init => Promise!SetInit
  BY DEF Init, Empty, IdsOf, Promise!SetInit
<1>2. ASSUME IInv, IInv', [Next]_vars
      PROVE  Promise!SetNext \/ UNCHANGED <<ids, active>>
  <2>1. ASSUME NEW data, NEW n, NEW b, Becomes(data, n, b)
        PROVE  ids' = n /\ active' = b
    BY <2>1 DEF Becomes, SaveLocked
  <2>2. IdsOf(mem'.list) = ids' /\ mem'.active = active'
    OBVIOUS
  <2>3. ASSUME NEW a \in Ids, NEW fresh \in SUBSET (Secrets \cap {"zai"}), Upsert(a, fresh)
        PROVE  Promise!Add(a)
    <3>1. PICK data : Becomes(data, IdsOf(mem.list) \cup {a}, IF mem.active = NoId THEN a ELSE mem.active)
      BY <1>2, <2>3, UpsertYields
    <3> QED BY <2>1, <3>1 DEF Promise!Add
  <2>4. ASSUME NEW a \in Ids, NEW isKey \in BOOLEAN, UpdateCodingPlanAPIKey(a, isKey)
        PROVE  UNCHANGED <<ids, active>>
    <3>1. PICK data : Becomes(data, IdsOf(mem.list), mem.active)
      BY <1>2, <2>4, UpdateYields
    <3> QED BY <2>1, <3>1
  <2>5. ASSUME NEW a \in Ids, Activate(a)
        PROVE  Promise!Activate(a)
    <3>1. PICK data : Becomes(data, IdsOf(mem.list), a)
      BY <1>2, <2>5, ActivateYields
    <3>2. a \in IdsOf(mem.list)
      BY <2>5 DEF Activate
    <3> QED BY <2>1, <3>1, <3>2 DEF Promise!Activate
  <2>6. ASSUME NEW a \in Ids, Remove(a)
        PROVE  Promise!Drop(a)
    <3>1. PICK data, b :
             /\ Becomes(data, IdsOf(mem.list) \ {a}, b)
             /\ IF mem.active = a
                THEN b \in IF IdsOf(mem.list) = {a} THEN {NoId} ELSE IdsOf(mem.list) \ {a}
                ELSE b = mem.active
      BY <1>2, <2>6, RemoveYields
    <3>2. a \in IdsOf(mem.list)
      BY <2>6 DEF Remove
    <3> QED BY <2>1, <3>1, <3>2 DEF Promise!Drop
  <2>7. ASSUME NEW a \in Ids, RemoveBackupFails(a)
        PROVE  UNCHANGED <<ids, active>>
    BY <2>7 DEF RemoveBackupFails
  <2>8. ASSUME NEW order \in Injection(1 .. Len(mem.list), Ids), ReorderAll(order)
        PROVE  UNCHANGED <<ids, active>>
    <3>1. PICK data : Becomes(data, IdsOf(mem.list), mem.active)
      BY <1>2, <2>8, ReorderAllYields
    <3> QED BY <2>1, <3>1
  <2>9. ASSUME NEW order \in Injection(1 .. Len(mem.list), Ids), ReorderUnknown(order)
        PROVE  UNCHANGED <<ids, active>>
    BY <1>2, <2>9, ReorderUnknownYields
  <2>10. CASE Crash \/ NewStore
    <3>1. Sound(mem')
      BY <1>2 DEF IInv
    <3>2. IdsOf(mem'.list) \subseteq Ids
      BY <3>1, ActiveId DEF Sound
    <3> QED BY <3>1, <3>2 DEF Sound, Fits, Promise!SetNext, Promise!Reload
  <2>11. CASE UNCHANGED vars
    BY <2>11 DEF vars
  <2> HIDE DEF ids, active
  <2> QED BY <1>2, <2>3, <2>4, <2>5, <2>6, <2>7, <2>8, <2>9, <2>10, <2>11 DEF Next, Promise!SetNext
<1>3. IInv /\ IInv' /\ [Next]_vars => [Promise!SetNext]_<<ids, active>>
  BY <1>2
<1> QED BY <1>1, <1>3, Invariance, PTL DEF Spec, KeepsPromise, Promise!SetSpec
=============================================================================
