------------------------- MODULE PanelAccountsProofs -------------------------
(***************************************************************************)
(* Theorems about the account page of the panel, for every set of          *)
(* accounts, every number of requests under way and every bound.           *)
(***************************************************************************)
EXTENDS PanelAccounts, FiniteSetTheorems, SequenceTheorems, WellFoundedInduction, TLAPS

-----------------------------------------------------------------------------
(* Induction up to a number, over a set instead of a predicate, and        *)
(* recursion with it: what the loops over the list of accounts need.       *)

\* A set of natural numbers that is not empty has a least one.
LEMMA LeastNatural ==
    ASSUME NEW T, T \subseteq Nat, T # {}
    PROVE  \E m \in T : \A y \in T : m <= y
<1> DEFINE R == OpToRel(<, Nat)
<1>1. IsWellFoundedOn(R, Nat)
  BY NatLessThanWellFounded
<1>2. PICK m \in T : \A y \in T : ~ (<<y, m>> \in R)
  <2> HIDE DEF R
  <2> QED BY <1>1, WFMin, Zenon
<1>3. R = {s \in Nat \X Nat : s[1] < s[2]}
  BY DEF OpToRel
<1>4. \A y \in T : m <= y
  <2> SUFFICES ASSUME NEW y \in T, y < m PROVE FALSE
    OBVIOUS
  <2>1. <<y, m>> \in {s \in Nat \X Nat : s[1] < s[2]}
    OBVIOUS
  <2> HIDE DEF R
  <2> QED BY <1>2, <1>3, <2>1
<1> QED BY <1>4

\* The least number that is missing would have a predecessor that is there.
LEMMA InductionUpTo ==
    ASSUME NEW n \in Nat, NEW T, 0 \in T, \A i \in 1 .. n : i - 1 \in T => i \in T
    PROVE  \A i \in 0 .. n : i \in T
<1> DEFINE B == {i \in 0 .. n : i \notin T}
<1>1. ASSUME B # {} PROVE FALSE
  <2>1. PICK m \in B : \A y \in B : m <= y
    <3>1. B \subseteq Nat
      OBVIOUS
    <3> HIDE DEF B
    <3> QED BY <1>1, <3>1, LeastNatural
  <2>2. m \in 1 .. n /\ m - 1 \in 0 .. n
    OBVIOUS
  <2>3. m - 1 \in T
    BY <2>1, <2>2
  <2> QED BY <2>2, <2>3
<1> QED BY <1>1

\* A loop that computes a value of V from its index and the value before.
Maps(step, n, V) == \A i \in 1 .. n : \A v \in V : step[i][v] \in V

Runs(f, n, V, v0, step) ==
    f \in [0 .. n -> V] /\ f[0] = v0 /\ \A i \in 1 .. n : f[i] = step[i][f[i - 1]]

\* Such a loop can be run.
LEMMA RecursionUpTo ==
    ASSUME NEW n \in Nat, NEW V, NEW v0 \in V, NEW step, Maps(step, n, V)
    PROVE  \E f : Runs(f, n, V, v0, step)
<1> DEFINE Ready(m) == \E f : Runs(f, m, V, v0, step)
           T == {m \in 0 .. n : Ready(m)}
<1>1. Ready(0)
  <2> DEFINE g == [i \in 0 .. 0 |-> v0]
  <2>1. Runs(g, 0, V, v0, step)
    BY DEF Runs
  <2> QED BY <2>1
<1>2. ASSUME NEW m \in 1 .. n, Ready(m - 1)
      PROVE  Ready(m)
  <2>1. PICK f : Runs(f, m - 1, V, v0, step)
    BY <1>2
  <2> DEFINE g == [i \in 0 .. m |-> IF i = m THEN step[m][f[m - 1]] ELSE f[i]]
  <2>2. step[m][f[m - 1]] \in V
    BY <2>1 DEF Runs, Maps
  <2>3. g \in [0 .. m -> V]
    BY <2>1, <2>2 DEF Runs
  <2>4. g[0] = v0 /\ \A i \in 1 .. m : g[i] = step[i][g[i - 1]]
    BY <2>1 DEF Runs
  <2>5. Runs(g, m, V, v0, step)
    BY <2>3, <2>4 DEF Runs
  <2> QED BY <2>5
<1> HIDE DEF Ready
<1>3. 0 \in T /\ \A m \in 1 .. n : m - 1 \in T => m \in T
  BY <1>1, <1>2
<1>4. n \in T
  <2>1. \A i \in 0 .. n : i \in T
    <3> HIDE DEF T
    <3> QED BY <1>3, InductionUpTo
  <2> QED BY <2>1
<1> QED BY <1>4 DEF Ready

-----------------------------------------------------------------------------
(* The filter *)

\* s has the wanted ones of the first n accounts of the list, in the order they had.
Kept(s, list, wanted, n) ==
    /\ s \in Seq(Accounts)
    /\ \A m \in DOMAIN s : \E i \in 1 .. n : s[m] = list[i] /\ list[i] \in wanted
    /\ \A i \in 1 .. n : list[i] \in wanted => \E m \in DOMAIN s : s[m] = list[i]
    /\ \A m, l \in DOMAIN s : m < l =>
          \E i, j \in 1 .. n : i < j /\ s[m] = list[i] /\ s[l] = list[j]

\* That is what the filter keeps.
LEMMA KeepKeeps ==
    ASSUME NEW list \in Seq(Accounts), NEW wanted
    PROVE  Kept(Keep(list, wanted), list, wanted, Len(list))
<1> DEFINE n == Len(list)
           kept[i \in 0 .. n] ==
             IF i = 0 THEN <<>>
             ELSE IF list[i] \in wanted THEN Append(kept[i - 1], list[i]) ELSE kept[i - 1]
           step == [i \in 1 .. n |-> [s \in Seq(Accounts) |->
                      IF list[i] \in wanted THEN Append(s, list[i]) ELSE s]]
<1>1. n \in Nat /\ DOMAIN list = 1 .. n /\ \A i \in 1 .. n : list[i] \in Accounts
  OBVIOUS
<1>2. Maps(step, n, Seq(Accounts))
  BY <1>1 DEF Maps
<1>3. \E f : Runs(f, n, Seq(Accounts), <<>>, step)
  <2>1. <<>> \in Seq(Accounts)
    OBVIOUS
  <2> HIDE DEF step, n
  <2> QED BY <1>1, <1>2, <2>1, RecursionUpTo, Zenon
<1> PICK f : Runs(f, n, Seq(Accounts), <<>>, step)
  BY <1>3
<1>4. \A i \in 1 .. n : step[i][f[i - 1]] =
          IF list[i] \in wanted THEN Append(f[i - 1], list[i]) ELSE f[i - 1]
  <2>1. \A i \in 1 .. n : f[i - 1] \in Seq(Accounts)
    BY <1>1 DEF Runs
  <2> QED BY <2>1
<1>5. f = [i \in 0 .. n |->
             IF i = 0 THEN <<>>
             ELSE IF list[i] \in wanted THEN Append(f[i - 1], list[i]) ELSE f[i - 1]]
  <2> DEFINE g == [i \in 0 .. n |->
                     IF i = 0 THEN <<>>
                     ELSE IF list[i] \in wanted THEN Append(f[i - 1], list[i]) ELSE f[i - 1]]
  <2> HIDE DEF step, kept
  <2>1. ASSUME NEW i \in 0 .. n PROVE g[i] = f[i]
    <3>1. CASE i = 0
      BY <3>1 DEF Runs
    <3>2. CASE i # 0
      <4>1. i \in 1 .. n
        BY <1>1, <3>2
      <4>2. f[i] = step[i][f[i - 1]]
        BY <4>1 DEF Runs
      <4>3. step[i][f[i - 1]] = IF list[i] \in wanted THEN Append(f[i - 1], list[i]) ELSE f[i - 1]
        BY <1>4, <4>1
      <4> QED BY <3>2, <4>2, <4>3
    <3> QED BY <3>1, <3>2
  <2>2. f = [i \in 0 .. n |-> f[i]] /\ g = [i \in 0 .. n |-> g[i]]
    BY DEF Runs
  <2> HIDE DEF g
  <2>3. f = g
    BY <2>1, <2>2
  <2> QED BY <2>3 DEF g
<1>6. kept = [i \in 0 .. n |->
             IF i = 0 THEN <<>>
             ELSE IF list[i] \in wanted THEN Append(kept[i - 1], list[i]) ELSE kept[i - 1]]
  <2> HIDE DEF step
  <2> QED BY <1>5
<1>7. Keep(list, wanted) = kept[n]
  BY Zenon DEF Keep
<1> HIDE DEF kept, step, n
<1> DEFINE T == {i \in 0 .. n : Kept(kept[i], list, wanted, i)}
<1>8. 0 \in T
  <2>1. kept[0] = <<>>
    BY <1>1, <1>6
  <2>2. Kept(<<>>, list, wanted, 0)
    BY DEF Kept
  <2> QED BY <1>1, <2>1, <2>2
<1>9. ASSUME NEW i \in 1 .. n, i - 1 \in T
      PROVE  i \in T
  <2> DEFINE s == kept[i - 1]
  <2>1. Kept(s, list, wanted, i - 1) /\ i - 1 \in 0 .. n /\ i \in 0 .. n
    BY <1>1, <1>9
  <2>2. kept[i] = IF list[i] \in wanted THEN Append(s, list[i]) ELSE s
    <3>1. i \in 0 .. n /\ i # 0
      BY <1>1
    <3> QED BY <1>6, <3>1, Zenon
  <2> HIDE DEF s
  <2>3. CASE list[i] \notin wanted
    <3>1. Kept(s, list, wanted, i)
      BY <1>1, <2>1, <2>3 DEF Kept
    <3> QED BY <2>1, <2>2, <2>3, <3>1
  <2>4. CASE list[i] \in wanted
    <3> DEFINE t == Append(s, list[i])
    <3>1. /\ t \in Seq(Accounts) /\ DOMAIN s = 1 .. Len(s) /\ DOMAIN t = 1 .. Len(s) + 1
          /\ Len(s) \in Nat
          /\ t[Len(s) + 1] = list[i] /\ \A m \in 1 .. Len(s) : t[m] = s[m]
      BY <1>1, <2>1 DEF Kept
    <3> HIDE DEF t
    <3>2. \A m \in DOMAIN t : \E j \in 1 .. i : t[m] = list[j] /\ list[j] \in wanted
      BY <1>1, <2>1, <2>4, <3>1 DEF Kept
    <3>3. \A j \in 1 .. i : list[j] \in wanted => \E m \in DOMAIN t : t[m] = list[j]
      BY <1>1, <2>1, <2>4, <3>1 DEF Kept
    <3>4. ASSUME NEW m \in DOMAIN t, NEW l \in DOMAIN t, m < l
          PROVE  \E j, k \in 1 .. i : j < k /\ t[m] = list[j] /\ t[l] = list[k]
      <4>1. CASE l = Len(s) + 1
        <5>1. m \in DOMAIN s
          BY <3>1, <3>4, <4>1
        <5>2. PICK j \in 1 .. i - 1 : s[m] = list[j]
          BY <2>1, <5>1 DEF Kept
        <5>3. j < i /\ j \in 1 .. i /\ i \in 1 .. i /\ t[m] = list[j] /\ t[l] = list[i]
          BY <1>1, <3>1, <4>1, <5>1, <5>2
        <5> QED BY <5>3
      <4>2. CASE l # Len(s) + 1
        <5>1. m \in DOMAIN s /\ l \in DOMAIN s
          BY <3>1, <3>4, <4>2
        <5>2. PICK j, k \in 1 .. i - 1 : j < k /\ s[m] = list[j] /\ s[l] = list[k]
          BY <2>1, <3>4, <5>1 DEF Kept
        <5>3. j \in 1 .. i /\ k \in 1 .. i /\ t[m] = list[j] /\ t[l] = list[k]
          BY <1>1, <3>1, <5>1, <5>2
        <5> QED BY <5>2, <5>3
      <4> QED BY <4>1, <4>2
    <3>5. Kept(t, list, wanted, i)
      BY <3>1, <3>2, <3>3, <3>4 DEF Kept
    <3> QED BY <2>1, <2>2, <2>4, <3>5 DEF t
  <2> QED BY <2>3, <2>4
<1>10. \A i \in 0 .. n : i \in T
  <2> HIDE DEF T
  <2> QED BY <1>1, <1>8, <1>9, InductionUpTo
<1>11. Kept(kept[n], list, wanted, n)
  BY <1>1, <1>10
<1> QED BY <1>1, <1>7, <1>11 DEF n

-----------------------------------------------------------------------------
(* The inductive invariant *)

Who == Accounts \cup {Nobody}
Versions == Nat
Slots == 0 .. Gets

ListState == [list : Seq(Accounts), active : Who, v : Versions,
              known : SUBSET Accounts, loading : SUBSET Accounts]
GetRecord == [place : {"none", "sent", "listed", "read"}, aborted : BOOLEAN, force : BOOLEAN,
              list : Seq(Accounts), active : Who, v : Versions]
FetchRecord == [id : Accounts, kind : {"run", "signal"}, current : BOOLEAN, aborted : BOOLEAN,
                mapped : BOOLEAN]
ActionRecord == [type : {"none", "activate", "applyZCode", "delete"}, id : Who,
                 place : {"none", "posting", "removed", "done", "failed", "refreshing"},
                 wasActive : BOOLEAN, active : Who, v : Versions, slot : Slots]
PutRecord == [place : {"none", "posting", "done", "failed"}, list : Seq(Accounts),
              previous : ListState, v : Versions]

\* A state of the list: no account twice, and quotas of listed accounts only.
Proper(d) == d \in ListState /\ IsInjective(d.list) /\ d.known \cup d.loading \subseteq Ids(d)

Types ==
    /\ server \in [list : Seq(Accounts), active : Who, v : Versions] /\ IsInjective(server.list)
    /\ Proper(data) /\ Proper(dataRef) /\ dirty \in BOOLEAN
    /\ view \in [accounts : Seq(Accounts), optimistic : Who] /\ IsInjective(view.accounts)
    /\ gets \in [1 .. Gets -> GetRecord] /\ \A g \in 1 .. Gets : IsInjective(gets[g].list)
    /\ fetches \subseteq FetchRecord /\ todo \in Seq(Accounts)
    /\ error \in BOOLEAN
    /\ action \in ActionRecord /\ (action.place # "none" => action.id \in Accounts)
    /\ left \in Nat
    /\ hist \in [own : Versions, overtaken : BOOLEAN, orphans : SUBSET Accounts]

\* A slot is awaited only while the list is read again.
Slotted == action.place # "refreshing" => action.slot = 0

\* The controllers of one account: the last request's, and a run with targets left works.
Controllers ==
    /\ \A f, g \in fetches : f.mapped /\ g.mapped /\ f.id = g.id => f = g
    /\ todo # <<>> => \E f \in fetches : f.current

\* At most one request for the list counts.
OneLive == \A g, h \in 1 .. Gets : Live(g) /\ Live(h) => g = h

\* What the panel holds is as old as its version says, and as good where it is up to date.
UpToDate(d) == d.v <= server.v /\ (d.v = server.v => d.active = server.active)

\* So is an answer, as far as it has been put together.
Accurate(get) ==
    /\ get.v <= server.v
    /\ get.v = server.v => /\ get.list = server.list
                           /\ get.place = "read" => get.active = server.active

Begun(get) == get.place \in {"listed", "read"}

Snapshots ==
    /\ server.v > 0
    /\ UpToDate(data) /\ UpToDate(dataRef)
    /\ \A g \in 1 .. Gets : Begun(gets[g]) => Accurate(gets[g])

\* What a change of the order holds on to.
Dragged(q) ==
    /\ q \in PutRecord /\ Proper(q.previous) /\ IsInjective(q.list)
    /\ UpToDate(q.previous) /\ q.v <= server.v

Drags == puts \in [1 .. Puts -> PutRecord] /\ \A p \in 1 .. Puts : Dragged(puts[p])

\* The answer that counts is newer than the state, and than what the panel was told.
Fresh ==
    /\ hist.own <= server.v /\ action.v <= server.v
    /\ \A g \in 1 .. Gets : Begun(gets[g]) /\ Live(g) =>
          data.v <= gets[g].v /\ hist.own <= gets[g].v
    /\ (\E g \in 1 .. Gets : Live(g)) \/ error \/ hist.own <= data.v

\* Only an order that is not saved makes an up-to-date list differ from the proxy's, until the
\* answer that is to come.
Ordered ==
    data.v = server.v =>
        \/ data.list = server.list \/ error \/ \E g \in 1 .. Gets : Live(g)
        \/ \E p \in 1 .. Puts : puts[p].place \in {"posting", "failed"}

\* Where no render is due, what handlers read and what is shown is the state.
Rendered ==
    ~dirty => /\ dataRef = data /\ view.accounts = data.list
              /\ view.optimistic # Nobody => view.optimistic # data.active

\* The optimism is right, or about to be, unless the proxy has overtaken it.
Optimism ==
    ~hist.overtaken =>
        /\ action.place \notin {"removed", "done"} => view.optimistic \in {Nobody, server.active}
        /\ (action.place = "posting" /\ action.type = "delete" /\ ~action.wasActive) =>
              view.optimistic # action.id
        /\ (action.place \in {"removed", "done"} /\ action.type = "delete" /\ ~action.wasActive) =>
              view.optimistic \in {Nobody, server.active}
        /\ action.place = "removed" => action.type = "delete"
        /\ action.place = "done" =>
              (IF action.type = "delete" THEN action.active ELSE action.id) = server.active

IInv == /\ Types /\ Slotted /\ Controllers /\ SpinnerHasRequest /\ OneLive
        /\ Snapshots /\ Drags /\ Fresh /\ Ordered /\ Rendered /\ Optimism

-----------------------------------------------------------------------------
(* Sequences without repetition *)

LEMMA KeepInjective ==
    ASSUME NEW list \in Seq(Accounts), IsInjective(list), NEW wanted
    PROVE  Keep(list, wanted) \in Seq(Accounts) /\ IsInjective(Keep(list, wanted))
<1> DEFINE s == Keep(list, wanted)
           n == Len(list)
<1>1. Kept(s, list, wanted, n)
  BY KeepKeeps
<1>2. n \in Nat /\ DOMAIN list = 1 .. n
  OBVIOUS
<1> HIDE DEF s, n
<1>3. s \in Seq(Accounts) /\ DOMAIN s = 1 .. Len(s) /\ Len(s) \in Nat
  BY <1>1 DEF Kept
<1>4. ASSUME NEW i \in DOMAIN s, NEW j \in DOMAIN s, i < j
      PROVE  s[i] # s[j]
  <2>1. PICK k, l \in 1 .. n : k < l /\ s[i] = list[k] /\ s[j] = list[l]
    BY <1>1, <1>4 DEF Kept
  <2> QED BY <1>2, <2>1 DEF IsInjective
<1>5. ASSUME NEW i \in DOMAIN s, NEW j \in DOMAIN s, s[i] = s[j]
      PROVE  i = j
  <2>1. ~(i < j) /\ ~(j < i)
    BY <1>4, <1>5
  <2> QED BY <1>3, <2>1
<1>6. IsInjective(s)
  BY <1>5 DEF IsInjective
<1> QED BY <1>3, <1>6 DEF s

LEMMA NewcomerInjective ==
    ASSUME NEW list \in Seq(Accounts), IsInjective(list),
           NEW a \in Accounts, ~ Contains(list, a)
    PROVE  /\ Append(list, a) \in Seq(Accounts)
           /\ IsInjective(Append(list, a))
<1> DEFINE s == Append(list, a)
<1>1. /\ s \in Seq(Accounts) /\ Len(list) \in Nat /\ DOMAIN list = 1 .. Len(list)
      /\ DOMAIN s = 1 .. Len(list) + 1 /\ s[Len(list) + 1] = a
      /\ \A i \in 1 .. Len(list) : s[i] = list[i]
  OBVIOUS
<1>2. \A i \in 1 .. Len(list) : list[i] # a
  BY DEF Contains
<1> HIDE DEF s
<1>3. IsInjective(s)
  BY <1>1, <1>2 DEF IsInjective
<1> QED BY <1>1, <1>3 DEF s

\* An order of the shown accounts is a list of accounts without repetition.
LEMMA OrderInjective ==
    ASSUME PanelAssumption, NEW S, S \subseteq Accounts, NEW ordered \in SetToSeqs(S)
    PROVE  ordered \in Seq(Accounts) /\ IsInjective(ordered)
<1>1. Cardinality(S) \in Nat
  BY FS_Subset, FS_CardinalityType DEF PanelAssumption
<1> DEFINE D == 1 .. Cardinality(S)
<1>2. ordered \in [D -> S] /\ \A i, j \in D : i # j => ordered[i] # ordered[j]
  BY Zenon DEF SetToSeqs
<1>3. IsInjective(ordered)
  BY <1>2 DEF IsInjective
<1>4. ordered \in Seq(S)
  BY <1>1, <1>2
<1> QED BY <1>3, <1>4

LEMMA RangeIn ==
    ASSUME NEW list \in Seq(Accounts)
    PROVE  Range(list) \subseteq Accounts
<1>1. \A i \in DOMAIN list : list[i] \in Accounts
  OBVIOUS
<1> QED BY <1>1 DEF Range

\* The first account of a list, if it has one.
LEMMA FirstOf ==
    ASSUME NEW list \in Seq(Accounts)
    PROVE  First(list) \in Who
<1>1. list # <<>> => list[1] \in Accounts
  OBVIOUS
<1> QED BY <1>1 DEF First, Who

\* A list without repetition is no longer than there are accounts.
LEMMA BoundedList ==
    ASSUME PanelAssumption, NEW list \in Seq(Accounts), IsInjective(list)
    PROVE  list \in SeqOf(Accounts, Cardinality(Accounts))
<1> DEFINE n == Len(list)
           m == Cardinality(Accounts)
<1>1. n \in Nat /\ DOMAIN list = 1 .. n /\ list \in [1 .. n -> Accounts]
  OBVIOUS
<1>2. m \in Nat
  BY FS_CardinalityType DEF PanelAssumption
<1>3. list \in Injection(1 .. n, Accounts)
  BY <1>1 DEF Injection, IsInjective
<1>4. Cardinality(1 .. n) <= m
  BY <1>3, FS_Injection DEF PanelAssumption
<1>5. Cardinality(1 .. n) = n
  <2>1. \A a, b \in Int : Cardinality(a .. b) = IF a > b THEN 0 ELSE b - a + 1
    BY FS_Interval
  <2> HIDE DEF n
  <2> QED BY <1>1, <2>1
<1>6. n \in 0 .. m
  BY <1>1, <1>2, <1>4, <1>5
<1> QED BY <1>1, <1>6 DEF SeqOf

-----------------------------------------------------------------------------
(* The helpers of use-accounts.ts keep a proper state proper. *)

LEMMA MergeProper ==
    ASSUME NEW d, Proper(d), NEW r \in GetRecord, IsInjective(r.list)
    PROVE  /\ Proper(MergeLightRefresh(d, r))
           /\ MergeLightRefresh(d, r).list = r.list
           /\ MergeLightRefresh(d, r).active = r.active
           /\ MergeLightRefresh(d, r).v = r.v
<1>1. Range(r.list) \subseteq Accounts
  BY RangeIn DEF GetRecord
<1> QED BY <1>1 DEF Proper, ListState, GetRecord, MergeLightRefresh, Ids

LEMMA MarkProper ==
    ASSUME NEW d, Proper(d), NEW ids
    PROVE  /\ Proper(MarkQuotaTargets(d, ids))
           /\ MarkQuotaTargets(d, ids).list = d.list
           /\ MarkQuotaTargets(d, ids).active = d.active
           /\ MarkQuotaTargets(d, ids).v = d.v
           /\ MarkQuotaTargets(d, ids).loading \subseteq d.loading \cup ids
<1>1. Ids(d) \subseteq Accounts
  BY RangeIn DEF Proper, ListState, Ids
<1> QED BY <1>1 DEF Proper, ListState, MarkQuotaTargets, Ids

LEMMA DetailProper ==
    ASSUME NEW d, Proper(d), NEW id
    PROVE  /\ Proper(MergeQuotaDetail(d, id))
           /\ MergeQuotaDetail(d, id).list = d.list
           /\ MergeQuotaDetail(d, id).active = d.active
           /\ MergeQuotaDetail(d, id).v = d.v
           /\ MergeQuotaDetail(d, id).loading \subseteq d.loading \ {id}
<1>1. Ids(d) \subseteq Accounts
  BY RangeIn DEF Proper, ListState, Ids
<1> QED BY <1>1 DEF Proper, ListState, MergeQuotaDetail, Ids

-----------------------------------------------------------------------------
(* The quota requests *)

QuotaTypes ==
    /\ Proper(data) /\ fetches \subseteq FetchRecord /\ todo \in Seq(Accounts)
    /\ hist \in [own : Versions, overtaken : BOOLEAN, orphans : SUBSET Accounts]

\* The parts of the invariant that a step on the quotas may disturb.
Quotas == QuotaTypes /\ Controllers /\ SpinnerHasRequest

\* A step that changes of the list only what it says of the quotas.
SameList(d) == data'.list = d.list /\ data'.active = d.active /\ data'.v = d.v

SameHistory == hist'.own = hist.own /\ hist'.overtaken = hist.overtaken

Serves(f) == ~f.aborted /\ (f.kind = "signal" \/ f.current)

LEMMA FetchTyped ==
    ASSUME NEW id \in Accounts, NEW kind \in {"run", "signal"}
    PROVE  /\ Fetch(id, kind) \in FetchRecord /\ Serves(Fetch(id, kind))
           /\ Fetch(id, kind).id = id /\ Fetch(id, kind).mapped
           /\ kind = "run" => Fetch(id, kind).current
BY DEF Fetch, FetchRecord, Serves

\* A new run: its first targets have requests, the others are planned.
LEMMA RefreshQuotasSound ==
    ASSUME Quotas, NEW merged, Proper(merged), NEW force \in BOOLEAN,
           RefreshQuotas(merged, force)
    PROVE  Quotas' /\ SameList(merged) /\ SameHistory /\ dirty' = TRUE
<1> DEFINE targets == PickQuotaTargets(merged, force)
           first == IF Len(targets) < QUOTA_CONCURRENCY THEN Len(targets) ELSE QUOTA_CONCURRENCY
           started == {Fetch(targets[i], "run") : i \in 1 .. first}
<1>1. targets \in Seq(Accounts)
  <2>1. merged.list \in Seq(Accounts) /\ IsInjective(merged.list)
    BY DEF Proper, ListState
  <2> QED BY <2>1, KeepInjective DEF PickQuotaTargets
<1>2. dirty' = TRUE
  BY DEF RefreshQuotas
<1>3. CASE targets = <<>>
  <2>1. /\ data' = merged /\ fetches' = fetches /\ todo' = todo
        /\ hist' = [hist EXCEPT !.orphans =
                       (@ \cap merged.loading) \cup (merged.loading \ data.loading)]
    BY <1>3 DEF RefreshQuotas, quotas
  <2>2. merged.loading \subseteq Accounts /\ merged.list = data'.list
    BY <2>1 DEF Proper, ListState
  <2>3. /\ hist' \in [own : Versions, overtaken : BOOLEAN, orphans : SUBSET Accounts]
        /\ hist'.orphans = (hist.orphans \cap merged.loading) \cup (merged.loading \ data.loading)
        /\ SameHistory
    BY <2>1, <2>2 DEF Quotas, QuotaTypes, SameHistory
  <2>4. Controllers' /\ QuotaTypes'
    BY <2>1, <2>3 DEF Quotas, QuotaTypes, Controllers, Proper, Ids
  <2>5. SpinnerHasRequest'
    BY <2>1, <2>3 DEF Quotas, SpinnerHasRequest
  <2> QED BY <1>2, <2>1, <2>3, <2>4, <2>5 DEF Quotas, SameList
<1>4. CASE targets # <<>>
  <2>1. /\ data' = MarkQuotaTargets(merged, Range(targets))
        /\ fetches' = Stopped(fetches) \cup started
        /\ todo' = SubSeq(targets, first + 1, Len(targets))
        /\ hist' = [hist EXCEPT !.orphans = merged.loading \ Range(targets)]
    BY <1>4 DEF RefreshQuotas
  <2>2. /\ Len(targets) \in Nat /\ Len(targets) > 0 /\ DOMAIN targets = 1 .. Len(targets)
        /\ first \in 1 .. Len(targets)
        /\ \A i \in 1 .. Len(targets) : targets[i] \in Accounts
    <3> HIDE DEF targets
    <3>1. /\ Len(targets) \in Nat /\ Len(targets) > 0 /\ DOMAIN targets = 1 .. Len(targets)
          /\ \A i \in 1 .. Len(targets) : targets[i] \in Accounts
      BY <1>1, <1>4
    <3> QED BY <3>1 DEF QUOTA_CONCURRENCY
  <2> HIDE DEF targets, first
  <2>3. /\ todo' \in Seq(Accounts) /\ Len(todo') = Len(targets) - first
        /\ \A i \in 1 .. Len(targets) - first : todo'[i] = targets[first + i]
    <3>1. first + 1 \in 1 .. Len(targets) + 1 /\ Len(targets) \in first + 1 - 1 .. Len(targets)
      BY <2>2
    <3>2. /\ todo' \in Seq(Accounts) /\ Len(todo') = Len(targets) - (first + 1) + 1
          /\ \A i \in 1 .. Len(targets) - (first + 1) + 1 : todo'[i] = targets[first + 1 + i - 1]
      BY <1>1, <2>1, <3>1, SubSeqProperties
    <3> QED BY <2>2, <3>2
  <2>4. started \subseteq FetchRecord /\ \A f \in started : Serves(f) /\ f.current /\ f.mapped
    <3>1. \A i \in 1 .. first : targets[i] \in Accounts
      BY <2>2
    <3> QED BY <3>1, FetchTyped
  <2>5. \A f \in Stopped(fetches) : f \in FetchRecord /\ ~f.mapped /\ ~f.current
    BY DEF Stopped, FetchRecord, Quotas, QuotaTypes
  <2>6. \A f, g \in started : f.id = g.id => f = g
    <3>1. \A i \in 1 .. first : Fetch(targets[i], "run").id = targets[i]
      BY <2>2, FetchTyped
    <3> QED BY <3>1, Zenon
  <2>7. started # {}
    BY <2>2
  <2>8. Controllers'
    BY <2>1, <2>4, <2>5, <2>6, <2>7 DEF Controllers
  <2>9. Range(targets) \subseteq Range(todo') \cup {f.id : f \in started}
    <3> SUFFICES ASSUME NEW i \in 1 .. Len(targets)
                 PROVE  targets[i] \in Range(todo') \cup {f.id : f \in started}
      BY <2>2 DEF Range
    <3>1. CASE i <= first
      <4>1. Fetch(targets[i], "run") \in started /\ Fetch(targets[i], "run").id = targets[i]
        BY <2>2, <3>1, FetchTyped
      <4> HIDE DEF started
      <4> QED BY <4>1
    <3>2. CASE i > first
      <4>1. i - first \in 1 .. Len(targets) - first /\ first + (i - first) = i
        BY <2>2, <3>2
      <4>2. todo'[i - first] = targets[i] /\ i - first \in DOMAIN todo'
        BY <2>3, <4>1
      <4> QED BY <4>2 DEF Range
    <3> QED BY <2>2, <3>1, <3>2
  <2>10. Proper(data') /\ SameList(merged) /\ data'.loading \subseteq merged.loading \cup Range(targets)
    BY <2>1, MarkProper DEF SameList
  <2>11. merged.loading \subseteq Accounts
    BY DEF Proper, ListState
  <2>12. /\ hist' \in [own : Versions, overtaken : BOOLEAN, orphans : SUBSET Accounts]
         /\ hist'.orphans = merged.loading \ Range(targets)
         /\ SameHistory
    BY <2>1, <2>11 DEF Quotas, QuotaTypes, SameHistory
  <2> HIDE DEF started
  <2>13. SpinnerHasRequest'
    <3>1. {f.id : f \in started} \subseteq {f.id : f \in {f \in fetches' : Serves(f)}}
      BY <2>1, <2>4
    <3> QED BY <2>9, <2>10, <2>12, <3>1 DEF SpinnerHasRequest, Serves
  <2>14. QuotaTypes'
    <3>1. fetches' \subseteq FetchRecord
      BY <2>1, <2>4, <2>5
    <3> QED BY <2>3, <2>10, <2>12, <3>1 DEF QuotaTypes, Proper, Ids
  <2> QED BY <1>2, <2>8, <2>10, <2>12, <2>13, <2>14 DEF Quotas
<1> QED BY <1>3, <1>4

OneController(fs) == \A f, g \in fs : f.mapped /\ g.mapped /\ f.id = g.id => f = g

\* e is the request f, whatever became of its controller.
Same(f, e) == e.id = f.id /\ e.kind = f.kind /\ e.current = f.current

LEMMA Unmapped ==
    ASSUME NEW fs, fs \subseteq FetchRecord, OneController(fs), NEW id \in Accounts
    PROVE  /\ Unmap(fs, id) \subseteq FetchRecord /\ OneController(Unmap(fs, id))
           /\ \A e \in Unmap(fs, id) : e.mapped => e.id # id
           /\ \A f \in fs : \E e \in Unmap(fs, id) : Same(f, e) /\ (Serves(f) => Serves(e))
<1> DEFINE U(f) == [f EXCEPT !.mapped = @ /\ f.id # id]
<1>1. ASSUME NEW f \in fs
      PROVE  /\ U(f) \in FetchRecord /\ Same(f, U(f)) /\ (Serves(f) => Serves(U(f)))
             /\ U(f).mapped => f.mapped /\ f.id # id
  <2>1. f \in [id : Accounts, kind : {"run", "signal"}, current : BOOLEAN, aborted : BOOLEAN,
               mapped : BOOLEAN]
    BY DEF FetchRecord
  <2> DEFINE b == f.mapped /\ f.id # id
  <2>2. b \in BOOLEAN /\ (b => f.mapped /\ f.id # id)
    OBVIOUS
  <2>3. U(f) = [f EXCEPT !.mapped = b]
    OBVIOUS
  <2> HIDE DEF b, U
  <2> QED BY <2>1, <2>2, <2>3 DEF Same, Serves, FetchRecord
<1>2. Unmap(fs, id) = {U(f) : f \in fs}
  BY DEF Unmap
<1> HIDE DEF U
<1>3. ASSUME NEW d \in Unmap(fs, id), NEW e \in Unmap(fs, id), d.mapped, e.mapped, d.id = e.id
      PROVE  d = e
  <2>1. PICK f \in fs : d = U(f)
    BY <1>2
  <2>2. PICK g \in fs : e = U(g)
    BY <1>2
  <2>3. f.mapped /\ g.mapped /\ f.id = g.id
    BY <1>1, <1>3, <2>1, <2>2 DEF Same
  <2>4. f = g
    BY <2>3 DEF OneController
  <2> QED BY <2>1, <2>2, <2>4
<1>4. OneController(Unmap(fs, id))
  BY <1>3 DEF OneController
<1>5. \A e \in Unmap(fs, id) : e \in FetchRecord /\ (e.mapped => e.id # id)
  BY <1>1, <1>2 DEF Same
<1>6. \A f \in fs : \E e \in Unmap(fs, id) : Same(f, e) /\ (Serves(f) => Serves(e))
  BY <1>1, <1>2
<1> QED BY <1>4, <1>5, <1>6

\* A request that takes the place of whatever the account had.
LEMMA MappedAnew ==
    ASSUME NEW fs, fs \subseteq FetchRecord, OneController(fs),
           NEW id \in Accounts, NEW kind \in {"run", "signal"}
    PROVE  /\ Unmap(fs, id) \cup {Fetch(id, kind)} \subseteq FetchRecord
           /\ OneController(Unmap(fs, id) \cup {Fetch(id, kind)})
<1> DEFINE n == Fetch(id, kind)
           us == Unmap(fs, id)
<1>1. n \in FetchRecord /\ n.id = id
  BY FetchTyped
<1>2. /\ us \subseteq FetchRecord /\ OneController(us)
      /\ \A e \in us : e.mapped => e.id # id
  BY Unmapped
<1> HIDE DEF n, us
<1>3. us \cup {n} \subseteq FetchRecord /\ OneController(us \cup {n})
  BY <1>1, <1>2 DEF OneController
<1> QED BY <1>3 DEF n, us

LEMMA RefreshAccountQuotaSound ==
    ASSUME Quotas, NEW id \in Accounts, RefreshAccountQuota(id)
    PROVE  Quotas' /\ SameList(data) /\ SameHistory /\ dirty' = TRUE
<1> DEFINE A(f) == [f EXCEPT !.aborted = @ \/ (f.mapped /\ f.id = id)]
           fs == {A(f) : f \in fetches}
           n == Fetch(id, "signal")
<1>1. /\ fetches' = Unmap(fs, id) \cup {n} /\ todo' = todo
      /\ data' = MarkQuotaTargets(data, {id}) /\ dirty' = TRUE
      /\ hist' = [hist EXCEPT !.orphans = @ \ {id}]
  BY DEF RefreshAccountQuota
<1>2. ASSUME NEW f \in fetches
      PROVE  /\ A(f) \in FetchRecord /\ Same(f, A(f)) /\ A(f).mapped = f.mapped
             /\ f.id # id /\ Serves(f) => Serves(A(f))
  <2>1. f \in [id : Accounts, kind : {"run", "signal"}, current : BOOLEAN, aborted : BOOLEAN,
               mapped : BOOLEAN]
    BY DEF FetchRecord, Quotas, QuotaTypes
  <2> DEFINE b == f.aborted \/ (f.mapped /\ f.id = id)
  <2>2. b \in BOOLEAN /\ (b => f.aborted \/ f.id = id)
    BY <2>1
  <2>3. A(f) = [f EXCEPT !.aborted = b]
    OBVIOUS
  <2> HIDE DEF b, A
  <2> QED BY <2>1, <2>2, <2>3 DEF Same, Serves, FetchRecord
<1> HIDE DEF A
<1>3. fs \subseteq FetchRecord
  BY <1>2
<1>4. OneController(fs)
  <2> SUFFICES ASSUME NEW f \in fetches, NEW g \in fetches,
                      A(f).mapped, A(g).mapped, A(f).id = A(g).id
               PROVE  A(f) = A(g)
    BY DEF OneController
  <2>1. f.mapped /\ g.mapped /\ f.id = g.id
    BY <1>2 DEF Same
  <2> QED BY <2>1 DEF Quotas, Controllers
<1>5. fetches' \subseteq FetchRecord /\ OneController(fetches')
  <2> HIDE DEF fs
  <2> QED BY <1>1, <1>3, <1>4, MappedAnew
<1>6. n \in fetches' /\ n.id = id /\ Serves(n)
  BY <1>1, FetchTyped
<1>7. ASSUME NEW f \in fetches
      PROVE  \E e \in fetches' : Same(f, e) /\ (f.id # id /\ Serves(f) => Serves(e))
  <2>1. A(f) \in fs
    OBVIOUS
  <2> HIDE DEF fs
  <2>2. PICK e \in Unmap(fs, id) : Same(A(f), e) /\ (Serves(A(f)) => Serves(e))
    BY <1>3, <1>4, <2>1, Unmapped
  <2> QED BY <1>1, <1>2, <2>2 DEF Same
<1> HIDE DEF fs, n
<1>8. Proper(data') /\ SameList(data) /\ data'.loading \subseteq data.loading \cup {id}
  BY <1>1, MarkProper DEF SameList, Quotas, QuotaTypes
<1>9. /\ hist' \in [own : Versions, overtaken : BOOLEAN, orphans : SUBSET Accounts]
      /\ hist'.orphans = hist.orphans \ {id} /\ SameHistory
  BY <1>1 DEF Quotas, QuotaTypes, SameHistory
<1>10. Controllers'
  <2>1. todo' # <<>> => \E f \in fetches' : f.current
    BY <1>1, <1>7 DEF Quotas, Controllers, Same
  <2> QED BY <1>5, <2>1 DEF Controllers, OneController
<1>11. SpinnerHasRequest'
  <2> SUFFICES ASSUME NEW x \in data'.loading, x \notin Range(todo'), x \notin hist'.orphans
               PROVE  \E f \in fetches' : Serves(f) /\ f.id = x
    BY DEF SpinnerHasRequest, Serves
  <2>1. CASE x = id
    BY <1>6, <2>1
  <2>2. CASE x # id
    <3>1. x \in data.loading /\ x \notin Range(todo) /\ x \notin hist.orphans
      BY <1>1, <1>8, <1>9, <2>2
    <3>2. PICK f \in fetches : Serves(f) /\ f.id = x
      BY <3>1 DEF Quotas, SpinnerHasRequest, Serves
    <3> QED BY <1>7, <2>2, <3>2 DEF Same
  <2> QED BY <2>1, <2>2
<1>12. QuotaTypes'
  BY <1>1, <1>5, <1>8, <1>9 DEF Quotas, QuotaTypes, Proper, Ids
<1> QED BY <1>1, <1>8, <1>9, <1>10, <1>11, <1>12 DEF Quotas

LEMMA FinishFetchSound ==
    ASSUME Quotas, NEW f, FinishFetch(f)
    PROVE  /\ Quotas' /\ SameList(data) /\ SameHistory
           /\ dirty' = TRUE \/ (data' = data /\ dirty' = dirty)
<1> DEFINE rest == Unmap(fetches \ {f}, f.id)
           moved == f.current /\ todo # <<>>
           n == Fetch(Head(todo), "run")
<1>1. /\ f \in fetches /\ f \in FetchRecord /\ f.id \in Accounts
      /\ fetches' = IF moved THEN Unmap(rest, Head(todo)) \cup {n} ELSE rest
      /\ todo' = IF moved THEN Tail(todo) ELSE todo
  BY DEF FinishFetch, Quotas, QuotaTypes, FetchRecord
<1>2. \/ /\ Serves(f) /\ data' = MergeQuotaDetail(data, f.id) /\ dirty' = TRUE
         /\ hist' = [hist EXCEPT !.orphans = @ \ {f.id}]
      \/ ~Serves(f) /\ data' = data /\ dirty' = dirty /\ hist' = hist
  BY DEF FinishFetch, Serves
<1>3. /\ rest \subseteq FetchRecord /\ OneController(rest)
      /\ \A g \in fetches : g # f => \E e \in rest : Same(g, e) /\ (Serves(g) => Serves(e))
  <2> DEFINE fs == fetches \ {f}
  <2>1. fs \subseteq FetchRecord /\ OneController(fs)
    BY DEF Quotas, QuotaTypes, Controllers, OneController
  <2>2. \A g \in fetches : g # f => g \in fs
    OBVIOUS
  <2> HIDE DEF fs
  <2> QED BY <1>1, <2>1, <2>2, Unmapped DEF fs
<1> HIDE DEF rest
<1>4. moved => Head(todo) \in Accounts /\ Tail(todo) \in Seq(Accounts)
               /\ Range(todo) \subseteq {Head(todo)} \cup Range(Tail(todo))
  <2> SUFFICES ASSUME todo # <<>>
               PROVE  /\ Head(todo) \in Accounts /\ Tail(todo) \in Seq(Accounts)
                      /\ Range(todo) \subseteq {Head(todo)} \cup Range(Tail(todo))
    OBVIOUS
  <2>1. todo \in Seq(Accounts) /\ DOMAIN todo = 1 .. Len(todo) /\ Len(todo) \in Nat
    BY DEF Quotas, QuotaTypes
  <2>2. /\ Head(todo) \in Accounts /\ Tail(todo) \in Seq(Accounts)
        /\ Head(todo) = todo[1] /\ Len(Tail(todo)) = Len(todo) - 1
        /\ \A i \in 1 .. Len(Tail(todo)) : Tail(todo)[i] = todo[i + 1]
    BY <2>1, HeadTailProperties
  <2>3. ASSUME NEW i \in 1 .. Len(todo), i # 1
        PROVE  todo[i] \in Range(Tail(todo))
    <3>1. i - 1 \in 1 .. Len(Tail(todo)) /\ i - 1 + 1 = i
      BY <2>1, <2>2, <2>3
    <3>2. Tail(todo)[i - 1] = todo[i] /\ i - 1 \in DOMAIN Tail(todo)
      BY <2>2, <3>1
    <3> QED BY <3>2 DEF Range
  <2> QED BY <2>1, <2>2, <2>3 DEF Range
<1>5. /\ fetches' \subseteq FetchRecord /\ OneController(fetches')
      /\ \A g \in fetches : g # f => \E e \in fetches' : Same(g, e) /\ (Serves(g) => Serves(e))
      /\ moved => n \in fetches' /\ n.id = Head(todo) /\ n.current /\ Serves(n)
  <2>1. CASE ~moved
    BY <1>1, <1>3, <2>1
  <2>2. CASE moved
    <3>1. Head(todo) \in Accounts
      BY <1>4, <2>2
    <3>2. n \in fetches' /\ n.id = Head(todo) /\ n.current /\ Serves(n)
      BY <1>1, <2>2, <3>1, FetchTyped
    <3>3. fetches' \subseteq FetchRecord /\ OneController(fetches')
      BY <1>1, <1>3, <2>2, <3>1, MappedAnew
    <3>4. \A g \in rest : \E e \in Unmap(rest, Head(todo)) : Same(g, e) /\ (Serves(g) => Serves(e))
      BY <1>3, <3>1, Unmapped
    <3>5. \A g \in rest : \E e \in fetches' : Same(g, e) /\ (Serves(g) => Serves(e))
      BY <1>1, <2>2, <3>4
    <3> HIDE DEF n, moved
    <3>6. ASSUME NEW g \in fetches, g # f
          PROVE  \E e \in fetches' : Same(g, e) /\ (Serves(g) => Serves(e))
      <4>1. PICK d \in rest : Same(g, d) /\ (Serves(g) => Serves(d))
        BY <1>3, <3>6
      <4>2. PICK e \in fetches' : Same(d, e) /\ (Serves(d) => Serves(e))
        BY <3>5
      <4> QED BY <4>1, <4>2 DEF Same
    <3> QED BY <3>2, <3>3, <3>6 DEF moved
  <2> QED BY <2>1, <2>2
<1> HIDE DEF n
<1>6. /\ Proper(data') /\ SameList(data) /\ data'.loading \subseteq data.loading
      /\ Serves(f) => f.id \notin data'.loading
  BY <1>2, DetailProper DEF SameList, Quotas, QuotaTypes
<1>7. /\ hist' \in [own : Versions, overtaken : BOOLEAN, orphans : SUBSET Accounts]
      /\ SameHistory /\ \A x \in hist.orphans : x \in hist'.orphans \/ (Serves(f) /\ x = f.id)
  BY <1>2 DEF Quotas, QuotaTypes, SameHistory
<1>8. Controllers'
  <2>1. ASSUME todo' # <<>> PROVE \E g \in fetches' : g.current
    <3>1. CASE moved
      BY <1>5, <3>1
    <3>2. CASE ~moved
      <4>1. todo # <<>> /\ ~f.current
        BY <1>1, <2>1, <3>2
      <4>2. PICK g \in fetches : g.current
        BY <4>1 DEF Quotas, Controllers
      <4> QED BY <1>5, <4>1, <4>2 DEF Same
    <3> QED BY <3>1, <3>2
  <2> QED BY <1>5, <2>1 DEF Controllers, OneController
<1>9. SpinnerHasRequest'
  <2> SUFFICES ASSUME NEW x \in data'.loading, x \notin Range(todo'), x \notin hist'.orphans
               PROVE  \E g \in fetches' : Serves(g) /\ g.id = x
    BY DEF SpinnerHasRequest, Serves
  <2>1. x \in data.loading /\ x \notin hist.orphans /\ (Serves(f) => f.id # x)
    BY <1>6, <1>7
  <2>2. CASE x \in Range(todo)
    <3>1. moved
      BY <1>1, <2>2
    <3>2. x = Head(todo)
      BY <1>1, <1>4, <2>2, <3>1
    <3> QED BY <1>5, <3>1, <3>2
  <2>3. CASE x \notin Range(todo)
    <3>1. PICK g \in fetches : Serves(g) /\ g.id = x
      BY <2>1, <2>3 DEF Quotas, SpinnerHasRequest, Serves
    <3>2. g # f
      BY <2>1, <3>1
    <3> QED BY <1>5, <3>1, <3>2 DEF Same
  <2> QED BY <2>2, <2>3
<1>10. QuotaTypes'
  <2>1. todo' \in Seq(Accounts)
    BY <1>1, <1>4 DEF Quotas, QuotaTypes
  <2> QED BY <1>5, <1>6, <1>7, <2>1 DEF QuotaTypes, Proper, Ids
<1>11. dirty' = TRUE \/ (data' = data /\ dirty' = dirty)
  BY <1>2
<1> QED BY <1>6, <1>7, <1>8, <1>9, <1>10, <1>11 DEF Quotas

-----------------------------------------------------------------------------
(* The requests for the list *)

GetTypes == gets \in [1 .. Gets -> GetRecord] /\ \A g \in 1 .. Gets : IsInjective(gets[g].list)

\* The request of slot n is the one that counts, and it has not been read.
Renewed(n) ==
    /\ n \in 1 .. Gets /\ gets'[n].place = "sent" /\ ~gets'[n].aborted
    /\ \A g \in 1 .. Gets : g # n =>
          /\ gets'[g].place # "none" => gets'[g].aborted
          /\ gets'[g].place = gets[g].place /\ gets'[g].list = gets[g].list
          /\ gets'[g].active = gets[g].active /\ gets'[g].v = gets[g].v

LEMMA NextSlotFree ==
    ASSUME PanelAssumption, FreeSlots # {}
    PROVE  NextSlot \in 1 .. Gets
<1> DEFINE T == FreeSlots
<1>1. T \subseteq 1 .. Gets /\ T \subseteq Nat /\ T # {}
  BY DEF FreeSlots, PanelAssumption
<1> HIDE DEF T
<1>2. \E m \in T : \A y \in T : m <= y
  BY <1>1, LeastNatural
<1>3. (CHOOSE g \in T : \A h \in T : g <= h) \in T
  BY <1>2
<1> QED BY <1>1, <1>3 DEF NextSlot, T

LEMMA RefreshSound ==
    ASSUME PanelAssumption, GetTypes, NEW force \in BOOLEAN, Refresh(force)
    PROVE  GetTypes' /\ Renewed(NextSlot) /\ NextSlot \in Slots \ {0}
<1> DEFINE n == NextSlot
           new == [NoGet EXCEPT !.place = "sent", !.force = force]
           old(g) == [gets[g] EXCEPT !.aborted = gets[g].place # "none"]
<1>1. /\ n \in 1 .. Gets
      /\ gets' = [g \in 1 .. Gets |-> IF g = n THEN new ELSE old(g)]
  BY NextSlotFree DEF Refresh
<1>2. /\ new \in GetRecord /\ new.place = "sent" /\ ~new.aborted
      /\ IsInjective(new.list)
  <2>1. NoGet \in GetRecord /\ ~NoGet.aborted /\ NoGet.list = <<>>
    BY DEF NoGet, GetRecord, Who, Versions
  <2>2. IsInjective(<<>>)
    BY DEF IsInjective
  <2>3. new \in GetRecord /\ new.place = "sent" /\ new.aborted = NoGet.aborted /\ new.list = <<>>
    BY <2>1 DEF GetRecord
  <2> HIDE DEF new
  <2> QED BY <2>1, <2>2, <2>3
<1>3. ASSUME NEW g \in 1 .. Gets
      PROVE  /\ old(g) \in GetRecord /\ IsInjective(old(g).list)
             /\ old(g).place # "none" => old(g).aborted
             /\ old(g).place = gets[g].place /\ old(g).list = gets[g].list
             /\ old(g).active = gets[g].active /\ old(g).v = gets[g].v
  <2> DEFINE b == gets[g].place # "none"
  <2>1. b \in BOOLEAN /\ gets[g] \in GetRecord /\ IsInjective(gets[g].list)
    BY DEF GetTypes
  <2>2. old(g) = [gets[g] EXCEPT !.aborted = b] /\ (gets[g].place # "none" => b)
    OBVIOUS
  <2> HIDE DEF b, old
  <2> QED BY <2>1, <2>2 DEF GetRecord
<1> HIDE DEF new, old, n
<1>4. GetTypes'
  <2>1. \A g \in 1 .. Gets : gets'[g] = new \/ gets'[g] = old(g)
    BY <1>1
  <2>2. gets' \in [1 .. Gets -> GetRecord]
    BY <1>1, <1>2, <1>3
  <2>3. \A g \in 1 .. Gets : IsInjective(gets'[g].list)
    BY <1>2, <1>3, <2>1
  <2> QED BY <2>2, <2>3 DEF GetTypes
<1>5. Renewed(n)
  <2>1. gets'[n] = new /\ \A g \in 1 .. Gets : g # n => gets'[g] = old(g)
    BY <1>1
  <2> QED BY <1>1, <1>2, <1>3, <2>1 DEF Renewed
<1> QED BY <1>1, <1>4, <1>5 DEF n, Slots, PanelAssumption

\* With a request that counts there is a newer answer to come, whatever the panel knows.
LEMMA RenewedLists ==
    ASSUME NEW n, Renewed(n), Snapshots, server' = server
    PROVE  /\ OneLive' /\ \E g \in 1 .. Gets : Live(g)'
           /\ \A g \in 1 .. Gets : ~(Begun(gets'[g]) /\ Live(g)')
           /\ \A g \in 1 .. Gets : Begun(gets'[g]) => Accurate(gets[g])'
<1>1. \A g \in 1 .. Gets : Live(g)' <=> g = n
  BY DEF Renewed, Live
<1>2. \A g \in 1 .. Gets : Begun(gets'[g]) => g # n
  BY DEF Renewed, Begun
<1>3. ASSUME NEW g \in 1 .. Gets, Begun(gets'[g])
      PROVE  Accurate(gets[g])'
  <2>1. g # n
    BY <1>2, <1>3
  <2>2. /\ Begun(gets[g]) /\ gets'[g].list = gets[g].list /\ gets'[g].place = gets[g].place
        /\ gets'[g].active = gets[g].active /\ gets'[g].v = gets[g].v
    BY <1>3, <2>1 DEF Renewed, Begun
  <2> QED BY <2>2 DEF Snapshots, Accurate
<1>4. n \in 1 .. Gets
  BY DEF Renewed
<1> QED BY <1>1, <1>2, <1>3, <1>4 DEF OneLive

LEMMA RefreshLists ==
    ASSUME NEW n, Renewed(n), Snapshots, server' = server,
           UpToDate(data)', UpToDate(dataRef)',
           hist'.own <= server.v, action'.v <= server.v
    PROVE  OneLive' /\ Snapshots' /\ Fresh' /\ Ordered'
<1>1. /\ OneLive' /\ \E g \in 1 .. Gets : Live(g)'
      /\ \A g \in 1 .. Gets : ~(Begun(gets'[g]) /\ Live(g)')
      /\ \A g \in 1 .. Gets : Begun(gets'[g]) => Accurate(gets[g])'
  BY RenewedLists
<1>2. Snapshots'
  BY <1>1 DEF Snapshots
<1>3. Fresh' /\ Ordered'
  BY <1>1 DEF Fresh, Ordered
<1> QED BY <1>1, <1>2, <1>3

-----------------------------------------------------------------------------
(* Changes of the order *)

LEMMA NextPutFree ==
    ASSUME PanelAssumption, FreePuts # {}
    PROVE  NextPut \in 1 .. Puts
<1> DEFINE T == FreePuts
<1>1. T \subseteq 1 .. Puts /\ T \subseteq Nat /\ T # {}
  BY DEF FreePuts, PanelAssumption
<1> HIDE DEF T
<1>2. \E m \in T : \A y \in T : m <= y
  BY <1>1, LeastNatural
<1>3. (CHOOSE g \in T : \A h \in T : g <= h) \in T
  BY <1>2
<1> QED BY <1>1, <1>3 DEF NextPut, T

\* They are what they were while the proxy does not change, and older once it has.
LEMMA DragsStay ==
    ASSUME Types, Drags, puts' = puts,
           server' = server \/ (server.v \in Nat /\ server'.v = server.v + 1)
    PROVE  Drags'
<1>1. CASE server' = server
  BY <1>1 DEF Drags, Dragged, UpToDate, Proper, Ids
<1>2. CASE server.v \in Nat /\ server'.v = server.v + 1
  <2> SUFFICES ASSUME NEW p \in 1 .. Puts PROVE Dragged(puts[p])'
    BY DEF Drags
  <2> DEFINE q == puts[p]
  <2>1. q \in PutRecord /\ Dragged(q) /\ q.v \in Nat /\ q.previous.v \in Nat
    BY DEF Drags, Dragged, PutRecord, ListState, Versions
  <2>2. q.v <= server.v /\ q.previous.v <= server.v
    BY <2>1 DEF Dragged, UpToDate
  <2>3. q.v <= server'.v /\ q.previous.v <= server'.v /\ q.previous.v # server'.v
    BY <1>2, <2>1, <2>2
  <2>4. puts'[p] = q
    OBVIOUS
  <2> HIDE DEF q
  <2> QED BY <2>1, <2>3, <2>4 DEF Dragged, UpToDate, Proper, Ids
<1> QED BY <1>1, <1>2

\* One of them begins, is answered or ends.
LEMMA DragMoves ==
    ASSUME Types, Drags, NEW p \in 1 .. Puts, NEW q, puts' = [puts EXCEPT ![p] = q],
           q \in PutRecord, Proper(q.previous), IsInjective(q.list),
           q.v <= server'.v, q.previous.v <= server'.v,
           q.previous.v = server'.v => q.previous.active = server'.active,
           server' = server \/ (server.v \in Nat /\ server'.v = server.v + 1)
    PROVE  Drags' /\ puts'[p] = q /\ \A r \in 1 .. Puts : r # p => puts'[r] = puts[r]
<1>1. puts \in [1 .. Puts -> PutRecord] /\ q \in PutRecord
  BY DEF Drags
<1>2. /\ puts' \in [1 .. Puts -> PutRecord] /\ puts'[p] = q
      /\ \A r \in 1 .. Puts : r # p => puts'[r] = puts[r]
  BY <1>1
<1>3. ASSUME NEW r \in 1 .. Puts, r # p
      PROVE  Dragged(puts[r])'
  <2> DEFINE o == puts[r]
  <2>1. o \in PutRecord /\ Dragged(o) /\ o.v \in Nat /\ o.previous.v \in Nat
    BY DEF Drags, Dragged, PutRecord, ListState, Versions
  <2>2. o.v <= server.v /\ o.previous.v <= server.v
    BY <2>1 DEF Dragged, UpToDate
  <2>3. \/ server' = server
        \/ o.v <= server'.v /\ o.previous.v <= server'.v /\ o.previous.v # server'.v
    BY <2>1, <2>2
  <2>4. puts'[r] = o
    BY <1>2, <1>3
  <2> HIDE DEF o
  <2> QED BY <2>1, <2>3, <2>4 DEF Dragged, UpToDate, Proper, Ids
<1>4. Dragged(puts[p])'
  BY <1>2 DEF Dragged, UpToDate, Proper, Ids
<1> QED BY <1>2, <1>3, <1>4 DEF Drags

LEMMA NoPutDragged ==
    ASSUME server.v \in Nat, server.v > 0
    PROVE  Dragged(NoPut)
<1>1. NoData \in ListState /\ NoData.list = <<>> /\ NoData.known = {} /\ NoData.loading = {}
      /\ NoData.v = 0
  BY DEF NoData, ListState, Who, Versions
<1>2. Proper(NoData) /\ UpToDate(NoData) /\ IsInjective(<<>>)
  BY <1>1 DEF Proper, UpToDate, IsInjective
<1> QED BY <1>1, <1>2 DEF NoPut, Dragged, PutRecord, Versions

-----------------------------------------------------------------------------
(* The steps.  Poll and RefreshClick only replace the request. *)

LEMMA JustRefresh ==
    ASSUME PanelAssumption, IInv, Input, NEW force \in BOOLEAN, Refresh(force),
           UNCHANGED <<server, data, dataRef, dirty, view, quotas, error, action, puts, hist>>
    PROVE  IInv'
<1>1. GetTypes' /\ Renewed(NextSlot)
  <2>1. GetTypes
    BY DEF IInv, Types, GetTypes
  <2> QED BY <2>1, RefreshSound
<1>2. Types'
  BY <1>1 DEF IInv, Types, GetTypes, Input, quotas, Proper, Ids
<1>3. OneLive' /\ Snapshots' /\ Fresh' /\ Ordered' /\ Drags'
  <2>1. Snapshots /\ UpToDate(data)' /\ UpToDate(dataRef)'
    BY DEF IInv, Snapshots, UpToDate
  <2>2. hist'.own <= server.v /\ action'.v <= server.v
    BY DEF IInv, Fresh
  <2> QED BY <1>1, <2>1, <2>2, RefreshLists, DragsStay DEF IInv
<1>4. Slotted' /\ Controllers' /\ SpinnerHasRequest' /\ Rendered' /\ Optimism'
  BY DEF IInv, Slotted, Controllers, SpinnerHasRequest, Rendered, Optimism, quotas
<1> QED BY <1>2, <1>3, <1>4 DEF IInv

LEMMA CommitKeeps ==
    ASSUME PanelAssumption, IInv, Commit
    PROVE  IInv'
<1>1. /\ dirty' = FALSE /\ dataRef' = data
      /\ UNCHANGED <<server, data, gets, quotas, error, action, puts, left>>
  BY DEF Commit
<1>2. /\ view' \in [accounts : Seq(Accounts), optimistic : Who]
      /\ view'.accounts = data.list
      /\ view'.optimistic = view.optimistic \/ view'.optimistic = Nobody
      /\ view'.optimistic # Nobody => view'.optimistic # data.active
  <2> DEFINE o == IF view.optimistic = data.active THEN Nobody ELSE view.optimistic
  <2>1. view' = [accounts |-> data.list, optimistic |-> o]
    BY DEF Commit
  <2>2. data.list \in Seq(Accounts) /\ view.optimistic \in Who
    BY DEF IInv, Types, Proper, ListState
  <2>3. o \in Who /\ (o = view.optimistic \/ o = Nobody) /\ (o # Nobody => o # data.active)
    BY <2>2 DEF Who
  <2> HIDE DEF o
  <2> QED BY <2>1, <2>2, <2>3
<1>3. /\ hist' \in [own : Versions, overtaken : BOOLEAN, orphans : SUBSET Accounts]
      /\ hist'.own = hist.own /\ hist'.orphans = hist.orphans
      /\ ~hist'.overtaken => ~hist.overtaken \/ (view'.optimistic = Nobody /\ action = NoAction)
  <2> DEFINE b == hist.overtaken /\ (view'.optimistic # Nobody \/ action # NoAction)
  <2>1. hist' = [hist EXCEPT !.overtaken = b]
    BY DEF Commit
  <2>2. hist \in [own : Versions, overtaken : BOOLEAN, orphans : SUBSET Accounts]
    BY DEF IInv, Types
  <2>3. b \in BOOLEAN
        /\ (~b => ~hist.overtaken \/ (view'.optimistic = Nobody /\ action = NoAction))
    BY <2>2
  <2> HIDE DEF b
  <2> QED BY <2>1, <2>2, <2>3
<1>4. Types'
  <2>1. IsInjective(view'.accounts) /\ Proper(dataRef')
    BY <1>1, <1>2 DEF IInv, Types, Proper
  <2> QED BY <1>1, <1>2, <1>3, <2>1 DEF IInv, Types, quotas, Proper, Ids
<1>5. Slotted' /\ Controllers' /\ SpinnerHasRequest' /\ OneLive' /\ Fresh' /\ Ordered'
  BY <1>1, <1>3 DEF IInv, Slotted, Controllers, SpinnerHasRequest, OneLive, Live, Fresh, Ordered,
                    quotas
<1>6. Snapshots' /\ Drags'
  BY <1>1, DragsStay DEF IInv, Snapshots, UpToDate, Accurate
<1>7. Rendered'
  BY <1>1, <1>2 DEF Rendered
<1>8. Optimism'
  <2>1. CASE ~hist.overtaken
    <3>1. action.place = "posting" => action.id # Nobody
      BY DEF IInv, Types, PanelAssumption
    <3> QED BY <1>1, <1>2, <2>1, <3>1 DEF IInv, Optimism
  <2>2. CASE view'.optimistic = Nobody /\ action = NoAction
    BY <1>1, <2>2 DEF Optimism, NoAction
  <2> QED BY <1>3, <2>1, <2>2 DEF Optimism
<1> QED BY <1>4, <1>5, <1>6, <1>7, <1>8 DEF IInv

\* FinishFetch and RefreshAccountQuota: a step on the quotas alone.
LEMMA QuotaStep ==
    ASSUME IInv, Quotas', SameList(data), SameHistory,
           dirty' = TRUE \/ (data' = data /\ dirty' = dirty), left' \in Nat,
           UNCHANGED <<server, dataRef, view, gets, error, action, puts>>
    PROVE  IInv'
<1>1. dirty' \in BOOLEAN
  BY DEF IInv, Types
<1>2. Types'
  BY <1>1 DEF IInv, Types, Quotas, QuotaTypes, Proper, Ids
<1>3. Slotted' /\ OneLive' /\ Fresh' /\ Ordered' /\ Optimism'
  BY DEF IInv, Slotted, OneLive, Live, Fresh, Ordered, Optimism, SameList, SameHistory
<1>4. Snapshots' /\ Drags'
  BY DragsStay DEF IInv, Snapshots, UpToDate, SameList, Accurate
<1>5. Rendered'
  BY DEF IInv, Rendered
<1> QED BY <1>2, <1>3, <1>4, <1>5 DEF IInv, Quotas

LEMMA FetchKeeps ==
    ASSUME IInv,
           (\E f \in fetches : FinishFetch(f)) \/ (\E id \in Accounts : RefreshAccountQuota(id))
    PROVE  IInv'
<1>1. Quotas /\ left \in Nat
  BY DEF IInv, Quotas, QuotaTypes, Types
<1>2. ASSUME NEW f \in fetches, FinishFetch(f)
      PROVE  IInv'
  <2>1. /\ Quotas' /\ SameList(data) /\ SameHistory
        /\ dirty' = TRUE \/ (data' = data /\ dirty' = dirty)
    BY <1>1, <1>2, FinishFetchSound
  <2>2. UNCHANGED <<server, dataRef, view, gets, error, action, puts>> /\ left' = left
    BY <1>2 DEF FinishFetch
  <2> QED BY <1>1, <2>1, <2>2, QuotaStep
<1>3. ASSUME NEW id \in Accounts, RefreshAccountQuota(id)
      PROVE  IInv'
  <2>1. Quotas' /\ SameList(data) /\ SameHistory /\ dirty' = TRUE
    BY <1>1, <1>3, RefreshAccountQuotaSound
  <2>2. UNCHANGED <<server, dataRef, view, gets, error, action, puts>> /\ left' \in Nat
    BY <1>1, <1>3 DEF RefreshAccountQuota, Input
  <2> QED BY <2>1, <2>2, QuotaStep
<1> QED BY <1>2, <1>3

\* ListRead and ActiveRead: a request gets a part of its answer.
LEMMA ReadStep ==
    ASSUME IInv, NEW g \in 1 .. Gets, NEW new, new \in GetRecord, IsInjective(new.list),
           Accurate(new), Begun(new), new.aborted = gets[g].aborted, gets[g].place # "none",
           Live(g) => data.v <= new.v /\ hist.own <= new.v,
           gets' = [gets EXCEPT ![g] = new],
           UNCHANGED <<server, data, dataRef, dirty, view, quotas, error, action, puts, left, hist>>
    PROVE  IInv'
<1>1. gets'[g] = new /\ \A h \in 1 .. Gets : h # g => gets'[h] = gets[h]
  BY DEF IInv, Types
<1>2. GetTypes'
  <2>1. gets' \in [1 .. Gets -> GetRecord]
    BY DEF IInv, Types
  <2>2. \A h \in 1 .. Gets : IsInjective(gets'[h].list)
    BY <1>1 DEF IInv, Types
  <2> QED BY <2>1, <2>2 DEF GetTypes
<1>3. Types'
  BY <1>2 DEF IInv, Types, GetTypes, quotas, Proper, Ids
<1>4. \A h \in 1 .. Gets : Live(h)' <=> Live(h)
  BY <1>1 DEF Live, Begun
<1>5. OneLive'
  BY <1>4 DEF IInv, OneLive
<1>6. Snapshots' /\ Drags'
  <2>1. \A h \in 1 .. Gets : Begun(gets'[h]) => Accurate(gets'[h])
    BY <1>1 DEF IInv, Snapshots
  <2> QED BY <2>1, DragsStay DEF IInv, Snapshots, UpToDate, Accurate
<1>7. Fresh'
  <2>1. \A h \in 1 .. Gets : Begun(gets'[h]) /\ Live(h)' =>
            data.v <= gets'[h].v /\ hist.own <= gets'[h].v
    BY <1>1, <1>4 DEF IInv, Fresh
  <2>2. (\E h \in 1 .. Gets : Live(h)') \/ error \/ hist.own <= data.v
    BY <1>4 DEF IInv, Fresh
  <2> QED BY <2>1, <2>2 DEF IInv, Fresh
<1>8. Ordered'
  BY <1>4 DEF IInv, Ordered
<1>9. Slotted' /\ Controllers' /\ SpinnerHasRequest' /\ Rendered' /\ Optimism'
  BY DEF IInv, Slotted, Controllers, SpinnerHasRequest, Rendered, Optimism, quotas
<1> QED BY <1>3, <1>5, <1>6, <1>7, <1>8, <1>9 DEF IInv

LEMMA ListReadKeeps ==
    ASSUME IInv, NEW g \in 1 .. Gets, ListRead(g)
    PROVE  IInv'
<1> DEFINE new == [gets[g] EXCEPT !.place = "listed", !.list = server.list, !.v = server.v]
<1>1. /\ gets[g].place = "sent" /\ gets' = [gets EXCEPT ![g] = new]
      /\ UNCHANGED <<server, data, dataRef, dirty, view, quotas, error, action, puts, left, hist>>
  <2>1. gets \in [1 .. Gets -> GetRecord]
    BY DEF IInv, Types
  <2> QED BY <2>1 DEF ListRead
<1>2. /\ gets[g] \in GetRecord /\ server \in [list : Seq(Accounts), active : Who, v : Versions]
      /\ IsInjective(server.list)
  BY DEF IInv, Types
<1>3. /\ new \in GetRecord /\ new.place = "listed" /\ new.aborted = gets[g].aborted
      /\ new.list = server.list /\ new.v = server.v
  BY <1>2 DEF GetRecord
<1> HIDE DEF new
<1>4. Accurate(new) /\ Begun(new) /\ IsInjective(new.list)
  BY <1>2, <1>3 DEF Accurate, Begun, Versions
<1>5. data.v <= new.v /\ hist.own <= new.v
  BY <1>3 DEF IInv, Snapshots, UpToDate, Fresh
<1> QED BY <1>1, <1>3, <1>4, <1>5, ReadStep

\* The list is of this version, or out of date: so the active account need not be looked at.
LEMMA ActiveReadKeeps ==
    ASSUME IInv, NEW g \in 1 .. Gets, ActiveRead(g)
    PROVE  IInv'
<1> DEFINE new == [gets[g] EXCEPT !.place = "read", !.active = server.active]
<1>1. /\ gets[g].place = "listed" /\ gets' = [gets EXCEPT ![g] = new]
      /\ UNCHANGED <<server, data, dataRef, dirty, view, quotas, error, action, puts, left, hist>>
  <2>1. gets \in [1 .. Gets -> GetRecord]
    BY DEF IInv, Types
  <2> QED BY <2>1 DEF ActiveRead
<1>2. /\ gets[g] \in GetRecord /\ server \in [list : Seq(Accounts), active : Who, v : Versions]
      /\ IsInjective(gets[g].list)
  BY DEF IInv, Types
<1>3. /\ new \in GetRecord /\ new.place = "read" /\ new.aborted = gets[g].aborted
      /\ new.list = gets[g].list /\ new.v = gets[g].v /\ new.active = server.active
  BY <1>2 DEF GetRecord
<1>4. Begun(gets[g]) /\ Accurate(gets[g])
  BY <1>1 DEF IInv, Snapshots, Begun
<1> HIDE DEF new
<1>5. Accurate(new) /\ Begun(new) /\ IsInjective(new.list)
  BY <1>2, <1>3, <1>4 DEF Accurate, Begun
<1>6. Live(g) => data.v <= new.v /\ hist.own <= new.v
  BY <1>3, <1>4 DEF IInv, Fresh
<1> QED BY <1>1, <1>3, <1>5, <1>6, ReadStep

\* Whoever awaited the answer goes on.
Resumed(g) ==
    /\ gets'[g].place = "none" /\ \A h \in 1 .. Gets : h # g => gets'[h] = gets[h]
    /\ action' = action \/ (action' = NoAction /\ action.place = "refreshing")
    /\ puts' = puts

LEMMA ResumeSound ==
    ASSUME PanelAssumption, Types, Slotted, NEW g \in 1 .. Gets, Resume(g)
    PROVE  /\ GetTypes' /\ Resumed(g) /\ Slotted'
           /\ action' \in ActionRecord /\ (action'.place # "none" => action'.id \in Accounts)
<1>1. <<>> \in Seq(Accounts) /\ IsInjective(<<>>) /\ 0 \in Slots /\ g # 0
  BY DEF IsInjective, Slots, PanelAssumption
<1>2. /\ NoGet \in GetRecord /\ NoGet.place = "none" /\ IsInjective(NoGet.list)
      /\ NoAction \in ActionRecord /\ NoAction.place = "none" /\ NoAction.slot = 0
  BY <1>1 DEF NoGet, NoAction, GetRecord, ActionRecord, Who, Versions
<1>3. /\ gets' = [gets EXCEPT ![g] = NoGet]
      /\ action' = action \/ (action' = NoAction /\ action.slot = g)
      /\ puts' = puts
  BY DEF Resume
<1>4. GetTypes'
  BY <1>2, <1>3 DEF Types, GetTypes
<1>5. Resumed(g)
  <2>1. gets'[g] = NoGet /\ \A h \in 1 .. Gets : h # g => gets'[h] = gets[h]
    BY <1>3 DEF Types
  <2> QED BY <1>1, <1>2, <1>3, <2>1 DEF Slotted, Resumed
<1> QED BY <1>2, <1>3, <1>4, <1>5 DEF Types, Slotted

LEMMA NoActionKnown ==
    ASSUME Types, server.v > 0
    PROVE  NoAction.v <= server.v
BY DEF Types, NoAction, Versions

LEMMA ResumedLists ==
    ASSUME Types, OneLive, Snapshots, Drags, Fresh, NEW g \in 1 .. Gets, Resumed(g),
           server' = server, dataRef' = dataRef, hist'.own = hist.own, UpToDate(data)',
           \A h \in 1 .. Gets : h # g /\ Begun(gets[h]) /\ Live(h) => data'.v <= gets[h].v,
           (\E h \in 1 .. Gets : h # g /\ Live(h)) \/ error' \/ hist.own <= data'.v
    PROVE  OneLive' /\ Snapshots' /\ Drags' /\ Fresh'
<1>1. \A h \in 1 .. Gets : /\ Live(h)' <=> h # g /\ Live(h)
                           /\ Begun(gets'[h]) => h # g /\ gets'[h] = gets[h]
  BY DEF Resumed, Live, Begun
<1>2. OneLive'
  BY <1>1 DEF OneLive
<1>3. action'.v <= server.v
  BY NoActionKnown DEF Resumed, Snapshots, Fresh
<1>4. Snapshots'
  BY <1>1 DEF Snapshots, UpToDate, Accurate
<1>5. Fresh'
  BY <1>1, <1>3 DEF Fresh
<1>6. Drags'
  BY DragsStay DEF Resumed
<1> QED BY <1>2, <1>4, <1>5, <1>6

LEMMA ResumedScreen ==
    ASSUME PanelAssumption, Types, Optimism, NEW g, Resumed(g), server' = server, view' = view,
           hist'.overtaken = hist.overtaken
    PROVE  Optimism'
<1>1. NoAction.place = "none"
  BY DEF NoAction
<1> QED BY <1>1 DEF Optimism, Resumed

LEMMA ListFailsKeeps ==
    ASSUME PanelAssumption, IInv, NEW g \in 1 .. Gets, ListFails(g)
    PROVE  IInv'
<1>1. /\ error' = TRUE /\ Resume(g) /\ left' \in Nat
      /\ UNCHANGED <<server, data, dataRef, dirty, view, quotas, hist>>
  BY DEF ListFails, Input, IInv, Types
<1>2. /\ GetTypes' /\ Resumed(g) /\ Slotted'
      /\ action' \in ActionRecord /\ (action'.place # "none" => action'.id \in Accounts)
  BY <1>1, ResumeSound DEF IInv
<1>3. Types'
  BY <1>1, <1>2 DEF IInv, Types, GetTypes, quotas, Proper, Ids
<1>4. OneLive' /\ Snapshots' /\ Drags' /\ Fresh'
  <2>1. UpToDate(data)'
    BY <1>1 DEF IInv, Snapshots, UpToDate
  <2>2. \A h \in 1 .. Gets : Begun(gets[h]) /\ Live(h) => data'.v <= gets[h].v
    BY <1>1 DEF IInv, Fresh
  <2> QED BY <1>1, <1>2, <2>1, <2>2, ResumedLists DEF IInv
<1>5. Controllers' /\ SpinnerHasRequest' /\ Rendered'
  BY <1>1 DEF IInv, Controllers, SpinnerHasRequest, Rendered, quotas
<1>6. Ordered'
  BY <1>1 DEF Ordered
<1>7. Optimism'
  BY <1>1, <1>2, ResumedScreen DEF IInv
<1> QED BY <1>2, <1>3, <1>4, <1>5, <1>6, <1>7 DEF IInv

LEMMA ListAnswerKeeps ==
    ASSUME PanelAssumption, IInv, NEW g \in 1 .. Gets, ListAnswer(g)
    PROVE  IInv'
<1>1. gets[g].place = "read" /\ Resume(g) /\ UNCHANGED <<server, dataRef, view, left>>
  BY DEF ListAnswer
<1>2. /\ GetTypes' /\ Resumed(g) /\ Slotted'
      /\ action' \in ActionRecord /\ (action'.place # "none" => action'.id \in Accounts)
  BY <1>1, ResumeSound DEF IInv
<1>3. CASE gets[g].aborted
  <2>1. UNCHANGED <<data, dirty, quotas, error, hist>>
    BY <1>3 DEF ListAnswer
  <2>2. Types'
    BY <1>1, <1>2, <2>1 DEF IInv, Types, GetTypes, quotas, Proper, Ids
  <2>3. OneLive' /\ Snapshots' /\ Drags' /\ Fresh'
    <3>1. UpToDate(data)'
      BY <1>1, <2>1 DEF IInv, Snapshots, UpToDate
    <3>2. \A h \in 1 .. Gets : Begun(gets[h]) /\ Live(h) => data'.v <= gets[h].v
      BY <2>1 DEF IInv, Fresh
    <3>3. (\E h \in 1 .. Gets : h # g /\ Live(h)) \/ error' \/ hist.own <= data'.v
      BY <1>3, <2>1 DEF IInv, Fresh, Live
    <3> QED BY <1>1, <1>2, <2>1, <3>1, <3>2, <3>3, ResumedLists DEF IInv
  <2>4. Controllers' /\ SpinnerHasRequest' /\ Rendered'
    BY <1>1, <2>1 DEF IInv, Controllers, SpinnerHasRequest, Rendered, quotas
  <2>5. Ordered'
    <3>1. \A h \in 1 .. Gets : Live(h) => Live(h)'
      BY <1>2, <1>3 DEF Resumed, Live
    <3> QED BY <1>1, <1>2, <2>1, <3>1 DEF IInv, Ordered, Resumed
  <2>6. Optimism'
    BY <1>1, <1>2, <2>1, ResumedScreen DEF IInv
  <2> QED BY <1>2, <2>2, <2>3, <2>4, <2>5, <2>6 DEF IInv
<1>4. CASE ~gets[g].aborted
  <2> DEFINE merged == MergeLightRefresh(dataRef, gets[g])
  <2>1. RefreshQuotas(merged, gets[g].force) /\ error' = FALSE
    BY <1>4 DEF ListAnswer
  <2>2. gets[g] \in GetRecord /\ gets[g].force \in BOOLEAN
    <3>1. gets[g] \in GetRecord
      BY DEF IInv, Types
    <3> QED BY <3>1 DEF GetRecord
  <2>3. /\ Proper(merged) /\ merged.list = gets[g].list /\ merged.active = gets[g].active
        /\ merged.v = gets[g].v
    BY <2>2, MergeProper DEF IInv, Types
  <2> HIDE DEF merged
  <2>4. Quotas' /\ SameList(merged) /\ SameHistory /\ dirty' = TRUE
    <3>1. Quotas
      BY DEF IInv, Quotas, QuotaTypes, Types
    <3> QED BY <2>1, <2>2, <2>3, <3>1, RefreshQuotasSound
  <2>5. Types'
    BY <1>1, <1>2, <2>1, <2>4 DEF IInv, Types, GetTypes, Quotas, QuotaTypes, Proper, Ids
  <2>6. Live(g) /\ hist.own <= gets[g].v /\ UpToDate(gets[g])
        /\ (gets[g].v = server.v => gets[g].list = server.list)
    BY <1>1, <1>4 DEF IInv, Live, Fresh, Snapshots, Begun, Accurate, UpToDate
  <2>7. OneLive' /\ Snapshots' /\ Drags' /\ Fresh'
    <3>1. UpToDate(data)'
      BY <1>1, <2>3, <2>4, <2>6 DEF UpToDate, SameList
    <3>2. \A h \in 1 .. Gets : h # g => ~Live(h)
      BY <2>6 DEF IInv, OneLive
    <3>3. hist'.own = hist.own /\ hist.own <= data'.v
      BY <2>3, <2>4, <2>6 DEF SameHistory, SameList
    <3> QED BY <1>1, <1>2, <3>1, <3>2, <3>3, ResumedLists DEF IInv
  <2>8. Ordered'
    BY <1>1, <2>3, <2>4, <2>6 DEF Ordered, SameList
  <2>9. Rendered'
    BY <2>4 DEF Rendered
  <2>10. Optimism'
    BY <1>1, <1>2, <2>4, ResumedScreen DEF IInv, SameHistory
  <2> QED BY <1>2, <2>4, <2>5, <2>7, <2>8, <2>9, <2>10 DEF IInv, Quotas
<1> QED BY <1>3, <1>4

LEMMA BeginKeeps ==
    ASSUME PanelAssumption, IInv, NEW type \in {"activate", "applyZCode", "delete"},
           NEW id \in Accounts, Begin(type, id)
    PROVE  IInv'
<1> DEFINE b == ActiveAccountId = id
<1>1. /\ left' \in Nat /\ action = NoAction
      /\ action' = [NoAction EXCEPT !.type = type, !.id = id, !.place = "posting", !.wasActive = b]
      /\ UNCHANGED <<server, data, dataRef, dirty, view, gets, quotas, error, puts, hist>>
  BY DEF Begin, Enabled, Input, IInv, Types
<1>2. b \in BOOLEAN /\ (~b => view.optimistic = Nobody \/ view.optimistic # id)
  BY DEF ActiveAccountId
<1> HIDE DEF b
<1>3. /\ action' \in ActionRecord /\ action'.place = "posting" /\ action'.id = id
      /\ action'.wasActive = b /\ action'.slot = 0 /\ action'.v = action.v
  <2>1. NoAction \in ActionRecord /\ NoAction.slot = 0
    BY DEF NoAction, ActionRecord, Who, Versions, Slots, PanelAssumption
  <2> QED BY <1>1, <1>2, <2>1 DEF ActionRecord, Who
<1>4. Types'
  BY <1>1, <1>3 DEF IInv, Types, quotas, Proper, Ids
<1>5. OneLive' /\ Fresh' /\ Controllers' /\ SpinnerHasRequest' /\ Ordered' /\ Rendered' /\ Slotted'
  BY <1>1, <1>3 DEF IInv, OneLive, Live, Fresh, Controllers, SpinnerHasRequest, Ordered, Rendered,
                    Slotted, quotas
<1>6. Snapshots' /\ Drags'
  BY <1>1, DragsStay DEF IInv, Snapshots, UpToDate, Accurate
<1>7. Optimism'
  <2>1. NoAction.place = "none" /\ id # Nobody
    BY DEF NoAction, PanelAssumption
  <2> QED BY <1>1, <1>2, <1>3, <2>1 DEF IInv, Optimism
<1> QED BY <1>4, <1>5, <1>6, <1>7 DEF IInv

LEMMA FailedKeeps ==
    ASSUME PanelAssumption, IInv, Failed
    PROVE  IInv'
<1>1. /\ action.place = "failed" /\ action' = NoAction
      /\ UNCHANGED <<server, data, dataRef, dirty, view, gets, quotas, error, puts, left, hist>>
  BY DEF Failed
<1>2. NoAction \in ActionRecord /\ NoAction.slot = 0 /\ NoAction.place = "none"
  BY DEF NoAction, ActionRecord, Who, Versions, Slots, PanelAssumption
<1>3. NoAction.v <= server.v
  BY NoActionKnown DEF IInv, Snapshots
<1>4. Types'
  BY <1>1, <1>2 DEF IInv, Types, quotas, Proper, Ids
<1>5. OneLive' /\ Fresh' /\ Controllers' /\ SpinnerHasRequest' /\ Ordered' /\ Rendered' /\ Slotted'
  BY <1>1, <1>2, <1>3 DEF IInv, OneLive, Live, Fresh, Controllers, SpinnerHasRequest, Ordered,
                          Rendered, Slotted, quotas
<1>6. Snapshots' /\ Drags'
  BY <1>1, DragsStay DEF IInv, Snapshots, UpToDate, Accurate
<1>7. Optimism'
  BY <1>1, <1>2 DEF IInv, Optimism
<1> QED BY <1>4, <1>5, <1>6, <1>7 DEF IInv

LEMMA DoneKeeps ==
    ASSUME PanelAssumption, IInv, Done
    PROVE  IInv'
<1> DEFINE n == NextSlot
           own == IF hist.own < action.v THEN action.v ELSE hist.own
<1>1. /\ action.place = "done" /\ dirty' = TRUE
      /\ action' = [action EXCEPT !.place = "refreshing", !.slot = n]
      /\ hist' = [hist EXCEPT !.own = own]
      /\ UNCHANGED <<server, data, dataRef, quotas, error, puts, left>>
  BY DEF Done
<1>2. GetTypes' /\ Renewed(n) /\ n \in Slots
  <2>1. GetTypes /\ Refresh(action.type = "delete") /\ (action.type = "delete") \in BOOLEAN
    BY DEF IInv, Types, GetTypes, Done
  <2> QED BY <2>1, RefreshSound
<1>3. /\ action \in ActionRecord /\ action.id \in Accounts
      /\ hist \in [own : Versions, overtaken : BOOLEAN, orphans : SUBSET Accounts]
      /\ hist.own <= server.v /\ action.v <= server.v
  BY <1>1 DEF IInv, Types, Fresh
<1>4. own \in Versions /\ own <= server.v
  BY <1>3 DEF ActionRecord, Versions
<1> HIDE DEF n, own
<1>5. /\ action' \in ActionRecord /\ action'.id \in Accounts
      /\ action'.place = "refreshing" /\ action'.v = action.v
  BY <1>1, <1>2, <1>3 DEF ActionRecord
<1>6. /\ hist' \in [own : Versions, overtaken : BOOLEAN, orphans : SUBSET Accounts]
      /\ hist'.own = own /\ hist'.overtaken = hist.overtaken /\ hist'.orphans = hist.orphans
  BY <1>1, <1>3, <1>4
<1>7. /\ view' \in [accounts : Seq(Accounts), optimistic : Who] /\ IsInjective(view'.accounts)
      /\ action.type # "delete" => view'.optimistic = action.id
      /\ action.type = "delete" =>
            view'.optimistic = IF action.wasActive THEN action.active ELSE view.optimistic
  <2>1. view \in [accounts : Seq(Accounts), optimistic : Who] /\ IsInjective(view.accounts)
    BY DEF IInv, Types
  <2>2. CASE action.type = "delete"
    <3> DEFINE kept == Keep(view.accounts, Accounts \ {action.id})
               o == IF action.wasActive THEN action.active ELSE view.optimistic
    <3>1. view' = [accounts |-> kept, optimistic |-> o]
      BY <2>2 DEF Done
    <3>2. kept \in Seq(Accounts) /\ IsInjective(kept)
      BY <2>1, KeepInjective
    <3>3. o \in Who
      BY <1>3, <2>1 DEF ActionRecord
    <3> HIDE DEF kept
    <3> QED BY <2>2, <3>1, <3>2, <3>3
  <2>3. CASE action.type # "delete"
    <3>1. view' = [view EXCEPT !.optimistic = action.id]
      BY <2>3 DEF Done
    <3> QED BY <1>3, <2>1, <2>3, <3>1 DEF Who
  <2> QED BY <2>2, <2>3
<1>8. Types'
  BY <1>1, <1>2, <1>5, <1>6, <1>7 DEF IInv, Types, GetTypes, quotas, Proper, Ids
<1>9. OneLive' /\ Snapshots' /\ Drags' /\ Fresh' /\ Ordered'
  <2>1. Snapshots /\ UpToDate(data)' /\ UpToDate(dataRef)'
    BY <1>1 DEF IInv, Snapshots, UpToDate
  <2>2. hist'.own <= server.v /\ action'.v <= server.v
    BY <1>1, <1>3, <1>4, <1>5, <1>6 DEF IInv, Fresh
  <2> QED BY <1>1, <1>2, <2>1, <2>2, RefreshLists, DragsStay DEF IInv
<1>10. Controllers' /\ SpinnerHasRequest' /\ Rendered' /\ Slotted'
  BY <1>1, <1>5, <1>6 DEF IInv, Controllers, SpinnerHasRequest, Rendered, Slotted, quotas
<1>11. Optimism'
  BY <1>1, <1>5, <1>6, <1>7 DEF IInv, Optimism
<1> QED BY <1>8, <1>9, <1>10, <1>11 DEF IInv

LEMMA PersistOrderKeeps ==
    ASSUME PanelAssumption, IInv, NEW ordered \in SetToSeqs(Range(view.accounts)),
           PersistOrder(ordered)
    PROVE  IInv'
<1> DEFINE known == dataRef.known \cap Range(ordered)
           loading == dataRef.loading \cap Range(ordered)
           n == NextPut
           q == [NoPut EXCEPT !.place = "posting", !.list = ordered, !.previous = dataRef]
<1>1. /\ left' \in Nat /\ FreePuts # {} /\ dirty' = TRUE
      /\ view' = [view EXCEPT !.accounts = ordered]
      /\ data' = [list |-> ordered, active |-> data.active, v |-> data.v,
                  known |-> known, loading |-> loading]
      /\ puts' = [puts EXCEPT ![n] = q]
      /\ hist' = [hist EXCEPT !.orphans = @ \cup (data'.loading \ data.loading)]
      /\ UNCHANGED <<server, dataRef, gets, quotas, error, action>>
  BY DEF PersistOrder, Input, IInv, Types
<1>2. ordered \in Seq(Accounts) /\ IsInjective(ordered) /\ Range(ordered) \subseteq Accounts
  <2>1. Range(view.accounts) \subseteq Accounts
    BY RangeIn DEF IInv, Types
  <2>2. ordered \in Seq(Accounts) /\ IsInjective(ordered)
    BY <2>1, OrderInjective
  <2> QED BY <2>2, RangeIn
<1>3. /\ known \subseteq Accounts /\ loading \subseteq Accounts
      /\ known \cup loading \subseteq Range(ordered)
  BY <1>2
<1> HIDE DEF known, loading
<1>4. /\ Proper(data') /\ data'.active = data.active /\ data'.v = data.v
      /\ data'.loading \subseteq Accounts
  BY <1>1, <1>2, <1>3 DEF IInv, Types, Proper, ListState, Ids
<1>5. /\ Drags' /\ puts'[n] = q /\ q.place = "posting" /\ n \in 1 .. Puts
      /\ \A r \in 1 .. Puts : r # n => puts'[r] = puts[r]
  <2>1. /\ q \in PutRecord /\ q.previous = dataRef /\ q.list = ordered /\ q.v = 0
        /\ q.place = "posting"
    <3>1. NoPut \in PutRecord /\ NoPut.v = 0
      BY NoPutDragged DEF IInv, Types, Snapshots, Versions, Dragged, NoPut
    <3>2. dataRef \in ListState
      BY DEF IInv, Types, Proper
    <3> QED BY <1>2, <3>1, <3>2 DEF PutRecord
  <2>2. n \in 1 .. Puts
    BY <1>1, NextPutFree
  <2>3. 0 <= server.v /\ UpToDate(dataRef) /\ Proper(dataRef) /\ server' = server
    BY <1>1 DEF IInv, Types, Versions, Snapshots
  <2>4. Types /\ Drags /\ puts' = [puts EXCEPT ![n] = q]
    BY <1>1 DEF IInv
  <2> HIDE DEF q, n
  <2>5. /\ Proper(q.previous) /\ IsInjective(q.list) /\ q.v <= server'.v
        /\ q.previous.v <= server'.v
        /\ q.previous.v = server'.v => q.previous.active = server'.active
    BY <1>2, <2>1, <2>3 DEF UpToDate
  <2> QED BY <2>1, <2>2, <2>3, <2>4, <2>5, DragMoves
<1> HIDE DEF n, q
<1>6. /\ hist' \in [own : Versions, overtaken : BOOLEAN, orphans : SUBSET Accounts]
      /\ hist'.own = hist.own /\ hist'.overtaken = hist.overtaken
      /\ hist'.orphans = hist.orphans \cup (data'.loading \ data.loading)
  BY <1>1, <1>4 DEF IInv, Types
<1>7. view' \in [accounts : Seq(Accounts), optimistic : Who] /\ view'.accounts = ordered
      /\ view'.optimistic = view.optimistic
  BY <1>1, <1>2 DEF IInv, Types
<1>8. Types'
  <2>1. IsInjective(view'.accounts)
    BY <1>2, <1>7
  <2> QED BY <1>1, <1>4, <1>6, <1>7, <2>1 DEF IInv, Types, quotas, Proper, Ids
<1>9. Controllers' /\ SpinnerHasRequest'
  BY <1>1, <1>6 DEF IInv, Controllers, SpinnerHasRequest, quotas
<1>10. Snapshots'
  BY <1>1, <1>4 DEF IInv, Snapshots, UpToDate, Accurate
<1>11. Fresh' /\ OneLive'
  BY <1>1, <1>4, <1>6 DEF IInv, Fresh, OneLive, Live
<1>12. Ordered' /\ Rendered' /\ Slotted'
  BY <1>1, <1>5 DEF IInv, Ordered, Rendered, Slotted
<1>13. Optimism'
  BY <1>1, <1>6, <1>7 DEF IInv, Optimism
<1> QED BY <1>5, <1>8, <1>9, <1>10, <1>11, <1>12, <1>13 DEF IInv

LEMMA DragEnds ==
    ASSUME Types, Snapshots, Drags, NEW p \in 1 .. Puts, puts' = [puts EXCEPT ![p] = NoPut],
           server' = server
    PROVE  Drags'
<1>1. Dragged(NoPut)
  BY NoPutDragged DEF Types, Versions, Snapshots
<1> DEFINE q == NoPut
<1>2. /\ q \in PutRecord /\ Proper(q.previous) /\ IsInjective(q.list) /\ q.v <= server'.v
      /\ q.previous.v <= server'.v
      /\ q.previous.v = server'.v => q.previous.active = server'.active
  BY <1>1 DEF Dragged, UpToDate
<1>3. puts' = [puts EXCEPT ![p] = q]
  OBVIOUS
<1> HIDE DEF q
<1> QED BY <1>2, <1>3, DragMoves

LEMMA OrderSavedKeeps ==
    ASSUME PanelAssumption, IInv, NEW p \in 1 .. Puts, OrderSaved(p)
    PROVE  IInv'
<1> DEFINE n == NextSlot
           own == IF hist.own < puts[p].v THEN puts[p].v ELSE hist.own
<1>1. /\ puts[p].place = "done" /\ error' = FALSE
      /\ puts' = [puts EXCEPT ![p] = NoPut]
      /\ hist' = [hist EXCEPT !.own = own]
      /\ UNCHANGED <<server, data, dataRef, dirty, view, quotas, action, left>>
  BY DEF OrderSaved
<1>2. GetTypes' /\ Renewed(n) /\ n \in Slots
  <2>1. GetTypes /\ Refresh(FALSE)
    BY DEF IInv, Types, GetTypes, OrderSaved
  <2> QED BY <2>1, RefreshSound
<1>3. /\ puts[p].v \in Versions /\ puts[p].v <= server.v /\ hist.own <= server.v
      /\ hist \in [own : Versions, overtaken : BOOLEAN, orphans : SUBSET Accounts]
  BY DEF IInv, Types, Drags, Dragged, PutRecord, Fresh
<1>4. own \in Versions /\ own <= server.v
  BY <1>3 DEF Versions
<1> HIDE DEF n, own
<1>5. /\ hist' \in [own : Versions, overtaken : BOOLEAN, orphans : SUBSET Accounts]
      /\ hist'.own = own /\ hist'.overtaken = hist.overtaken /\ hist'.orphans = hist.orphans
  BY <1>1, <1>3, <1>4
<1>6. Drags'
  BY <1>1, DragEnds DEF IInv
<1>7. Types'
  BY <1>1, <1>2, <1>5 DEF IInv, Types, GetTypes, quotas, Proper, Ids
<1>8. OneLive' /\ Snapshots' /\ Fresh' /\ Ordered'
  <2>1. Snapshots /\ UpToDate(data)' /\ UpToDate(dataRef)'
    BY <1>1 DEF IInv, Snapshots, UpToDate
  <2>2. hist'.own <= server.v /\ action'.v <= server.v
    BY <1>1, <1>4, <1>5 DEF IInv, Fresh
  <2> QED BY <1>1, <1>2, <2>1, <2>2, RefreshLists
<1>9. Controllers' /\ SpinnerHasRequest' /\ Rendered' /\ Slotted'
  BY <1>1, <1>5 DEF IInv, Controllers, SpinnerHasRequest, Rendered, Slotted, quotas
<1>10. Optimism'
  BY <1>1, <1>5 DEF IInv, Optimism
<1> QED BY <1>6, <1>7, <1>8, <1>9, <1>10 DEF IInv

LEMMA OrderFailedKeeps ==
    ASSUME PanelAssumption, IInv, NEW p \in 1 .. Puts, OrderFailed(p)
    PROVE  IInv'
<1> DEFINE n == NextSlot
<1>1. /\ puts[p].place = "failed" /\ error' = TRUE /\ dirty' = TRUE
      /\ data' = puts[p].previous
      /\ puts' = [puts EXCEPT ![p] = NoPut]
      /\ hist' = [hist EXCEPT !.orphans = @ \cup (data'.loading \ data.loading)]
      /\ UNCHANGED <<server, dataRef, view, quotas, action, left>>
  BY DEF OrderFailed
<1>2. GetTypes' /\ Renewed(n) /\ n \in Slots
  <2>1. GetTypes /\ Refresh(FALSE)
    BY DEF IInv, Types, GetTypes, OrderFailed
  <2> QED BY <2>1, RefreshSound
<1> HIDE DEF n
<1>3. Proper(data') /\ data'.loading \subseteq Accounts /\ UpToDate(puts[p].previous)
  <2>1. Dragged(puts[p])
    BY DEF IInv, Drags
  <2> QED BY <1>1, <2>1 DEF Dragged, Proper, ListState
<1>4. /\ hist' \in [own : Versions, overtaken : BOOLEAN, orphans : SUBSET Accounts]
      /\ hist'.own = hist.own /\ hist'.overtaken = hist.overtaken
      /\ hist'.orphans = hist.orphans \cup (data'.loading \ data.loading)
  BY <1>1, <1>3 DEF IInv, Types
<1>5. Drags'
  BY <1>1, DragEnds DEF IInv
<1>6. Types'
  BY <1>1, <1>2, <1>3, <1>4 DEF IInv, Types, GetTypes, quotas, Proper, Ids
<1>7. OneLive' /\ Snapshots' /\ Fresh' /\ Ordered'
  <2>1. Snapshots /\ UpToDate(data)' /\ UpToDate(dataRef)'
    BY <1>1, <1>3 DEF IInv, Snapshots, UpToDate
  <2>2. hist'.own <= server.v /\ action'.v <= server.v
    BY <1>1, <1>4 DEF IInv, Fresh
  <2> QED BY <1>1, <1>2, <2>1, <2>2, RefreshLists
<1>8. Controllers' /\ SpinnerHasRequest' /\ Rendered' /\ Slotted'
  BY <1>1, <1>4 DEF IInv, Controllers, SpinnerHasRequest, Rendered, Slotted, quotas
<1>9. Optimism'
  BY <1>1, <1>4 DEF IInv, Optimism
<1> QED BY <1>5, <1>6, <1>7, <1>8, <1>9 DEF IInv

-----------------------------------------------------------------------------
(* The proxy.  Each of its changes is a version of its own, so whatever    *)
(* the panel holds is then out of date.                                    *)

ServerTypes == server \in [list : Seq(Accounts), active : Who, v : Versions] /\ IsInjective(server.list)

LEMMA WithoutSound ==
    ASSUME ServerTypes, NEW id \in Accounts, NEW s \in Without(id)
    PROVE  /\ s \in [list : Seq(Accounts), active : Who, v : Versions]
           /\ IsInjective(s.list) /\ s.v = server.v + 1
           /\ server.active # id => s.active = server.active
<1> DEFINE rest == Keep(server.list, Accounts \ {id})
           heirs == IF rest = <<>> THEN {Nobody} ELSE Range(rest)
           v == server.v + 1
<1>1. PICK active \in IF server.active = id THEN heirs ELSE {server.active} :
           s = [list |-> rest, active |-> active, v |-> v]
  BY DEF Without
<1>2. rest \in Seq(Accounts) /\ IsInjective(rest) /\ Range(rest) \subseteq Accounts
  BY KeepInjective, RangeIn DEF ServerTypes
<1> HIDE DEF rest
<1>3. active \in Who /\ (server.active # id => active = server.active) /\ v \in Versions
  BY <1>1, <1>2 DEF ServerTypes, Versions, Who
<1>4. v = server.v + 1
  OBVIOUS
<1> HIDE DEF v
<1> QED BY <1>1, <1>2, <1>3, <1>4

LEMMA ActiveSound ==
    ASSUME ServerTypes, NEW id \in Accounts
    PROVE  LET s == [server EXCEPT !.active = id, !.v = @ + 1]
           IN  /\ s \in [list : Seq(Accounts), active : Who, v : Versions]
               /\ IsInjective(s.list) /\ s.v = server.v + 1 /\ s.active = id
<1> DEFINE v == server.v + 1
           s == [server EXCEPT !.active = id, !.v = v]
<1>1. v \in Versions /\ id \in Who
  BY DEF ServerTypes, Versions, Who
<1>2. v = server.v + 1
  OBVIOUS
<1> HIDE DEF v
<1>3. /\ s \in [list : Seq(Accounts), active : Who, v : Versions] /\ IsInjective(s.list)
      /\ s.v = v /\ s.active = id
  BY <1>1 DEF ServerTypes
<1> QED BY <1>2, <1>3 DEF v

LEMMA ServerMoves ==
    ASSUME Types, ServerTypes', server'.v = server.v + 1,
           OneLive, Snapshots, Fresh, Rendered,
           hist'.own = hist.own, action'.v <= server'.v,
           UNCHANGED <<data, dataRef, dirty, view, gets, error>>
    PROVE  OneLive' /\ Snapshots' /\ Fresh' /\ Ordered' /\ Rendered'
<1>1. /\ data.v \in Nat /\ dataRef.v \in Nat /\ server.v \in Nat
      /\ hist.own \in Nat /\ \A g \in 1 .. Gets : gets[g].v \in Nat
  <2>1. \A g \in 1 .. Gets : gets[g] \in GetRecord
    BY DEF Types
  <2> QED BY <2>1 DEF Types, Proper, ListState, GetRecord, Versions
<1>2. /\ data.v < server'.v /\ dataRef.v < server'.v
      /\ \A g \in 1 .. Gets : Begun(gets[g]) => gets[g].v < server'.v
  BY <1>1 DEF Snapshots, UpToDate, Accurate
<1>3. \A m \in Nat : m < server'.v => m <= server'.v /\ m # server'.v
  BY <1>1
<1>4. Snapshots'
  <2>1. server'.v > 0
    BY <1>1
  <2> QED BY <1>1, <1>2, <1>3, <2>1 DEF Snapshots, UpToDate, Accurate
<1>5. Fresh'
  <2>1. hist.own <= server'.v
    BY <1>1 DEF Fresh
  <2>2. \A g \in 1 .. Gets : Live(g)' <=> Live(g)
    BY DEF Live
  <2> QED BY <2>1, <2>2 DEF Fresh
<1>6. Ordered'
  BY <1>1, <1>2 DEF Ordered
<1>7. Rendered' /\ OneLive'
  BY DEF Rendered, OneLive, Live
<1> QED BY <1>4, <1>5, <1>6, <1>7

\* A new order is a change like another, whether it is the one that was asked for or what a
\* refusal leaves.
LEMMA ReorderSteps ==
    ASSUME PanelAssumption, IInv, NEW p \in 1 .. Puts, puts[p].place = "posting",
           NEW list \in Seq(Accounts), IsInjective(list),
           NEW v, v = server.v + 1, server' = [server EXCEPT !.list = list, !.v = v],
           NEW place \in {"done", "failed"}, NEW w \in {v, puts[p].v},
           puts' = [puts EXCEPT ![p].place = place, ![p].v = w],
           UNCHANGED <<data, dataRef, dirty, view, gets, quotas, error, action, left, hist>>
    PROVE  IInv'
<1>1. /\ ServerTypes /\ server.v \in Nat /\ v \in Versions
      /\ action.v \in Nat /\ action.v <= server.v
  BY DEF IInv, Types, ServerTypes, Versions, ActionRecord, Fresh
<1>2. ServerTypes' /\ server'.v = v /\ server'.active = server.active /\ server'.list = list
  BY <1>1 DEF ServerTypes
<1>3. Drags'
  <2> DEFINE o == puts[p]
             q == [o EXCEPT !.place = place, !.v = w]
  <2>1. /\ puts \in [1 .. Puts -> PutRecord] /\ Dragged(o) /\ o.v \in Nat /\ o.previous.v \in Nat
        /\ o \in PutRecord
    BY DEF IInv, Drags, Dragged, PutRecord, ListState, Versions
  <2>2. w \in Versions /\ w <= v /\ o.previous.v < v
    BY <1>1, <2>1 DEF Dragged, UpToDate, Versions
  <2>3. puts' = [puts EXCEPT ![p] = q]
    BY <2>1
  <2>4. q \in PutRecord /\ q.previous = o.previous /\ q.list = o.list /\ q.v = w
    BY <2>1, <2>2 DEF PutRecord
  <2> HIDE DEF o, q
  <2>5. q.previous.v <= server'.v /\ q.previous.v # server'.v /\ q.v <= server'.v
    BY <1>1, <1>2, <2>1, <2>2, <2>4 DEF Versions
  <2>6. Proper(q.previous) /\ IsInjective(q.list)
    BY <2>1, <2>4 DEF Dragged
  <2> QED BY <1>1, <1>2, <2>3, <2>4, <2>5, <2>6, DragMoves DEF IInv
<1>4. Types'
  BY <1>2 DEF IInv, Types, ServerTypes, quotas, Proper, Ids
<1>5. OneLive' /\ Snapshots' /\ Fresh' /\ Ordered' /\ Rendered'
  <2>1. action'.v <= server'.v
    BY <1>1, <1>2
  <2> QED BY <1>2, <2>1, ServerMoves DEF IInv
<1>6. Slotted' /\ Controllers' /\ SpinnerHasRequest' /\ Optimism'
  BY <1>2 DEF IInv, Slotted, Controllers, SpinnerHasRequest, Optimism, quotas
<1> QED BY <1>3, <1>4, <1>5, <1>6 DEF IInv

LEMMA ServerReordersKeeps ==
    ASSUME PanelAssumption, IInv, NEW p \in 1 .. Puts, ServerReorders(p)
    PROVE  IInv'
<1> DEFINE v == server.v + 1
<1>1. /\ puts[p].place = "posting" /\ puts \in [1 .. Puts -> PutRecord]
      /\ UNCHANGED <<data, dataRef, dirty, view, gets, quotas, error, action, left, hist>>
  BY DEF ServerReorders, IInv, Drags
<1>2. /\ puts[p] \in PutRecord /\ puts[p].list \in Seq(Accounts) /\ IsInjective(puts[p].list)
      /\ ServerTypes
  BY DEF IInv, Types, ServerTypes, Drags, Dragged, PutRecord
<1>3. CASE /\ server' = [server EXCEPT !.list = puts[p].list, !.v = @ + 1]
           /\ \E place \in {"done", "failed"} :
                 puts' = [puts EXCEPT ![p].place = place, ![p].v = server'.v]
  <2>1. PICK place \in {"done", "failed"} :
           puts' = [puts EXCEPT ![p].place = place, ![p].v = server'.v]
    BY <1>3
  <2>2. v = server.v + 1 /\ server' = [server EXCEPT !.list = puts[p].list, !.v = v]
    BY <1>3
  <2> HIDE DEF v
  <2>3. server'.v = v
    BY <1>2, <2>2 DEF ServerTypes
  <2>4. puts' = [puts EXCEPT ![p].place = place, ![p].v = v]
    BY <2>1, <2>3
  <2> QED BY <1>1, <1>2, <2>2, <2>4, ReorderSteps
<1>4. CASE /\ \E list \in SetToSeqs(Range(server.list)) :
                 server' = [server EXCEPT !.list = list, !.v = @ + 1]
           /\ puts' = [puts EXCEPT ![p].place = "failed"]
  <2>1. PICK list \in SetToSeqs(Range(server.list)) :
           server' = [server EXCEPT !.list = list, !.v = @ + 1]
    BY <1>4
  <2>2. list \in Seq(Accounts) /\ IsInjective(list)
    <3>1. Range(server.list) \subseteq Accounts
      BY <1>2, RangeIn DEF ServerTypes
    <3> QED BY <2>1, <3>1, OrderInjective
  <2>3. v = server.v + 1 /\ server' = [server EXCEPT !.list = list, !.v = v]
    BY <2>1
  <2> HIDE DEF v
  <2>4. puts' = [puts EXCEPT ![p].place = "failed", ![p].v = puts[p].v]
    BY <1>1, <1>2, <1>4 DEF PutRecord
  <2> QED BY <1>1, <2>2, <2>3, <2>4, ReorderSteps
<1>5. CASE puts' = [puts EXCEPT ![p].place = "failed"] /\ UNCHANGED server
  <2> DEFINE o == puts[p]
             q == [o EXCEPT !.place = "failed"]
  <2>1. /\ o \in PutRecord /\ Dragged(o)
    BY DEF IInv, Drags, Dragged
  <2>2. puts' = [puts EXCEPT ![p] = q]
    BY <1>1, <1>5
  <2>3. /\ q \in PutRecord /\ q.previous = o.previous /\ q.list = o.list /\ q.v = o.v
        /\ q.place = "failed"
    BY <2>1 DEF PutRecord
  <2> HIDE DEF o, q
  <2>4. /\ Proper(q.previous) /\ IsInjective(q.list) /\ q.v <= server'.v
        /\ q.previous.v <= server'.v
        /\ q.previous.v = server'.v => q.previous.active = server'.active
    BY <1>5, <2>1, <2>3 DEF Dragged, UpToDate
  <2>5. Drags' /\ puts'[p] = q /\ \A r \in 1 .. Puts : r # p => puts'[r] = puts[r]
    BY <1>5, <2>2, <2>3, <2>4, DragMoves DEF IInv
  <2>6. Types'
    BY <1>1, <1>5 DEF IInv, Types, quotas, Proper, Ids
  <2>7. Slotted' /\ Controllers' /\ SpinnerHasRequest' /\ OneLive' /\ Fresh' /\ Rendered'
        /\ Optimism'
    BY <1>1, <1>5 DEF IInv, Slotted, Controllers, SpinnerHasRequest, OneLive, Live, Fresh,
                      Rendered, Optimism, quotas
  <2>8. Snapshots'
    BY <1>1, <1>5 DEF IInv, Snapshots, UpToDate, Accurate
  <2>9. Ordered'
    <3>1. (\E r \in 1 .. Puts : puts[r].place \in {"posting", "failed"})
             => \E r \in 1 .. Puts : puts'[r].place \in {"posting", "failed"}
      BY <2>3, <2>5
    <3> QED BY <1>1, <1>5, <3>1 DEF IInv, Ordered, Live
  <2> QED BY <2>5, <2>6, <2>7, <2>8, <2>9 DEF IInv
<1> QED BY <1>3, <1>4, <1>5 DEF ServerReorders

LEMMA ServerActsKeeps ==
    ASSUME PanelAssumption, IInv, ServerActs
    PROVE  IInv'
<1>1. /\ action.place = "posting"
      /\ UNCHANGED <<data, dataRef, dirty, view, gets, quotas, error, puts, left>>
  BY DEF ServerActs
<1>2. /\ action \in ActionRecord /\ action.id \in Accounts /\ action.slot = 0 /\ ServerTypes
      /\ hist \in [own : Versions, overtaken : BOOLEAN, orphans : SUBSET Accounts]
  BY <1>1 DEF IInv, Types, Slotted, ServerTypes
<1> DEFINE told == IF action.type = "delete" THEN "removed" ELSE "done"
<1>3. CASE /\ server' \in IF action.type = "delete" THEN Without(action.id)
                          ELSE {[server EXCEPT !.active = action.id, !.v = @ + 1]}
           /\ \E place \in {told, "failed"} :
                 /\ action' = [action EXCEPT !.place = place, !.v = server'.v]
                 /\ hist' = [hist EXCEPT !.overtaken = @ \/ place = "failed"]
  <2>1. /\ ServerTypes' /\ server'.v = server.v + 1
        /\ action.type # "delete" => server'.active = action.id
        /\ action.type = "delete" /\ server.active # action.id => server'.active = server.active
    <3>1. CASE action.type = "delete"
      <4>1. server' \in Without(action.id)
        BY <1>3, <3>1
      <4> QED BY <1>2, <3>1, <4>1, WithoutSound DEF ServerTypes
    <3>2. CASE action.type # "delete"
      <4>1. server' = [server EXCEPT !.active = action.id, !.v = @ + 1]
        BY <1>3, <3>2
      <4> QED BY <1>2, <3>2, <4>1, ActiveSound DEF ServerTypes
    <3> QED BY <3>1, <3>2
  <2>2. PICK place \in {told, "failed"} :
           /\ action' = [action EXCEPT !.place = place, !.v = server'.v]
           /\ hist' = [hist EXCEPT !.overtaken = @ \/ place = "failed"]
    BY <1>3
  <2>3. /\ action' \in ActionRecord /\ action'.place = place /\ action'.id = action.id
        /\ action'.type = action.type /\ action'.wasActive = action.wasActive
        /\ action'.active = action.active /\ action'.v = server'.v /\ action'.slot = 0
    BY <1>2, <2>1, <2>2 DEF ActionRecord, ServerTypes
  <2>4. /\ hist' \in [own : Versions, overtaken : BOOLEAN, orphans : SUBSET Accounts]
        /\ hist'.own = hist.own /\ hist'.orphans = hist.orphans
        /\ ~hist'.overtaken => ~hist.overtaken /\ place = told
    <3> DEFINE b == hist.overtaken \/ place = "failed"
    <3>1. b \in BOOLEAN /\ (~b => ~hist.overtaken /\ place = told)
      BY <1>2
    <3>2. hist' = [hist EXCEPT !.overtaken = b]
      BY <2>2
    <3> HIDE DEF b
    <3> QED BY <1>2, <3>1, <3>2
  <2>5. Types' /\ Drags'
    <3>1. Types'
      BY <1>1, <1>2, <2>1, <2>3, <2>4 DEF IInv, Types, ServerTypes, quotas, Proper, Ids
    <3> QED BY <1>1, <1>2, <2>1, <3>1, DragsStay DEF IInv, ServerTypes, Versions
  <2>6. OneLive' /\ Snapshots' /\ Fresh' /\ Ordered' /\ Rendered'
    <3>1. action'.v <= server'.v
      BY <2>1, <2>3 DEF ServerTypes, Versions
    <3> QED BY <1>1, <2>1, <2>4, <3>1, ServerMoves DEF IInv
  <2>7. Slotted' /\ Controllers' /\ SpinnerHasRequest'
    BY <1>1, <2>3, <2>4 DEF IInv, Slotted, Controllers, SpinnerHasRequest, quotas
  <2>8. Optimism'
    <3> SUFFICES ASSUME ~hist'.overtaken PROVE Optimism'
      BY DEF Optimism
    <3>1. action'.place = told /\ ~hist.overtaken /\ view' = view
      BY <1>1, <2>3, <2>4
    <3>2. /\ view.optimistic \in {Nobody, server.active}
          /\ (action.type = "delete" /\ ~action.wasActive) => view.optimistic # action.id
      BY <1>1, <3>1 DEF IInv, Optimism
    <3> QED BY <2>1, <2>3, <3>1, <3>2 DEF Optimism
  <2> QED BY <2>5, <2>6, <2>7, <2>8 DEF IInv
<1>4. CASE action' = [action EXCEPT !.place = "failed"] /\ UNCHANGED <<server, hist>>
  <2>1. /\ action' \in ActionRecord /\ action'.place = "failed" /\ action'.id = action.id
        /\ action'.v = action.v /\ action'.slot = 0
    BY <1>2, <1>4 DEF ActionRecord
  <2>2. Types'
    BY <1>1, <1>2, <1>4, <2>1 DEF IInv, Types, quotas, Proper, Ids
  <2>3. Slotted' /\ Controllers' /\ SpinnerHasRequest' /\ OneLive' /\ Fresh' /\ Ordered' /\ Rendered'
    BY <1>1, <1>4, <2>1 DEF IInv, Slotted, Controllers, SpinnerHasRequest, OneLive, Live, Fresh,
                            Ordered, Rendered, quotas
  <2>4. Snapshots' /\ Drags'
    BY <1>1, <1>4, DragsStay DEF IInv, Snapshots, UpToDate, Accurate
  <2>5. Optimism'
    BY <1>1, <1>4, <2>1 DEF IInv, Optimism
  <2> QED BY <2>2, <2>3, <2>4, <2>5 DEF IInv
<1> QED BY <1>3, <1>4 DEF ServerActs

LEMMA ServerTellsKeeps ==
    ASSUME PanelAssumption, IInv, ServerTells
    PROVE  IInv'
<1>1. /\ action.place = "removed" /\ action' = [action EXCEPT !.place = "done", !.active = server.active]
      /\ UNCHANGED <<server, data, dataRef, dirty, view, gets, quotas, error, puts, left, hist>>
  BY DEF ServerTells
<1>2. /\ action \in ActionRecord /\ action.id \in Accounts /\ action.slot = 0
      /\ server.active \in Who
  BY <1>1 DEF IInv, Types, Slotted
<1>3. /\ action' \in ActionRecord /\ action'.place = "done" /\ action'.id = action.id
      /\ action'.type = action.type /\ action'.wasActive = action.wasActive
      /\ action'.active = server.active /\ action'.v = action.v /\ action'.slot = 0
  BY <1>1, <1>2 DEF ActionRecord
<1>4. Types'
  BY <1>1, <1>2, <1>3 DEF IInv, Types, quotas, Proper, Ids
<1>5. OneLive' /\ Fresh' /\ Controllers' /\ SpinnerHasRequest' /\ Ordered' /\ Rendered' /\ Slotted'
  BY <1>1, <1>3 DEF IInv, OneLive, Live, Fresh, Controllers, SpinnerHasRequest, Ordered, Rendered,
                    Slotted, quotas
<1>6. Snapshots' /\ Drags'
  BY <1>1, DragsStay DEF IInv, Snapshots, UpToDate, Accurate
<1>7. Optimism'
  BY <1>1, <1>3 DEF IInv, Optimism
<1> QED BY <1>4, <1>5, <1>6, <1>7 DEF IInv

LEMMA ServerChangesKeeps ==
    ASSUME PanelAssumption, IInv, ServerChanges
    PROVE  IInv'
<1> DEFINE trusting == action # NoAction \/ view.optimistic # Nobody
           b == hist.overtaken \/ (trusting /\ server'.active # server.active)
<1>1. /\ hist' = [hist EXCEPT !.overtaken = b]
      /\ UNCHANGED <<data, dataRef, dirty, view, gets, quotas, error, action, puts, left>>
  BY DEF ServerChanges
<1>2. /\ ServerTypes
      /\ hist \in [own : Versions, overtaken : BOOLEAN, orphans : SUBSET Accounts]
  BY DEF IInv, Types, ServerTypes
<1>3. b \in BOOLEAN /\ (~b => ~hist.overtaken /\ (~trusting \/ server'.active = server.active))
  BY <1>2
<1> HIDE DEF b
<1>4. ServerTypes' /\ server'.v = server.v + 1
  <2>1. PICK a \in Accounts :
          \/ /\ ~Contains(server.list, a)
             /\ server' = [list |-> Append(server.list, a), v |-> server.v + 1,
                           active |-> IF server.active = Nobody THEN a ELSE server.active]
          \/ server' \in Without(a)
          \/ server' = [server EXCEPT !.active = a, !.v = @ + 1]
    BY DEF ServerChanges
  <2>2. CASE /\ ~Contains(server.list, a)
             /\ server' = [list |-> Append(server.list, a), v |-> server.v + 1,
                           active |-> IF server.active = Nobody THEN a ELSE server.active]
    <3> DEFINE v == server.v + 1
               active == IF server.active = Nobody THEN a ELSE server.active
               list == Append(server.list, a)
    <3>1. list \in Seq(Accounts) /\ IsInjective(list)
      BY <1>2, <2>2, NewcomerInjective DEF ServerTypes
    <3>2. v \in Versions /\ active \in Who
      BY <1>2 DEF ServerTypes, Versions, Who
    <3>3. server' = [list |-> list, v |-> v, active |-> active] /\ v = server.v + 1
      BY <2>2
    <3> HIDE DEF v, list, active
    <3> QED BY <3>1, <3>2, <3>3 DEF ServerTypes
  <2>3. CASE server' \in Without(a)
    BY <1>2, <2>3, WithoutSound DEF ServerTypes
  <2>4. CASE server' = [server EXCEPT !.active = a, !.v = @ + 1]
    BY <1>2, <2>4, ActiveSound DEF ServerTypes
  <2> QED BY <2>1, <2>2, <2>3, <2>4
<1>5. /\ hist' \in [own : Versions, overtaken : BOOLEAN, orphans : SUBSET Accounts]
      /\ hist'.own = hist.own /\ hist'.orphans = hist.orphans /\ hist'.overtaken = b
  BY <1>1, <1>2, <1>3
<1>6. Types' /\ Drags'
  <2>1. Types'
    BY <1>1, <1>4, <1>5 DEF IInv, Types, ServerTypes, quotas, Proper, Ids
  <2> QED BY <1>1, <1>2, <1>4, <2>1, DragsStay DEF IInv, ServerTypes, Versions
<1>7. OneLive' /\ Snapshots' /\ Fresh' /\ Ordered' /\ Rendered'
  <2>1. action'.v <= server'.v
    <3>1. action.v \in Nat /\ server.v \in Nat /\ action.v <= server.v
      BY DEF IInv, Types, ActionRecord, Versions, Fresh
    <3> QED BY <1>1, <1>4, <3>1
  <2> QED BY <1>1, <1>4, <1>5, <2>1, ServerMoves DEF IInv
<1>8. Slotted' /\ Controllers' /\ SpinnerHasRequest'
  BY <1>1, <1>5 DEF IInv, Slotted, Controllers, SpinnerHasRequest, quotas
<1>9. Optimism'
  <2> SUFFICES ASSUME ~b PROVE Optimism'
    BY <1>5 DEF Optimism
  <2>1. CASE server'.active = server.active
    BY <1>1, <1>3, <2>1 DEF IInv, Optimism
  <2>2. CASE ~trusting
    <3>1. action.place = "none" /\ view.optimistic = Nobody
      BY <2>2 DEF NoAction
    <3> QED BY <1>1, <3>1 DEF Optimism
  <2> QED BY <1>3, <2>1, <2>2
<1> QED BY <1>6, <1>7, <1>8, <1>9 DEF IInv

-----------------------------------------------------------------------------
(* The inductive invariant holds. *)

LEMMA InitIInv ==
    ASSUME PanelAssumption, Init
    PROVE  IInv
<1>1. /\ server = [list |-> Saved, active |-> First(Saved), v |-> 1]
      /\ data = NoData /\ dataRef = NoData /\ dirty = FALSE
      /\ view = [accounts |-> <<>>, optimistic |-> Nobody]
      /\ fetches = {} /\ todo = <<>> /\ error = FALSE
      /\ action = NoAction /\ puts = [p \in 1 .. Puts |-> NoPut] /\ left = MaxInputs
      /\ hist = [own |-> 0, overtaken |-> FALSE, orphans |-> {}]
  BY DEF Init
<1>2. IsInjective(<<>>) /\ First(Saved) \in Who /\ Nobody \in Who /\ 1 \in 1 .. Gets /\ 0 \in Slots
  BY FirstOf DEF IsInjective, Who, PanelAssumption, Slots
<1>3. /\ Proper(NoData) /\ NoData.v = 0 /\ NoData.list = <<>> /\ NoData.active = Nobody
      /\ NoData.loading = {}
  BY <1>2 DEF NoData, Proper, ListState, Who, Versions
<1>4. /\ NoAction \in ActionRecord /\ NoAction.place = "none" /\ NoAction.slot = 0 /\ NoAction.v = 0
  BY <1>2 DEF NoAction, ActionRecord, Versions
<1>5. Drags
  <2>1. Dragged(NoPut)
    BY <1>1, NoPutDragged
  <2>2. \A p \in 1 .. Puts : puts[p] = NoPut
    BY <1>1
  <2>3. puts \in [1 .. Puts -> PutRecord]
    BY <1>1, <2>1 DEF Dragged
  <2> QED BY <2>1, <2>2, <2>3 DEF Drags
<1>6. /\ NoGet \in GetRecord /\ NoGet.place = "none" /\ NoGet.list = <<>> /\ ~NoGet.aborted
  BY <1>2 DEF NoGet, GetRecord, Versions
<1>7. /\ gets \in [1 .. Gets -> GetRecord] /\ gets[1].place = "sent" /\ ~gets[1].aborted
      /\ \A g \in 1 .. Gets : gets[g].list = <<>> /\ (g # 1 => gets[g].place = "none")
  <2> DEFINE new == [NoGet EXCEPT !.place = "sent"]
  <2>1. new \in GetRecord /\ new.place = "sent" /\ new.list = <<>> /\ ~new.aborted
    BY <1>6 DEF GetRecord
  <2>2. gets = [g \in 1 .. Gets |-> IF g = 1 THEN new ELSE NoGet]
    BY DEF Init
  <2> HIDE DEF new
  <2> QED BY <1>2, <1>6, <2>1, <2>2
<1>8. \A g \in 1 .. Gets : Live(g) <=> g = 1
  BY <1>7 DEF Live
<1>9. Types
  <2>1. server \in [list : Seq(Accounts), active : Who, v : Versions] /\ IsInjective(server.list)
    BY <1>1, <1>2 DEF PanelAssumption, Versions
  <2>2. view \in [accounts : Seq(Accounts), optimistic : Who] /\ IsInjective(view.accounts)
    BY <1>1, <1>2
  <2>3. /\ hist \in [own : Versions, overtaken : BOOLEAN, orphans : SUBSET Accounts]
        /\ left \in Nat /\ todo \in Seq(Accounts) /\ fetches \subseteq FetchRecord
    BY <1>1 DEF PanelAssumption, Versions
  <2> QED BY <1>1, <1>2, <1>3, <1>4, <1>7, <2>1, <2>2, <2>3 DEF Types
<1>10. Slotted /\ Controllers /\ SpinnerHasRequest /\ OneLive
  BY <1>1, <1>3, <1>4, <1>8 DEF Slotted, Controllers, SpinnerHasRequest, OneLive
<1>11. Snapshots
  BY <1>1, <1>3, <1>7 DEF Snapshots, UpToDate, Begun
<1>12. Fresh
  BY <1>1, <1>2, <1>3, <1>4, <1>7, <1>8 DEF Fresh, Begun
<1>13. Ordered /\ Rendered /\ Optimism
  BY <1>1, <1>3, <1>4 DEF Ordered, Rendered, Optimism
<1> QED BY <1>5, <1>9, <1>10, <1>11, <1>12, <1>13 DEF IInv

LEMMA StepIInv ==
    ASSUME PanelAssumption, IInv, [Next]_vars
    PROVE  IInv'
<1>1. CASE Poll
  BY <1>1, JustRefresh DEF Poll
<1>2. CASE Commit
  BY <1>2, CommitKeeps
<1>3. CASE FetchSteps \/ \E id \in Accounts : RefreshAccountQuota(id)
  BY <1>3, FetchKeeps DEF FetchSteps
<1>4. CASE ActionSteps
  BY <1>4, ServerActsKeeps, ServerTellsKeeps, DoneKeeps, FailedKeeps DEF ActionSteps
<1>5. CASE \E p \in 1 .. Puts : PutSteps(p)
  BY <1>5, ServerReordersKeeps, OrderSavedKeeps, OrderFailedKeeps DEF PutSteps
<1>6. CASE Clicks
  <2>1. CASE \E force \in BOOLEAN : RefreshClick(force)
    BY <2>1, JustRefresh DEF RefreshClick
  <2>2. CASE \E type \in {"activate", "applyZCode", "delete"}, id \in Accounts : Begin(type, id)
    BY <2>2, BeginKeeps
  <2>3. CASE \E ordered \in SetToSeqs(Range(view.accounts)) : PersistOrder(ordered)
    BY <2>3, PersistOrderKeeps
  <2> QED BY <1>6, <2>1, <2>2, <2>3 DEF Clicks
<1>7. CASE ServerChanges
  BY <1>7, ServerChangesKeeps
<1>8. CASE \E g \in 1 .. Gets : ListRead(g) \/ ActiveRead(g) \/ ListAnswer(g) \/ ListFails(g)
  BY <1>8, ListReadKeeps, ActiveReadKeeps, ListAnswerKeeps, ListFailsKeeps
<1>9. CASE UNCHANGED vars
  BY <1>9 DEF vars, IInv, Types, Slotted, Controllers, SpinnerHasRequest, OneLive, Live, Snapshots,
              UpToDate, Accurate, Drags, Dragged, Fresh, Ordered, Rendered, Optimism, Proper, Ids
<1> QED BY <1>1, <1>2, <1>3, <1>4, <1>5, <1>6, <1>7, <1>8, <1>9 DEF Next

LEMMA Invariance == Spec => []IInv
<1>1. Init => IInv
  BY InitIInv, PanelAssumption
<1>2. IInv /\ [Next]_vars => IInv'
  BY StepIInv, PanelAssumption
<1> QED BY <1>1, <1>2, PTL DEF Spec

-----------------------------------------------------------------------------
(* The theorems *)

\* The lists hold each account once, quotas are those of listed accounts, at most one request
\* for the list counts, and an account has one controller (use-accounts.ts:25, 29).
THEOREM Typing == Spec => []TypeOK
<1>1. IInv => TypeOK
  <2> SUFFICES ASSUME IInv PROVE TypeOK
    OBVIOUS
  <2>1. State(data) /\ State(dataRef)
    BY BoundedList, PanelAssumption DEF IInv, Types, Proper, ListState, State
  <2>2. view.optimistic \in Accounts \cup {Nobody} /\ Range(view.accounts) \subseteq Accounts
    BY RangeIn DEF IInv, Types, Who
  <2>3. Cardinality({g \in 1 .. Gets : Live(g)}) <= 1
    <3> DEFINE L == {g \in 1 .. Gets : Live(g)}
    <3>1. L = {} \/ \E g : L = {g}
      BY DEF IInv, OneLive
    <3> HIDE DEF L
    <3>2. Cardinality(L) = 0 \/ Cardinality(L) = 1
      BY <3>1, FS_EmptySet, FS_Singleton
    <3> QED BY <3>2 DEF L
  <2> QED BY <2>1, <2>2, <2>3 DEF IInv, Controllers, TypeOK
<1> QED BY <1>1, Invariance, PTL

\* However requests overlap, are aborted and are answered late, the panel reads its own writes
\* (home.tsx:361, 377, 395, 344).
THEOREM OwnWrites == Spec => []ReadsOwnWrites
<1>1. IInv => ReadsOwnWrites
  BY DEF IInv, Types, Fresh, ReadsOwnWrites, NoRequest, Proper, ListState, Versions
<1> QED BY <1>1, Invariance, PTL

\* A list that is up to date shows the account that is active (home.tsx:278).
THEOREM Activity == Spec => []ShowsActive
<1>1. IInv => ShowsActive
  <2> SUFFICES ASSUME IInv, action = NoAction, ~dirty, ~error, data.v = server.v, ~hist.overtaken
               PROVE  /\ ActiveAccountId = server.active
                      /\ NoPuts /\ NoRequest => view.accounts = server.list
    BY DEF ShowsActive
  <2>1. action.place = "none"
    BY DEF NoAction
  <2>2. data.active = server.active /\ dataRef = data /\ view.accounts = data.list
    BY DEF IInv, Snapshots, UpToDate, Rendered
  <2>3. \/ view.optimistic = Nobody
        \/ view.optimistic \in {Nobody, server.active} /\ view.optimistic # data.active
    BY <2>1 DEF IInv, Optimism, Rendered
  <2>4. NoPuts /\ NoRequest => data.list = server.list
    BY DEF IInv, Ordered, NoPuts, NoRequest
  <2> QED BY <2>2, <2>3, <2>4 DEF ActiveAccountId
<1> QED BY <1>1, Invariance, PTL

\* A quota spinner turns because a request is under way or planned, but for the orphans of a
\* run that does not repeat what it aborts and of a restored copy (use-accounts.ts:163, 229).
THEOREM Spinners == Spec => []SpinnerHasRequest
<1>1. IInv => SpinnerHasRequest
  BY DEF IInv
<1> QED BY <1>1, Invariance, PTL

\* The panel never goes back to an older list, but for a refused reorder (use-accounts.ts:264).
THEOREM NeverOlder == Spec => ListNeverOlder
<1>1. IInv /\ [Next]_vars
        => [\/ data'.v >= data.v
            \/ \E p \in 1 .. Puts : puts[p].place = "failed" /\ puts'[p].place = "none"]_vars
  <2> SUFFICES ASSUME IInv, Next
               PROVE  \/ data'.v >= data.v
                      \/ \E p \in 1 .. Puts : puts[p].place = "failed" /\ puts'[p].place = "none"
    OBVIOUS
  <2>1. data.v \in Nat /\ Quotas
    BY DEF IInv, Types, Proper, ListState, Versions, Quotas, QuotaTypes
  <2>2. data' = data => data'.v >= data.v
    BY <2>1
  <2>3. /\ Poll => data' = data
        /\ Commit => data' = data
        /\ ServerChanges => data' = data
        /\ ActionSteps => data' = data
        /\ \A p \in 1 .. Puts : ServerReorders(p) \/ OrderSaved(p) => data' = data
        /\ \A g \in 1 .. Gets : ListRead(g) \/ ActiveRead(g) \/ ListFails(g) => data' = data
    <3>1. Poll \/ Commit \/ ServerChanges => data' = data
      BY Zenon DEF Poll, Commit, ServerChanges
    <3>2. ServerActs \/ ServerTells \/ Done \/ Failed => data' = data
      BY Zenon DEF ServerActs, ServerTells, Done, Failed
    <3>3. \A p \in 1 .. Puts : ServerReorders(p) \/ OrderSaved(p) => data' = data
      BY Zenon DEF ServerReorders, OrderSaved
    <3>4. \A g \in 1 .. Gets : ListRead(g) \/ ActiveRead(g) \/ ListFails(g) => data' = data
      BY Zenon DEF ListRead, ActiveRead, ListFails
    <3> QED BY <3>1, <3>2, <3>3, <3>4 DEF ActionSteps
  <2>4. CASE FetchSteps \/ \E id \in Accounts : RefreshAccountQuota(id)
    <3>1. SameList(data)
      BY <2>1, <2>4, FinishFetchSound, RefreshAccountQuotaSound DEF FetchSteps
    <3> QED BY <2>1, <3>1 DEF SameList
  <2>5. ASSUME NEW p \in 1 .. Puts, OrderFailed(p)
        PROVE  puts[p].place = "failed" /\ puts'[p].place = "none"
    BY <2>5 DEF OrderFailed, NoPut, IInv, Drags
  <2>6. CASE Clicks
    <3>1. (\E force \in BOOLEAN : RefreshClick(force)) => data' = data
      BY Zenon DEF RefreshClick
    <3>2. (\E type \in {"activate", "applyZCode", "delete"}, id \in Accounts : Begin(type, id))
            => data' = data
      BY Zenon DEF Begin
    <3>3. (\E ordered \in SetToSeqs(Range(view.accounts)) : PersistOrder(ordered))
            => data'.v = data.v
      BY DEF PersistOrder
    <3> QED BY <2>1, <2>6, <3>1, <3>2, <3>3 DEF Clicks
  <2>7. ASSUME NEW g \in 1 .. Gets, ListAnswer(g)
        PROVE  data'.v >= data.v
    <3>1. CASE gets[g].aborted
      BY <2>1, <2>7, <3>1 DEF ListAnswer
    <3>2. CASE ~gets[g].aborted
      <4> DEFINE merged == MergeLightRefresh(dataRef, gets[g])
      <4>1. RefreshQuotas(merged, gets[g].force) /\ gets[g].place = "read"
        BY <2>7, <3>2 DEF ListAnswer
      <4>2. gets[g] \in GetRecord /\ IsInjective(gets[g].list) /\ Proper(dataRef)
        BY DEF IInv, Types
      <4>3. Proper(merged) /\ merged.v = gets[g].v /\ gets[g].force \in BOOLEAN /\ gets[g].v \in Nat
        BY <4>2, MergeProper DEF GetRecord, Versions
      <4> HIDE DEF merged
      <4>4. data'.v = gets[g].v
        BY <2>1, <4>1, <4>3, RefreshQuotasSound DEF SameList
      <4>5. data.v <= gets[g].v
        BY <3>2, <4>1 DEF IInv, Fresh, Live, Begun
      <4> QED BY <2>1, <4>3, <4>4, <4>5
    <3> QED BY <3>1, <3>2
  <2> QED BY <2>2, <2>3, <2>4, <2>5, <2>6, <2>7 DEF Next, PutSteps
<1> QED BY <1>1, Invariance, PTL DEF Spec, ListNeverOlder

=============================================================================
