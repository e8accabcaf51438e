---------------------------- MODULE PanelAccounts ----------------------------
(***************************************************************************)
(* The account page of the desktop panel: hooks/use-accounts.ts and the    *)
(* actions of components/home.tsx, against a proxy whose accounts change   *)
(* by themselves.  A handler runs to its next await without interruption;  *)
(* every await is a place where anything else may happen.  What setData    *)
(* stores is seen by handlers only after the next render, whose effects    *)
(* copy it to dataRef and to the shown list (Commit).                      *)
(***************************************************************************)
EXTENDS Naturals, Sequences, FiniteSets, SequencesExt

CONSTANTS
    Accounts,
    Saved,          \* the accounts that are saved when the panel starts, in order
    Nobody,         \* null instead of an account id
    MaxVersion,     \* bound: changes of the proxy's accounts
    MaxInputs,      \* bound: clicks, ticks of the interval, quota signals, lost list requests
    Gets,           \* bound: list requests under way, the aborted ones included
    Puts            \* bound: changes of the order under way

ASSUME PanelAssumption ==
    /\ IsFiniteSet(Accounts) /\ Nobody \notin Accounts
    /\ Saved \in Seq(Accounts) /\ IsInjective(Saved)
    /\ MaxVersion \in Nat \ {0} /\ MaxInputs \in Nat /\ Gets \in Nat \ {0} /\ Puts \in Nat

VARIABLES
    server,         \* the proxy: its accounts in order, the active one, and a version
    data, dataRef,  \* useAccounts: the state, and the copy handlers read
    dirty,          \* a render is due
    view,           \* Home: the shown list, and optimisticActiveAccountId
    gets,           \* requests for the list, by slot
    fetches,        \* requests for one account's quota
    todo,           \* targets the current quota run has not started
    quotaRefreshing, error,
    action,         \* accountActionRef, and how far the action is
    puts,           \* changes of the order on their way, by slot
    left,           \* bound: inputs left
    hist            \* history, for the properties

vars == <<server, data, dataRef, dirty, view, gets, fetches, todo, quotaRefreshing, error,
          action, puts, left, hist>>
quotas == <<fetches, todo, quotaRefreshing>>

-----------------------------------------------------------------------------
NoGet == [place |-> "none", aborted |-> FALSE, force |-> FALSE, list |-> <<>>, active |-> Nobody, v |-> 0]
NoAction == [type |-> "none", id |-> Nobody, place |-> "none", wasActive |-> FALSE,
             active |-> Nobody, v |-> 0, slot |-> 0]

First(list) == IF list = <<>> THEN Nobody ELSE list[1]

\* null, before the first answer, behaves like an empty list.
NoData == [list |-> <<>>, active |-> Nobody, v |-> 0, known |-> {}, loading |-> {}]

NoPut == [place |-> "none", list |-> <<>>, previous |-> NoData, v |-> 0]

Init ==
    /\ server = [list |-> Saved, active |-> First(Saved), v |-> 1]
    /\ data = NoData /\ dataRef = NoData /\ dirty = FALSE
    /\ view = [accounts |-> <<>>, optimistic |-> Nobody]
    /\ gets = [g \in 1..Gets |-> IF g = 1 THEN [NoGet EXCEPT !.place = "sent"] ELSE NoGet]
    /\ fetches = {} /\ todo = <<>> /\ quotaRefreshing = FALSE /\ error = FALSE
    /\ action = NoAction /\ puts = [p \in 1..Puts |-> NoPut]
    /\ left = MaxInputs
    /\ hist = [own |-> 0, overtaken |-> FALSE, orphans |-> {}]

Ids(d) == Range(d.list)

-----------------------------------------------------------------------------
(* The pure helpers of use-accounts.ts *)

MutMergeLightRefresh(current, next) ==      \* spreads the current state instead of the next
    LET kept == Ids(current) \cap Range(next.list)
    IN  [list |-> next.list, active |-> current.active, v |-> next.v,
         known |-> current.known \cap kept, loading |-> current.loading \cap kept]

MergeLightRefresh(current, next) ==
    LET kept == Ids(current) \cap Range(next.list)
    IN  [list |-> next.list, active |-> next.active, v |-> next.v,
         known |-> current.known \cap kept, loading |-> current.loading \cap kept]

MarkQuotaTargets(d, ids) == [d EXCEPT !.loading = @ \cup (ids \cap Ids(d))]

MutMergeQuotaDetail(d, id) ==       \* leaves quotaLoading as it was
    IF id \in Ids(d) THEN [d EXCEPT !.known = @ \cup {id}] ELSE d

\* mergeQuotaDetail and markQuotaFailure: the account has a quota, or an error.
MergeQuotaDetail(d, id) ==
    IF id \in Ids(d) THEN [d EXCEPT !.loading = @ \ {id}, !.known = @ \cup {id}] ELSE d

\* Array.filter: kept[i] is what is kept of the first i accounts.
Keep(list, wanted) ==
    LET kept[i \in 0 .. Len(list)] ==
            IF i = 0 THEN <<>>
            ELSE IF list[i] \in wanted THEN Append(kept[i - 1], list[i]) ELSE kept[i - 1]
    IN  kept[Len(list)]

PickQuotaTargets(d, force) ==
    IF force THEN d.list ELSE Keep(d.list, Accounts \ (d.loading \cup d.known))

-----------------------------------------------------------------------------
(* Quota requests.  A request is "mapped" when quotaControllersRef holds its controller for *)
(* its account, and "current" when it belongs to the quota run that is going on.            *)

Fetch(id, kind) == [id |-> id, kind |-> kind, current |-> kind = "run", aborted |-> FALSE,
                    mapped |-> TRUE]

\* Map.set and Map.delete for an account: whatever was mapped is not any more.
Unmap(fs, id) == {[f EXCEPT !.mapped = @ /\ f.id # id] : f \in fs}

\* stopQuotaRefresh, without its setQuotaRefreshing(false).
Stopped(fs) == {[f EXCEPT !.aborted = @ \/ f.mapped, !.mapped = FALSE, !.current = FALSE] : f \in fs}

Input == left > 0 /\ left' = left - 1

RefreshAccountQuota(id) ==
    /\ Input
    /\ fetches' = Unmap({[f EXCEPT !.aborted = @ \/ (f.mapped /\ f.id = id)] : f \in fetches}, id)
                  \cup {Fetch(id, "signal")}
    /\ data' = MarkQuotaTargets(data, {id})
    /\ dirty' = TRUE /\ quotaRefreshing' = TRUE
    /\ hist' = [hist EXCEPT !.orphans = @ \ {id}]
    /\ UNCHANGED <<server, dataRef, view, gets, todo, error, action, puts>>

MutFinishFetch(f) ==     \* a signal's request leaves the indicator to the quota run
    LET rest  == Unmap(fetches \ {f}, f.id)
        next  == IF f.current /\ todo # <<>>
                 THEN Unmap(rest, Head(todo)) \cup {Fetch(Head(todo), "run")} ELSE rest
        heard == ~f.aborted /\ (f.kind = "signal" \/ f.current)
    IN  /\ f \in fetches
        /\ fetches' = next
        /\ todo' = IF f.current /\ todo # <<>> THEN Tail(todo) ELSE todo
        /\ IF heard
           THEN /\ data' = MergeQuotaDetail(data, f.id)
                /\ dirty' = TRUE /\ hist' = [hist EXCEPT !.orphans = @ \ {f.id}]
           ELSE UNCHANGED <<data, dirty, hist>>
        /\ quotaRefreshing' =
              IF f.current /\ \A g \in next : ~g.current THEN FALSE ELSE quotaRefreshing
        /\ UNCHANGED <<server, dataRef, view, gets, error, action, puts, left>>

\* The end of a request: its result, unless it was aborted or its run superseded; the finally
\* block, which deletes whatever controller the account has; and the worker's next target.
FinishFetch(f) ==
    LET rest  == Unmap(fetches \ {f}, f.id)
        next  == IF f.current /\ todo # <<>>
                 THEN Unmap(rest, Head(todo)) \cup {Fetch(Head(todo), "run")} ELSE rest
        heard == ~f.aborted /\ (f.kind = "signal" \/ f.current)
    IN  /\ f \in fetches
        /\ fetches' = next
        /\ todo' = IF f.current /\ todo # <<>> THEN Tail(todo) ELSE todo
        /\ IF heard
           THEN /\ data' = MergeQuotaDetail(data, f.id)
                /\ dirty' = TRUE /\ hist' = [hist EXCEPT !.orphans = @ \ {f.id}]
           ELSE UNCHANGED <<data, dirty, hist>>
        /\ quotaRefreshing' =
              IF \/ f.kind = "signal" /\ \A g \in next : ~g.mapped
                 \/ f.current /\ \A g \in next : ~g.current
              THEN FALSE ELSE quotaRefreshing
        /\ UNCHANGED <<server, dataRef, view, gets, error, action, puts, left>>

QUOTA_CONCURRENCY == 2

\* setData(merged) and refreshQuotas(merged, force): a run replaces the one before it.
RefreshQuotas(merged, force) ==
    LET targets == PickQuotaTargets(merged, force)
        first   == IF Len(targets) < QUOTA_CONCURRENCY THEN Len(targets) ELSE QUOTA_CONCURRENCY
        revived == merged.loading \ data.loading
    IN  /\ dirty' = TRUE
        /\ IF targets = <<>>
           THEN /\ data' = merged /\ UNCHANGED quotas
                /\ hist' = [hist EXCEPT !.orphans = (@ \cap merged.loading) \cup revived]
           ELSE /\ data' = MarkQuotaTargets(merged, Range(targets))
                /\ fetches' = Stopped(fetches) \cup {Fetch(targets[i], "run") : i \in 1..first}
                /\ todo' = SubSeq(targets, first + 1, Len(targets))
                /\ quotaRefreshing' = TRUE
                /\ hist' = [hist EXCEPT !.orphans = merged.loading \ Range(targets)]

-----------------------------------------------------------------------------
(* Requests for the list *)

Live(g) == gets[g].place # "none" /\ ~gets[g].aborted
FreeSlots == {g \in 1..Gets : gets[g].place = "none"}
NextSlot == CHOOSE g \in FreeSlots : \A h \in FreeSlots : g <= h

MutRefresh(force) ==        \* leaves the request under way alive
    /\ FreeSlots # {}
    /\ gets' = [gets EXCEPT ![NextSlot] = [NoGet EXCEPT !.place = "sent", !.force = force]]

\* refresh({cancelInFlight: true}): the request under way is aborted, a new one replaces it.
Refresh(force) ==
    /\ FreeSlots # {}
    /\ gets' = [g \in 1..Gets |-> IF g = NextSlot THEN [NoGet EXCEPT !.place = "sent", !.force = force]
                                  ELSE [gets[g] EXCEPT !.aborted = gets[g].place # "none"]]

\* The interval's refresh only runs when none is under way.
Poll ==
    /\ Input
    /\ \A g \in 1..Gets : ~Live(g)
    /\ Refresh(FALSE)
    /\ UNCHANGED <<server, data, dataRef, dirty, view, quotas, error, action, puts, hist>>

\* Store.Public takes its lock twice: once for the accounts, and again for the active one.
ListRead(g) ==
    /\ gets[g].place = "sent"
    /\ gets' = [gets EXCEPT ![g].place = "listed", ![g].list = server.list, ![g].v = server.v]
    /\ UNCHANGED <<server, data, dataRef, dirty, view, quotas, error, action, puts, left, hist>>

ActiveRead(g) ==
    /\ gets[g].place = "listed"
    /\ gets' = [gets EXCEPT ![g].place = "read", ![g].active = server.active]
    /\ UNCHANGED <<server, data, dataRef, dirty, view, quotas, error, action, puts, left, hist>>

\* Whoever awaited the request goes on, also when it was aborted.
Resume(g) ==
    /\ gets' = [gets EXCEPT ![g] = NoGet]
    /\ action' = IF action.slot = g THEN NoAction ELSE action
    /\ UNCHANGED puts

MutListAnswer(g) ==     \* applies the answer of an aborted request
    /\ gets[g].place = "read"
    /\ RefreshQuotas(MergeLightRefresh(dataRef, gets[g]), gets[g].force) /\ error' = FALSE
    /\ Resume(g)
    /\ UNCHANGED <<server, dataRef, view, left>>

ListAnswer(g) ==
    /\ gets[g].place = "read"
    /\ IF gets[g].aborted
       THEN UNCHANGED <<data, dirty, quotas, error, hist>>
       ELSE RefreshQuotas(MergeLightRefresh(dataRef, gets[g]), gets[g].force) /\ error' = FALSE
    /\ Resume(g)
    /\ UNCHANGED <<server, dataRef, view, left>>

\* (The failure of an aborted request is as silent as its answer.)
ListFails(g) ==
    /\ gets[g].place # "none" /\ ~gets[g].aborted
    /\ Input
    /\ error' = TRUE
    /\ Resume(g)
    /\ UNCHANGED <<server, data, dataRef, dirty, view, quotas, hist>>

\* A render, and its effects: dataRef, the shown list, and the end of the optimism.
Commit ==
    /\ dirty /\ dirty' = FALSE /\ dataRef' = data
    /\ view' = [accounts |-> data.list,
                optimistic |-> IF view.optimistic = data.active THEN Nobody ELSE view.optimistic]
    /\ hist' = [hist EXCEPT !.overtaken = @ /\ (view'.optimistic # Nobody \/ action # NoAction)]
    /\ UNCHANGED <<server, data, gets, quotas, error, action, puts, left>>

-----------------------------------------------------------------------------
(* home.tsx: the user's clicks *)

ActiveAccountId == IF view.optimistic # Nobody THEN view.optimistic ELSE dataRef.active

\* "Atualizar cotas" (force), or the login dialog reports a new account.
RefreshClick(force) ==
    /\ Input /\ Refresh(force)
    /\ UNCHANGED <<server, data, dataRef, dirty, view, quotas, error, action, puts, hist>>

\* The buttons of a shown card: disabled while any account action runs, and "Usar agora" for
\* the account that is shown as the active one.
Enabled(type, id) ==
    /\ Contains(view.accounts, id) /\ action = NoAction
    /\ type = "activate" => id # ActiveAccountId

\* activate, applyAccountInZCode and deleteAccount begin.
Begin(type, id) ==
    /\ Input /\ Enabled(type, id)
    /\ action' = [NoAction EXCEPT !.type = type, !.id = id, !.place = "posting",
                                  !.wasActive = ActiveAccountId = id]
    /\ UNCHANGED <<server, data, dataRef, dirty, view, gets, quotas, error, puts, hist>>

MutDone ==      \* joins the request under way, which may have been read before
    /\ action.place = "done"
    /\ view' = [view EXCEPT !.optimistic = IF action.type = "delete" THEN @ ELSE action.id]
    /\ dirty' = TRUE
    /\ IF \E g \in 1..Gets : Live(g)
       THEN action' = [action EXCEPT !.place = "refreshing", !.slot = CHOOSE g \in 1..Gets : Live(g)]
            /\ UNCHANGED gets
       ELSE Refresh(FALSE) /\ action' = [action EXCEPT !.place = "refreshing", !.slot = NextSlot]
    /\ hist' = [hist EXCEPT !.own = IF @ < action.v THEN action.v ELSE @]
    /\ UNCHANGED <<server, data, dataRef, quotas, error, puts, left>>

\* The answer of the proxy: the panel shows what it was told at once, and reads the list.
Done ==
    /\ action.place = "done"
    /\ view' = IF action.type = "delete"
               THEN [accounts |-> Keep(view.accounts, Accounts \ {action.id}),
                     optimistic |-> IF action.wasActive THEN action.active ELSE view.optimistic]
               ELSE [view EXCEPT !.optimistic = action.id]
    /\ dirty' = TRUE
    /\ Refresh(action.type = "delete")
    /\ action' = [action EXCEPT !.place = "refreshing", !.slot = NextSlot]
    /\ hist' = [hist EXCEPT !.own = IF @ < action.v THEN action.v ELSE @]
    /\ UNCHANGED <<server, data, dataRef, quotas, error, puts, left>>

Failed ==
    /\ action.place = "failed" /\ action' = NoAction
    /\ UNCHANGED <<server, data, dataRef, dirty, view, gets, quotas, error, puts, left, hist>>

FreePuts == {p \in 1..Puts : puts[p].place = "none"}
NextPut == CHOOSE p \in FreePuts : \A q \in FreePuts : p <= q

\* persistOrder and reorder: the shown cards, as rendered and with the quotas they show,
\* become the state.  Nothing keeps a second drag from starting while one is being saved.
PersistOrder(ordered) ==
    /\ Input
    /\ FreePuts # {}
    /\ view' = [view EXCEPT !.accounts = ordered]
    /\ data' = [list |-> ordered, active |-> data.active, v |-> data.v,
                known |-> dataRef.known \cap Range(ordered),
                loading |-> dataRef.loading \cap Range(ordered)]
    /\ dirty' = TRUE
    /\ puts' = [puts EXCEPT ![NextPut] = [NoPut EXCEPT !.place = "posting", !.list = ordered,
                                                      !.previous = dataRef]]
    /\ hist' = [hist EXCEPT !.orphans = @ \cup (data'.loading \ data.loading)]
    /\ UNCHANGED <<server, dataRef, gets, quotas, error, action>>

OrderSaved(p) ==
    /\ puts[p].place = "done" /\ error' = FALSE
    /\ Refresh(FALSE)
    /\ puts' = [puts EXCEPT ![p] = NoPut]
    /\ hist' = [hist EXCEPT !.own = IF @ < puts[p].v THEN puts[p].v ELSE @]
    /\ UNCHANGED <<server, data, dataRef, dirty, view, quotas, action, left>>

\* The state of before the drag comes back, with what it said of the quotas then.
OrderFailed(p) ==
    /\ puts[p].place = "failed"
    /\ data' = puts[p].previous /\ dirty' = TRUE /\ error' = TRUE
    /\ Refresh(FALSE)
    /\ puts' = [puts EXCEPT ![p] = NoPut]
    /\ hist' = [hist EXCEPT !.orphans = @ \cup (data'.loading \ data.loading)]
    /\ UNCHANGED <<server, dataRef, view, quotas, action, left>>

-----------------------------------------------------------------------------
(* The proxy *)

\* The active account is replaced by the first in memory, which a reorder that stopped half-way
\* makes differ from the first by number: by any other.
Without(id) ==
    LET rest == Keep(server.list, Accounts \ {id})
        heirs == IF rest = <<>> THEN {Nobody} ELSE Range(rest)
    IN  {[list |-> rest, active |-> a, v |-> server.v + 1] :
            a \in IF server.active = id THEN heirs ELSE {server.active}}

\* Activating, also on the way into ZCode, and deleting; the panel learns that it worked, or
\* an error, also for what was done: applying to ZCode may fail after the activation.  The
\* answer to a deletion says which account is active, but that is looked up afterwards.
ServerActs ==
    /\ action.place = "posting"
    /\ \/ /\ Contains(server.list, action.id) /\ server.v < MaxVersion
          /\ server' \in IF action.type = "delete" THEN Without(action.id)
                         ELSE {[server EXCEPT !.active = action.id, !.v = @ + 1]}
          /\ \E place \in {IF action.type = "delete" THEN "removed" ELSE "done", "failed"} :
                /\ action' = [action EXCEPT !.place = place, !.v = server'.v]
                /\ hist' = [hist EXCEPT !.overtaken = @ \/ place = "failed"]
       \/ action' = [action EXCEPT !.place = "failed"] /\ UNCHANGED <<server, hist>>
    /\ UNCHANGED <<data, dataRef, dirty, view, gets, quotas, error, puts, left>>

\* removeAccount, after the removal and after a save of the admin store.
ServerTells ==
    /\ action.place = "removed"
    /\ action' = [action EXCEPT !.place = "done", !.active = server.active]
    /\ UNCHANGED <<server, data, dataRef, dirty, view, gets, quotas, error, puts, left, hist>>

\* A reorder that names as many accounts, but not the same ones, is refused half-way: those the
\* loop had come to have their new numbers, and the list is sorted by number wherever it is
\* read.  Which ones depends on the order in memory, so any order may result.
ServerReorders(p) ==
    /\ puts[p].place = "posting"
    /\ \/ /\ Range(puts[p].list) = Range(server.list) /\ server.v < MaxVersion
          /\ server' = [server EXCEPT !.list = puts[p].list, !.v = @ + 1]
          /\ \E place \in {"done", "failed"} :
                puts' = [puts EXCEPT ![p].place = place, ![p].v = server'.v]
       \/ /\ Range(puts[p].list) # Range(server.list) /\ Len(puts[p].list) = Len(server.list)
          /\ \E list \in SetToSeqs(Range(server.list)) :
                server' = [server EXCEPT !.list = list, !.v = @ + 1]
          /\ puts' = [puts EXCEPT ![p].place = "failed"]
       \/ puts' = [puts EXCEPT ![p].place = "failed"] /\ UNCHANGED server
    /\ UNCHANGED <<data, dataRef, dirty, view, gets, quotas, error, action, left, hist>>

\* The proxy changes by itself: a login, which makes the account active if none is; a repair
\* that removes; a rotation.
ServerChanges ==
    /\ server.v < MaxVersion
    /\ \E a \in Accounts :
          \/ /\ ~Contains(server.list, a)
             /\ server' = [list |-> Append(server.list, a), v |-> server.v + 1,
                           active |-> IF server.active = Nobody THEN a ELSE server.active]
          \/ Contains(server.list, a) /\ server' \in Without(a)
          \/ /\ Contains(server.list, a) /\ a # server.active
             /\ server' = [server EXCEPT !.active = a, !.v = @ + 1]
    /\ LET trusting == action # NoAction \/ view.optimistic # Nobody
       IN  hist' = [hist EXCEPT !.overtaken = @ \/ (trusting /\ server'.active # server.active)]
    /\ UNCHANGED <<data, dataRef, dirty, view, gets, quotas, error, action, puts, left>>

-----------------------------------------------------------------------------
Clicks ==
    \/ \E force \in BOOLEAN : RefreshClick(force)
    \/ \E type \in {"activate", "applyZCode", "delete"}, id \in Accounts : Begin(type, id)
    \/ \E ordered \in SetToSeqs(Range(view.accounts)) : PersistOrder(ordered)

ActionSteps == ServerActs \/ ServerTells \/ Done \/ Failed
PutSteps(p) == ServerReorders(p) \/ OrderSaved(p) \/ OrderFailed(p)
FetchSteps == \E f \in fetches : FinishFetch(f)

Next ==
    \/ Poll \/ Commit \/ FetchSteps \/ ActionSteps \/ Clicks \/ ServerChanges
    \/ \E g \in 1..Gets : ListRead(g) \/ ActiveRead(g) \/ ListAnswer(g) \/ ListFails(g)
    \/ \E p \in 1..Puts : PutSteps(p)
    \/ \E id \in Accounts : RefreshAccountQuota(id)

Spec == Init /\ [][Next]_vars

\* Renders happen, and every request is answered or fails; the user and the interval owe nothing.
Fairness ==
    /\ WF_vars(Commit) /\ WF_vars(FetchSteps) /\ WF_vars(ActionSteps)
    /\ \A g \in 1..Gets : WF_vars(ListRead(g) \/ ActiveRead(g) \/ ListAnswer(g))
    /\ \A p \in 1..Puts : WF_vars(PutSteps(p))

FairSpec == Spec /\ Fairness

-----------------------------------------------------------------------------
State(d) ==
    /\ d.list \in SeqOf(Accounts, Cardinality(Accounts)) /\ IsInjective(d.list)
    /\ d.known \cup d.loading \subseteq Ids(d)

TypeOK ==
    /\ State(data) /\ State(dataRef)
    /\ view.optimistic \in Accounts \cup {Nobody}
    /\ Range(view.accounts) \subseteq Accounts
    /\ Cardinality({g \in 1..Gets : Live(g)}) <= 1
    /\ \A f, g \in fetches : f.mapped /\ g.mapped /\ f.id = g.id => f = g
    /\ todo # <<>> => \E f \in fetches : f.current

\* The panel never goes back to an older list, although requests overlap, are aborted and
\* answered late; only a refused reorder restores the state of before (use-accounts.ts:264).
ListNeverOlder ==
    [][\/ data'.v >= data.v
       \/ \E p \in 1..Puts : puts[p].place = "failed" /\ puts'[p].place = "none"]_vars

NoRequest == \A g \in 1..Gets : ~Live(g)
NoPuts == \A p \in 1..Puts : puts[p].place = "none"

\* The panel reads its own writes: with nothing under way and no error shown, the list is at
\* least as new as the last change that was acknowledged to it (home.tsx:361, 377, 395, 344).
ReadsOwnWrites ==
    (action = NoAction /\ NoPuts /\ NoRequest /\ ~error) => data.v >= hist.own

\* A list that is up to date shows the proxy's active account, unless the proxy has changed it
\* while the panel was optimistic: then the panel may show the old one on (home.tsx:278).
\* Once the answers to the drags are in, it shows the accounts in the proxy's order too.
ShowsActive ==
    (action = NoAction /\ ~dirty /\ ~error /\ data.v = server.v /\ ~hist.overtaken)
        => /\ ActiveAccountId = server.active
           /\ NoPuts /\ NoRequest => view.accounts = server.list

\* A quota spinner turns because a request is under way or planned; it is orphaned only where
\* a new quota run aborts requests it does not repeat, or a state is restored from a stale
\* copy (use-accounts.ts:163, 229, 257, 264).
SpinnerHasRequest ==
    data.loading \subseteq Range(todo) \cup hist.orphans \cup
        {f.id : f \in {f \in fetches : ~f.aborted /\ (f.kind = "signal" \/ f.current)}}

\* The "refreshing" indicator goes out: whatever overlapping quota runs and signals do to one
\* another's controllers, the last of them to end resets it (use-accounts.ts:142, 203).
RefreshingEnds == quotaRefreshing ~> ~quotaRefreshing
=============================================================================
