---------------------------- MODULE ChatDispatch ----------------------------
(***************************************************************************)
(* The loop of POST /v1/chat/completions (internal/api/server.go, chat):   *)
(* a request selects an account (internal/accountpool/pool.go), takes the  *)
(* account's lease in the local queue (module RequestQueue), talks to the  *)
(* upstream, and on most failures puts the account on its private skip     *)
(* list and starts over.  When every account is skipped or out of quota it *)
(* tries, in this order: accounts whose cooldown is over, the automatic    *)
(* account creator, every saved account once more in best-effort mode, and *)
(* at last it waits for a cooldown or gives up.                            *)
(*                                                                         *)
(* Requests run concurrently with one another and with logins, removals    *)
(* and activations from the panel (module AccountSet).  One model is       *)
(* requested, so that the queue key is the account; requests for different *)
(* models share no key.  The configuration is the one with several         *)
(* accounts: account rotation on, no ZCODE_AUTHORIZATION of its own.       *)
(*                                                                         *)
(* The quota an account has left matters through its comparison with the   *)
(* request only, and it may change between any two looks, so that every    *)
(* look finds any of the values in Balances.  The counters of MarkRequest  *)
(* and the saved order only break ties among accounts, which the model     *)
(* leaves open.                                                            *)
(***************************************************************************)
EXTENDS Naturals, Sequences, FiniteSets

CONSTANTS Requests,     \* the goroutines that serve chat requests
          Accounts,     \* the ids of the accounts
          NoAccount,    \* no account is active, or chosen
          NoRequest,    \* nobody runs the account creator
          AdminRuns,    \* calls of POST /api/admin/account-creator/run
          Nobody        \* names the owner of a lost lease

ASSUME NoAccountIsNoAccount == NoAccount \notin Accounts
ASSUME NoRequestIsNoRequest == NoRequest \notin Requests \cup AdminRuns
ASSUME RunsAreNoRequests == Requests \cap AdminRuns = {}

VARIABLES
    gates, busy, wait, closed, pc, key, position, ctxDone,  \* the local queue
    ids, active,        \* the vault: saved accounts and the active one
    creator,            \* who holds runMu of the account creator: a request, or the endpoint
    req                 \* the local variables of chat, for every request

Queue == INSTANCE RequestQueue WITH
             Callers <- Requests, Keys <- Accounts, NoKey <- NoAccount

Vault == INSTANCE AccountSet WITH Ids <- Accounts, NoId <- NoAccount

queueVars == <<gates, busy, wait, closed, pc, key, position, ctxDone>>
vaultVars == <<ids, active>>
vars      == <<queueVars, vaultVars, creator, req>>

(***************************************************************************)
(* What a look at the quota of an account finds: an error; no entry for    *)
(* the model; an entry without a number; less than the request is          *)
(* estimated to need; enough for the estimate but not for the body that    *)
(* goes upstream, which has the account's thinking settings; enough.       *)
(***************************************************************************)
Balances == {"error", "missing", "unstated", "short", "tight", "enough"}

(***************************************************************************)
(* How a call to the upstream ends, as the skip functions tell it apart:   *)
(* with an answer or a stream that has started; rejected, which the same   *)
(* account would do again (quota exhausted, login expired, an error        *)
(* without detail and with a client status); transient (overloaded, an     *)
(* error without detail and with a server status, a stream that ended      *)
(* before it said anything); any other failure, the WAF's included.        *)
(***************************************************************************)
Outcomes == {"answer", "rejected", "transient", "failure"}

Places == {"idle", "select", "selectBest", "pick", "noAccount", "exhausted",
           "wantCreator", "create", "verdict", "cooldown",
           "busyCheck", "acquire", "queued", "upstream", "judge"}

\* gaveUp: every account was tried.  Which error chat blames (no quota, login expired
\* or the last upstream error) does not change what it does and is left out.
Replies == {"none", "answered", "failed", "authMissing", "gaveUp",
            "queueCancelled", "waitCancelled"}

\* No entry, an entry for this round, an entry until RetryAfter.
Skips == {"none", "hard", "cooling"}

NoSkips == [a \in Accounts |-> "none"]

\* chat's local variables before its first look at the accounts.
Fresh == [place   |-> "idle",
          listed  |-> {},           \* the accounts pool.ordered returned
          chosen  |-> NoAccount,    \* selection.Account
          authorized |-> TRUE,      \* selection.Config.HasAuthorization
          skips   |-> NoSkips,      \* skipped
          created |-> FALSE,        \* accountCreationAttempted
          best    |-> FALSE,        \* bestEffortExistingAccounts
          cut     |-> FALSE,        \* the upstream call began with a dead context
          reply   |-> "none"]

TypeOK ==
    /\ Queue!TypeOK
    /\ ids \subseteq Accounts
    /\ active \in Accounts \cup {NoAccount}
    /\ creator \in Requests \cup AdminRuns \cup {NoRequest}
    /\ req \in [Requests ->
           [place : Places, listed : SUBSET Accounts, chosen : Accounts \cup {NoAccount},
            authorized : BOOLEAN, skips : [Accounts -> Skips], created : BOOLEAN, best : BOOLEAN,
            cut : BOOLEAN, reply : Replies]]

Init ==
    /\ Queue!Init
    /\ Vault!SetInit
    /\ creator = NoRequest
    /\ req = [r \in Requests |-> Fresh]

-----------------------------------------------------------------------------
At(r, place) == req[r].place = place

\* r's local variables become those of "next"; no other request notices.
Local(r, next) == req' = [req EXCEPT ![r] = next]

Go(r, place) == Local(r, [req[r] EXCEPT !.place = place])

\* chat writes an answer and returns.
Return(r, reply) == Local(r, [Fresh EXCEPT !.reply = reply])

OnlyLocal == UNCHANGED <<queueVars, vaultVars, creator>>

Skipped(r, a) == req[r].skips[a] # "none"

\* allAccountsSkipped: every account that is saved now is on the skip list.
AllAccountsSkipped(r) == ids # {} /\ \A a \in ids : Skipped(r, a)

\* blockAccount: an entry that exists is not replaced.
Block(x, a, how) ==
    IF x.skips[a] = "none" THEN [x.skips EXCEPT ![a] = how] ELSE x.skips

\* skipped = map[string]accountSkip{}: a new round over all accounts.
NewRound(x) == [x EXCEPT !.skips = NoSkips, !.authorized = TRUE, !.place = "select"]

Cooling(r) == {a \in Accounts : req[r].skips[a] = "cooling"}

MutDueBack(x, due) ==      \* the entries go, and with them the accounts
    [x EXCEPT !.skips = [a \in Accounts \ due |-> @[a]], !.place = "select"]

\* releaseExpiredAccountSkips: the accounts that are due come back.
DueBack(x, due) ==
    [x EXCEPT !.skips = [a \in Accounts |-> IF a \in due THEN "none" ELSE @[a]],
              !.place = "select"]

\* A client sends a request; its context is a new one.
Start(r) ==
    /\ At(r, "idle")
    /\ pc[r] = "idle"
    /\ r \notin ctxDone
    /\ Local(r, [Fresh EXCEPT !.place = "select"])
    /\ OnlyLocal

Renew(r) ==
    /\ At(r, "idle")
    /\ Queue!Renew(r)
    /\ UNCHANGED <<vaultVars, creator, req>>

\* The client goes away while its request is served.
Disconnect(r) ==
    /\ ~At(r, "idle")
    /\ Queue!Cancel(r)
    /\ UNCHANGED <<vaultVars, creator, req>>

-----------------------------------------------------------------------------
\* store.Activate, which finds nothing when the account was removed meanwhile.
ActivateChosen(a) == IF a \in ids THEN Vault!Activate(a) ELSE UNCHANGED vaultVars

\* In best-effort mode chat calls SelectForRequest all the same and drops its result;
\* what remains is that it may have activated an account.
SelectAndDrop(r) ==
    /\ At(r, "select")
    /\ req[r].best
    /\ \/ UNCHANGED vaultVars
       \/ \E a \in ids : ~Skipped(r, a) /\ ActivateChosen(a)
    /\ Go(r, "selectBest")
    /\ UNCHANGED <<queueVars, creator>>

\* pool.ordered: the saved accounts as they are now.  Their quota is read next, over
\* the network.
ListAccounts(r) ==
    /\ At(r, IF req[r].best THEN "selectBest" ELSE "select")
    /\ Local(r, [req[r] EXCEPT !.place = "pick", !.listed = ids])
    /\ OnlyLocal

\* The accounts inspected: those listed that are not on the skip list.
Open(r) == {a \in req[r].listed : ~Skipped(r, a)}

\* bestEligible: an account qualifies with a known balance that is not too low; with
\* required units the largest balance wins, in best-effort mode the fewest requests.
Rank == [unstated |-> 0, tight |-> 1, enough |-> 2]

BestEligible(r, look) ==
    IF req[r].best
    THEN {a \in Open(r) : look[a] \in {"unstated", "short", "tight", "enough"}}
    ELSE LET fit == {a \in Open(r) : look[a] \in DOMAIN Rank}
         IN  {a \in fit : \A b \in fit : Rank[look[b]] <= Rank[look[a]]}

\* chat goes on with account a; too small a balance puts it on the skip list.
Selected(r, a, balance) ==
    IF ~req[r].best /\ balance = "tight"
    THEN [req[r] EXCEPT !.listed = {}, !.skips = Block(req[r], a, "hard"), !.place = "select"]
    ELSE [req[r] EXCEPT !.listed = {}, !.chosen = a,
                        !.place = IF req[r].best THEN "acquire" ELSE "busyCheck"]

PickEligible(r) ==
    /\ At(r, "pick")
    /\ \E look \in [Open(r) -> Balances] : \E a \in BestEligible(r, look) :
           ActivateChosen(a) /\ Local(r, Selected(r, a, look[a]))
    /\ UNCHANGED <<queueVars, creator>>

\* No account qualifies and the quota of one could not be read: it is used unseen.
PickUnread(r) ==
    /\ At(r, "pick")
    /\ \E look \in [Open(r) -> Balances \ {"unstated", "enough"}] :
           /\ BestEligible(r, look) = {}
           /\ \E a \in Open(r) :
                 /\ look[a] = "error"
                 /\ ActivateChosen(a)
                 /\ Local(r, Selected(r, a, "error"))
    /\ UNCHANGED <<queueVars, creator>>

\* Every account is skipped or has too little: selection.AllExhausted.
PickNone(r) ==
    /\ At(r, "pick")
    /\ req[r].listed # {}
    /\ Local(r, [req[r] EXCEPT !.listed = {}, !.place = "exhausted"])
    /\ OnlyLocal

\* No account is saved: the fallback configuration has no authorization.
PickNoAccount(r) ==
    /\ At(r, "pick")
    /\ req[r].listed = {}
    /\ Local(r, [req[r] EXCEPT !.authorized = FALSE, !.place = "noAccount"])
    /\ OnlyLocal

-----------------------------------------------------------------------------
\* The last resort before an answer: all saved accounts again, in best-effort mode.
BestEffort(x) == [NewRound(x) EXCEPT !.best = TRUE]

\* selection.AllExhausted, and all saved accounts are skipped: those whose cooldown is
\* over by now come back.
ReleaseExpired(r) ==
    /\ At(r, "exhausted")
    /\ AllAccountsSkipped(r)
    /\ \E due \in SUBSET Cooling(r) : due # {} /\ Local(r, DueBack(req[r], due))
    /\ OnlyLocal

\* No cooldown is over: the creator is asked, once, and refuses at once when it is off
\* or a new account would not suffice; then the best-effort round begins; then chat
\* comes to a verdict.
Exhausted(r) ==
    /\ At(r, "exhausted")
    /\ \/ /\ ~req[r].created
          /\ \/ Local(r, [req[r] EXCEPT !.created = TRUE, !.place = "wantCreator"])
             \/ Local(r, BestEffort([req[r] EXCEPT !.created = TRUE]))
       \/ req[r].created /\ ~req[r].best /\ Local(r, BestEffort(req[r]))
       \/ req[r].created /\ req[r].best /\ Go(r, "verdict")
    /\ OnlyLocal

\* !selection.Config.HasAuthorization: the creator is asked, once.
NoAccountSaved(r) ==
    /\ At(r, "noAccount")
    /\ \/ /\ ~req[r].created
          /\ Local(r, [req[r] EXCEPT !.created = TRUE, !.place = "wantCreator"])
       \/ Return(r, "authMissing")
    /\ OnlyLocal

\* creator.Run: one run at a time.  The lock is not given up when the client leaves.
CreatorStart(r) ==
    /\ At(r, "wantCreator")
    /\ creator = NoRequest
    /\ creator' = r
    /\ Go(r, "create")
    /\ UNCHANGED <<queueVars, vaultVars>>

\* A run that succeeds starts a new round; the account it made was saved by the login
\* it drove (Login).  A run that fails leaves what was possible before it.
CreatorEnd(r) ==
    /\ At(r, "create")
    /\ creator' = NoRequest
    /\ \/ Local(r, NewRound(req[r]))
       \/ IF req[r].authorized THEN Local(r, BestEffort(req[r])) ELSE Return(r, "authMissing")
    /\ UNCHANGED <<queueVars, vaultVars>>

\* Everything was tried.  allAccountsSkipped looks at the saved accounts anew.
Verdict(r) ==
    /\ At(r, "verdict")
    /\ IF AllAccountsSkipped(r) /\ Cooling(r) # {} THEN Go(r, "cooldown")
       ELSE Return(r, "gaveUp")
    /\ OnlyLocal

\* waitForAccountRetryCooldown: the timer fires, and the accounts that are due come
\* back, if all saved accounts are still on the skip list.
CooldownOver(r) ==
    /\ At(r, "cooldown")
    /\ \/ /\ AllAccountsSkipped(r)
          /\ \E due \in SUBSET Cooling(r) : due # {} /\ Local(r, DueBack(req[r], due))
       \/ ~AllAccountsSkipped(r) /\ Return(r, "waitCancelled")
    /\ OnlyLocal

CooldownCut(r) ==
    /\ At(r, "cooldown")
    /\ r \in ctxDone
    /\ Return(r, "waitCancelled")
    /\ OnlyLocal

-----------------------------------------------------------------------------
MutBusyCheck(r) ==       \* starts over without skipping the busy account
    /\ At(r, "busyCheck")
    /\ Local(r, IF busy[req[r].chosen]
                THEN [req[r] EXCEPT !.chosen = NoAccount, !.place = "select"]
                ELSE [req[r] EXCEPT !.place = "acquire"])
    /\ OnlyLocal

\* A busy account is skipped for a while, to try another one before queueing; in
\* best-effort mode chat does not ask.
BusyCheck(r) ==
    LET a == req[r].chosen
    IN  /\ At(r, "busyCheck")
        /\ IF busy[a]
           THEN Local(r, [req[r] EXCEPT !.skips = Block(req[r], a, "cooling"),
                                        !.chosen = NoAccount, !.place = "select"])
           ELSE Go(r, "acquire")
        /\ OnlyLocal

\* The upstream call begins with the context as it is now.
Send(r) == Local(r, [req[r] EXCEPT !.place = "upstream", !.cut = (r \in ctxDone)])

MutAcquire(r) ==       \* does not wait for a lease that is taken
    /\ At(r, "acquire")
    /\ \/ Queue!AcquireFree(r, req[r].chosen)
       \/ busy[req[r].chosen] /\ UNCHANGED queueVars
    /\ Send(r)
    /\ UNCHANGED <<vaultVars, creator>>

\* queue.Acquire: the lease is free, or r queues for it.
Acquire(r) ==
    /\ At(r, "acquire")
    /\ \/ Queue!AcquireFree(r, req[r].chosen) /\ Send(r)
       \/ Queue!AcquireWait(r, req[r].chosen) /\ Go(r, "queued")
    /\ UNCHANGED <<vaultVars, creator>>

Granted(r) ==
    /\ At(r, "queued")
    /\ Queue!SelectGranted(r)
    /\ Send(r)
    /\ UNCHANGED <<vaultVars, creator>>

LeaveQueue(r) ==
    /\ At(r, "queued")
    /\ Queue!SelectDone(r)
    /\ UNCHANGED <<vaultVars, creator, req>>

MutQueueCancelled(r) ==       \* takes the error of Acquire for a reason to start over
    /\ At(r, "queued")
    /\ Queue!RemoveWaiter(r)
    /\ Local(r, [req[r] EXCEPT !.chosen = NoAccount, !.place = "select"])
    /\ UNCHANGED <<vaultVars, creator>>

\* Acquire returned ctx.Err().
QueueCancelled(r) ==
    /\ At(r, "queued")
    /\ Queue!RemoveWaiter(r)
    /\ Return(r, "queueCancelled")
    /\ UNCHANGED <<vaultVars, creator>>

MutUpstreamEnd(r) ==       \* forgets the lease when the client is gone
    /\ At(r, "upstream")
    /\ \/ r \notin ctxDone /\ Queue!Release(r)
       \/ r \in ctxDone /\ UNCHANGED queueVars
    /\ Go(r, "judge")
    /\ UNCHANGED <<vaultVars, creator>>

\* The upstream call returns and the lease is released before chat looks at the result.
UpstreamEnd(r) ==
    /\ At(r, "upstream")
    /\ Queue!Release(r)
    /\ Go(r, "judge")
    /\ UNCHANGED <<vaultVars, creator>>

MutAfterFailure(x, out) ==     \* a transient failure does not reach the skip list
    LET a == x.chosen
    IN  [x EXCEPT !.skips = IF out = "rejected" THEN Block(x, a, "hard") ELSE @,
                  !.chosen = NoAccount, !.cut = FALSE, !.place = "select"]

\* The skip functions of chat: the account goes on the skip list, for good or for a
\* cooldown, and chat starts over.
AfterFailure(x, out) ==
    LET a == x.chosen
    IN  [x EXCEPT !.skips = Block(x, a, IF out = "rejected" THEN "hard" ELSE "cooling"),
                  !.chosen = NoAccount, !.cut = FALSE, !.place = "select"]

\* chat answers, gives up, or skips the account and starts over.  A call that began
\* with a cancelled context fails with the context's error, which no skip accepts.
Judge(r) ==
    /\ At(r, "judge")
    /\ Queue!Finish(r)
    /\ \E out \in IF req[r].cut THEN {"failure"} ELSE Outcomes :
           CASE out = "answer"  -> Return(r, "answered")
             [] out = "failure" -> Return(r, "failed")
             [] OTHER           -> Local(r, AfterFailure(req[r], out))
    /\ UNCHANGED <<vaultVars, creator>>

-----------------------------------------------------------------------------
\* A login on the panel, or one the account creator drives, saves an account.
Login(a) == Vault!Add(a) /\ UNCHANGED <<queueVars, creator, req>>

\* DELETE /api/admin/accounts/{id}; requests that use the account go on.
RemoveAccount(a) == Vault!Drop(a) /\ UNCHANGED <<queueVars, creator, req>>

\* POST /api/admin/accounts/{id}/activate.
ActivateAccount(a) == Vault!Activate(a) /\ UNCHANGED <<queueVars, creator, req>>

\* POST /api/admin/account-creator/run: the panel has the creator run, too.
RunAccountCreator(p) ==
    /\ creator = NoRequest /\ creator' = p
    /\ UNCHANGED <<queueVars, vaultVars, req>>

RunAccountCreatorEnds(p) ==
    /\ creator = p /\ creator' = NoRequest
    /\ UNCHANGED <<queueVars, vaultVars, req>>

\* What r does by itself, once it can.
Step(r) ==
    \/ SelectAndDrop(r) \/ ListAccounts(r) \/ PickEligible(r) \/ PickUnread(r) \/ PickNone(r)
    \/ PickNoAccount(r) \/ ReleaseExpired(r) \/ Exhausted(r) \/ NoAccountSaved(r) \/ CreatorEnd(r)
    \/ Verdict(r) \/ CooldownOver(r) \/ CooldownCut(r) \/ BusyCheck(r) \/ Acquire(r)
    \/ Granted(r) \/ LeaveQueue(r) \/ QueueCancelled(r) \/ UpstreamEnd(r) \/ Judge(r)

Next ==
    \/ \E r \in Requests :
          \/ Start(r) \/ Renew(r) \/ Disconnect(r) \/ Step(r) \/ CreatorStart(r)
    \/ \E a \in Accounts : Login(a) \/ RemoveAccount(a) \/ ActivateAccount(a)
    \/ \E p \in AdminRuns : RunAccountCreator(p) \/ RunAccountCreatorEnds(p)

Spec == Init /\ [][Next]_vars

(***************************************************************************)
(* Fairness.  A goroutine that can run is run, an upstream call ends (it   *)
(* has UpstreamTimeout), a creator run ends (AccountCreatorTimeout), and a *)
(* cooldown ends.  sync.Mutex hands the lock to a waiter that has waited   *)
(* for a millisecond, so a request that waits for the creator is not       *)
(* passed for ever.  Clients and the panel owe nothing.                    *)
(***************************************************************************)
Fairness ==
    /\ \A p \in AdminRuns : WF_vars(RunAccountCreatorEnds(p))
    /\ \A r \in Requests :
          /\ WF_vars(Step(r))
          /\ SF_vars(CreatorStart(r))

FairSpec == Spec /\ Fairness

-----------------------------------------------------------------------------
\* Two requests never talk to the upstream with the same account (and model): what the
\* queue is for (server.go chat, Acquire before and Release after the call).
OneUpstreamPerAccount ==
    \A r, s \in Requests :
        At(r, "upstream") /\ At(s, "upstream") /\ req[r].chosen = req[s].chosen => r = s

\* One request cannot hammer an account that keeps failing: every failure chat goes on
\* after skips the account, no skipped account is chosen, and an account comes off the
\* skip list only when all accounts were tried or the creator made a new one.
NoHammering ==
    [][\A r \in Requests, a \in Accounts :
          /\ At(r, "judge") /\ req[r].chosen = a /\ At(r, "select")' => Skipped(r, a)'
          /\ At(r, "pick") /\ req'[r].chosen = a => ~Skipped(r, a)
          /\ Skipped(r, a) /\ ~Skipped(r, a)' =>
                req[r].place \in {"exhausted", "cooldown", "create"} \/ At(r, "idle")']_vars

\* Requests wait for leases, for the creator and for cooldowns, and keep nothing meanwhile
\* that others wait for: the lease of an account is with a call to the upstream, or on its way
\* to a request that queues for it, or was lost on that way; the creator's lock is with the one
\* request that runs it, or with a run of the panel.  So no circle of waiting requests closes,
\* and no account stays busy over a wait for something else (server.go:435-453, runner.go:126).
NoHoldAndWait ==
    /\ \A a \in Accounts : busy[a] =>
          \/ \E r \in Requests : req[r].chosen = a /\ At(r, "upstream")
          \/ \E r \in Requests : req[r].chosen = a /\ At(r, "queued") /\ r \in closed
          \/ Queue!Orphaned(a)
    /\ \A r \in Requests : creator = r <=> At(r, "create")

\* The dispatcher uses the queue as RequestQueue says, and gives it the fairness that
\* its NoStarvation rests on: every lease is released in the end.
UsesQueueFairly == Queue!FairSpec

\* r is waiting for something that is outside its own loop, or is not served at all.
Rests(r) ==
    req[r].place \in {"idle", "upstream", "queued", "cooldown", "wantCreator", "create"}

CooldownsKeepEnding(r) == []<><<ReleaseExpired(r)>>_vars

\* The loop never spins: again and again it talks to the upstream, waits or answers.
\* (Cooldowns so short that they end during every turn of the loop are excepted.)
NeverSpins == \A r \in Requests : []<>Rests(r) \/ CooldownsKeepEnding(r)

\* A request whose client is gone ends, wherever it is, even behind a lost lease.
GoneEnds ==
    \A r \in Requests :
        (~At(r, "idle") /\ r \in ctxDone ~> At(r, "idle")) \/ CooldownsKeepEnding(r)

\* "request cancelled while waiting for account retry cooldown" is said to a client
\* that has cancelled its request (server.go, waitForAccountRetryCooldown).
CancelledByClient ==
    \A r \in Requests : req[r].reply = "waitCancelled" => r \in ctxDone
=============================================================================
