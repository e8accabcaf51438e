# Formal models of the GLM proxy

The program is a local, OpenAI-compatible proxy for the GLM models of Z.ai/ZCode. It
keeps several Z.ai accounts, picks one for every chat request, and talks to the upstream
on its behalf. It is written in Go; a React panel and an Android application show its
administrative API, and a Node script makes new accounts in a browser. These modules model
the parts in which requests, panel, script and background work meet, check them with TLC on
small instances, and prove with TLAPS every safety property among them for all numbers of
requests, accounts, calls and logins.

1. [The system](#1-the-system)
2. [The modules](#2-the-modules)
3. [The runs](#3-the-runs)
4. [Fairness](#4-fairness)
5. [The proofs](#5-the-proofs)
6. [Findings](#6-findings)
7. [What is not modelled](#7-what-is-not-modelled)
8. [Plan](#8-plan)

## 1. The system

Paths are relative to `src/internal/`; those of the panel to `src/cmd/desktop/frontend/src/`.

| Component | State | Operations | Works with |
|---|---|---|---|
| Chat dispatcher, `api/server.go` (`chat`) | per request: skip list, cooldowns, whether the creator was asked, best-effort flag | select, skip, wait, queue, call, answer | all of the following |
| Account pool, `accountpool/pool.go` | request counters | `SelectForRequest`, `SelectBestEffort`, `MarkRequest` | vault (lists, activates), quota service |
| Local request queue, `requestqueue/queue.go` | a gate (busy, waiters) per `account:model` | `Acquire`, `Release`, `Busy`, `Snapshot` | called by the dispatcher |
| Account vault, `accounts/store.go` | accounts, active account, encrypted file | `Upsert`, `Activate`, `Reorder`, `Remove`, `UpdateCodingPlanAPIKey`, `NewStore` | called by nearly everything |
| Upstream client, `proxy/` | none between calls | `Collect…`, `Stream…`: attempts, captcha escalation, SSE | captcha bridge, runtime headers |
| Quota service, `quota/service.go` | two single-flight caches, request gate | `ModelBalanceCached`, `SnapshotCached` | billing service over HTTP |
| Account creator, `accountcreator/runner.go` | run mutex, last run, progress | `Run`, `Status` | starts and kills the script |
| Account creator script, `automation/assets/account-creator/src/` | `emails.json`, a browser profile | reserve an address, sign up, solve the captcha, verify, link | mail and sign-up sites, a captcha API it starts itself, login flow |
| OAuth login, `auth/oauth.go` | table of flows | `Start`, `Poll`, `Complete` | saves into the vault |
| Account repair, `api/account_repair.go` | repair mutex, progress | migrate, repair, remove accounts | quota, Coding Plan, vault |
| ZCode bridge and sync, `api/zcode_bridge.go`, `api/zcode_environment.go` | one pending command, last status, apply sequence | queue, next, ack, fallback restart, reconcile | vault, files of the ZCode desktop program |
| Captcha bridge, `captcha/bridge.go` | clients with request channels, waiters | `FreshChallenge`, `Poll`, `Submit`, `Requeue` | upstream client on one side, browsers on the other |
| Captcha browser, `captcha/browser.go` | the child process | `Start`, `Stop` | polls the captcha bridge |
| Admin store, `state/admin.go` | port, API switch, thinking settings, API keys, migrations; a JSON file | setters that save | panel, dispatcher |
| Translation, `openai/`, `models/` | none | body conversion, token estimate | dispatcher |
| Coding Plan client, upstream configuration, ZCode files, automation assets, log | small or none | I/O | see `PROJECT.json` |
| Panel: accounts, `hooks/use-accounts.ts`, `components/home.tsx` | list and quotas shown, requests under way, the optimistic active account | refresh, activate, delete, reorder, quota runs | HTTP server |
| Panel: settings, `hooks/use-settings.ts` and three dialogs | settings shown, unsaved edits | change, create and delete keys | admin store |
| Panel: login, `hooks/use-auth.ts`, `components/login-dialog.tsx` | dialog, login shown, polling | start, poll, retry, close | OAuth login |
| Android application | service and views | life cycle | the same Go program |

**How they interact.** Every HTTP request is a goroutine. Components are objects with a
mutex each; a handler calls several of them in turn and holds no lock in between, so
everything it has read may be out of date when it acts on it: accounts are saved, removed
and activated while a request selects one. Waiting is done on channels, with the request's
context as the way out (the queue, a cooldown, the quota caches, the captcha bridge); the
mutex of the account creator is the one place where a request waits without looking at its
context. The vault and the admin store write their file on every change; nothing else
survives a restart. The panel is a single thread of callbacks: a handler runs to its next
`await`, and the answers of its requests come in any order, late, for a dialog that has been
closed, or not at all.

**What is hard, and what correctness means, per component.**

- *Queue*: handing a lease over while the receiver gives up; waiters that leave from the
  middle. Correct: one lease per key, first come first served, nobody waits for ever.
- *Vault*: saves that fail, refused operations that stop half-way, old files, restarts.
  Correct: the active account is a saved one, order and labels agree, acknowledged changes
  are on disk, no secret is lost by a new login.
- *Dispatcher*: a long loop with many ways round, whose view of the accounts goes stale.
  Correct: at most one upstream call per account and model, leases released on every path,
  no account hammered, no spinning, requests of departed clients end.
- *Quota service*: leaders and followers of a flight with contexts of their own. Correct:
  one flight per key, a follower never sees another request's cancellation.
- *Captcha bridge*: late answers, lost polls, full channels. Correct: an answer reaches the
  waiter that asked or nobody, and every waiter returns.
- *ZCode sync*: commands that overtake one another, acknowledgements racing with a restart,
  reconcile loops of earlier activations. Correct: the last activation wins.
- *Login flow*: expiry against callback, repeated callbacks, callbacks for flows that a poll
  has deleted. Correct: the panel reports no account that was not saved, and no account is
  saved behind a failure it has reported.
- *Admin store*: changes in memory whose save fails, and is sometimes not looked at. Correct:
  what was acknowledged as saved is in the file, and keys stay as the user was told.
- *Account creator script*: failures and kills at every step, a file that is written in place,
  a captcha API that outlives the script. Correct: no address is used twice, numbers have no
  gaps, a batch ends, an account that counts as linked
  was in the proxy.
- *Panel*: overlapping, aborted and late answers. Correct: it reads its own writes, never goes
  back to an older list, shows the active account, stops spinning, and always leaves the user
  a way to go on.
- *Account repair*: decisions on copies of accounts.
- *Upstream client*: retries only while nothing has reached the client.

`PROJECT.json` lists every hazard with its line and the properties that cover it, or why
none does yet.

## 2. The modules

```
            ChatDispatch  ---- Queue == INSTANCE RequestQueue
                 |                         |
                 |                    RefinesFifoLock : FifoLock
                 |
                 +---- Vault == INSTANCE AccountSet
                                      ^
                                      | KeepsPromise
                                AccountStore

CaptchaBridge    AccountCreation    PanelAccounts    PanelSettings    PanelLogin
                                                          | EXTENDS        | EXTENDS
                                                     AdminStore       LoginFlow
```

Each of RequestQueue, AccountStore, ChatDispatch, CaptchaBridge, AccountCreation, PanelAccounts,
PanelSettings and PanelLogin has its theorems in a module of its own, named with `Proofs` at the end.

**RequestQueue** (`requestqueue/queue.go`). The Go map `q.gates` is `gates` (the keys with an
entry), `busy` and `wait` (a waiter's channel is named by its caller) and `closed` (the
channels `release` has closed). Every body under `q.mu` is one action: `AcquireFree` and
`AcquireWait` are the two halves of `Acquire` before its select; `SelectGranted` and
`SelectDone` are the branches of the select, either of which Go may take when both are
ready; `RemoveWaiter` is the second critical section of a cancelled `Acquire`; `Release` is
`Lease.Release` with its `sync.Once`, and may be called again. `Cancel` and `Renew` stand
for the contexts of net/http. `Busy` and `Snapshot` only read.

**FifoLock** is what the queue promises: one line per key, join at the end, leave at the
head, give up behind the head. It also has `Vanish`, a head that leaves without passing its
turn on, because the code does that (finding 1).

**AccountStore** (`accounts/store.go`). `mem` is `s.data`, `disk` the file, `reply` the
outcome of the last call. An account is its id, its `RegistrationOrder` and the two secrets
that a later login may lack. `SaveLocked` is the last step of every changing method and may
fail after memory has changed. `ReorderAll` and `ReorderUnknown` are the accepted `Reorder`
and the one refused half-way; `torn` is history and says that a refused one has left marks.
`Crash` drops memory, `NewStore` loads and migrates the file. The file is written under
another name and renamed, so a save is one step. `Without` is the loop of `Remove`, and `Numbered` the one
of `load`.

**AccountSet** is what the rest of the program relies on: a set of saved accounts and an
active one among them. AccountStore implements it (`KeepsPromise`) and the dispatcher is
built on it.

**ChatDispatch** (`api/server.go`, `accountpool/pool.go`, `accountcreator/runner.go`).
`req[r]` holds chat's local variables for the request r and its place in the loop:

```
 select -> pick -> busyCheck -> acquire -> (queued) -> upstream -> judge -> answer
    ^        |        | busy        best effort skips busyCheck       | skip the account
    |        |        v                                               v
    +--------|--- skip list <-----------------------------------------+
    |        v all skipped or too little quota
    +--- exhausted: cooldown over? creator? best effort? -> verdict -> cooldown / give up
```

Each step between two looks at shared state is one action, so panel operations (`Login`,
`RemoveAccount`, `ActivateAccount`) and other requests interleave where they can in Go. The
queue steps are the actions of RequestQueue; the steps on the vault are those of
AccountSet. The quota that a look finds is any of `Balances`, chosen anew at every look,
which covers caches, other clients of the account and failures of the billing service. The
outcome of an upstream call is one of `Outcomes`, the classes that chat's skip functions
distinguish. Ties between equally good accounts are open. One model is requested; requests
for different models use different queue keys and share nothing but accounts and quota,
both of which are nondeterministic here. `AdminRuns` are the runs of the account creator that the
panel asks for (`RunAccountCreator`); they take the lock for which requests wait.

**CaptchaBridge** (`captcha/bridge.go`). `requests` and `recent` are `b.clients` (the channels,
and the clients whose last poll is less than 45 seconds old, latest first), `waiters` is
`b.waiters`, `answered` the calls whose result channel holds an answer. A call of
`FreshChallenge` chooses a client, registers its waiter, sends its request and waits, each a
step of its own, because the mutex is held only for the map; `TimeOut` and `Cancelled` end
in `DeleteWaiter`, and may be taken when an answer is there. A page polls, and then answers in
two steps, `Submit` under the mutex and `Answer` on the channel; or it requeues; or it is
closed. `PollLost` is a poll that takes a request and cannot write it. What an answer says is
left out, and so is a submitted or requeued id that no call has drawn.

**AccountCreation** (`automation/assets/account-creator/src/*.js`). `file` is `emails.json`, with
the value `Torn` when a kill or a failed write has left a part of it, which the script reads as
a new file; `proc` is the process: its place in `main.js` and its local variables. Every page is
one action with the outcomes that the script tells apart: it goes on, reloads, or throws, and a
throw leads to the catch block (`MarkFailed`), the finally block (`CloseBrowser`) and the next
account of the batch. `EnsureAPI`, `TryWorkdir` and `NoWorkdirLeft` are `ensureAPI` with its
memo `apiStartPromise`; the API process (`ApiStep`) dies, comes back without its jobs, and
survives the script, as may the browser (`chrome`). `EndFlow` is the proxy's login flow, which may
end with the account of another session of the profile; `vault` is what the proxy has saved, from which
the user or the account repair removes at any time (`RemoveAccount`), also while the script waits for the
account's quota. `joined` is history: the accounts that were in the vault since the flow began. `Kill` may
come between any two steps.

**PanelAccounts** (`hooks/use-accounts.ts`, `components/home.tsx`). `data` is the hook's state,
`dataRef` the copy handlers read, which lags behind until a render (`Commit`). `gets` are the
list requests with their abort flag and what the proxy answered them, `fetches` the quota
requests with what `quotaControllersRef` says of them, `todo` what the workers of the run have
left. `action` is a click on a card until the refresh after it has ended, `puts` the drags, of which
several may be under way at once. The proxy is `server` (order, active account, a version that counts its
changes), and changes by itself as well: a login makes its account active only if none is. An answer with
the list is put together in two steps, `ListRead` and `ActiveRead`, because `Store.Public` takes its lock
twice and may mix two versions; a deletion takes effect in `ServerActs` and looks up the account that is
active in `ServerTells`, later. A reorder that is refused for an unknown id has renumbered some accounts, so
any order may result (`ServerReorders`). The lists carry no other account data, and the quota shown is
known, loading or neither. `Keep` is JavaScript's `filter`. `PersistOrder` takes the quotas from the account objects it is given, as
the hook does.

**AdminStore** (`state/admin.go`) and **PanelSettings** (`hooks/use-settings.ts`, the settings and
API dialogs, the thinking form of a card, the handlers in `api/server.go`). `mem` is `s.data`,
`disk` the file, and `v` numbers the changes; `saveLocked(FALSE)` is a save that fails after
memory has changed. A request is `sent`, `done` or `failed` by the handler, and most are followed
by a read, `reading`. `PublicSnapshot` copies the settings under the lock and `Encode` reads the
live map of overrides later, because the code returns the map itself. `form` is what the user has
entered and not saved; `FormAfter` is the effects that overwrite it. There is one account and so
one override, and the thinking settings are opaque values. The panel's hook is not the only writer:
`removeAccount` (the panel's deletion of an account, or the repair's) drops the override, and
`finishMigration` saves, without any read of the settings afterwards; and a read may fail (`ReadFails`),
which the hook swallows. `hist` remembers the version of the last change that the hook asked for
(`changed`) and of the last override dropped with its account (`dropped`). Names, hashes and prefixes of
keys are left out, and of the migration flags all but the save.

**LoginFlow** (`auth/oauth.go`) and **PanelLogin** (`hooks/use-auth.ts`,
`components/login-dialog.tsx`). `flows` is the status of every flow object, also of those that are
no longer in `table`, because `Complete` keeps a pointer to one while it works without the lock:
`CompleteFound` looks it up, `Upsert` saves the account, `Complete` writes the status.
`requests` are the panel's calls of startLogin, poll and openExternalURL, none of which is ever
aborted. Closing the dialog and `handleRetry` reset the state but leave the calls alone:
`GivenUp` marks the starts among them, for the properties only.

`MC*` modules give the constants values; names starting with `Mut` are altered forms of the
definition that follows them, used to confirm that a property can fail.

## 3. The runs

| Run | Instance | Distinct states | What it shows |
|---|---|---|---|
| `queue` | 3 requests, 2 keys | 112,748 | one lease per key, gates and waiters agree, refinement of FifoLock, no starvation except behind a lost lease |
| `queue_lost_lease` | same | violation | finding 1 |
| `account_store` | 3 ids, 2 saved at a time, orders up to 3 | 502,361 | the vault's consistency in memory and on disk, secrets, refinement of AccountSet |
| `account_labels` | same | violation | finding 2 |
| `chat` | 2 requests, 2 accounts | 2,627,461 | exclusive upstream calls, nobody waits while keeping what others wait for, no hammering |
| `chat_live` | 2 requests, 1 account, 1 run of the creator from the panel | 235,068 | fair use of the queue, no spinning, requests of departed clients end |
| `captcha` | 2 calls, 2 clients, a page each | 697,716 | no waiter left behind; each call is owed exactly one answer; calls end, and those of departed clients even at a full channel |
| `chat_wait_cancelled` | 2 requests, 2 accounts | violation | finding 3 |
| `account_creation` | 2 addresses, batches of up to 2, 2 reloads, 1 directory | 1,180,534 | addresses used once, numbers without gaps, a linked account was in the proxy, batches end |
| `panel_accounts` | 2 accounts, 3 versions, 2 inputs, 2 list requests, 2 reorders | 1,114,459 | own writes are read, lists do not go back, active account shown, spinners and indicator |
| `panel_settings` | 2 requests at a time, 3 clicks, 1 change by others, 1 restart, 2 keys | 8,279,522 | what is shown is what the proxy has; what was told holds |
| `panel_login` | 2 logins, 2 callbacks, 2 calls at a time, 6 clicks | 1,269,752 | results are true, retry is offered, logins end |

The state counts of `account_store`, `chat` and `panel_settings` are under symmetry (accounts;
requests and accounts; keys). Runs with liveness properties use no symmetry. Each run takes between
forty seconds and three minutes with two workers.

The properties in words:

- `OneLeasePerKey`: a caller that holds a lease or is being handed one is the only one for
  its key. `GateBookkeeping`: gates exist exactly for busy keys, and a gate's waiters are
  exactly the distinct callers blocked on it. `RefinesFifoLock`, `NoStarvation`: see FifoLock.
- `QueueOrder`, `AckedIsOnDisk`, `SecretsKept`, `KeepsPromise`: see the
  comments in AccountStore.
- `OneUpstreamPerAccount`: what the queue is for, seen from the dispatcher, in which
  `Busy` and `Acquire` are separate looks. `NoHammering`: a failing account is skipped, a skipped
  account is not chosen, and it comes back only after every account was tried.
  `NoHoldAndWait`: a lease is with an upstream call, on its way to a request in the queue, or lost
  (finding 1), and the creator's lock is with the one request that runs it or with the panel; so a request
  that waits, for whatever, keeps nothing others wait for, and no circle of waiting requests closes.
- `UsesQueueFairly`: the dispatcher's own fairness implies the fairness that RequestQueue
  assumes of its callers, so `NoStarvation` carries over. `NeverSpins`: a request is again
  and again at rest (upstream, queue, cooldown, creator, answered). `GoneEnds`: the request
  of a client that has left ends.
- `WaitersAreLive`: a waiter in the map belongs to a call in progress, and a request is only
  in circulation after its call has sent it. `AnsweredOnce`: the answer to a call is to come,
  being delivered, or in its channel, exactly one of these while the call waits, whoever
  else was given the request; so `Submit` never blocks on the result channel. `CallsEnd`,
  `CancelledCallsEnd`: see section 4.
- `AddressUsedOnce`: an address that was typed into the sign-up form is never tried again,
  however earlier runs ended, unless `emails.json` itself was torn. `NumbersWithoutGaps`:
  `contas_criadas` counts the finished accounts and numbers them 1, 2, 3. `CompletedWasLinked`:
  a run that links records an account as finished only if that very account, not the one of another
  session, was in the proxy after the run's own login had begun. It may have been removed since (section 6).
- `ReadsOwnWrites`: with nothing under way and no error shown, the list is at least as new as
  the last change the panel was told had worked. `ListNeverOlder`: but for a refused reorder the
  list never goes back. `ShowsActive`: an up-to-date list shows the proxy's active account, unless
  the proxy changed it while the panel was optimistic. `SpinnerHasRequest`: a spinner has a
  request, or is one of the orphans of section 6.
- `ShownIsTrue`: with nothing under way, the panel shows what the proxy has, but for the override of an
  account that was removed since, unless a change was refused, a read failed or an older answer came last
  and no up-to-date answer has come since. `HoldsAsTold`: acknowledged saves are in the file;
  keys whose secret was shown are valid until deleted; keys whose deletion was saved stay
  invalid; over any failed saves and restarts.
- `ResultIsTrue`: what the panel reports of a login agrees with the vault. `RetryOffered`: a login
  that is over leaves a button to start again, except after a late start (section 6).
- `BatchEnds`, `RefreshingEnds`, `LoginEnds`: see section 4.

**Bounds.** Three requests on two keys are the fewest with a holder, a waiter that leaves
from the middle and a waiter behind it, next to an independent key. Three ids with two saved
give an order that names a removed account, gaps in the numbering and a removed active
account with a successor; `MaxOrder` and `MaxSaved` bound the only unbounded data. Two
requests and two accounts give a busy account to skip, a second one to queue for, and
accounts that come and go during a request. The liveness run has one account for which both
requests must queue, and a run of the creator from the panel, for which a request must wait. That run is
left out of `chat`, whose states it would multiply; the theorems cover any number of them. A request channel holds eight in the code and one in the runs, so that
it is full as soon as one call has sent its request; two pages are the fewest that can hold the
same request.
Two addresses and batches of two give the second account of a batch, a batch after a failed or
killed one, and the end of the supply. In the panel's runs the user's clicks, the proxy's own changes
(`MaxVersion`) and the calls under way are bounded: two list requests that overlap, the older one
aborted, two drags that overlap, a quota run and a signal, and a change of the proxy besides a click (one
account is saved at the start); two settings requests at a time and three clicks, so that a later change
overtakes an earlier one or its read, with a restart and a change that the panel did not ask for; two
logins, with callbacks for the same or different
ones, and clicks enough to start, close, reopen, and start and retry again.

Type invariants are one conjunct list per module. Deadlock is checked except in the three runs of the
panel, which stop when their clicks are used up and everything is answered.

## 4. Fairness

- A goroutine that can run is run: weak fairness of a request's own steps. In the queue,
  the select returns when a channel is ready and the mutex is obtained.
- A lease is released: chat calls `Release` directly after the upstream call, on every path,
  and the call ends because `requestOnce` sets `UpstreamTimeout` and the attempts are
  limited. RequestQueue assumes this; `UsesQueueFairly` shows that the dispatcher provides it.
- An upstream call may wait for a captcha. Its timer starts when the request is in the
  client's channel; a call that meets a full channel has only its context, so `CallsEnd`
  excepts it and `CancelledCallsEnd` does not. For ChatDispatch this is the case in which the
  upstream call ends only when the client leaves.
- `CreatorStart` is strongly fair: Go's `sync.Mutex` hands the lock to a goroutine that has
  waited for a millisecond. A run of the creator ends because of `AccountCreatorTimeout`
  (ten minutes by default; the setting must be positive), whether a request or the panel
  has started it (`RunAccountCreatorEnds`).
- Cooldowns end, because their timers fire.
- Clients that connect, disconnect or never come, and the panel, owe nothing: `Start`,
  `Disconnect`, `Renew`, `Login`, `RemoveAccount`, `ActivateAccount`, `Cancel` have no
  fairness, nor have the pages and the broker that solve captchas.
- The account creator's script goes on: each of its waits has a time limit, after which it throws
  (`BatchEnds`). The sites, the captcha API, the flow and whoever kills it owe nothing.
- The panel's requests are answered or fail, its renders happen and the login's interval ticks;
  time passes, so that a pending flow expires (`RefreshingEnds`, `LoginEnds`). The local server has no
  handler behind these requests that waits without limit. The user, the list's interval, the
  browser and its callbacks owe nothing.
- `NeverSpins` and `GoneEnds` except executions in which cooldowns end during every turn of
  the loop: with a cooldown of five minutes a turn is shorter, but the code compares clock
  readings and the model has no clock.

## 5. The proofs

| Module | Theorems and the properties they state |
|---|---|
| RequestQueueProofs | `TypeCorrect` (`TypeOK`), `MutualExclusion` (`OneLeasePerKey`), `NoWaiterForgotten` (`GateBookkeeping`), `FirstComeFirstServed` (`RefinesFifoLock`) |
| AccountStoreProofs | `Typing` (`TypeOK`), `Queue` (`QueueOrder`), `Acknowledged` (`AckedIsOnDisk`), `Secrecy` (`SecretsKept`), `Refinement` (`KeepsPromise`) |
| ChatDispatchProofs | `Typing` (`TypeOK`), `Exclusion` (`OneUpstreamPerAccount`), `Skipping` (`NoHammering`), `NoDeadlock` (`NoHoldAndWait`), `UsesQueue` (`Queue!Spec`) |
| CaptchaBridgeProofs | `Typing` (`TypeOK`), `Waiters` (`WaitersAreLive`), `Answers` (`AnsweredOnce`) |
| AccountCreationProofs | `Typing` (`TypeOK`), `Numbers` (`NumbersWithoutGaps`), `UsedOnce` (`AddressUsedOnce`), `Linked` (`CompletedWasLinked`) |
| PanelAccountsProofs | `Typing` (`TypeOK`), `OwnWrites` (`ReadsOwnWrites`), `Activity` (`ShowsActive`), `Spinners` (`SpinnerHasRequest`), `NeverOlder` (`ListNeverOlder`) |
| PanelLoginProofs | `LoginTypeCorrect` (`TypeOK`), `ResultsAreTrue` (`ResultIsTrue`), `UserCanRetry` (`RetryOffered`) |
| PanelSettingsProofs | `SettingsTypeCorrect` (`TypeOK`), `ToldIsKept` (`HoldsAsTold`), `ShownWhenQuiet` (`ShownIsTrue`) |

Every safety property of a passing run is a theorem: each invariant, each action property, and the
refinements of FifoLock and AccountSet, for every value of the constants. Each follows from an
inductive invariant of its module (`IInv`; PanelSettingsProofs has a second one, `SInv`), with one step
per action and one below it per conjunct the action can disturb. TLC has checked the same invariants on
the instances of section 3.

**Assumptions.** They are those the modules declare. Placeholder values are not members of the sets
they stand beside (`NoKeyIsNoKey`, `NobodyIsNoCaller`, `NoIdIsNoId`, `NoAccountIsNoAccount`,
`NoRequestIsNoRequest`, `NoCallIsNoCall`, `NoneAssumption`, part of `PanelAssumption`), and the panel's runs of the creator are no
requests (`RunsAreNoRequests`). Bounds are natural numbers, and positive where the code's value is. A channel of the captcha bridge has room
(`CapacityIsPositive`) and a page a client (`PagesHaveClients`). The accounts, addresses and keys of an
instance are finitely many (`PanelAssumption`, `CreationAssumption`, `StoreAssumption`). There are a port and
a level; the panel has a slot for the request it starts with (`SlotsAssumption`); and the accounts that
are saved when the panel starts are listed once each (`PanelAssumption`), as `QueueOrder` says of the vault.

**RequestQueue.** `OneLeasePerKey` is not inductive. `release` hands a lease to the head of
`wait[k]`, so one must know that the head is a live waiter of k that owns nothing yet; that is
`GateBookkeeping`, whose part on distinct waiters is needed so that a waiter that is served
or leaves is out of the list altogether. And `GateBookkeeping` needs to know what a caller's
fields are in each place (outside the queue it has no key, inside it has one, a channel is
closed only for a waiter or a lease holder). The lemmas are about `Append`, `Tail` and
`RemoveFirst` of lists without repetitions.

**PanelLogin.** That a reported success is true needs the way of the word "ready" from the vault to
the panel: a callback that has saved, a flow that is ready, an answer on its way (`ReadyIsSaved`).
That a reported failure stays one needs that the flow has left the map, where alone a callback
finds it (`DeniedIsGone`). And a button to retry is there because every start that was not given up
belongs to an open dialog that is pending or shows an error, and a login shown in a closed dialog is one
whose start was given up (`Waiting`): only then can the answer of a start leave a login without either.

**PanelSettings.** A key whose secret was shown must be in memory *and* in the file, or a restart loses
it; it gets there with the answer of its creation, so the same must hold of every creation that has been
acknowledged and not yet answered. A key that is gone must be out of both and among the keys that were ever
drawn, so that no creation brings it back. And the file is the memory of the last successful save
(`Held`).

That the panel shows the truth when nothing is under way (`SInv`) is an invariant of its own, over `IInv`.
A copy of the settings, under way or shown, that is at least as new as the last change the hook asked for
agrees with the memory but for an override dropped after it was made, also when `Encode` has replaced the
override by a later one (`Copies`). And without a doubt, what is shown is that new, or some request still
owes an answer that will be, or an error (`Owes`, `Shown`). A doubt arises with a refused change, a failed
read or an older answer, and goes with the next answer that is new enough.

**FifoLock.** The line of a key is its owner, or `Nobody` when the lease is lost, followed by `wait[k]`.
The steps are shown one by one: both halves of `Acquire` join; `Release` leaves, and the first waiter, whose
channel it closes, is the new head; `RemoveWaiter` gives up behind the head if the waiter is still in the
list, and vanishes at the head if `release` has served it. The others show nothing (`SameLines`).

**AccountStore.** `QueueOrder` speaks of memory, but a restart makes memory of the file. So the file, too,
is either in order (`Sound`) or written by a version without numbers (`Older`), never a mixture, which is
what lets `load` decide by looking at the orders. Every method is summarised once by what it makes of the
list (the lemmas `...Yields`); the four results are read off those summaries, the refinement of AccountSet
with them: a step that changes the set or the active account in memory is the step of the same name there,
and a crash, like the load after it, is a `Reload`.

**ChatDispatch.** Two requests with one account are excluded because each owns the lease of the account
it talks with: `Fits` ties chat's place and chosen account to the caller's place and key in the queue. The
queue's invariant is proved again over `Queue!` (`Exclusive`), because the theorems of a module that is
instantiated cannot be cited. `NoHoldAndWait` follows from `Fits` as well, read the other way: whoever
owns a lease talks with the upstream or has just been called out of the queue. That the creator's lock has
one owner, who is at the creator, is a part of the invariant (`Creating`). `UsesQueue` is the safety half of `UsesQueueFairly`: with it the theorems
of RequestQueueProofs hold for the requests of chat, though Queue's fairness is only model-checked.

**CaptchaBridge.** `AnsweredOnce` depends on where the requests are: a call may register a waiter only
because its request is in no channel and at no page (`Unsent`), and an answer is carried by one page only
because a page takes the waiter out of the map first (`Once`).

**AccountCreation.** The numbers have no gaps only because the account in work has the number after the
last finished one, and it has it only because nothing else writes the file while it is made (`Reservation`).
An address is not typed twice because one that was typed is in the file (`Memory`), unless a write was torn.
What the script has seen in the vault has joined it since its flow began, removed or not (`Links`).

**PanelAccounts.** The longest argument. The list request that counts is newer than the state and than
what the panel was told (`Fresh`), there is one (`OneLive`), and a copy with the proxy's version agrees with
the proxy, an answer that is half put together as far as it goes (`Snapshots`). Every drag holds on to a list
that was right when it was made (`Drags`), for the rollback. An up-to-date list can have another order only while a drag is unsaved
(`Ordered`); where no render is due, what handlers read is what is shown (`Rendered`); the optimistic account
is right, or about to be, until the proxy changes on its own (`Optimism`). A spinner needs that a run with
targets left has a worker, and an account one controller (`Controllers`).

**Lists of every length.** The loops over lists (`Numbered`, `Without`, `Keep`, `RemoveFirst`) are recursive
functions or a choice of the first place. The library's induction theorems cannot be used, but facts about
these loops are proved for every length with the least counterexample: a set of natural numbers that is not
empty has a least member (`LeastNatural`, from the well-foundedness of `<`), so a property that passes from
each index to the next holds up to n (`InductionUpTo`), and a recursion up to n has a solution (`RecursionUpTo`).
A theorem of one module cannot be cited through INSTANCE, so the modules that need these lemmas repeat them.

**Only model-checked.** Liveness under fairness, and ENABLED, are out of the prover's reach: `NoStarvation`,
`UsesQueueFairly` (its fairness half), `NeverSpins`, `GoneEnds`, `CallsEnd`, `CancelledCallsEnd`, `BatchEnds`,
`RefreshingEnds`, `LoginEnds`. The three runs that expect a violation refute what they check and leave
nothing to prove.

**What the attempts changed.** In PanelAccounts a reorder kept the quotas of accounts that were no longer in
the order, which shows only with three accounts, one of them deleted before the next render: the account
objects carry their quotas, so these go with them (`PersistOrder`). TypeOK of CaptchaBridge did not
bound the client of a call. The loops of AccountStore and PanelAccounts are written as the code's
loops (`Without`, `Keep`) instead of with library operators that the provers cannot look into.

## 6. Findings

1. **A lease is lost when its receiver is cancelled** (`requestqueue/queue.go:71`, run
   `queue_lost_lease`). `release` closes the channel of a waiter whose context is done before
   the waiter has run again. Its select may take the `ctx.Done` branch; `removeWaiter` finds
   nothing to remove, and no lease exists that could be released. The key stays busy, as
   `GET /api/admin/queue` shows, until the program restarts; requests skip the account as
   busy or, in best-effort mode, wait at it until their client leaves.
2. **A refused reorder renumbers accounts** (`accounts/store.go:240`, run `account_labels`).
   The numbers assigned before the unknown account is met stay, so two accounts may share
   `Conta 1`, and the next save of anything makes it permanent.
3. **A live request is told that it was cancelled** (`api/server.go:749`, run
   `chat_wait_cancelled`). When an account is saved during a cooldown wait, the wait ends
   with "request cancelled while waiting for account retry cooldown" instead of a new
   selection.

These have no run of their own. The properties except them, by a history variable or a condition, and
say so; each is reached in the run named.

- *Orphaned quota spinners* (`hooks/use-accounts.ts:163`, `panel_accounts`): a new quota run aborts
  the requests of the last one but does not repeat those whose account is still marked as loading, so
  the mark stays until something asks for that account by force.
- *A late start strands the dialog* (`components/login-dialog.tsx:65`, `panel_login`): the answer of a
  startLogin whose dialog was closed or reset is shown as its login; with nothing pending it is not
  polled, and there is no error, so neither button is there until the dialog is closed.
- *Answers of earlier logins* (`components/login-dialog.tsx:41`, `panel_login`): the answer to a poll for
  a login that was given up stops, fails or completes the login that is shown now.
- *An optimistic account that outlives its reason* (`components/home.tsx:278`, `panel_accounts`): it is
  cleared only by a list that agrees with it; when the proxy activates another account first, the panel
  shows the wrong one.
- *Unsaved edits are lost* (`components/settings-dialog.tsx:45`, `panel_settings`): every answer that brings
  new settings resets the form of the settings dialog, and removes the notice that it has saved.
- *Saves that are not looked at* (`state/admin.go:207`, `panel_settings`): a deleted key may come back with
  a restart although the deletion was answered as done; a key whose creation failed to be saved is valid
  while nobody knows its secret.
- *`PublicSnapshot` returns the live map* (`state/admin.go:95`, `panel_settings`): what is sent mixes two
  moments, and a change during the encoding may end the process.
- *A stale override* (`api/server.go:1226`, `panel_settings`): deleting an account removes its thinking
  override, and the panel reads only the accounts again (`components/home.tsx:386`); it shows the override
  until something else has it read the settings. So it does after a repair.
- *A failed read is shown nowhere* (`hooks/use-settings.ts:20`, `panel_settings`): a change that worked counts
  as done when the read after it fails, and the old settings stay on the screen; so they do when an older
  answer comes last.
- *Finished, but gone* (`proxy-link.js:76`, `main.js:59`, `account_creation`): an account that the user or the
  repair removes while the script waits for its quota is recorded as finished; the refused requests are
  only logged.
- *A torn `emails.json`* (`emails-store.js:20`, `account_creation`): it is read as a new file, and addresses
  are used again.
- *"Aplicar no ZCode" activates the account* (`api/zcode_environment.go:19`): `README.md:97` and
  `components/account-card.tsx:355` say that it does not; modelled in `panel_accounts` as the code does it.

## 7. What is not modelled

- Data formats: encryption, JSON, headers, prompts, SSE framing, log texts.
- The reason chat gives when it gives up (no quota, expired logins, last upstream error): it
  does not influence what chat does.
- The choice among equally good accounts (counters, order): left open in ChatDispatch,
  planned as a module of its own.
- `ZCODE_AUTHORIZATION` or rotation switched off: chat then has one configuration and no
  account, and none of the above applies.
- Panics of handlers, which net/http recovers from without releasing a lease.
- The scripts of the captcha pages and the life of the browser process; a page in
  CaptchaBridge may do anything its endpoints allow with the requests it was given.
- Selectors, passwords and texts of the account creator's pages; its card in the panel and the progress
  record only show.
- In the panel: the repair notice, the ZCode status, the logs dialog, the onboarding, themes, and the
  preview during a drag. They show what an answer says and keep no state that another part reads.
- The single-flight caches of the quota service, the attempt loop and the SSE parsing of the upstream
  client, the ZCode bridge with its reconcile loops, and account repair. They have state and are the
  next modules of the plan; their hazards are in `PROJECT.json` without a property.
- Components whose work is I/O: ZCode's files, the unpacking of the scripts, browser processes,
  configuration, and the Android application.

## 8. Plan

In order; 1 to 7 are done, with the proofs of all their safety properties.

1. RequestQueue, FifoLock.
2. AccountStore, AccountSet.
3. ChatDispatch over both.
4. CaptchaBridge.
5. AccountCreation.
6. PanelAccounts; AdminStore with PanelSettings.
7. LoginFlow with PanelLogin.
8. QuotaCache: single flight with readers that give up, cached errors, the request gate.
   Abstract: a cell that is read fresh or at most 15 seconds old. Three readers, one key.
9. StreamRetry: attempts, captcha escalation, emitted or not, and the final event; abstract:
   at most one answer reaches the client. Attempt limit three. It composes with CaptchaBridge
   in its captcha step.
10. ZCodeSync: bridge mailbox, fallback, reconcile loops; two accounts, three activations.
11. AccountRepair as a writer of the vault; AccountPool's ranking as operators against a
    reference definition.

Theorems to come: those of the modules 8 to 11, the cell of QuotaCache and the one answer of
StreamRetry first.
