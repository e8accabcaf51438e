--------------------------- MODULE AccountCreation ---------------------------
(***************************************************************************)
(* The account-creator script (automation/assets/account-creator/src): a   *)
(* process that makes a batch of accounts, one after the other.  For each  *)
(* it reserves a mail address in emails.json, goes through the sign-up     *)
(* pages, and links the new account to the proxy.  Any page may fail, the  *)
(* runner kills the process when its time is over, and the file is written *)
(* in place.  What the sites show is external and left open.               *)
(***************************************************************************)
EXTENDS Naturals, FiniteSets

CONSTANTS
    Emails,         \* the addresses the mail site offers
    MaxAccounts,    \* accounts per batch (argv[2])
    MaxAttempts,    \* getFreshEmail gives up after this many addresses
    Workdirs,       \* candidate directories of the captcha API, 1..Workdirs
    NoEmail         \* the empty string

ASSUME CreationAssumption ==
    /\ IsFiniteSet(Emails) /\ NoEmail \notin Emails
    /\ MaxAccounts \in Nat \ {0} /\ MaxAttempts \in Nat \ {0} /\ Workdirs \in Nat

VARIABLES
    file,       \* emails.json
    proc,       \* the process: where it is, and its local variables
    chrome,     \* a browser runs on the profile directory
    api,        \* the captcha API: is it up, and the state of the current job
    used,       \* history: addresses typed into the sign-up form
    site,       \* addresses with a finished registration
    flow,       \* the proxy's login flow: its status
    vault,      \* addresses of the accounts linked to the proxy
    joined,     \* history: addresses that were in the proxy since the last login flow began
    torn        \* history: a kill has cut a write of emails.json short

vars == <<file, proc, chrome, api, used, site, flow, vault, joined, torn>>
world == <<chrome, api, used, site, flow, vault, joined>>

-----------------------------------------------------------------------------
(* emails-store.js *)

Absent == [status |-> "none", number |-> 0]
NoStore == [emails |-> [e \in Emails |-> Absent], contas_criadas |-> 0]
Torn == [emails |-> <<>>, contas_criadas |-> 0]

\* A file that cannot be parsed reads as a new one.
Read == IF file = Torn THEN NoStore ELSE file

Exists(e) == Read.emails[e] # Absent

Off == [at |-> "off", left |-> 0, link |-> FALSE, email |-> NoEmail, number |-> 0,
        tries |-> 0, started |-> "no", dir |-> 0, ok |-> FALSE]

Init ==
    /\ file = NoStore /\ proc = Off /\ chrome = FALSE /\ torn = FALSE
    /\ api = [up |-> FALSE, job |-> "none"]
    /\ used = {} /\ site = {} /\ flow = "none" /\ vault = {} /\ joined = {}

Goto(place) == proc' = [proc EXCEPT !.at = place]
Throw == Goto("catch")
Exit == proc' = Off

\* One write, in place: it is done and the process goes on; it fails, and the script throws;
\* or the process is killed.  The last two may leave a part of the file.
Write(data, next, thrown) ==
    \/ file' = data /\ proc' = next /\ UNCHANGED torn
    \/ proc' = thrown /\ UNCHANGED <<file, torn>>
    \/ file' = Torn /\ torn' = TRUE /\ proc' \in {thrown, Off}

-----------------------------------------------------------------------------
(* main.js: the batch, and the reservation of an address *)

Start(n, link) ==
    /\ proc = Off
    /\ proc' = [Off EXCEPT !.at = "launch", !.left = n, !.link = link]
    /\ UNCHANGED <<file, torn, world>>

\* Outside the try: a browser that does not start ends the process.
LaunchBrowser ==
    /\ proc.at = "launch"
    /\ \/ ~chrome /\ chrome' = TRUE
          /\ proc' = [proc EXCEPT !.at = "mail", !.email = NoEmail, !.tries = 0]
       \/ Exit /\ UNCHANGED chrome
    /\ UNCHANGED <<file, torn, api, used, site, flow, vault, joined>>

MutGetFreshEmail(e) ==      \* only looks for finished addresses
    /\ proc.at = "mail"
    /\ Read.emails[e].status # "concluido"
    /\ proc' = [proc EXCEPT !.at = "reserve", !.email = e]
    /\ UNCHANGED <<file, torn, world>>

\* getFreshEmail looks at the address the page offers, and reloads when it is known.
GetFreshEmail(e) ==
    /\ proc.at = "mail"
    /\ \/ ~Exists(e) /\ proc' = [proc EXCEPT !.at = "reserve", !.email = e]
       \/ /\ Exists(e) /\ proc.tries + 1 < MaxAttempts
          /\ proc' = [proc EXCEPT !.tries = @ + 1]
       \/ Throw
    /\ UNCHANGED <<file, torn, world>>

\* nextAccountNumber, and addInUse, which does not touch a known address.
Reserve ==
    LET number == Read.contas_criadas + 1
        data == IF Exists(proc.email) THEN file
                ELSE [Read EXCEPT !.emails[proc.email] =
                          [status |-> "em_uso", number |-> number]]
    IN  /\ proc.at = "reserve"
        /\ Write(data, [proc EXCEPT !.at = "inbox", !.number = number],
                 [proc EXCEPT !.at = "catch"])
        /\ UNCHANGED world

OpenInbox ==
    /\ proc.at = "inbox"
    /\ Goto("form") \/ Throw
    /\ UNCHANGED <<file, torn, world>>

-----------------------------------------------------------------------------
(* zai-register.js, captcha-client.js: the form and its captcha *)

FillForm ==
    /\ proc.at = "form"
    /\ \/ used' = used \cup {proc.email} /\ Goto("health")
       \/ UNCHANGED used /\ Throw
    /\ UNCHANGED <<file, torn, chrome, api, site, flow, vault, joined>>

\* ensureAPI: a healthy API is used; otherwise the memo apiStartPromise decides whether the
\* script starts one, and a memo that is fulfilled counts as a running API.
EnsureAPI ==
    /\ proc.at = "health"
    /\ \/ (api.up \/ proc.started = "done") /\ Goto("solve")
       \/ /\ proc.started = "no"
          /\ proc' = [proc EXCEPT !.at = "start", !.started = "pending", !.dir = 1]
    /\ UNCHANGED <<file, torn, world>>

\* startLocalAPI tries one directory after the other; a server that is too slow for the
\* health check stays, and may come up later.
TryWorkdir ==
    /\ proc.at = "start" /\ proc.dir <= Workdirs
    /\ \/ /\ api' = [api EXCEPT !.up = TRUE]
          /\ proc' = [proc EXCEPT !.at = "solve", !.started = "done"]
       \/ /\ \E up \in {api.up, TRUE} : api' = [api EXCEPT !.up = up]
          /\ proc' = [proc EXCEPT !.dir = @ + 1]
    /\ UNCHANGED <<file, torn, chrome, used, site, flow, vault, joined>>

MutNoWorkdirLeft ==     \* keeps the rejected promise
    /\ proc.at = "start" /\ proc.dir > Workdirs
    /\ proc' = [proc EXCEPT !.at = "catch"]
    /\ UNCHANGED <<file, torn, world>>

\* Every directory failed: the memo is reset, so that the next account tries again.
NoWorkdirLeft ==
    /\ proc.at = "start" /\ proc.dir > Workdirs
    /\ proc' = [proc EXCEPT !.at = "catch", !.started = "no"]
    /\ UNCHANGED <<file, torn, world>>

CreateJob ==
    /\ proc.at = "solve"
    /\ \/ api.up /\ api' = [api EXCEPT !.job = "running"] /\ Goto("job")
       \/ UNCHANGED api /\ Throw
    /\ UNCHANGED <<file, torn, chrome, used, site, flow, vault, joined>>

MutWaitJob ==       \* polls for ever
    /\ proc.at = "job"
    /\ api' = [api EXCEPT !.job = "none"]
    /\ \/ api.up /\ api.job = "succeeded" /\ Goto("create")
       \/ (~api.up \/ api.job = "failed") /\ Throw
    /\ UNCHANGED <<file, torn, chrome, used, site, flow, vault, joined>>

\* waitJob polls until the job has succeeded or failed, getJob has failed four times, or the
\* time is over; a job that a restarted API does not know has no status and counts as running.
WaitJob ==
    /\ proc.at = "job"
    /\ api' = [api EXCEPT !.job = "none"]
    /\ \/ api.up /\ api.job = "succeeded" /\ Goto("create")
       \/ Throw
    /\ UNCHANGED <<file, torn, chrome, used, site, flow, vault, joined>>

\* The API works on a job, dies, and comes back without its jobs.
ApiStep ==
    /\ \/ /\ api.up /\ api.job = "running"
          /\ \E end \in {"succeeded", "failed"} : api' = [api EXCEPT !.job = end]
       \/ \E up \in BOOLEAN :
              /\ api.up # up
              /\ api' = [up |-> up, job |-> IF proc.at = "job" THEN "gone" ELSE "none"]
    /\ UNCHANGED <<file, torn, proc, chrome, used, site, flow, vault, joined>>

CreateAccount ==
    /\ proc.at = "create"
    /\ Goto("verify") \/ Throw
    /\ UNCHANGED <<file, torn, world>>

-----------------------------------------------------------------------------
(* zai-verify.js, temp-mail.js: the verification mail *)

\* waitForZaiEmail reloads the inbox until the mail is there or its time is over; then it
\* opens the mail, in which the link may be missing.
PollVerifyEmail ==
    /\ proc.at = "verify"
    /\ Goto("open") \/ Throw
    /\ UNCHANGED <<file, torn, world>>

\* The link is opened in a tab of its own.
OpenVerifyEmail ==
    /\ proc.at = "open"
    /\ Goto("complete") \/ Throw
    /\ UNCHANGED <<file, torn, world>>

\* The script clicks, waits five seconds, and does not look whether it worked.
CompleteRegistration ==
    /\ proc.at = "complete"
    /\ \/ /\ site' \in {site, site \cup {proc.email}}
          /\ Goto(IF proc.link THEN "link" ELSE "done")
       \/ UNCHANGED site /\ Throw
    /\ UNCHANGED <<file, torn, chrome, api, used, flow, vault, joined>>

-----------------------------------------------------------------------------
(* proxy-link.js *)

StartLink ==
    /\ proc.at = "link"
    /\ joined' = vault
    /\ \/ flow' = "pending" /\ Goto("consent")
       \/ UNCHANGED flow /\ Throw
    /\ UNCHANGED <<file, torn, chrome, api, used, site, vault>>

AcceptZCodeConsent ==
    /\ proc.at = "consent"
    /\ \/ flow = "pending" /\ flow' = "consented" /\ Goto("poll")
       \/ UNCHANGED flow /\ Throw
    /\ UNCHANGED <<file, torn, chrome, api, used, site, vault, joined>>

\* The accounts in the proxy change.
Vault(accounts) == vault' = accounts /\ joined' = joined \cup accounts

\* The proxy ends the flow: with the account of whoever the browser profile, which outlives
\* the script, is logged in as; or the flow fails or expires.
EndFlow ==
    /\ \/ /\ flow = "consented" /\ flow' = "ready"
          /\ \E e \in site : Vault(vault \cup {e})
       \/ flow \in {"pending", "consented"} /\ flow' = "failed" /\ UNCHANGED <<vault, joined>>
    /\ UNCHANGED <<file, torn, proc, chrome, api, used, site>>

\* The user deletes an account in the panel, or the account repair removes it as broken, at
\* any time, also while the script waits for its quota.
RemoveAccount(e) ==
    /\ e \in vault /\ Vault(vault \ {e})
    /\ UNCHANGED <<file, torn, proc, chrome, api, used, site, flow>>

MutPollLinkedAccount ==     \* believes the flow
    /\ proc.at = "poll"
    /\ \/ flow = "ready" /\ Goto("plan")
       \/ Throw
    /\ UNCHANGED <<file, torn, world>>

\* A flow that failed, an answer that is not JSON, or the end of the time throws.
PollLinkedAccount ==
    /\ proc.at = "poll"
    /\ \/ flow = "ready" /\ Goto("listed")
       \/ Throw
    /\ UNCHANGED <<file, torn, world>>

WaitForAccountInProxy ==
    /\ proc.at = "listed"
    /\ \/ proc.email \in vault /\ Goto("plan")
       \/ Throw
    /\ UNCHANGED <<file, torn, world>>

\* What goes wrong with the Coding Plan or the quota is only logged, even when the account is
\* not in the proxy any more and the requests for it are refused.
RefreshAndWaitForQuota ==
    /\ proc.at = "plan"
    /\ Goto("done")
    /\ UNCHANGED <<file, torn, world>>

-----------------------------------------------------------------------------
(* The end of an account *)

MutMarkCompleted ==     \* does not count
    /\ proc.at = "done"
    /\ Write([Read EXCEPT !.emails[proc.email].status = "concluido"],
             [proc EXCEPT !.at = "close", !.ok = TRUE], [proc EXCEPT !.at = "catch"])
    /\ UNCHANGED world

MarkCompleted ==
    /\ proc.at = "done"
    /\ Write([Read EXCEPT !.emails[proc.email].status = IF Exists(proc.email) THEN "concluido" ELSE @,
                          !.contas_criadas = @ + 1],
             [proc EXCEPT !.at = "close", !.ok = TRUE], [proc EXCEPT !.at = "catch"])
    /\ UNCHANGED world

\* The catch block.  When markFailed throws itself, the batch ends all the same.
MarkFailed ==
    LET close == [proc EXCEPT !.at = "close", !.ok = FALSE]
        known == proc.email # NoEmail /\ Exists(proc.email)
    IN  /\ proc.at = "catch"
        /\ \/ /\ known /\ Read.emails[proc.email].status # "concluido"
              /\ Write([Read EXCEPT !.emails[proc.email].status = "falhou"], close, close)
           \/ /\ known => Read.emails[proc.email].status = "concluido"
              /\ proc' = close /\ UNCHANGED <<file, torn>>
        /\ UNCHANGED world

\* The finally block, and the head of the batch's loop.
CloseBrowser ==
    /\ proc.at = "close"
    /\ chrome' \in {FALSE, chrome}
    /\ proc' = IF proc.ok /\ proc.left > 1
               THEN [proc EXCEPT !.at = "launch", !.left = @ - 1, !.email = NoEmail,
                                 !.number = 0, !.dir = 0, !.ok = FALSE]
               ELSE Off
    /\ UNCHANGED <<file, torn, api, used, site, flow, vault, joined>>

\* The runner kills the process, but not the browser.
Kill ==
    /\ proc # Off /\ Exit
    /\ chrome' \in {FALSE, chrome}
    /\ UNCHANGED <<file, torn, api, used, site, flow, vault, joined>>

CloseChrome ==
    /\ proc = Off /\ chrome /\ chrome' = FALSE
    /\ UNCHANGED <<file, torn, proc, api, used, site, flow, vault, joined>>

-----------------------------------------------------------------------------
Step ==
    \/ LaunchBrowser \/ (\E e \in Emails : GetFreshEmail(e)) \/ Reserve \/ OpenInbox
    \/ FillForm \/ EnsureAPI \/ TryWorkdir \/ NoWorkdirLeft \/ CreateJob \/ WaitJob
    \/ CreateAccount \/ PollVerifyEmail \/ OpenVerifyEmail \/ CompleteRegistration
    \/ StartLink \/ AcceptZCodeConsent \/ PollLinkedAccount \/ WaitForAccountInProxy
    \/ RefreshAndWaitForQuota \/ MarkCompleted \/ MarkFailed \/ CloseBrowser

Next ==
    \/ Step
    \/ \E n \in 1..MaxAccounts, link \in BOOLEAN : Start(n, link)
    \/ ApiStep \/ EndFlow \/ (\E e \in Emails : RemoveAccount(e)) \/ Kill \/ CloseChrome

Spec == Init /\ [][Next]_vars

\* The script's own steps: its waits all have a time limit.  Nothing else owes anything.
FairSpec == Spec /\ WF_vars(Step)

-----------------------------------------------------------------------------
Statuses == {"none", "em_uso", "concluido", "falhou"}

TypeOK ==
    /\ file = Torn \/ file \in [emails : [Emails -> [status : Statuses, number : Nat]],
                                contas_criadas : 0..Cardinality(Emails)]
    /\ proc.email \in Emails \cup {NoEmail}
    /\ proc.left \in 0..MaxAccounts /\ proc.tries < MaxAttempts
    /\ proc.dir \in 0..(Workdirs + 1) /\ proc.started \in {"no", "pending", "done"}
    /\ proc.started = "pending" => proc.at = "start"
    /\ api.job \in {"none", "running", "succeeded", "failed", "gone"}
    /\ used \subseteq Emails /\ vault \subseteq site

\* An address that was typed into the sign-up form is not tried a second time, however the
\* runs before ended: a failed one, a killed one, one whose account exists all the same.
\* Only the loss of emails.json itself makes the script forget (emails-store.js:20).
AddressUsedOnce ==
    [][proc.at = "form" /\ proc'.at = "health" /\ ~torn => proc.email \notin used]_vars

Completed == {e \in Emails : Read.emails[e].status = "concluido"}

\* contas_criadas counts the finished accounts and numbers them without gaps or repetitions,
\* though failed and killed runs reserve numbers in between, and even after the file is lost.
NumbersWithoutGaps ==
    {Read.emails[e].number : e \in Completed} = 1..Read.contas_criadas
    /\ Cardinality(Completed) = Read.contas_criadas

\* A run that should link its account records it as finished only if that very account, and
\* not the one of another session of the browser profile, was in the proxy after the run's own
\* login flow began (proxy-link.js:117, main.js:55).  It may have been removed since: the
\* answers to the requests that would tell are only logged.
CompletedWasLinked ==
    [][proc.link => \A e \in Completed' \ Completed : e \in joined]_vars

\* Whatever the pages, the captcha API and the proxy do, a batch ends.
BatchEnds == proc # Off ~> proc = Off
=============================================================================
