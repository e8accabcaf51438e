------------------------------ MODULE PanelLogin ------------------------------
(***************************************************************************)
(* The login dialog of the panel, components/login-dialog.tsx with         *)
(* hooks/use-auth.ts, over LoginFlow.  No request is ever aborted: answers *)
(* that were asked for by a dialog that has been closed, or by a login     *)
(* that was given up, still change what the dialog shows.                  *)
(***************************************************************************)
EXTENDS LoginFlow

CONSTANTS
    Requests,       \* bound: calls of the panel that are under way
    MaxClicks       \* bound: clicks of the user

VARIABLES
    open,           \* the dialog is open
    flowId,         \* the login the dialog shows
    pending, error, \* useAuth: a login is under way; an error is shown
    polling,        \* pollingRef
    requests,       \* the calls under way: of startLogin, of a poll, of openExternalURL
    clicks,
    hist            \* history, for the properties

panel == <<open, flowId, pending, error, polling>>
vars == <<flowVars, panel, requests, clicks, hist>>

NoRequest == [op |-> "none", flow |-> NoFlow, reply |-> "none", late |-> FALSE]
Asks(r, op, f) == requests' = [requests EXCEPT ![r] = [NoRequest EXCEPT !.op = op, !.flow = f]]
Free(r) == requests[r] = NoRequest

Init ==
    /\ FlowInit
    /\ open = FALSE /\ flowId = NoFlow /\ pending = FALSE /\ error = FALSE /\ polling = FALSE
    /\ requests = [r \in Requests |-> NoRequest]
    /\ clicks = MaxClicks
    /\ hist = [told |-> {}, denied |-> {}, raced |-> {}, stranded |-> FALSE]

Click == clicks > 0 /\ clicks' = clicks - 1

-----------------------------------------------------------------------------
(* The user *)

OpenDialog ==
    /\ Click /\ ~open /\ open' = TRUE
    /\ UNCHANGED <<flowVars, flowId, pending, error, polling, requests, hist>>

\* Nothing tells the logins that are being started that the dialog has given up on them.
GivenUp(calls) == [r \in Requests |-> [calls[r] EXCEPT !.late = calls[r].op = "start"]]

\* The dialog's own state and resetLogin, when the dialog closes and in handleRetry.
Reset ==
    /\ flowId' = NoFlow /\ error' = FALSE /\ polling' = FALSE /\ pending' = FALSE
    /\ requests' = GivenUp(requests)
    /\ hist' = [hist EXCEPT !.stranded = FALSE]

CloseDialog ==
    /\ Click /\ open /\ open' = FALSE
    /\ Reset
    /\ UNCHANGED flowVars

\* The button is there while no login is shown, and disabled while one is pending.
handleLogin(r) ==
    /\ Click /\ open /\ flowId = NoFlow /\ ~pending
    /\ Free(r) /\ Asks(r, "start", NoFlow)
    /\ pending' = TRUE /\ error' = FALSE
    /\ UNCHANGED <<flowVars, open, flowId, polling, hist>>

\* The button is there with a login and an error, also while the login is still pending.
handleRetry ==
    /\ Click /\ open /\ flowId # NoFlow /\ error
    /\ Reset
    /\ UNCHANGED <<flowVars, open>>

-----------------------------------------------------------------------------
(* startLogin *)

HandleStart(r) ==
    /\ requests[r].op = "start" /\ requests[r].reply = "none"
    /\ \/ \E f \in Flows :
              /\ Start(f)
              /\ requests' = [requests EXCEPT ![r].flow = f, ![r].reply = "flow"]
       \/ /\ requests' = [requests EXCEPT ![r].reply = "error"]
          /\ UNCHANGED flowVars
    /\ UNCHANGED <<panel, clicks, hist>>

\* The login of the answer is shown, and polled if a login is pending by then.  The browser
\* is asked to open meanwhile.
LoginStarted(r) ==
    /\ requests[r].reply = "flow"
    /\ flowId' = requests[r].flow
    /\ requests' = [requests EXCEPT ![r] = [NoRequest EXCEPT !.op = "browser"]]
    /\ hist' = [hist EXCEPT !.stranded = requests[r].late]
    /\ UNCHANGED <<flowVars, open, pending, error, polling, clicks>>

LoginNotStarted(r) ==
    /\ requests[r].op = "start" /\ requests[r].reply = "error"
    /\ error' = TRUE /\ pending' = FALSE
    /\ requests' = [requests EXCEPT ![r] = NoRequest]
    /\ UNCHANGED <<flowVars, open, flowId, polling, clicks, hist>>

\* openExternalURL ends.  When it fails the dialog shows it, and goes on polling.
BrowserOpened(r) ==
    /\ requests[r].op = "browser"
    /\ error' \in {error, TRUE}
    /\ requests' = [requests EXCEPT ![r] = NoRequest]
    /\ UNCHANGED <<flowVars, open, flowId, pending, polling, clicks, hist>>

-----------------------------------------------------------------------------
(* The effect that polls *)

MutPollStarts(r) ==     \* stops when an error is shown
    /\ flowId # NoFlow /\ pending /\ ~error /\ ~polling
    /\ Free(r) /\ Asks(r, "poll", flowId)
    /\ polling' = TRUE
    /\ UNCHANGED <<flowVars, open, flowId, pending, error, clicks, hist>>

\* At once when the login or pending changes, and at every tick of the interval.
PollStarts(r) ==
    /\ flowId # NoFlow /\ pending /\ ~polling
    /\ Free(r) /\ Asks(r, "poll", flowId)
    /\ polling' = TRUE
    /\ UNCHANGED <<flowVars, open, flowId, pending, error, clicks, hist>>

\* The answer may be lost on its way, and with it the result of a flow that is deleted; for
\* the panel that is an error like that of an unknown flow.
HandlePoll(r) ==
    LET f == requests[r].flow
        raced == WorkingOn(f) # {} \/ f \in vault
    IN  /\ requests[r].op = "poll" /\ requests[r].reply = "none"
        /\ Poll(f)
        /\ \E reply \in {PollResult(f), "unknown"} :
              /\ requests' = [requests EXCEPT ![r].reply = reply]
              /\ hist' = [hist EXCEPT
                    !.denied = IF reply = "failed" THEN @ \cup {f} ELSE @,
                    !.raced = IF reply = "failed" /\ raced THEN @ \cup {f} ELSE @]
        /\ UNCHANGED <<panel, clicks>>

MutStillPending(r) ==   \* pollingRef is reset only when the poll fails
    /\ requests[r].op = "poll" /\ requests[r].reply = "pending"
    /\ requests' = [requests EXCEPT ![r] = NoRequest]
    /\ UNCHANGED <<flowVars, panel, clicks, hist>>

\* The answer of whichever login the poll was for is taken for that of the dialog's login.
StillPending(r) ==
    /\ requests[r].op = "poll" /\ requests[r].reply = "pending"
    /\ polling' = FALSE
    /\ requests' = [requests EXCEPT ![r] = NoRequest]
    /\ UNCHANGED <<flowVars, open, flowId, pending, error, clicks, hist>>

MutLoginFailed(r) ==    \* a login that has become unknown is no error
    /\ requests[r].op = "poll" /\ requests[r].reply \in {"failed", "unknown"}
    /\ error' = (error \/ requests[r].reply = "failed")
    /\ pending' = FALSE /\ polling' = FALSE
    /\ requests' = [requests EXCEPT ![r] = NoRequest]
    /\ UNCHANGED <<flowVars, open, flowId, clicks, hist>>

LoginFailed(r) ==
    /\ requests[r].op = "poll" /\ requests[r].reply \in {"failed", "unknown"}
    /\ error' = TRUE /\ pending' = FALSE /\ polling' = FALSE
    /\ requests' = [requests EXCEPT ![r] = NoRequest]
    /\ UNCHANGED <<flowVars, open, flowId, clicks, hist>>

\* resetLogin, onSuccess, which refreshes the accounts, and the dialog closes if it is open.
LoginSucceeded(r) ==
    LET calls == [requests EXCEPT ![r] = NoRequest]
    IN  /\ requests[r].op = "poll" /\ requests[r].reply = "ready"
        /\ open' = FALSE
        /\ pending' = FALSE /\ error' = FALSE /\ polling' = FALSE
        /\ flowId' = IF open THEN NoFlow ELSE flowId
        /\ requests' = IF open THEN GivenUp(calls) ELSE calls
        /\ hist' = [hist EXCEPT !.told = @ \cup {requests[r].flow},
                                !.stranded = @ /\ ~open]
        /\ UNCHANGED <<flowVars, clicks>>

PanelStep(r) ==
    \/ LoginStarted(r) \/ LoginNotStarted(r) \/ BrowserOpened(r)
    \/ PollStarts(r) \/ StillPending(r) \/ LoginFailed(r) \/ LoginSucceeded(r)

User == OpenDialog \/ CloseDialog \/ handleRetry \/ \E r \in Requests : handleLogin(r)

Next ==
    \/ User
    \/ \E r \in Requests : HandleStart(r) \/ HandlePoll(r) \/ PanelStep(r)
    \/ FlowStep /\ UNCHANGED <<panel, requests, clicks, hist>>

Spec == Init /\ [][Next]_vars

\* The proxy answers, the panel handles the answers and its interval ticks, and time passes.
\* The user owes nothing, and neither does the browser.
Fairness ==
    /\ \A r \in Requests : /\ WF_vars(HandleStart(r)) /\ WF_vars(HandlePoll(r))
                           /\ WF_vars(PanelStep(r) /\ ~PollStarts(r))
    /\ WF_vars(\E r \in Requests : PollStarts(r))
    /\ \A f \in Flows : WF_vars(Expire(f) /\ UNCHANGED <<panel, requests, clicks, hist>>)

FairSpec == Spec /\ Fairness

-----------------------------------------------------------------------------
TypeOK ==
    /\ flows \in [Flows -> {"none", "pending"} \cup Ended]
    /\ table \subseteq {f \in Flows : flows[f] # "none"} /\ vault \subseteq Flows
    /\ \A c \in Callbacks : callback[c].flow \in Flows \cup {NoFlow}
    /\ flowId \in {f \in Flows : flows[f] # "none"} \cup {NoFlow}
    /\ \A r \in Requests : requests[r].op = "poll" => requests[r].flow \in Flows
    /\ polling => \E r \in Requests : requests[r].op = "poll"

\* A login that the panel reports as done has its account in the vault.  A login that it was
\* told has failed saves no account any more, unless a callback was at work on it, or had
\* already saved it, when the poll was answered (oauth.go:149, :93).
ResultIsTrue ==
    /\ hist.told \subseteq vault
    /\ hist.denied \cap vault \subseteq hist.raced

\* The dialog never leaves the user with a login that is over and without the button to start
\* another one, although answers of earlier logins and of a closed dialog come in between;
\* except after an answer of startLogin that came when the dialog had been closed or reset
\* (login-dialog.tsx:65, :123, :164).
RetryOffered == open /\ flowId # NoFlow /\ ~pending /\ ~hist.stranded => error

\* A login does not stay pending for ever: it is done, fails, expires, becomes unknown to the
\* proxy, or is given up.
LoginEnds == pending ~> ~pending
=============================================================================
