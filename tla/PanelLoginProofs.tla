---------------------------- MODULE PanelLoginProofs ----------------------------
(***************************************************************************)
(* Theorems about the login dialog over the table of OAuth logins, for any *)
(* number of logins, callbacks, calls under way and clicks.                *)
(***************************************************************************)
EXTENDS PanelLogin, TLAPS

Calls == [op : {"none", "start", "browser", "poll"}, flow : Flows \cup {NoFlow},
          reply : {"none", "flow", "error", "unknown", "pending", "ready", "failed"}, late : BOOLEAN]

Statuses == {"none", "pending"} \cup Ended

\* The parts of the inductive invariant: the types,
Types ==
    /\ flows \in [Flows -> Statuses]
    /\ table \in SUBSET Flows
    /\ vault \in SUBSET Flows
    /\ callback \in [Callbacks -> [flow : Flows \cup {NoFlow}, at : {"none", "exchanging", "saved", "done"}]]
    /\ requests \in [Requests -> Calls]
    /\ flowId \in Flows \cup {NoFlow}
    /\ hist \in [told : SUBSET Flows, denied : SUBSET Flows, raced : SUBSET Flows, stranded : BOOLEAN]

\* what is known of the flows that are in use,
InUse ==
    /\ \A f \in table : flows[f] # "none"
    /\ flowId # NoFlow => flows[flowId] # "none"
    /\ \A r \in Requests :
          /\ requests[r].reply = "flow" =>
                /\ requests[r].op = "start"
                /\ requests[r].flow \in Flows /\ flows[requests[r].flow] # "none"
          /\ requests[r].op = "poll" => requests[r].flow \in Flows
    /\ polling => \E r \in Requests : requests[r].op = "poll"

\* that "ready" means saved, wherever it is written,
ReadyIsSaved ==
    /\ \A f \in Flows : flows[f] = "ready" => f \in vault
    /\ \A c \in Callbacks :
          /\ callback[c].at \in {"exchanging", "saved"} => callback[c].flow \in Flows
          /\ callback[c].at = "saved" => callback[c].flow \in vault
    /\ \A r \in Requests : requests[r].reply = "ready" => requests[r].flow \in vault
    /\ hist.told \subseteq vault

\* that a flow reported as failed is out of the map for good,
DeniedIsGone ==
    \A f \in hist.denied :
        /\ f \notin table /\ flows[f] # "none"
        /\ f \in vault \/ WorkingOn(f) # {} => f \in hist.raced

\* and that only the answer of a login that was given up leaves the dialog without a button.
Waiting ==
    /\ \A r \in Requests : requests[r].op = "start" /\ ~requests[r].late => open /\ (pending \/ error)
    /\ flowId # NoFlow /\ ~open => hist.stranded
    /\ flowId # NoFlow /\ ~pending /\ ~hist.stranded => error

IInv == Types /\ InUse /\ ReadyIsSaved /\ DeniedIsGone /\ Waiting

-----------------------------------------------------------------------------
LEMMA NoFlowIsNone == NoFlow \notin Flows
  BY DEF NoFlow, Flows

LEMMA InitIInv == Init => IInv
<1> SUFFICES ASSUME Init PROVE IInv
  OBVIOUS
<1> USE NoFlowIsNone DEF Init, FlowInit
<1>1. Types
  BY DEF Types, Statuses, Calls, NoRequest
<1>2. InUse /\ Waiting
  BY DEF InUse, Waiting, NoRequest
<1>3. ReadyIsSaved /\ DeniedIsGone
  BY DEF ReadyIsSaved, DeniedIsGone, NoRequest
<1> QED BY <1>1, <1>2, <1>3 DEF IInv

\* The proxy's own steps leave the panel alone.
LEMMA FlowStepIInv ==
    ASSUME IInv, FlowStep, UNCHANGED <<panel, requests, clicks, hist>>
    PROVE  IInv'
<1> USE NoFlowIsNone DEF panel
<1>1. ASSUME NEW f \in Flows, Expire(f) PROVE IInv'
  BY <1>1 DEF Expire, IInv, Types, InUse, ReadyIsSaved, DeniedIsGone, Waiting, WorkingOn
<1>2. ASSUME NEW c \in Callbacks, CompleteUnknown(c) PROVE IInv'
  <2>1. Types'
    BY <1>2 DEF CompleteUnknown, Arrives, IInv, Types, Statuses, Ended
  <2>2. InUse' /\ Waiting'
    BY <1>2 DEF CompleteUnknown, IInv, Types, InUse, Waiting
  <2>3. ReadyIsSaved'
    BY <1>2 DEF CompleteUnknown, IInv, Types, ReadyIsSaved
  <2>4. DeniedIsGone'
    BY <1>2 DEF CompleteUnknown, IInv, Types, DeniedIsGone, WorkingOn
  <2> QED BY <2>1, <2>2, <2>3, <2>4 DEF IInv
<1>3. ASSUME NEW c \in Callbacks, NEW f \in Flows, FailFlow(c, f), f \in table \/ callback[c].flow = f
      PROVE  IInv'
  <2>1. Types'
    BY <1>3 DEF FailFlow, IInv, Types, Statuses, Ended
  <2>2. InUse' /\ Waiting'
    BY <1>3 DEF FailFlow, IInv, Types, InUse, Waiting
  <2>3. ReadyIsSaved'
    BY <1>3 DEF FailFlow, IInv, Types, ReadyIsSaved
  <2>4. DeniedIsGone'
    BY <1>3 DEF FailFlow, IInv, Types, DeniedIsGone, WorkingOn
  <2> QED BY <2>1, <2>2, <2>3, <2>4 DEF IInv
<1>4. ASSUME NEW c \in Callbacks, NEW f \in table, CompleteFound(c, f) PROVE IInv'
  <2>1. Types'
    BY <1>4 DEF CompleteFound, IInv, Types
  <2>2. InUse' /\ Waiting'
    BY <1>4 DEF CompleteFound, IInv, Types, InUse, Waiting
  <2>3. ReadyIsSaved'
    BY <1>4 DEF CompleteFound, Arrives, IInv, Types, ReadyIsSaved
  <2>4. DeniedIsGone'
    BY <1>4 DEF CompleteFound, Arrives, IInv, Types, DeniedIsGone, WorkingOn
  <2> QED BY <2>1, <2>2, <2>3, <2>4 DEF IInv
<1>5. ASSUME NEW c \in Callbacks, Upsert(c) PROVE IInv'
  <2>1. Types'
    BY <1>5 DEF Upsert, IInv, Types, ReadyIsSaved
  <2>2. InUse' /\ Waiting'
    BY <1>5 DEF Upsert, IInv, Types, InUse, Waiting
  <2>3. ReadyIsSaved'
    BY <1>5 DEF Upsert, IInv, Types, ReadyIsSaved
  <2>4. DeniedIsGone'
    BY <1>5 DEF Upsert, IInv, Types, DeniedIsGone, WorkingOn
  <2> QED BY <2>1, <2>2, <2>3, <2>4 DEF IInv
<1>6. ASSUME NEW c \in Callbacks, Complete(c) PROVE IInv'
  <2>1. Types'
    BY <1>6 DEF Complete, IInv, Types, Statuses, Ended
  <2>2. InUse' /\ Waiting'
    BY <1>6 DEF Complete, IInv, Types, InUse, Waiting
  <2>3. ReadyIsSaved'
    BY <1>6 DEF Complete, IInv, Types, ReadyIsSaved
  <2>4. DeniedIsGone'
    BY <1>6 DEF Complete, IInv, Types, DeniedIsGone, WorkingOn
  <2> QED BY <2>1, <2>2, <2>3, <2>4 DEF IInv
<1>7. ASSUME NEW c \in Callbacks, CompleteFails(c) PROVE IInv'
  BY <1>3, <1>7 DEF CompleteFails, IInv, ReadyIsSaved
<1>8. ASSUME NEW c \in Callbacks, NEW f \in table, CompleteRefused(c, f) PROVE IInv'
  BY <1>3, <1>8 DEF CompleteRefused, IInv, Types
<1> QED BY <1>1, <1>2, <1>4, <1>5, <1>6, <1>7, <1>8 DEF FlowStep

-----------------------------------------------------------------------------
\* Giving up on the calls under way changes nothing but their mark.
LEMMA GivenUpOnlyMarks ==
    ASSUME NEW calls \in [Requests -> Calls]
    PROVE  /\ GivenUp(calls) \in [Requests -> Calls]
           /\ \A r \in Requests :
                 /\ GivenUp(calls)[r].op = calls[r].op
                 /\ GivenUp(calls)[r].flow = calls[r].flow
                 /\ GivenUp(calls)[r].reply = calls[r].reply
                 /\ GivenUp(calls)[r].op = "start" => GivenUp(calls)[r].late
<1>1. ASSUME NEW r \in Requests
      PROVE  GivenUp(calls)[r] = [calls[r] EXCEPT !.late = calls[r].op = "start"]
  BY DEF GivenUp
<1>2. ASSUME NEW r \in Requests
      PROVE  [calls[r] EXCEPT !.late = calls[r].op = "start"] =
                [op |-> calls[r].op, flow |-> calls[r].flow, reply |-> calls[r].reply,
                 late |-> calls[r].op = "start"]
  BY DEF Calls
<1>3. ASSUME NEW r \in Requests PROVE GivenUp(calls)[r] \in Calls
  <2>1. (calls[r].op = "start") \in BOOLEAN
    OBVIOUS
  <2> QED BY <1>1, <1>2, <2>1 DEF Calls
<1>4. GivenUp(calls) = [r \in Requests |-> GivenUp(calls)[r]]
  BY DEF GivenUp
<1>5. GivenUp(calls) \in [Requests -> Calls]
  BY <1>3, <1>4
<1> QED BY <1>1, <1>2, <1>5

\* The clicks of the user.
LEMMA UserIInv == ASSUME IInv, User PROVE IInv'
<1> USE NoFlowIsNone
<1>1. ASSUME OpenDialog PROVE IInv'
  <2>1. Types'
    BY <1>1 DEF OpenDialog, Click, flowVars, IInv, Types, Statuses
  <2>2. InUse'
    BY <1>1 DEF OpenDialog, Click, flowVars, IInv, Types, InUse
  <2>3. ReadyIsSaved'
    BY <1>1 DEF OpenDialog, Click, flowVars, IInv, Types, ReadyIsSaved
  <2>4. DeniedIsGone'
    BY <1>1 DEF OpenDialog, Click, flowVars, IInv, Types, DeniedIsGone, WorkingOn
  <2>5. Waiting'
    BY <1>1 DEF OpenDialog, Click, flowVars, IInv, Types, Waiting
  <2> QED BY <2>1, <2>2, <2>3, <2>4, <2>5 DEF IInv
<1>2. ASSUME Reset, UNCHANGED flowVars PROVE IInv'
  <2>1. requests' = GivenUp(requests) /\ requests \in [Requests -> Calls]
    BY <1>2 DEF Reset, IInv, Types
  <2>2. /\ requests' \in [Requests -> Calls]
        /\ \A r \in Requests :
              /\ requests'[r].op = requests[r].op
              /\ requests'[r].flow = requests[r].flow
              /\ requests'[r].reply = requests[r].reply
              /\ requests'[r].op = "start" => requests'[r].late
    BY <2>1, GivenUpOnlyMarks
  <2>3. Types'
    BY <1>2, <2>2 DEF Reset, flowVars, IInv, Types, Statuses
  <2>4. InUse'
    BY <1>2, <2>2 DEF Reset, flowVars, IInv, Types, InUse
  <2>5. ReadyIsSaved'
    BY <1>2, <2>2 DEF Reset, flowVars, IInv, Types, ReadyIsSaved
  <2>6. DeniedIsGone'
    BY <1>2, <2>2 DEF Reset, flowVars, IInv, Types, DeniedIsGone, WorkingOn
  <2>7. Waiting'
    BY <1>2, <2>2 DEF Reset, flowVars, IInv, Types, Waiting
  <2> QED BY <2>3, <2>4, <2>5, <2>6, <2>7 DEF IInv
<1>3. ASSUME NEW r \in Requests, handleLogin(r) PROVE IInv'
  <2>1. Types'
    BY <1>3 DEF handleLogin, Click, Free, Asks, NoRequest, Calls, flowVars, IInv, Types, Statuses
  <2>2. InUse'
    BY <1>3 DEF handleLogin, Click, Free, Asks, NoRequest, Calls, flowVars, IInv, Types, InUse
  <2>3. ReadyIsSaved'
    BY <1>3 DEF handleLogin, Click, Free, Asks, NoRequest, Calls, flowVars, IInv, Types, ReadyIsSaved
  <2>4. DeniedIsGone'
    BY <1>3 DEF handleLogin, Click, Free, Asks, NoRequest, Calls, flowVars, IInv, Types, DeniedIsGone, WorkingOn
  <2>5. Waiting'
    BY <1>3 DEF handleLogin, Click, Free, Asks, NoRequest, Calls, flowVars, IInv, Types, Waiting
  <2> QED BY <2>1, <2>2, <2>3, <2>4, <2>5 DEF IInv
<1>4. CASE CloseDialog
  BY <1>2, <1>4 DEF CloseDialog
<1>5. CASE handleRetry
  <2>1. Reset /\ UNCHANGED <<flowVars, open>>
    BY <1>5 DEF handleRetry
  <2> QED BY <1>2, <2>1
<1> QED BY <1>1, <1>3, <1>4, <1>5 DEF User

\* The proxy's answers.
LEMMA HandlerIInv == ASSUME IInv, NEW r \in Requests, HandleStart(r) \/ HandlePoll(r) PROVE IInv'
<1> USE NoFlowIsNone DEF panel
<1>1. ASSUME NEW f \in Flows, Start(f), requests[r].op = "start",
             requests' = [requests EXCEPT ![r].flow = f, ![r].reply = "flow"],
             UNCHANGED <<panel, clicks, hist>>
      PROVE  IInv'
  <2>1. /\ requests' \in [Requests -> Calls]
        /\ requests'[r].op = "start" /\ requests'[r].flow = f /\ requests'[r].reply = "flow"
        /\ requests'[r].late = requests[r].late
        /\ \A q \in Requests : q # r => requests'[q] = requests[q]
    BY <1>1 DEF IInv, Types, Calls
  <2>2. Types'
    BY <1>1, <2>1 DEF Start, Fresh, IInv, Types, Statuses
  <2>3. InUse'
    BY <1>1, <2>1 DEF Start, Fresh, IInv, Types, InUse
  <2>4. ReadyIsSaved'
    BY <1>1, <2>1 DEF Start, Fresh, IInv, Types, ReadyIsSaved
  <2>5. DeniedIsGone'
    BY <1>1, <2>1 DEF Start, Fresh, IInv, Types, DeniedIsGone, WorkingOn
  <2>6. Waiting'
    BY <1>1, <2>1 DEF Start, Fresh, IInv, Types, Waiting
  <2> QED BY <2>2, <2>3, <2>4, <2>5, <2>6 DEF IInv
<1>2. ASSUME requests[r].op = "start", requests' = [requests EXCEPT ![r].reply = "error"],
             UNCHANGED <<flowVars, panel, clicks, hist>>
      PROVE  IInv'
  <2>1. /\ requests' \in [Requests -> Calls]
        /\ requests'[r].op = "start" /\ requests'[r].reply = "error"
        /\ requests'[r].late = requests[r].late
        /\ \A q \in Requests : q # r => requests'[q] = requests[q]
    BY <1>2 DEF IInv, Types, Calls
  <2>2. Types'
    BY <1>2, <2>1 DEF flowVars, IInv, Types, Statuses
  <2>3. InUse'
    BY <1>2, <2>1 DEF flowVars, IInv, Types, InUse
  <2>4. ReadyIsSaved'
    BY <1>2, <2>1 DEF flowVars, IInv, Types, ReadyIsSaved
  <2>5. DeniedIsGone'
    BY <1>2, <2>1 DEF flowVars, IInv, Types, DeniedIsGone, WorkingOn
  <2>6. Waiting'
    BY <1>2, <2>1 DEF flowVars, IInv, Types, Waiting
  <2> QED BY <2>2, <2>3, <2>4, <2>5, <2>6 DEF IInv
<1>3. ASSUME HandlePoll(r) PROVE IInv'
  <2> DEFINE f == requests[r].flow
  <2>1. f \in Flows /\ PollResult(f) \in Statuses \cup {"unknown"}
    BY <1>3 DEF HandlePoll, IInv, Types, InUse, PollResult, Statuses, Ended
  <2> DEFINE raced == WorkingOn(f) # {} \/ f \in vault
  <2>2. PICK reply \in {PollResult(f), "unknown"} :
           /\ requests' = [requests EXCEPT ![r].reply = reply]
           /\ hist' = [hist EXCEPT
                 !.denied = IF reply = "failed" THEN @ \cup {f} ELSE @,
                 !.raced = IF reply = "failed" /\ raced THEN @ \cup {f} ELSE @]
    BY <1>3 DEF HandlePoll
  <2>3. reply # "none"
    BY <1>3, <2>1, <2>2 DEF IInv, Types, InUse, PollResult
  <2>4. /\ requests' \in [Requests -> Calls]
        /\ requests'[r].op = "poll" /\ requests'[r].flow = f /\ requests'[r].reply = reply
        /\ \A q \in Requests : q # r => requests'[q] = requests[q]
    BY <1>3, <2>1, <2>2, <2>3 DEF HandlePoll, IInv, Types, Calls, Statuses, Ended
  <2>5. Types'
    <3>1. flows' \in [Flows -> Statuses] /\ table' \in SUBSET Flows
      BY <1>3, <2>1 DEF HandlePoll, Poll, PollResult, Statuses, Ended, IInv, Types
    <3>2. hist' \in [told : SUBSET Flows, denied : SUBSET Flows, raced : SUBSET Flows, stranded : BOOLEAN]
      <4> HIDE DEF raced
      <4>1. CASE reply = "failed" /\ raced
        BY <2>1, <2>2, <4>1 DEF IInv, Types
      <4>2. CASE reply = "failed" /\ ~raced
        BY <2>1, <2>2, <4>2 DEF IInv, Types
      <4>3. CASE reply # "failed"
        BY <2>1, <2>2, <4>3 DEF IInv, Types
      <4> QED BY <4>1, <4>2, <4>3
    <3> QED BY <1>3, <2>4, <3>1, <3>2 DEF HandlePoll, Poll, IInv, Types
  <2>6. InUse'
    BY <1>3, <2>1, <2>2, <2>3, <2>4 DEF HandlePoll, Poll, PollResult, Statuses, Ended, IInv, Types, InUse
  <2>7. ReadyIsSaved'
    BY <1>3, <2>1, <2>2, <2>3, <2>4 DEF HandlePoll, Poll, PollResult, Statuses, Ended, IInv, Types, ReadyIsSaved
  <2>8. DeniedIsGone'
    BY <1>3, <2>1, <2>2, <2>3, <2>4 DEF HandlePoll, Poll, PollResult, Statuses, Ended, IInv, Types, DeniedIsGone, WorkingOn
  <2>9. Waiting'
    BY <1>3, <2>1, <2>2, <2>3, <2>4 DEF HandlePoll, Poll, PollResult, Statuses, Ended, IInv, Types, Waiting
  <2> QED BY <2>5, <2>6, <2>7, <2>8, <2>9 DEF IInv
<1> QED BY <1>1, <1>2, <1>3 DEF HandleStart

\* The steps of the panel.
LEMMA PanelStepIInv == ASSUME IInv, NEW r \in Requests, PanelStep(r) PROVE IInv'
<1> USE NoFlowIsNone DEF NoRequest
<1>1. ASSUME LoginStarted(r) PROVE IInv'
  <2>1. Types'
    BY <1>1 DEF LoginStarted, flowVars, IInv, Types, Statuses, Calls
  <2>2. InUse'
    BY <1>1 DEF LoginStarted, flowVars, IInv, Types, InUse, Calls
  <2>3. ReadyIsSaved'
    BY <1>1 DEF LoginStarted, flowVars, IInv, Types, ReadyIsSaved, Calls
  <2>4. DeniedIsGone'
    BY <1>1 DEF LoginStarted, flowVars, IInv, Types, DeniedIsGone, WorkingOn
  <2>5. Waiting'
    <3>1. /\ requests' \in [Requests -> Calls] /\ requests'[r].op = "browser"
          /\ \A q \in Requests : q # r => requests'[q] = requests[q]
      BY <1>1, <2>1 DEF LoginStarted, IInv, Types
    <3>2. \A q \in Requests : requests'[q].op = "start" /\ ~requests'[q].late => open /\ (pending \/ error)
      BY <3>1 DEF IInv, Waiting
    <3>3. requests[r].op = "start" /\ hist'.stranded = requests[r].late
      BY <1>1 DEF LoginStarted, IInv, Types, InUse
    <3>4. ~hist'.stranded => open /\ (pending \/ error)
      BY <3>3 DEF IInv, Waiting
    <3> QED BY <1>1, <3>2, <3>4 DEF LoginStarted, Waiting
  <2> QED BY <2>1, <2>2, <2>3, <2>4, <2>5 DEF IInv
<1>2. ASSUME LoginNotStarted(r) PROVE IInv'
  <2>1. Types'
    BY <1>2 DEF LoginNotStarted, flowVars, IInv, Types, Statuses, Calls
  <2>2. InUse'
    BY <1>2 DEF LoginNotStarted, flowVars, IInv, Types, InUse, Calls
  <2>3. ReadyIsSaved'
    BY <1>2 DEF LoginNotStarted, flowVars, IInv, Types, ReadyIsSaved, Calls
  <2>4. DeniedIsGone'
    BY <1>2 DEF LoginNotStarted, flowVars, IInv, Types, DeniedIsGone, WorkingOn
  <2>5. Waiting'
    BY <1>2 DEF LoginNotStarted, flowVars, IInv, Types, Waiting, Calls
  <2> QED BY <2>1, <2>2, <2>3, <2>4, <2>5 DEF IInv
<1>3. ASSUME BrowserOpened(r) PROVE IInv'
  <2>1. Types'
    BY <1>3 DEF BrowserOpened, flowVars, IInv, Types, Statuses, Calls
  <2>2. InUse'
    BY <1>3 DEF BrowserOpened, flowVars, IInv, Types, InUse, Calls
  <2>3. ReadyIsSaved'
    BY <1>3 DEF BrowserOpened, flowVars, IInv, Types, ReadyIsSaved, Calls
  <2>4. DeniedIsGone'
    BY <1>3 DEF BrowserOpened, flowVars, IInv, Types, DeniedIsGone, WorkingOn
  <2>5. Waiting'
    <3>1. /\ requests'[r].op = "none"
          /\ \A q \in Requests : q # r => requests'[q] = requests[q]
      BY <1>3 DEF BrowserOpened, IInv, Types
    <3>2. error => error'
      BY <1>3 DEF BrowserOpened
    <3>3. \A q \in Requests : requests'[q].op = "start" /\ ~requests'[q].late => open /\ (pending \/ error')
      BY <3>1, <3>2 DEF IInv, Waiting
    <3> QED BY <1>3, <3>2, <3>3 DEF BrowserOpened, IInv, Waiting
  <2> QED BY <2>1, <2>2, <2>3, <2>4, <2>5 DEF IInv
<1>4. ASSUME PollStarts(r) PROVE IInv'
  <2>1. Types'
    BY <1>4 DEF PollStarts, Free, Asks, flowVars, IInv, Types, Statuses, Calls
  <2>2. InUse'
    BY <1>4 DEF PollStarts, Free, Asks, flowVars, IInv, Types, InUse, Calls
  <2>3. ReadyIsSaved'
    BY <1>4 DEF PollStarts, Free, Asks, flowVars, IInv, Types, ReadyIsSaved, Calls
  <2>4. DeniedIsGone'
    BY <1>4 DEF PollStarts, Free, Asks, flowVars, IInv, Types, DeniedIsGone, WorkingOn
  <2>5. Waiting'
    BY <1>4 DEF PollStarts, Free, Asks, flowVars, IInv, Types, Waiting, Calls
  <2> QED BY <2>1, <2>2, <2>3, <2>4, <2>5 DEF IInv
<1>5. ASSUME StillPending(r) PROVE IInv'
  <2>1. Types'
    BY <1>5 DEF StillPending, flowVars, IInv, Types, Statuses, Calls
  <2>2. InUse'
    BY <1>5 DEF StillPending, flowVars, IInv, Types, InUse, Calls
  <2>3. ReadyIsSaved'
    BY <1>5 DEF StillPending, flowVars, IInv, Types, ReadyIsSaved, Calls
  <2>4. DeniedIsGone'
    BY <1>5 DEF StillPending, flowVars, IInv, Types, DeniedIsGone, WorkingOn
  <2>5. Waiting'
    BY <1>5 DEF StillPending, flowVars, IInv, Types, Waiting, Calls
  <2> QED BY <2>1, <2>2, <2>3, <2>4, <2>5 DEF IInv
<1>6. ASSUME LoginFailed(r) PROVE IInv'
  <2>1. Types'
    BY <1>6 DEF LoginFailed, flowVars, IInv, Types, Statuses, Calls
  <2>2. InUse'
    BY <1>6 DEF LoginFailed, flowVars, IInv, Types, InUse, Calls
  <2>3. ReadyIsSaved'
    BY <1>6 DEF LoginFailed, flowVars, IInv, Types, ReadyIsSaved, Calls
  <2>4. DeniedIsGone'
    BY <1>6 DEF LoginFailed, flowVars, IInv, Types, DeniedIsGone, WorkingOn
  <2>5. Waiting'
    BY <1>6 DEF LoginFailed, flowVars, IInv, Types, Waiting, Calls
  <2> QED BY <2>1, <2>2, <2>3, <2>4, <2>5 DEF IInv
<1>7. ASSUME LoginSucceeded(r) PROVE IInv'
  <2>1. Types'
    <3> DEFINE calls == [requests EXCEPT ![r] = NoRequest]
    <3>1. calls \in [Requests -> Calls] /\ requests[r].flow \in Flows
      BY <1>7 DEF LoginSucceeded, IInv, Types, InUse, Calls
    <3>2. requests' \in [Requests -> Calls]
      <4>1. requests' = IF open THEN GivenUp(calls) ELSE calls
        BY <1>7 DEF LoginSucceeded
      <4> HIDE DEF calls
      <4> QED BY <3>1, <4>1, GivenUpOnlyMarks
    <3>3. hist' \in [told : SUBSET Flows, denied : SUBSET Flows, raced : SUBSET Flows, stranded : BOOLEAN]
      <4> DEFINE s == hist.stranded /\ ~open
      <4>1. s \in BOOLEAN /\ hist' = [hist EXCEPT !.told = @ \cup {requests[r].flow}, !.stranded = s]
        BY <1>7 DEF LoginSucceeded
      <4> HIDE DEF s
      <4> QED BY <3>1, <4>1 DEF IInv, Types
    <3>4. flowId' \in Flows \cup {NoFlow}
      BY <1>7 DEF LoginSucceeded, IInv, Types
    <3> QED BY <1>7, <3>2, <3>3, <3>4 DEF LoginSucceeded, flowVars, IInv, Types
  <2>2. InUse'
    BY <1>7 DEF LoginSucceeded, GivenUp, flowVars, IInv, Types, InUse, Calls
  <2>3. ReadyIsSaved'
    BY <1>7 DEF LoginSucceeded, GivenUp, flowVars, IInv, Types, ReadyIsSaved, Calls
  <2>4. DeniedIsGone'
    BY <1>7 DEF LoginSucceeded, GivenUp, flowVars, IInv, Types, DeniedIsGone, WorkingOn
  <2>5. Waiting'
    BY <1>7 DEF LoginSucceeded, GivenUp, flowVars, IInv, Types, Waiting, Calls
  <2> QED BY <2>1, <2>2, <2>3, <2>4, <2>5 DEF IInv
<1> QED BY <1>1, <1>2, <1>3, <1>4, <1>5, <1>6, <1>7 DEF PanelStep

LEMMA NextIInv == IInv /\ [Next]_vars => IInv'
<1> SUFFICES ASSUME IInv, [Next]_vars PROVE IInv'
  OBVIOUS
<1>1. CASE User
  BY <1>1, UserIInv
<1>2. CASE \E r \in Requests : HandleStart(r) \/ HandlePoll(r) \/ PanelStep(r)
  BY <1>2, HandlerIInv, PanelStepIInv
<1>3. CASE FlowStep /\ UNCHANGED <<panel, requests, clicks, hist>>
  BY <1>3, FlowStepIInv
<1>4. CASE UNCHANGED vars
  BY <1>4 DEF vars, flowVars, panel, IInv, Types, InUse, ReadyIsSaved, DeniedIsGone, WorkingOn, Waiting
<1> QED BY <1>1, <1>2, <1>3, <1>4 DEF Next

-----------------------------------------------------------------------------
\* What the bookkeeping of the dialog and of the table of logins maintains in every step.
THEOREM LoginInvariant == Spec => []IInv
BY InitIInv, NextIInv, PTL DEF Spec

\* The variables keep their types, the dialog shows a login that was started, and pollingRef
\* is set only while a poll is under way (login-dialog.tsx:38, :52).
THEOREM LoginTypeCorrect == Spec => []TypeOK
<1>1. IInv => TypeOK
  BY DEF IInv, Types, InUse, TypeOK, Statuses
<1> QED BY <1>1, LoginInvariant, PTL

\* The panel reports no login whose account was not saved, and no account is saved behind a
\* failure it reported, unless a callback was at work by then (oauth.go:80-154).
THEOREM ResultsAreTrue == Spec => []ResultIsTrue
<1>1. IInv => ResultIsTrue
  BY DEF IInv, Types, ReadyIsSaved, DeniedIsGone, ResultIsTrue
<1> QED BY <1>1, LoginInvariant, PTL

\* A login that is over leaves the user a button to start again, whatever answers of earlier
\* logins come in between (login-dialog.tsx:61-84, use-auth.ts:25-71).
THEOREM UserCanRetry == Spec => []RetryOffered
<1>1. IInv => RetryOffered
  BY DEF IInv, Waiting, RetryOffered
<1> QED BY <1>1, LoginInvariant, PTL
=============================================================================
