---------------------------- MODULE CaptchaBridge ----------------------------
(***************************************************************************)
(* The captcha bridge (internal/captcha/bridge.go).  When the upstream     *)
(* demands a captcha, FreshChallenge hands a request to a browser page     *)
(* that polls the bridge, and waits for the answer that the page submits,  *)
(* for its timeout, or for the end of its context.  A page that polls      *)
(* takes the oldest request of its client's channel; a broker may put a    *)
(* request it has taken into the channel of another client (Requeue).      *)
(*                                                                         *)
(* A call of FreshChallenge is named by the random id it draws, so that no *)
(* id is used twice.  The map of waiters is guarded by b.mu; the channels  *)
(* are not, and the steps of a call and of a handler interleave between    *)
(* the critical sections.  What an answer says, a token or an error, does  *)
(* not matter to the bridge.                                               *)
(***************************************************************************)
EXTENDS Naturals, Sequences, FiniteSets, SequencesExt

CONSTANTS Calls,        \* the calls of FreshChallenge, each with its id
          Clients,      \* the names under which pages poll
          Preferred,    \* cfg.CaptchaPreferredClient
          Pages,        \* the browser tabs and brokers, [Pages -> Clients] below
          ClientOf,     \* the name a page polls under
          Capacity,     \* of a client's channel; 8 in the code
          NoCall        \* no call

ASSUME CapacityIsPositive == Capacity \in Nat \ {0}
ASSUME PagesHaveClients == ClientOf \in [Pages -> Clients]
ASSUME NoCallIsNoCall == NoCall \notin Calls

VARIABLES
    recent,     \* the clients that polled in the last 45 seconds, latest first
    requests,   \* client.requests, for every client
    waiters,    \* the ids in b.waiters
    answered,   \* the calls whose channel, which holds one answer, holds one
    call,       \* where a call of FreshChallenge stands, and the client it chose
    ctxDone,    \* the calls whose context has ended
    page        \* what every page does, and the request it has in hand

bridgeVars == <<recent, requests, waiters, answered>>
vars == <<bridgeVars, call, ctxDone, page>>

(***************************************************************************)
(* A call: not yet made; has chosen a client; has registered its waiter    *)
(* and sends its request; waits; has given up and will delete its waiter;  *)
(* has returned.  A page: not connected to the bridge; its poll waits; it  *)
(* has a request in hand; its Submit has taken the waiter from the map.    *)
(***************************************************************************)
CallPlaces == {"new", "chosen", "sending", "waiting", "leaving", "done"}
PagePlaces == {"away", "polling", "solving", "answering"}

TypeOK ==
    /\ recent \in Seq(Clients)
    /\ requests \in [Clients -> Seq(Calls)]
    /\ \A k \in Clients : Len(requests[k]) <= Capacity
    /\ waiters \subseteq Calls
    /\ answered \subseteq Calls
    /\ call \in [Calls -> [place : CallPlaces, client : Clients \cup {Preferred}]]
    /\ ctxDone \subseteq Calls
    /\ page \in [Pages -> [place : PagePlaces, job : Calls \cup {NoCall}]]

Init ==
    /\ recent = <<>>
    /\ requests = [k \in Clients |-> <<>>]
    /\ waiters = {}
    /\ answered = {}
    /\ call = [c \in Calls |-> [place |-> "new", client |-> Preferred]]
    /\ ctxDone = {}
    /\ page = [p \in Pages |-> [place |-> "away", job |-> NoCall]]

GoTo(c, place) == call' = [call EXCEPT ![c].place = place]

Takes(p, place, job) == page' = [page EXCEPT ![p] = [place |-> place, job |-> job]]

HasRoom(k) == Len(requests[k]) < Capacity

-----------------------------------------------------------------------------
\* chooseClient: the preferred client if it has polled lately, or the latest to poll.
Choose(c) ==
    /\ call[c].place = "new"
    /\ IF recent = <<>> THEN GoTo(c, "done")
       ELSE call' = [call EXCEPT ![c] = [
                place  |-> "chosen",
                client |-> IF Contains(recent, Preferred) THEN Preferred ELSE Head(recent)]]
    /\ UNCHANGED <<bridgeVars, ctxDone, page>>

Register(c) ==
    /\ call[c].place = "chosen"
    /\ waiters' = waiters \cup {c}
    /\ GoTo(c, "sending")
    /\ UNCHANGED <<recent, requests, answered, ctxDone, page>>

\* The send blocks while the channel is full, and no timer runs yet.
Send(c) ==
    LET k == call[c].client
    IN  /\ call[c].place = "sending"
        /\ HasRoom(k)
        /\ requests' = [requests EXCEPT ![k] = Append(@, c)]
        /\ GoTo(c, "waiting")
        /\ UNCHANGED <<recent, waiters, answered, ctxDone, page>>

\* case value := <-waiter: the answer, when there is one.
Receive(c) ==
    /\ call[c].place = "waiting"
    /\ c \in answered
    /\ answered' = answered \ {c}
    /\ GoTo(c, "done")
    /\ UNCHANGED <<recent, requests, waiters, ctxDone, page>>

MutTimeOut(c) ==      \* the timer runs for requests that a page has taken only
    /\ call[c].place = "waiting"
    /\ \E p \in Pages : page[p].job = c
    /\ GoTo(c, "leaving")
    /\ UNCHANGED <<bridgeVars, ctxDone, page>>

\* case <-timer.C, also when there is an answer.
TimeOut(c) ==
    /\ call[c].place = "waiting"
    /\ GoTo(c, "leaving")
    /\ UNCHANGED <<bridgeVars, ctxDone, page>>

MutCancelled(c) ==      \* the send does not look at the context
    /\ call[c].place = "waiting"
    /\ c \in ctxDone
    /\ GoTo(c, "leaving")
    /\ UNCHANGED <<bridgeVars, ctxDone, page>>

\* case <-ctx.Done(), of either select.
Cancelled(c) ==
    /\ call[c].place \in {"sending", "waiting"}
    /\ c \in ctxDone
    /\ GoTo(c, "leaving")
    /\ UNCHANGED <<bridgeVars, ctxDone, page>>

MutDeleteWaiter(c) ==      \* leaves the waiter in the map
    /\ call[c].place = "leaving"
    /\ GoTo(c, "done")
    /\ UNCHANGED <<bridgeVars, ctxDone, page>>

\* deleteWaiter.  The request stays in the channel, or in a page's hand.
DeleteWaiter(c) ==
    /\ call[c].place = "leaving"
    /\ waiters' = waiters \ {c}
    /\ GoTo(c, "done")
    /\ UNCHANGED <<recent, requests, answered, ctxDone, page>>

\* The client of the chat request that needs the captcha goes away.
Cancel(c) ==
    /\ c \notin ctxDone
    /\ call[c].place \notin {"new", "done"}
    /\ ctxDone' = ctxDone \cup {c}
    /\ UNCHANGED <<bridgeVars, call, page>>

-----------------------------------------------------------------------------
\* GET /zcode/captcha/poll begins: the client counts as connected from now on.
Poll(p) ==
    LET k == ClientOf[p]
    IN  /\ page[p].place = "away"
        /\ recent' = <<k>> \o RemoveFirst(recent, k)
        /\ Takes(p, "polling", NoCall)
        /\ UNCHANGED <<requests, waiters, answered, call, ctxDone>>

\* 45 seconds have passed since the poll of the client that polled least lately.
Fade ==
    /\ recent # <<>>
    /\ recent' = Front(recent)
    /\ UNCHANGED <<requests, waiters, answered, call, ctxDone, page>>

PollReturns(p) ==
    LET k == ClientOf[p]
    IN  /\ page[p].place = "polling"
        /\ requests[k] # <<>>
        /\ requests' = [requests EXCEPT ![k] = Tail(@)]
        /\ Takes(p, "solving", Head(requests[k]))
        /\ UNCHANGED <<recent, waiters, answered, call, ctxDone>>

\* The poll ends without a request: after 25 seconds, or with its connection.
PollEmpty(p) ==
    /\ page[p].place = "polling"
    /\ Takes(p, "away", NoCall)
    /\ UNCHANGED <<bridgeVars, call, ctxDone>>

\* The poll takes a request and cannot write it, because the connection is broken.
PollLost(p) ==
    LET k == ClientOf[p]
    IN  /\ page[p].place = "polling"
        /\ requests[k] # <<>>
        /\ requests' = [requests EXCEPT ![k] = Tail(@)]
        /\ Takes(p, "away", NoCall)
        /\ UNCHANGED <<recent, waiters, answered, call, ctxDone>>

\* The page is closed with a request in hand.
Close(p) ==
    /\ page[p].place = "solving"
    /\ Takes(p, "away", NoCall)
    /\ UNCHANGED <<bridgeVars, call, ctxDone>>

MutSubmit(p) ==      \* leaves the waiter in the map, for the answer to come again
    LET c == page[p].job
    IN  /\ page[p].place = "solving"
        /\ IF c \in waiters THEN Takes(p, "answering", c) ELSE Takes(p, "away", NoCall)
        /\ UNCHANGED <<bridgeVars, call, ctxDone>>

\* POST /zcode/captcha/submit: the waiter leaves the map, or is not there (404).
Submit(p) ==
    LET c == page[p].job
    IN  /\ page[p].place = "solving"
        /\ waiters' = waiters \ {c}
        /\ IF c \in waiters THEN Takes(p, "answering", c) ELSE Takes(p, "away", NoCall)
        /\ UNCHANGED <<recent, requests, answered, call, ctxDone>>

\* waiter <- result: it would block if the channel, which holds one, were full.
Answer(p) ==
    LET c == page[p].job
    IN  /\ page[p].place = "answering"
        /\ c \notin answered
        /\ answered' = answered \cup {c}
        /\ Takes(p, "away", NoCall)
        /\ UNCHANGED <<recent, requests, waiters, call, ctxDone>>

MutRequeue(p, k) ==      \* does not look at the capacity
    /\ page[p].place = "solving"
    /\ Len(requests[k]) <= Capacity
    /\ requests' = [requests EXCEPT ![k] = Append(@, page[p].job)]
    /\ UNCHANGED page \/ Takes(p, "away", NoCall)
    /\ UNCHANGED <<recent, waiters, answered, call, ctxDone>>

\* POST /zcode/captcha/requeue: when the channel of k is full nothing changes (503).  A
\* broker that does not get the reply still has the request, and may repeat the call.
Requeue(p, k) ==
    /\ page[p].place = "solving"
    /\ HasRoom(k)
    /\ requests' = [requests EXCEPT ![k] = Append(@, page[p].job)]
    /\ UNCHANGED page \/ Takes(p, "away", NoCall)
    /\ UNCHANGED <<recent, waiters, answered, call, ctxDone>>

CallStep(c) ==
    \/ Choose(c) \/ Register(c) \/ Send(c) \/ Receive(c) \/ TimeOut(c)
    \/ Cancelled(c) \/ DeleteWaiter(c)

PageStep(p) ==
    \/ Poll(p) \/ PollReturns(p) \/ PollEmpty(p) \/ PollLost(p) \/ Close(p)
    \/ Submit(p) \/ Answer(p) \/ \E k \in Clients : Requeue(p, k)

Next ==
    \/ \E c \in Calls : CallStep(c) \/ Cancel(c)
    \/ \E p \in Pages : PageStep(p)
    \/ Fade

Spec == Init /\ [][Next]_vars

(***************************************************************************)
(* Fairness.  A call that has begun goes on when it can, and its timer     *)
(* fires.  A page owes nothing: it may never poll, or never answer.        *)
(***************************************************************************)
Fairness == \A c \in Calls : WF_vars(call[c].place # "new" /\ CallStep(c))

FairSpec == Spec /\ Fairness

-----------------------------------------------------------------------------
InFlight(c) == call[c].place \in {"sending", "waiting", "leaving"}

Answering(c) == {p \in Pages : page[p].place = "answering" /\ page[p].job = c}

\* A call that has returned leaves no waiter behind, though timeouts, cancellations and
\* answers race; and no id is in circulation that has no call (bridge.go, deleteWaiter).
WaitersAreLive ==
    /\ \A c \in waiters : InFlight(c)
    /\ \A c \in Calls : call[c].place \in {"new", "chosen", "sending"} =>
          /\ \A k \in Clients : ~Contains(requests[k], c)
          /\ \A p \in Pages : page[p].job # c

\* A request that is solved by two pages is answered once: the answer is still to come,
\* on its way, or in the call's channel, exactly one of these while the call waits.  So
\* Submit never blocks on the channel, and no answer it has accepted gets lost.
AnsweredOnce ==
    \A c \in Calls :
        LET owed == (IF c \in waiters THEN 1 ELSE 0) + Cardinality(Answering(c))
                    + (IF c \in answered THEN 1 ELSE 0)
        IN  /\ owed <= 1
            /\ call[c].place \in {"sending", "waiting"} => owed = 1

\* The send of the request is stuck behind requests that no page takes.
Stuck(c) == call[c].place = "sending" /\ ~HasRoom(call[c].client) /\ c \notin ctxDone

\* Whatever the pages do, a call ends, unless it is stuck at a full channel.
CallsEnd == \A c \in Calls : InFlight(c) ~> (~InFlight(c) \/ Stuck(c))

\* The call of a client that is gone ends wherever it is, also when it was stuck: the
\* upstream call around it returns and its lease is released.
CancelledCallsEnd == \A c \in Calls : InFlight(c) /\ c \in ctxDone ~> ~InFlight(c)
=============================================================================
