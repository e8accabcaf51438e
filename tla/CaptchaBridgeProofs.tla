------------------------- MODULE CaptchaBridgeProofs -------------------------
(***************************************************************************)
(* Theorems about the captcha bridge, for every number of calls, clients   *)
(* and pages, and every capacity of a client's channel.                    *)
(***************************************************************************)
EXTENDS CaptchaBridge, SequenceTheorems, FiniteSetTheorems, WellFoundedInduction, TLAPS

\* No page has the request of the call in hand, and no channel holds it.
NotOut(c) ==
    /\ \A k \in Clients : \A i \in 1 .. Len(requests[k]) : requests[k][i] # c
    /\ \A p \in Pages : page[p].job # c

\* A call that has not sent its request has given it to nobody.
Unsent == \A c \in Calls : call[c].place \in {"new", "chosen", "sending"} => NotOut(c)

\* A call registers before it sends, and nothing answers it before it has sent.
Unanswered == \A c \in Calls : call[c].place \in {"new", "chosen"} => c \notin answered

\* The client that a call has chosen is one that has polled.
ChosenPolls == \A c \in Calls : call[c].place \in {"chosen", "sending"} => call[c].client \in Clients

\* A page that solves or answers does so for a call.
JobsAreCalls == \A p \in Pages : page[p].place \in {"solving", "answering"} => page[p].job \in Calls

Live == \A c \in waiters : InFlight(c)

\* The places where the answer of a call can be owed from: the map of waiters, a page that
\* has taken the waiter from the map, and the channel of the call.
Carried(c) == \E p \in Pages : page[p].place = "answering" /\ page[p].job = c

Once(c) ==
    /\ c \in waiters => c \notin answered /\ ~Carried(c)
    /\ c \in answered => ~Carried(c)
    /\ \A p, q \in Pages : p \in Answering(c) /\ q \in Answering(c) => p = q
    /\ call[c].place \in {"sending", "waiting"} => c \in waiters \/ c \in answered \/ Carried(c)

OwedOnce == \A c \in Calls : Once(c)

\* The inductive invariant.  That an answer is owed once depends on where the requests are:
\* Register may create a waiter only because nobody can be about to answer the call.
IInv == TypeOK /\ Unsent /\ Unanswered /\ ChosenPolls /\ JobsAreCalls /\ Live /\ OwedOnce

-----------------------------------------------------------------------------
(* Lists and channels.                                                     *)

\* A set of natural numbers that is not empty has a least one.
LEMMA LeastNatural ==
    ASSUME NEW T, T \subseteq Nat, T # {}
    PROVE  \E m \in T : \A y \in T : m <= y
<1> DEFINE R == OpToRel(<, Nat)
<1>1. IsWellFoundedOn(R, Nat)
  BY NatLessThanWellFounded
<1>2. PICK m \in T : \A y \in T : ~ (<<y, m>> \in R)
  <2> HIDE DEF R
  <2> QED BY <1>1, WFMin, Zenon
<1>3. R = {s \in Nat \X Nat : s[1] < s[2]}
  BY DEF OpToRel
<1>4. \A y \in T : m <= y
  <2> SUFFICES ASSUME NEW y \in T, y < m PROVE FALSE
    OBVIOUS
  <2>1. <<y, m>> \in {s \in Nat \X Nat : s[1] < s[2]}
    OBVIOUS
  <2> HIDE DEF R
  <2> QED BY <1>2, <1>3, <2>1
<1> QED BY <1>4

\* What Poll takes out of the list of recent clients leaves a list of them.
LEMMA RemoveFirstIsSeq ==
    ASSUME NEW S, NEW s \in Seq(S), NEW e
    PROVE  RemoveFirst(s, e) \in Seq(S)
<1>1. CASE \A i \in 1 .. Len(s) : s[i] # e
  BY <1>1 DEF RemoveFirst
<1>2. CASE \E i \in 1 .. Len(s) : s[i] = e
  <2> DEFINE I == {i \in 1 .. Len(s) : s[i] = e}
             i == Min(I)
  <2>1. \E m \in I : \A y \in I : m <= y
    <3>1. I \subseteq Nat /\ I # {}
      BY <1>2
    <3> HIDE DEF I
    <3> QED BY <3>1, LeastNatural
  <2>2. i \in I
    BY <2>1 DEF Min
  <2>3. RemoveFirst(s, e) = RemoveAt(s, i)
    BY <1>2, <2>2 DEF RemoveFirst, SelectInSeq
  <2>4. i \in 1 .. Len(s)
    BY <2>2
  <2> HIDE DEF i
  <2>5. SubSeq(s, 1, i - 1) \in Seq(S) /\ SubSeq(s, i + 1, Len(s)) \in Seq(S)
    BY <2>4
  <2> QED BY <2>3, <2>5, ConcatProperties DEF RemoveAt
<1> QED BY <1>1, <1>2

\* A channel from which the oldest request is taken holds the others.
LEMMA TailIsOut ==
    ASSUME NEW s \in Seq(Calls), s # <<>>
    PROVE  /\ Head(s) \in Calls
           /\ Tail(s) \in Seq(Calls)
           /\ Len(Tail(s)) = Len(s) - 1
           /\ Head(s) = s[1]
           /\ 1 \in 1 .. Len(s)
           /\ \A i \in 1 .. Len(Tail(s)) : i + 1 \in 1 .. Len(s) /\ Tail(s)[i] = s[i + 1]
  OBVIOUS

\* A channel to which a request is sent holds it, and what it held.
LEMMA AppendIsIn ==
    ASSUME NEW s \in Seq(Calls), NEW c \in Calls
    PROVE  /\ Append(s, c) \in Seq(Calls)
           /\ Len(Append(s, c)) = Len(s) + 1
           /\ \A i \in 1 .. Len(Append(s, c)) :
                 Append(s, c)[i] = c \/ (i \in 1 .. Len(s) /\ Append(s, c)[i] = s[i])
  OBVIOUS

-----------------------------------------------------------------------------
(* What the two ways to write a record leave alone.                        *)

LEMMA GoToMoves ==
    ASSUME TypeOK, NEW c \in Calls, NEW w \in CallPlaces, GoTo(c, w)
    PROVE  /\ call' \in [Calls -> [place : CallPlaces, client : Clients \cup {Preferred}]]
           /\ call'[c].place = w
           /\ call'[c].client = call[c].client
           /\ \A d \in Calls : d # c => call'[d] = call[d]
  BY DEF GoTo, TypeOK

LEMMA TakesMoves ==
    ASSUME TypeOK, NEW p \in Pages, NEW w \in PagePlaces, NEW j \in Calls \cup {NoCall},
           Takes(p, w, j)
    PROVE  /\ page' \in [Pages -> [place : PagePlaces, job : Calls \cup {NoCall}]]
           /\ page'[p].place = w
           /\ page'[p].job = j
           /\ \A q \in Pages : q # p => page'[q] = page[q]
  BY DEF Takes, TypeOK

-----------------------------------------------------------------------------
(* The inductive invariant.                                                *)

\* Nothing has been asked, and no page is connected.
LEMMA InitIInv == Init => IInv
<1> SUFFICES ASSUME Init PROVE IInv
  OBVIOUS
<1>1. TypeOK
  BY CapacityIsPositive DEF Init, TypeOK, CallPlaces, PagePlaces
<1>2. Unsent
  BY NoCallIsNoCall DEF Init, Unsent, NotOut
<1>3. Unanswered /\ ChosenPolls /\ JobsAreCalls /\ Live
  BY DEF Init, Unanswered, ChosenPolls, JobsAreCalls, Live
<1>4. OwedOnce
  BY DEF Init, OwedOnce, Once, Answering, Carried
<1> QED BY <1>1, <1>2, <1>3, <1>4 DEF IInv

\* Nothing can be about to answer a call that is not in circulation yet.
LEMMA RegisterIInv ==
    ASSUME IInv, NEW c \in Calls, Register(c)
    PROVE  IInv'
<1> USE DEF IInv
<1>1. /\ call' \in [Calls -> [place : CallPlaces, client : Clients \cup {Preferred}]]
      /\ call'[c].place = "sending"
      /\ call'[c].client = call[c].client
      /\ \A d \in Calls : d # c => call'[d] = call[d]
  BY GoToMoves DEF Register, CallPlaces
<1>2. TypeOK'
  BY <1>1 DEF TypeOK, Register
<1>3. Unsent'
  BY <1>1 DEF TypeOK, Unsent, NotOut, Register
<1>4. Unanswered'
  BY <1>1 DEF TypeOK, Unanswered, Register
<1>5. ChosenPolls' /\ JobsAreCalls'
  BY <1>1 DEF TypeOK, ChosenPolls, JobsAreCalls, Register
<1>6. Live'
  BY <1>1 DEF TypeOK, Live, InFlight, Unsent, OwedOnce, Once, Register
<1>7. OwedOnce'
  BY <1>1 DEF TypeOK, OwedOnce, Once, Carried, Answering, Unsent, Unanswered, NotOut, Live, InFlight, Register
<1> QED BY <1>2, <1>3, <1>4, <1>5, <1>6, <1>7

\* The call takes the one answer that was owed.
LEMMA ReceiveIInv ==
    ASSUME IInv, NEW c \in Calls, Receive(c)
    PROVE  IInv'
<1> USE DEF IInv
<1>1. /\ call' \in [Calls -> [place : CallPlaces, client : Clients \cup {Preferred}]]
      /\ call'[c].place = "done"
      /\ call'[c].client = call[c].client
      /\ \A d \in Calls : d # c => call'[d] = call[d]
  BY GoToMoves DEF Receive, CallPlaces
<1>2. TypeOK'
  BY <1>1 DEF TypeOK, Receive
<1>3. Unsent'
  BY <1>1 DEF TypeOK, Unsent, NotOut, Receive
<1>4. Unanswered'
  BY <1>1 DEF TypeOK, Unanswered, Receive
<1>5. ChosenPolls' /\ JobsAreCalls'
  BY <1>1 DEF TypeOK, ChosenPolls, JobsAreCalls, Receive
<1>6. Live'
  BY <1>1 DEF TypeOK, Live, InFlight, Unsent, OwedOnce, Once, Receive
<1>7. OwedOnce'
  BY <1>1 DEF TypeOK, OwedOnce, Once, Carried, Answering, Unsent, Unanswered, NotOut, Live, InFlight, Receive
<1> QED BY <1>2, <1>3, <1>4, <1>5, <1>6, <1>7

\* A call that gives up, after its timeout or with its context, leaves the answer
\* wherever it is.
LEMMA GiveUpIInv ==
    ASSUME IInv, NEW c \in Calls, call[c].place \in {"sending", "waiting"},
           GoTo(c, "leaving"), UNCHANGED <<bridgeVars, ctxDone, page>>
    PROVE  IInv'
<1> USE DEF IInv
<1>1. /\ call' \in [Calls -> [place : CallPlaces, client : Clients \cup {Preferred}]]
      /\ call'[c].place = "leaving"
      /\ call'[c].client = call[c].client
      /\ \A d \in Calls : d # c => call'[d] = call[d]
  BY GoToMoves DEF CallPlaces
<1>2. TypeOK'
  BY <1>1 DEF TypeOK, bridgeVars
<1>3. Unsent'
  BY <1>1 DEF TypeOK, Unsent, NotOut, bridgeVars
<1>4. Unanswered'
  BY <1>1 DEF TypeOK, Unanswered, bridgeVars
<1>5. ChosenPolls' /\ JobsAreCalls'
  BY <1>1 DEF TypeOK, ChosenPolls, JobsAreCalls, bridgeVars
<1>6. Live'
  BY <1>1 DEF TypeOK, Live, InFlight, Unsent, OwedOnce, Once, bridgeVars
<1>7. OwedOnce'
  BY <1>1 DEF TypeOK, OwedOnce, Once, Carried, Answering, Unsent, Unanswered, NotOut, Live, InFlight, bridgeVars
<1> QED BY <1>2, <1>3, <1>4, <1>5, <1>6, <1>7

\* An answer that is on its way is not waited for any more.
LEMMA DeleteWaiterIInv ==
    ASSUME IInv, NEW c \in Calls, DeleteWaiter(c)
    PROVE  IInv'
<1> USE DEF IInv
<1>1. /\ call' \in [Calls -> [place : CallPlaces, client : Clients \cup {Preferred}]]
      /\ call'[c].place = "done"
      /\ call'[c].client = call[c].client
      /\ \A d \in Calls : d # c => call'[d] = call[d]
  BY GoToMoves DEF DeleteWaiter, CallPlaces
<1>2. TypeOK'
  BY <1>1 DEF TypeOK, DeleteWaiter
<1>3. Unsent'
  BY <1>1 DEF TypeOK, Unsent, NotOut, DeleteWaiter
<1>4. Unanswered'
  BY <1>1 DEF TypeOK, Unanswered, DeleteWaiter
<1>5. ChosenPolls' /\ JobsAreCalls'
  BY <1>1 DEF TypeOK, ChosenPolls, JobsAreCalls, DeleteWaiter
<1>6. Live'
  BY <1>1 DEF TypeOK, Live, InFlight, Unsent, OwedOnce, Once, DeleteWaiter
<1>7. OwedOnce'
  BY <1>1 DEF TypeOK, OwedOnce, Once, Carried, Answering, Unsent, Unanswered, NotOut, Live, InFlight, DeleteWaiter
<1> QED BY <1>2, <1>3, <1>4, <1>5, <1>6, <1>7

\* The call chooses among the clients that have polled.
LEMMA ChooseIInv ==
    ASSUME IInv, NEW c \in Calls, Choose(c)
    PROVE  IInv'
<1> USE DEF IInv
<1>1. CASE recent = <<>>
  <2>1. /\ call' \in [Calls -> [place : CallPlaces, client : Clients \cup {Preferred}]]
        /\ call'[c].place = "done"
        /\ \A d \in Calls : d # c => call'[d] = call[d]
    BY <1>1, GoToMoves DEF Choose, CallPlaces
  <2>2. TypeOK' /\ Unsent' /\ Unanswered' /\ ChosenPolls' /\ JobsAreCalls'
    BY <2>1 DEF TypeOK, Unsent, NotOut, Unanswered, ChosenPolls, JobsAreCalls, Choose, bridgeVars
  <2>3. Live' /\ OwedOnce'
    BY <2>1 DEF TypeOK, Live, InFlight, OwedOnce, Once, Answering, Carried, Choose, bridgeVars
  <2> QED BY <2>2, <2>3
<1>2. CASE recent # <<>>
  <2> DEFINE k == IF Contains(recent, Preferred) THEN Preferred ELSE Head(recent)
  <2>1. k \in Clients
    <3>1. CASE Contains(recent, Preferred)
      <4>1. PICK i \in 1 .. Len(recent) : recent[i] = Preferred
        BY <3>1 DEF Contains
      <4> QED BY <3>1, <4>1 DEF TypeOK
    <3>2. CASE ~Contains(recent, Preferred)
      BY <3>2, <1>2 DEF TypeOK
    <3> QED BY <3>1, <3>2
  <2>2. call' = [call EXCEPT ![c] = [place |-> "chosen", client |-> k]]
    BY <1>2 DEF Choose
  <2> HIDE DEF k
  <2>3. /\ call' \in [Calls -> [place : CallPlaces, client : Clients \cup {Preferred}]]
        /\ call'[c].place = "chosen"
        /\ call'[c].client \in Clients
        /\ \A d \in Calls : d # c => call'[d] = call[d]
    BY <2>1, <2>2 DEF TypeOK, CallPlaces
  <2>4. call[c].place = "new" /\ UNCHANGED <<recent, requests, waiters, answered, ctxDone, page>>
    BY DEF Choose, bridgeVars
  <2>5. TypeOK' /\ Unsent' /\ Unanswered' /\ ChosenPolls' /\ JobsAreCalls'
    BY <2>3, <2>4 DEF TypeOK, Unsent, NotOut, Unanswered, ChosenPolls, JobsAreCalls
  <2>6. Live' /\ OwedOnce'
    BY <2>3, <2>4 DEF TypeOK, Live, InFlight, OwedOnce, Once, Answering, Carried
  <2> QED BY <2>5, <2>6
<1> QED BY <1>1, <1>2

\* The request is in circulation from now on, and its waiter is in the map.
LEMMA SendIInv ==
    ASSUME IInv, NEW c \in Calls, Send(c)
    PROVE  IInv'
<1> USE DEF IInv
<1> DEFINE k == call[c].client
<1>1. /\ call' \in [Calls -> [place : CallPlaces, client : Clients \cup {Preferred}]]
      /\ call'[c].place = "waiting"
      /\ call'[c].client = call[c].client
      /\ \A d \in Calls : d # c => call'[d] = call[d]
  BY GoToMoves DEF Send, CallPlaces
<1>2. k \in Clients /\ requests[k] \in Seq(Calls) /\ Len(requests[k]) < Capacity
  BY DEF Send, HasRoom, ChosenPolls, TypeOK
<1>3. requests' = [requests EXCEPT ![k] = Append(requests[k], c)]
  BY DEF Send
<1>4. /\ requests' \in [Clients -> Seq(Calls)]
      /\ Len(requests'[k]) = Len(requests[k]) + 1
      /\ \A i \in 1 .. Len(requests'[k]) :
            requests'[k][i] = c \/ (i \in 1 .. Len(requests[k]) /\ requests'[k][i] = requests[k][i])
      /\ \A l \in Clients : l # k => requests'[l] = requests[l]
  BY <1>2, <1>3, AppendIsIn DEF TypeOK
<1>5. UNCHANGED <<recent, waiters, answered, ctxDone, page>> /\ call[c].place = "sending"
  BY DEF Send
<1> HIDE DEF k
<1>6. TypeOK'
  <2>1. \A l \in Clients : Len(requests'[l]) <= Capacity
    <3>1. Len(requests[k]) \in Nat
      BY <1>2
    <3>2. Len(requests'[k]) <= Capacity
      BY <1>2, <1>4, <3>1, CapacityIsPositive
    <3> QED BY <1>4, <3>2 DEF TypeOK
  <2> QED BY <1>1, <1>4, <1>5, <2>1 DEF TypeOK
<1>7. Unsent'
  <2>1. ASSUME NEW d \in Calls, d # c, NotOut(d) PROVE NotOut(d)'
    <3>1. \A l \in Clients : \A i \in 1 .. Len(requests'[l]) : requests'[l][i] # d
      BY <1>4, <2>1 DEF NotOut
    <3> QED BY <3>1, <1>5, <2>1 DEF NotOut
  <2> QED BY <2>1, <1>1 DEF Unsent
<1>8. Unanswered' /\ ChosenPolls' /\ JobsAreCalls'
  BY <1>1, <1>5 DEF TypeOK, Unanswered, ChosenPolls, JobsAreCalls
<1>9. Live' /\ OwedOnce'
  BY <1>1, <1>5 DEF TypeOK, Live, InFlight, OwedOnce, Once, Answering, Carried
<1> QED BY <1>6, <1>7, <1>8, <1>9

\* Neither the end of a context nor the age of a poll matters to the answers.
LEMMA CancelIInv ==
    ASSUME IInv, NEW c \in Calls, Cancel(c)
    PROVE  IInv'
  BY DEF IInv, TypeOK, Unsent, NotOut, Unanswered, ChosenPolls, JobsAreCalls, Live, InFlight,
         OwedOnce, Once, Answering, Carried, Cancel, bridgeVars

LEMMA FadeIInv ==
    ASSUME IInv, Fade
    PROVE  IInv'
<1>1. recent' \in Seq(Clients)
  BY DEF IInv, TypeOK, Fade, Front
<1> QED
  BY <1>1 DEF IInv, TypeOK, Unsent, NotOut, Unanswered, ChosenPolls, JobsAreCalls, Live, InFlight,
              OwedOnce, Once, Answering, Carried, Fade

-----------------------------------------------------------------------------
(* The steps of a page.                                                    *)

\* A page that is not about to answer may do anything with its request that does not
\* make it answer, and the channels may change so that no request comes from nowhere.
LEMMA PageIInv ==
    ASSUME IInv, NEW p \in Pages, page[p].place # "answering",
           NEW w \in {"away", "polling", "solving"}, NEW j \in Calls \cup {NoCall},
           Takes(p, w, j),
           w = "solving" => j \in Calls,
           recent' \in Seq(Clients),
           requests' \in [Clients -> Seq(Calls)],
           \A k \in Clients : Len(requests'[k]) <= Capacity,
           \A c \in Calls : NotOut(c) => c # j,
           \A c \in Calls : NotOut(c) =>
              \A k \in Clients : \A i \in 1 .. Len(requests'[k]) : requests'[k][i] # c,
           UNCHANGED <<waiters, answered, call, ctxDone>>
    PROVE  IInv'
<1> USE DEF IInv
<1>1. /\ page' \in [Pages -> [place : PagePlaces, job : Calls \cup {NoCall}]]
      /\ page'[p].place = w
      /\ page'[p].job = j
      /\ \A q \in Pages : q # p => page'[q] = page[q]
  BY TakesMoves DEF PagePlaces
<1>2. TypeOK'
  BY <1>1 DEF TypeOK
<1>3. Unsent'
  <2>1. \A c \in Calls : NotOut(c) => \A q \in Pages : page'[q].job # c
    BY <1>1 DEF NotOut
  <2>2. \A c \in Calls : NotOut(c) => NotOut(c)'
    BY <2>1 DEF NotOut
  <2> QED BY <2>2 DEF Unsent
<1>4. Unanswered' /\ ChosenPolls' /\ JobsAreCalls'
  BY <1>1 DEF Unanswered, ChosenPolls, JobsAreCalls
<1>5. \A c \in Calls : Answering(c)' = Answering(c)
  BY <1>1 DEF Answering
<1>6. \A c \in Calls : Carried(c)' <=> Carried(c)
  BY <1>1 DEF Carried
<1>7. Live' /\ OwedOnce'
  BY <1>5, <1>6 DEF Live, InFlight, OwedOnce, Once
<1> QED BY <1>2, <1>3, <1>4, <1>7

LEMMA PollIInv ==
    ASSUME IInv, NEW p \in Pages, Poll(p)
    PROVE  IInv'
<1> DEFINE k == ClientOf[p]
<1>1. k \in Clients /\ recent \in Seq(Clients)
  BY PagesHaveClients DEF IInv, TypeOK
<1>2. RemoveFirst(recent, k) \in Seq(Clients)
  BY <1>1, RemoveFirstIsSeq
<1>3. recent' = <<k>> \o RemoveFirst(recent, k)
  BY DEF Poll
<1> HIDE DEF k
<1>4. recent' \in Seq(Clients)
  BY <1>1, <1>2, <1>3
<1>5. page[p].place = "away" /\ Takes(p, "polling", NoCall)
      /\ UNCHANGED <<requests, waiters, answered, call, ctxDone>>
  BY DEF Poll
<1> QED BY <1>4, <1>5, NoCallIsNoCall, PageIInv DEF IInv, TypeOK, NotOut

\* A poll that ends without a request, and a page that is closed with one.
LEMMA LeaveIInv ==
    ASSUME IInv, NEW p \in Pages, PollEmpty(p) \/ Close(p)
    PROVE  IInv'
<1>1. page[p].place # "answering" /\ Takes(p, "away", NoCall)
      /\ UNCHANGED <<recent, requests, waiters, answered, call, ctxDone>>
  BY DEF PollEmpty, Close, bridgeVars
<1> QED BY <1>1, NoCallIsNoCall, PageIInv DEF IInv, TypeOK, NotOut

\* What is left of a channel when its oldest request is taken from it.
LEMMA TakenFrom ==
    ASSUME IInv, NEW k \in Clients, requests[k] # <<>>,
           requests' = [requests EXCEPT ![k] = Tail(requests[k])]
    PROVE  /\ Head(requests[k]) \in Calls
           /\ requests' \in [Clients -> Seq(Calls)]
           /\ \A l \in Clients : Len(requests'[l]) <= Capacity
           /\ \A c \in Calls : NotOut(c) =>
                 /\ Head(requests[k]) # c
                 /\ \A l \in Clients : \A i \in 1 .. Len(requests'[l]) : requests'[l][i] # c
<1> DEFINE s == requests[k]
<1>1. s \in Seq(Calls) /\ Len(s) <= Capacity /\ s # <<>>
  BY DEF IInv, TypeOK
<1>2. requests'[k] = Tail(s) /\ \A l \in Clients : l # k => requests'[l] = requests[l]
  BY DEF IInv, TypeOK
<1>3. /\ Head(s) \in Calls
      /\ Tail(s) \in Seq(Calls)
      /\ Len(Tail(s)) = Len(s) - 1
      /\ Head(s) = s[1]
      /\ 1 \in 1 .. Len(s)
      /\ \A i \in 1 .. Len(Tail(s)) : i + 1 \in 1 .. Len(s) /\ Tail(s)[i] = s[i + 1]
  BY <1>1, TailIsOut, Zenon
<1>4. requests' \in [Clients -> Seq(Calls)]
  BY <1>3 DEF IInv, TypeOK
<1>5. \A l \in Clients : Len(requests'[l]) <= Capacity
  BY <1>1, <1>2, <1>3, CapacityIsPositive DEF IInv, TypeOK
<1>6. ASSUME NEW c \in Calls, NotOut(c)
      PROVE  /\ Head(s) # c
             /\ \A l \in Clients : \A i \in 1 .. Len(requests'[l]) : requests'[l][i] # c
  BY <1>2, <1>3, <1>6 DEF NotOut
<1> QED BY <1>3, <1>4, <1>5, <1>6

LEMMA PollReturnsIInv ==
    ASSUME IInv, NEW p \in Pages, PollReturns(p)
    PROVE  IInv'
<1> DEFINE k == ClientOf[p]
           j == Head(requests[k])
<1>1. /\ k \in Clients /\ requests[k] # <<>>
      /\ requests' = [requests EXCEPT ![k] = Tail(requests[k])]
      /\ page[p].place # "answering" /\ Takes(p, "solving", j)
      /\ UNCHANGED <<recent, waiters, answered, call, ctxDone>>
  BY PagesHaveClients DEF PollReturns
<1>2. /\ j \in Calls
      /\ requests' \in [Clients -> Seq(Calls)]
      /\ \A l \in Clients : Len(requests'[l]) <= Capacity
      /\ \A c \in Calls : NotOut(c) => 
            /\ j # c
            /\ \A l \in Clients : \A i \in 1 .. Len(requests'[l]) : requests'[l][i] # c
  BY <1>1, TakenFrom
<1> HIDE DEF k, j
<1> QED BY <1>1, <1>2, PageIInv DEF IInv, TypeOK

LEMMA PollLostIInv ==
    ASSUME IInv, NEW p \in Pages, PollLost(p)
    PROVE  IInv'
<1> DEFINE k == ClientOf[p]
<1>1. /\ k \in Clients /\ requests[k] # <<>>
      /\ requests' = [requests EXCEPT ![k] = Tail(requests[k])]
      /\ page[p].place # "answering" /\ Takes(p, "away", NoCall)
      /\ UNCHANGED <<recent, waiters, answered, call, ctxDone>>
  BY PagesHaveClients DEF PollLost
<1>2. /\ requests' \in [Clients -> Seq(Calls)]
      /\ \A l \in Clients : Len(requests'[l]) <= Capacity
      /\ \A c \in Calls : NotOut(c) => 
            \A l \in Clients : \A i \in 1 .. Len(requests'[l]) : requests'[l][i] # c
  BY <1>1, TakenFrom
<1> HIDE DEF k
<1>3. NoCall \in Calls \cup {NoCall} /\ recent' \in Seq(Clients) /\ \A c \in Calls : c # NoCall
  BY <1>1, NoCallIsNoCall DEF IInv, TypeOK
<1> QED BY <1>1, <1>2, <1>3, PageIInv

\* A broker puts a request that it has in hand, and may keep, into another channel.
LEMMA RequeueIInv ==
    ASSUME IInv, NEW p \in Pages, NEW k \in Clients, Requeue(p, k)
    PROVE  IInv'
<1> DEFINE j == page[p].job
           s == requests[k]
<1>1. /\ page[p].place = "solving"
      /\ requests' = [requests EXCEPT ![k] = Append(s, j)]
      /\ Len(s) < Capacity
      /\ UNCHANGED page \/ Takes(p, "away", NoCall)
      /\ UNCHANGED <<recent, waiters, answered, call, ctxDone>>
  BY DEF Requeue, HasRoom
<1>2. j \in Calls /\ s \in Seq(Calls)
  BY <1>1 DEF IInv, TypeOK, JobsAreCalls
<1>3. /\ Append(s, j) \in Seq(Calls)
      /\ Len(Append(s, j)) = Len(s) + 1
      /\ \A i \in 1 .. Len(Append(s, j)) :
            Append(s, j)[i] = j \/ (i \in 1 .. Len(s) /\ Append(s, j)[i] = s[i])
  BY <1>2, AppendIsIn, Zenon
<1>4. requests'[k] = Append(s, j) /\ \A l \in Clients : l # k => requests'[l] = requests[l]
  BY <1>1 DEF IInv, TypeOK
<1>5. requests' \in [Clients -> Seq(Calls)]
  BY <1>1, <1>3 DEF IInv, TypeOK
<1>6. \A l \in Clients : Len(requests'[l]) <= Capacity
  BY <1>1, <1>2, <1>3, <1>4, CapacityIsPositive DEF IInv, TypeOK
<1>7. ASSUME NEW c \in Calls, NotOut(c)
      PROVE  \A l \in Clients : \A i \in 1 .. Len(requests'[l]) : requests'[l][i] # c
  BY <1>3, <1>4, <1>7 DEF NotOut
<1>8. CASE UNCHANGED page
  <2>1. TypeOK'
    BY <1>1, <1>5, <1>6, <1>8 DEF IInv, TypeOK
  <2>2. Unsent'
    BY <1>1, <1>7, <1>8 DEF IInv, Unsent, NotOut
  <2>3. Unanswered' /\ ChosenPolls' /\ JobsAreCalls' /\ Live' /\ OwedOnce'
    BY <1>1, <1>8 DEF IInv, Unanswered, ChosenPolls, JobsAreCalls, Live, InFlight,
                      OwedOnce, Once, Answering, Carried
  <2> QED BY <2>1, <2>2, <2>3 DEF IInv
<1>9. CASE Takes(p, "away", NoCall)
  <2> HIDE DEF j, s
  <2>1. NoCall \in Calls \cup {NoCall} /\ recent' \in Seq(Clients) /\ \A c \in Calls : c # NoCall
    BY <1>1, NoCallIsNoCall DEF IInv, TypeOK
  <2>2. /\ page[p].place # "answering"
        /\ UNCHANGED <<waiters, answered, call, ctxDone>>
    BY <1>1
  <2> QED BY <1>5, <1>6, <1>7, <1>9, <2>1, <2>2, PageIInv
<1> QED BY <1>1, <1>8, <1>9

\* The waiter leaves the map and goes into the hand of this page alone: whoever submits
\* the same request later does not find it.
LEMMA SubmitIInv ==
    ASSUME IInv, NEW p \in Pages, Submit(p)
    PROVE  IInv'
<1> USE DEF IInv
<1> DEFINE c == page[p].job
<1>1. /\ page[p].place = "solving" /\ c \in Calls /\ waiters' = waiters \ {c}
      /\ UNCHANGED <<recent, requests, answered, call, ctxDone>>
  BY DEF Submit, JobsAreCalls
<1>2. CASE c \in waiters
  <2>1. Takes(p, "answering", c)
    BY <1>2 DEF Submit
  <2>2. /\ page' \in [Pages -> [place : PagePlaces, job : Calls \cup {NoCall}]]
        /\ page'[p].place = "answering"
        /\ page'[p].job = c
        /\ \A q \in Pages : q # p => page'[q] = page[q]
    BY <2>1, <1>1, TakesMoves DEF PagePlaces
  <2> HIDE DEF c
  <2>3. TypeOK'
    BY <1>1, <2>2 DEF TypeOK
  <2>4. Unsent'
    BY <1>1, <2>2 DEF Unsent, NotOut, c
  <2>5. Unanswered' /\ ChosenPolls' /\ JobsAreCalls' /\ Live'
    BY <1>1, <2>2 DEF Unanswered, ChosenPolls, JobsAreCalls, Live, InFlight
  <2>6. OwedOnce'
    BY <1>1, <1>2, <2>2 DEF OwedOnce, Once, Answering, Carried
  <2> QED BY <2>3, <2>4, <2>5, <2>6
<1>3. CASE c \notin waiters
  <2>1. Takes(p, "away", NoCall) /\ UNCHANGED waiters
    BY <1>1, <1>3 DEF Submit
  <2> QED BY <1>1, <2>1, NoCallIsNoCall, PageIInv DEF TypeOK, NotOut
<1> QED BY <1>2, <1>3

\* The page puts the answer into the channel of the call, which is empty.
LEMMA AnswerIInv ==
    ASSUME IInv, NEW p \in Pages, Answer(p)
    PROVE  IInv'
<1> USE DEF IInv
<1> DEFINE c == page[p].job
<1>1. /\ page[p].place = "answering" /\ c \in Calls /\ c \notin answered
      /\ answered' = answered \cup {c} /\ Takes(p, "away", NoCall)
      /\ UNCHANGED <<recent, requests, waiters, call, ctxDone>>
  BY DEF Answer, JobsAreCalls
<1>2. /\ page' \in [Pages -> [place : PagePlaces, job : Calls \cup {NoCall}]]
      /\ page'[p].place = "away"
      /\ page'[p].job = NoCall
      /\ \A q \in Pages : q # p => page'[q] = page[q]
  BY <1>1, TakesMoves DEF PagePlaces
<1>3. page[p].job = c
  OBVIOUS
<1> HIDE DEF c
<1>4. TypeOK'
  BY <1>1, <1>2 DEF TypeOK
<1>5. Unsent'
  BY <1>1, <1>2, NoCallIsNoCall DEF Unsent, NotOut
<1>6. Unanswered'
  BY <1>1, <1>3 DEF Unanswered, Unsent, NotOut
<1>7. ChosenPolls' /\ JobsAreCalls' /\ Live'
  BY <1>1, <1>2 DEF ChosenPolls, JobsAreCalls, Live, InFlight
<1>8. OwedOnce'
  BY <1>1, <1>2, <1>3 DEF OwedOnce, Once, Answering, Carried
<1> QED BY <1>4, <1>5, <1>6, <1>7, <1>8

-----------------------------------------------------------------------------
(* The theorems.                                                           *)

LEMMA StepIInv == IInv /\ [Next]_vars => IInv'
<1> SUFFICES ASSUME IInv, [Next]_vars PROVE IInv'
  OBVIOUS
<1>1. ASSUME NEW c \in Calls, CallStep(c) \/ Cancel(c)
      PROVE  IInv'
  <2>1. ASSUME TimeOut(c) \/ Cancelled(c) PROVE IInv'
    BY <2>1, GiveUpIInv DEF TimeOut, Cancelled
  <2> QED
    BY <1>1, <2>1, ChooseIInv, RegisterIInv, SendIInv, ReceiveIInv, DeleteWaiterIInv, CancelIInv
       DEF CallStep
<1>2. ASSUME NEW p \in Pages, PageStep(p)
      PROVE  IInv'
  BY <1>2, PollIInv, PollReturnsIInv, LeaveIInv, PollLostIInv, SubmitIInv, AnswerIInv, RequeueIInv
     DEF PageStep
<1>3. CASE UNCHANGED vars
  BY <1>3 DEF vars, bridgeVars, IInv, TypeOK, Unsent, NotOut, Unanswered, ChosenPolls, JobsAreCalls,
              Live, InFlight, OwedOnce, Once, Answering, Carried
<1> QED BY <1>1, <1>2, <1>3, FadeIInv DEF Next

LEMMA Invariance == Spec => []IInv
  BY InitIInv, StepIInv, PTL DEF Spec

\* Every variable of the bridge keeps its type, and no channel holds more requests than
\* it has room for, whatever brokers put into it.
THEOREM Typing == Spec => []TypeOK
<1>1. IInv => TypeOK
  BY DEF IInv
<1> QED BY <1>1, Invariance, PTL

\* No waiter outlives its call, and no request is in circulation before its call sent it.
THEOREM Waiters == Spec => []WaitersAreLive
<1>1. IInv => WaitersAreLive
  BY DEF IInv, WaitersAreLive, Live, Unsent, NotOut, Contains, TypeOK
<1> QED BY <1>1, Invariance, PTL

\* Every accepted answer is owed once: Submit, which sends it after it has left the
\* critical section, never blocks, and no call gets the answer of another page's attempt.
THEOREM Answers == Spec => []AnsweredOnce
<1>1. ASSUME IInv PROVE AnsweredOnce
  <2> SUFFICES ASSUME NEW c \in Calls
               PROVE  LET owed == (IF c \in waiters THEN 1 ELSE 0) + Cardinality(Answering(c))
                                  + (IF c \in answered THEN 1 ELSE 0)
                      IN  /\ owed <= 1
                          /\ call[c].place \in {"sending", "waiting"} => owed = 1
    BY DEF AnsweredOnce
  <2>1. Once(c)
    BY <1>1 DEF IInv, OwedOnce
  <2>2. CASE Carried(c)
    <3>1. PICK p \in Pages : p \in Answering(c)
      BY <2>2 DEF Carried, Answering
    <3>2. Answering(c) = {p}
      BY <3>1, <2>1 DEF Once, Answering
    <3>3. Cardinality(Answering(c)) = 1
      BY <3>2, FS_Singleton
    <3> QED BY <3>3, <2>1, <2>2 DEF Once
  <2>3. CASE ~Carried(c)
    <3>1. Answering(c) = {}
      BY <2>3 DEF Carried, Answering
    <3>2. Cardinality(Answering(c)) = 0
      BY <3>1, FS_EmptySet
    <3> QED BY <3>2, <2>1, <2>3 DEF Once
  <2> QED BY <2>2, <2>3
<1>2. IInv => AnsweredOnce
  BY <1>1
<1> QED BY <1>2, Invariance, PTL
=============================================================================
