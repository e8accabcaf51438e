---------------------------- MODULE RequestQueue ----------------------------
(***************************************************************************)
(* The local request queue (internal/requestqueue/queue.go).  Every chat   *)
(* request takes a lease on the key "account:model" before it talks to the *)
(* upstream, so that one account runs at most one request per model.       *)
(*                                                                         *)
(* A gate of the Go map q.gates exists while its key is in "gates".  Each  *)
(* method body between q.mu.Lock and q.mu.Unlock is one action.  The wait  *)
(* of Acquire is not under the mutex: the select on the waiter's channel   *)
(* and on ctx.Done is a step of its own and, when both are ready, Go takes *)
(* either branch.  Leaving by ctx.Done and removing the waiter from the    *)
(* gate are two steps, because the mutex is taken again in between.        *)
(***************************************************************************)
EXTENDS Naturals, Sequences, SequencesExt

CONSTANTS Callers,      \* the goroutines that serve requests
          Keys,         \* the values of Key(accountID, modelID)
          NoKey,        \* the key of a caller that is outside the queue
          Nobody        \* names the owner of a gate that lost its lease

ASSUME NoKeyIsNoKey == NoKey \notin Keys
ASSUME NobodyIsNoCaller == Nobody \notin Callers

VARIABLES
    gates,      \* the keys with an entry in q.gates
    busy,       \* gate.busy
    wait,       \* gate.wait, a waiter's channel named by its caller
    closed,     \* the callers whose waiter channel has been closed
    pc,         \* where each caller stands
    key,        \* the key of the caller's Acquire or lease
    position,   \* Lease.position
    ctxDone     \* the callers whose request context is cancelled

queueVars  == <<gates, busy, wait, closed>>
callerVars == <<pc, key, position>>
vars       == <<gates, busy, wait, closed, pc, key, position, ctxDone>>

(***************************************************************************)
(* idle: outside the queue.  waiting: in the select of Acquire.  leaving:  *)
(* the select took ctx.Done, removeWaiter is next.  holding: Acquire       *)
(* returned a lease.  released: the lease was released, its sync.Once is   *)
(* used up and its owner may still call Release.                           *)
(***************************************************************************)
Places == {"idle", "waiting", "leaving", "holding", "released"}

TypeOK ==
    /\ gates \in SUBSET Keys
    /\ busy \in [Keys -> BOOLEAN]
    /\ wait \in [Keys -> Seq(Callers)]
    /\ closed \in SUBSET Callers
    /\ pc \in [Callers -> Places]
    /\ key \in [Callers -> Keys \cup {NoKey}]
    /\ position \in [Callers -> Nat]
    /\ ctxDone \in SUBSET Callers

Init ==
    /\ gates = {}
    /\ busy = [k \in Keys |-> FALSE]
    /\ wait = [k \in Keys |-> <<>>]
    /\ closed = {}
    /\ pc = [c \in Callers |-> "idle"]
    /\ key = [c \in Callers |-> NoKey]
    /\ position = [c \in Callers |-> 0]
    /\ ctxDone = {}

\* c is out of the queue: its channel and its lease are gone.
Forget(c) ==
    /\ pc' = [pc EXCEPT ![c] = "idle"]
    /\ key' = [key EXCEPT ![c] = NoKey]
    /\ position' = [position EXCEPT ![c] = 0]
    /\ closed' = closed \ {c}
    /\ UNCHANGED ctxDone

-----------------------------------------------------------------------------
\* Acquire on a key nobody holds: the gate is made, and the lease is position 0.
\* The context is not looked at on this path.
AcquireFree(c, k) ==
    /\ pc[c] = "idle"
    /\ ~busy[k]
    /\ gates' = gates \cup {k}
    /\ busy' = [busy EXCEPT ![k] = TRUE]
    /\ pc' = [pc EXCEPT ![c] = "holding"]
    /\ key' = [key EXCEPT ![c] = k]
    /\ position' = [position EXCEPT ![c] = 0]
    /\ UNCHANGED <<wait, closed, ctxDone>>

MutAcquireWaitPosition(c, k) ==    \* counts the waiters ahead, off by one
    /\ pc[c] = "idle"
    /\ busy[k]
    /\ wait' = [wait EXCEPT ![k] = Append(@, c)]
    /\ closed' = closed \ {c}
    /\ pc' = [pc EXCEPT ![c] = "waiting"]
    /\ key' = [key EXCEPT ![c] = k]
    /\ position' = [position EXCEPT ![c] = Len(wait[k]) - 1]
    /\ UNCHANGED <<gates, busy, ctxDone>>

\* Acquire on a busy key: a fresh channel goes to the end of gate.wait.
AcquireWait(c, k) ==
    /\ pc[c] = "idle"
    /\ busy[k]
    /\ wait' = [wait EXCEPT ![k] = Append(@, c)]
    /\ closed' = closed \ {c}
    /\ pc' = [pc EXCEPT ![c] = "waiting"]
    /\ key' = [key EXCEPT ![c] = k]
    /\ position' = [position EXCEPT ![c] = Len(wait[k]) + 1]
    /\ UNCHANGED <<gates, busy, ctxDone>>

\* case <-waiter: the lease was handed over.
SelectGranted(c) ==
    /\ pc[c] = "waiting"
    /\ c \in closed
    /\ pc' = [pc EXCEPT ![c] = "holding"]
    /\ UNCHANGED <<queueVars, key, position, ctxDone>>

\* case <-ctx.Done(): taken even when the waiter channel is closed as well.
SelectDone(c) ==
    /\ pc[c] = "waiting"
    /\ c \in ctxDone
    /\ pc' = [pc EXCEPT ![c] = "leaving"]
    /\ UNCHANGED <<queueVars, key, position, ctxDone>>

MutRemoveWaiter(c) ==     \* forgets to take the waiter out of the gate
    /\ pc[c] = "leaving"
    /\ Forget(c)
    /\ UNCHANGED <<gates, busy, wait>>

\* removeWaiter: a waiter that release has already taken out of gate.wait is not
\* found, and then the queue does not change.  Acquire returns ctx.Err() and the
\* request ends.
RemoveWaiter(c) ==
    LET k == key[c]
        rest == RemoveFirst(wait[k], c)
    IN  /\ pc[c] = "leaving"
        /\ wait' = [wait EXCEPT ![k] = IF k \in gates THEN rest ELSE @]
        /\ gates' = IF k \in gates /\ ~busy[k] /\ rest = <<>> THEN gates \ {k} ELSE gates
        /\ Forget(c)
        /\ UNCHANGED busy

MutReleaseLast(k) ==      \* serves the waiter that came last
    IF k \notin gates \/ wait[k] = <<>>
    THEN /\ gates' = gates \ {k}
         /\ busy' = [busy EXCEPT ![k] = FALSE]
         /\ UNCHANGED <<wait, closed>>
    ELSE /\ wait' = [wait EXCEPT ![k] = Front(@)]
         /\ closed' = closed \cup {Last(wait[k])}
         /\ UNCHANGED <<gates, busy>>

\* Queue.release: the gate goes to the first waiter, or away with the last lease.
release(k) ==
    \/ /\ k \notin gates
       /\ UNCHANGED queueVars
    \/ /\ k \in gates
       /\ wait[k] = <<>>
       /\ gates' = gates \ {k}
       /\ busy' = [busy EXCEPT ![k] = FALSE]
       /\ UNCHANGED <<wait, closed>>
    \/ /\ k \in gates
       /\ wait[k] # <<>>
       /\ wait' = [wait EXCEPT ![k] = Tail(@)]
       /\ busy' = [busy EXCEPT ![k] = TRUE]
       /\ closed' = closed \cup {Head(wait[k])}
       /\ UNCHANGED gates

MutReleaseTwice(c) ==     \* no sync.Once
    /\ pc[c] \in {"holding", "released"}
    /\ release(key[c])
    /\ pc' = [pc EXCEPT ![c] = "released"]
    /\ UNCHANGED <<key, position, ctxDone>>

\* Lease.Release: the first call releases, sync.Once swallows the others.
Release(c) ==
    /\ \/ /\ pc[c] = "holding"
          /\ release(key[c])
       \/ /\ pc[c] = "released"
          /\ UNCHANGED queueVars
    /\ pc' = [pc EXCEPT ![c] = "released"]
    /\ UNCHANGED <<key, position, ctxDone>>

\* The caller is done with its lease and may take another one.
Finish(c) ==
    /\ pc[c] = "released"
    /\ Forget(c)
    /\ UNCHANGED <<gates, busy, wait>>

\* The client of c disconnects and net/http cancels r.Context(), at any time.
Cancel(c) ==
    /\ c \notin ctxDone
    /\ ctxDone' = ctxDone \cup {c}
    /\ UNCHANGED <<queueVars, callerVars>>

\* Another request, with a context of its own, is served.
Renew(c) ==
    /\ pc[c] = "idle"
    /\ c \in ctxDone
    /\ ctxDone' = ctxDone \ {c}
    /\ UNCHANGED <<queueVars, callerVars>>

Next ==
    \E c \in Callers :
        \/ \E k \in Keys : AcquireFree(c, k) \/ AcquireWait(c, k)
        \/ SelectGranted(c) \/ SelectDone(c) \/ RemoveWaiter(c)
        \/ Release(c) \/ Finish(c) \/ Cancel(c) \/ Renew(c)

Spec == Init /\ [][Next]_vars

(***************************************************************************)
(* Fairness.  A goroutine that can run is run: the select returns once one *)
(* of its channels is ready, and removeWaiter gets the mutex.  A lease is  *)
(* released because chat calls Release right after the upstream call, on   *)
(* every path, and the upstream call ends with the response or with the    *)
(* client's disconnection.  Cancel is the client's choice and never fair.  *)
(***************************************************************************)
Fairness ==
    \A c \in Callers :
        /\ WF_vars(SelectGranted(c) \/ SelectDone(c))
        /\ WF_vars(RemoveWaiter(c))
        /\ WF_vars(Release(c))

FairSpec == Spec /\ Fairness

-----------------------------------------------------------------------------
\* release closed c's channel and c has not come out of Acquire yet.
Granted(c) == pc[c] \in {"waiting", "leaving"} /\ c \in closed

\* c has the lease on k, or has been given it and will notice.
Owns(c, k) == key[c] = k /\ (pc[c] = "holding" \/ Granted(c))

\* k is marked busy and nobody is left who could release it.
Orphaned(k) == busy[k] /\ \A c \in Callers : ~Owns(c, k)

InWait(c, k) == \E i \in DOMAIN wait[k] : wait[k][i] = c

\* At most one request runs per account and model, counting the one the lease is
\* on its way to, and its key reads Busy (queue.go Acquire, release, Busy).
OneLeasePerKey ==
    \A k \in Keys, c \in Callers :
        Owns(c, k) => /\ busy[k]
                      /\ \A d \in Callers : Owns(d, k) => d = c

\* q.gates has exactly the busy keys, nobody queues at a free key, and a gate's
\* waiters are the distinct callers blocked in Acquire on it that release has not
\* served (queue.go release, removeWaiter): no waiter is forgotten or left behind.
GateBookkeeping ==
    /\ \A k \in Keys : k \in gates <=> busy[k]
    /\ \A k \in Keys : ~busy[k] => wait[k] = <<>>
    /\ \A k \in Keys, c \in Callers :
          InWait(c, k) <=> /\ pc[c] \in {"waiting", "leaving"}
                           /\ c \notin closed
                           /\ key[c] = k
    /\ \A k \in Keys : \A i, j \in DOMAIN wait[k] : wait[k][i] = wait[k][j] => i = j

\* The queue is a first-come-first-served line per key (module FifoLock).
Owner(k) ==
    IF Orphaned(k) THEN Nobody ELSE CHOOSE c \in Callers : Owns(c, k)

queueLine == [k \in Keys |-> IF busy[k] THEN <<Owner(k)>> \o wait[k] ELSE wait[k]]

Line == INSTANCE FifoLock WITH line <- queueLine

RefinesFifoLock == Line!LineSpec

\* Whoever waits gets its lease or gives up, unless the lease of its key has been
\* lost: with that one exception nobody waits for ever behind other requests.
NoStarvation ==
    \A c \in Callers :
        pc[c] = "waiting" ~> (pc[c] # "waiting" \/ Orphaned(key[c]))

\* A key that GET /api/admin/queue reports active has a request that runs, or that
\* is being handed the lease.  docs/API.md says the endpoint shows the requests in
\* execution; a lease lost between release and ctx.Done breaks it.
ActiveHasRequest == \A k \in Keys : ~Orphaned(k)
=============================================================================
