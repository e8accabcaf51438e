------------------------------- MODULE LoginFlow -------------------------------
(***************************************************************************)
(* The table of OAuth logins, internal/auth/oauth.go.  A login is started, *)
(* polled by the panel, and completed by the browser's callback, which     *)
(* works for seconds on a flow that it looked up once: meanwhile a poll    *)
(* may expire the flow and delete it, and another callback may fail it.    *)
(***************************************************************************)
EXTENDS Naturals

CONSTANTS
    MaxFlows,       \* bound: logins that are started
    MaxCallbacks    \* bound: callbacks, the browser may repeat one

ASSUME FlowAssumption == MaxFlows \in Nat \ {0} /\ MaxCallbacks \in Nat

Flows == 1..MaxFlows
NoFlow == 0
Callbacks == 1..MaxCallbacks

VARIABLES
    flows,          \* the status of every Flow object, "none" before Start
    table,          \* the flows that are in the map s.flows
    expired,        \* the flows whose ExpiresAt has passed
    vault,          \* the flows whose account has been saved
    callback        \* the callbacks: the flow each works on, and where it is

flowVars == <<flows, table, expired, vault, callback>>

Ended == {"ready", "failed"}

FlowInit ==
    /\ flows = [f \in Flows |-> "none"]
    /\ table = {} /\ expired = {} /\ vault = {}
    /\ callback = [c \in Callbacks |-> [flow |-> NoFlow, at |-> "none"]]

Fresh(f) == flows[f] = "none" /\ \A g \in Flows : g < f => flows[g] # "none"

Start(f) ==
    /\ Fresh(f)
    /\ flows' = [flows EXCEPT ![f] = "pending"]
    /\ table' = table \cup {f}
    /\ UNCHANGED <<expired, vault, callback>>

\* What Poll answers: an expired flow has failed, and one that is not in the map is unknown.
PollResult(f) ==
    IF f \notin table THEN "unknown"
    ELSE IF flows[f] = "pending" /\ f \in expired THEN "failed" ELSE flows[f]

MutPoll(f) ==   \* keeps the flows that have ended
    /\ flows' = IF f \in table THEN [flows EXCEPT ![f] = PollResult(f)] ELSE flows
    /\ UNCHANGED <<table, expired, vault, callback>>

\* A flow that has ended is told once and deleted.
Poll(f) ==
    /\ flows' = IF f \in table THEN [flows EXCEPT ![f] = PollResult(f)] ELSE flows
    /\ table' = IF PollResult(f) \in Ended THEN table \ {f} ELSE table
    /\ UNCHANGED <<expired, vault, callback>>

\* Nobody looks at the time of a flow that is not pending.
Expire(f) ==
    /\ flows[f] = "pending" /\ f \notin expired
    /\ expired' = expired \cup {f}
    /\ UNCHANGED <<flows, table, vault, callback>>

-----------------------------------------------------------------------------
(* Complete, the browser's callback *)

Arrives(c) == callback[c].at = "none" /\ \A d \in Callbacks : d < c => callback[d].at # "none"

\* failFlow: the flow, in the map or not.
FailFlow(c, f) ==
    /\ flows' = [flows EXCEPT ![f] = "failed"]
    /\ callback' = [callback EXCEPT ![c] = [flow |-> NoFlow, at |-> "done"]]
    /\ UNCHANGED <<table, expired, vault>>

\* A state that is not in the map, also one of an earlier run of the proxy, fails every
\* pending login: failPendingFlows.
CompleteUnknown(c) ==
    /\ Arrives(c)
    /\ flows' = [f \in Flows |-> IF f \in table /\ flows[f] = "pending" THEN "failed" ELSE flows[f]]
    /\ callback' = [callback EXCEPT ![c].at = "done"]
    /\ UNCHANGED <<table, expired, vault>>

\* The provider reports an error, or no code.
CompleteRefused(c, f) == Arrives(c) /\ f \in table /\ FailFlow(c, f)

\* The flow is looked up, whatever its status, and the code is exchanged without the lock.
CompleteFound(c, f) ==
    /\ Arrives(c) /\ f \in table
    /\ callback' = [callback EXCEPT ![c] = [flow |-> f, at |-> "exchanging"]]
    /\ UNCHANGED <<flows, table, expired, vault>>

\* The exchange, the user profile or the save of the account fails.
CompleteFails(c) == callback[c].at = "exchanging" /\ FailFlow(c, callback[c].flow)

Upsert(c) ==
    /\ callback[c].at = "exchanging"
    /\ vault' = vault \cup {callback[c].flow}
    /\ callback' = [callback EXCEPT ![c].at = "saved"]
    /\ UNCHANGED <<flows, table, expired>>

\* The flow becomes ready, also one that has failed or is no longer in the map.
Complete(c) ==
    /\ callback[c].at = "saved"
    /\ flows' = [flows EXCEPT ![callback[c].flow] = "ready"]
    /\ callback' = [callback EXCEPT ![c] = [flow |-> NoFlow, at |-> "done"]]
    /\ UNCHANGED <<table, expired, vault>>

\* The callbacks that have looked f up and work on it.
WorkingOn(f) == {c \in Callbacks : callback[c].flow = f /\ callback[c].at \in {"exchanging", "saved"}}

FlowStep ==
    \/ \E f \in Flows : Expire(f)
    \/ \E c \in Callbacks : \/ CompleteUnknown(c) \/ CompleteFails(c) \/ Upsert(c) \/ Complete(c)
                            \/ \E f \in table : CompleteRefused(c, f) \/ CompleteFound(c, f)
=============================================================================
