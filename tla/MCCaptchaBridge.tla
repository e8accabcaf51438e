--------------------------- MODULE MCCaptchaBridge ---------------------------
(***************************************************************************)
(* Two calls, and two pages: the preferred browser and a broker that may   *)
(* requeue what it takes.  A channel that holds one request is full as     *)
(* soon as one call has sent its own.                                      *)
(***************************************************************************)
EXTENDS CaptchaBridge

CONSTANTS c1, c2, browser, broker, tab, app

MCCalls == {c1, c2}
MCClients == {browser, broker}
MCPages == {tab, app}
MCClientOf == [p \in Pages |-> IF p = tab THEN browser ELSE broker]
=============================================================================
