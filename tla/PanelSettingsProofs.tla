-------------------------- MODULE PanelSettingsProofs --------------------------
(***************************************************************************)
(* Theorems about the settings of the panel over the settings of the proxy *)
(* for any ports, levels, keys, requests under way, clicks and restarts.   *)
(***************************************************************************)
EXTENDS PanelSettings, TLAPS

ChangeOps == {"port", "api", "thinking", "account", "reset", "createKey", "deleteKey"}
Kept == {"done", "reading", "copied", "answered"}
Calls == [op : ChangeOps \cup {"none", "refresh"},
          arg : Ports \cup BOOLEAN \cup Levels \cup {Inherit} \cup Keys \cup {None},
          place : {"none", "sent", "failed"} \cup Kept, reply : AdminSettings \cup {None}]

Typed(op, arg) ==
    /\ op = "port" => arg \in Ports
    /\ op = "api" => arg \in BOOLEAN
    /\ op \in {"thinking", "account"} => arg \in Levels
    /\ op \in {"createKey", "deleteKey"} => arg \in Keys

\* The parts of the inductive invariant: the types of what the proxy keeps,
StoreTypes ==
    /\ mem \in AdminSettings /\ disk \in AdminSettings /\ drawn \in SUBSET Keys

\* of what is under way,
CallTypes ==
    /\ reqs \in [Slots -> Calls]
    /\ \A s \in Slots :
          /\ Typed(reqs[s].op, reqs[s].arg)
          /\ reqs[s].place = "sent" => reqs[s].op \in ChangeOps
          /\ reqs[s].place \in {"copied", "answered"} => reqs[s].reply \in AdminSettings

\* of what is shown,
ShownTypes ==
    /\ settings = None \/ settings \in AdminSettings
    /\ form \in [global : (IF settings = None THEN {} ELSE Levels \ {settings.thinking}) \cup {None},
                account : (Levels \ {effectiveOf(settings)}) \cup {None}]
    /\ newSecret \in Keys \cup {None}

HistTypes ==
    hist \in [acked : Nat, told : SUBSET Keys, removed : SUBSET Keys, gone : SUBSET Keys,
              doubt : BOOLEAN, changed : Nat, dropped : Nat]

\* and what the memory and the file hold between them.
Held ==
    /\ disk.v <= mem.v /\ disk.v = hist.acked
    /\ mem.keys \subseteq drawn /\ disk.keys \subseteq drawn /\ hist.removed \subseteq drawn
    /\ \A k \in hist.told \ hist.removed : k \in mem.keys /\ k \in disk.keys
    /\ \A s \in Slots : reqs[s].op = "createKey" /\ reqs[s].place \in Kept =>
          reqs[s].arg \in hist.removed \/ (reqs[s].arg \in mem.keys /\ reqs[s].arg \in disk.keys)
    /\ \A k \in hist.gone : k \in drawn /\ k \notin mem.keys /\ k \notin disk.keys

IInv == StoreTypes /\ CallTypes /\ ShownTypes /\ HistTypes /\ Held

-----------------------------------------------------------------------------
\* What each change does to the memory, the file and the keys that were ever made.
LEMMA ChangeFacts ==
    ASSUME StoreTypes, NEW op \in ChangeOps, NEW arg, Typed(op, arg), NEW saved \in BOOLEAN,
           Change(op, arg, saved)
    PROVE  /\ mem' \in AdminSettings /\ mem'.v = mem.v + 1
           /\ disk' = IF saved THEN mem' ELSE disk
           /\ op = "createKey" => /\ arg \notin drawn /\ drawn' = drawn \cup {arg}
                                  /\ mem'.keys = mem.keys \cup {arg}
           /\ op = "deleteKey" => /\ arg \in mem.keys /\ mem'.keys = mem.keys \ {arg}
           /\ op # "createKey" => drawn' = drawn
           /\ op \notin {"createKey", "deleteKey"} => mem'.keys = mem.keys
<1> DEFINE n == mem.v + 1
<1>a. n \in Nat /\ mem \in AdminSettings
  BY DEF StoreTypes, AdminSettings
<1>1. CASE op = "port"
  <2>1. SetPort(arg, saved)
    BY <1>1 DEF Change
  <2>2. mem' = [mem EXCEPT !.port = arg, !.v = n] /\ saveLocked(saved) /\ drawn' = drawn
    BY <2>1 DEF SetPort
  <2> HIDE DEF n
  <2>3. mem' \in AdminSettings /\ mem'.v = n /\ mem'.keys = mem.keys
    BY <1>1, <1>a, <2>1, <2>2 DEF Typed, AdminSettings
  <2> QED BY <1>1, <2>2, <2>3 DEF n, saveLocked
<1>2. CASE op = "api"
  <2>1. SetAPIEnabled(arg, saved)
    BY <1>2 DEF Change
  <2>2. mem' = [mem EXCEPT !.api = arg, !.v = n] /\ saveLocked(saved) /\ drawn' = drawn
    BY <2>1 DEF SetAPIEnabled
  <2> HIDE DEF n
  <2>3. mem' \in AdminSettings /\ mem'.v = n /\ mem'.keys = mem.keys
    BY <1>2, <1>a, <2>1, <2>2 DEF Typed, AdminSettings
  <2> QED BY <1>2, <2>2, <2>3 DEF n, saveLocked
<1>3. CASE op = "thinking"
  <2>1. SetGlobalThinking(arg, saved)
    BY <1>3 DEF Change
  <2>2. mem' = [mem EXCEPT !.thinking = arg, !.v = n] /\ saveLocked(saved) /\ drawn' = drawn
    BY <2>1 DEF SetGlobalThinking
  <2> HIDE DEF n
  <2>3. mem' \in AdminSettings /\ mem'.v = n /\ mem'.keys = mem.keys
    BY <1>3, <1>a, <2>1, <2>2 DEF Typed, AdminSettings
  <2> QED BY <1>3, <2>2, <2>3 DEF n, saveLocked
<1>4. CASE op \in {"account", "reset"}
  <2>1. PICK level \in Levels \cup {Inherit} : SetAccountThinking(level, saved)
    BY <1>4 DEF Change, Typed
  <2>2. mem' = [mem EXCEPT !.override = level, !.v = n] /\ saveLocked(saved) /\ drawn' = drawn
    BY <2>1 DEF SetAccountThinking
  <2> HIDE DEF n
  <2>3. mem' \in AdminSettings /\ mem'.v = n /\ mem'.keys = mem.keys
    BY <1>4, <1>a, <2>1, <2>2 DEF Typed, AdminSettings
  <2> QED BY <1>4, <2>2, <2>3 DEF n, saveLocked
<1>5. CASE op = "createKey"
  <2>1. CreateAPIKey(arg, saved)
    BY <1>5 DEF Change
  <2>2. mem' = [mem EXCEPT !.keys = mem.keys \cup {arg}, !.v = n] /\ saveLocked(saved) /\ arg \notin drawn /\ drawn' = drawn \cup {arg}
    BY <2>1 DEF CreateAPIKey
  <2> HIDE DEF n
  <2>3. mem' \in AdminSettings /\ mem'.v = n /\ mem'.keys = mem.keys \cup {arg}
    BY <1>5, <1>a, <2>1, <2>2 DEF Typed, AdminSettings
  <2> QED BY <1>5, <2>2, <2>3 DEF n, saveLocked
<1>6. CASE op = "deleteKey"
  <2>1. DeleteAPIKey(arg, saved)
    BY <1>6 DEF Change
  <2>2. mem' = [mem EXCEPT !.keys = mem.keys \ {arg}, !.v = n] /\ saveLocked(saved) /\ arg \in mem.keys /\ drawn' = drawn
    BY <2>1 DEF DeleteAPIKey
  <2> HIDE DEF n
  <2>3. mem' \in AdminSettings /\ mem'.v = n /\ mem'.keys = mem.keys \ {arg}
    BY <1>6, <1>a, <2>1, <2>2 DEF Typed, AdminSettings
  <2> QED BY <1>6, <2>2, <2>3 DEF n, saveLocked
<1> QED BY <1>1, <1>2, <1>3, <1>4, <1>5, <1>6 DEF ChangeOps

\* The panel starts by reading the settings.
LEMMA FirstReadFacts ==
    /\ FirstRead \in [Slots -> Calls]
    /\ \A s \in Slots : FirstRead[s].op \in {"none", "refresh"} /\ FirstRead[s].place \in {"none", "reading"}
BY DEF FirstRead, Request, Idle, Calls, Kept

LEMMA InitIInv == Init => IInv
<1> SUFFICES ASSUME Init PROVE IInv
  OBVIOUS
<1>1. StoreTypes
  BY StoreAssumption DEF Init, StoreInit, StoreTypes, AdminSettings
<1>2. CallTypes
  BY FirstReadFacts DEF Init, CallTypes, Typed, ChangeOps
<1>3. ShownTypes /\ HistTypes
  BY DEF Init, ShownTypes, HistTypes, Untouched
<1>4. Held
  BY FirstReadFacts DEF Init, StoreInit, Held
<1> QED BY <1>1, <1>2, <1>3, <1>4 DEF IInv

\* The clicks of the user.
LEMMA ClicksIInv == ASSUME IInv, Clicks PROVE IInv'
<1>1. ASSUME NEW op \in ChangeOps,
             NEW arg \in Ports \cup BOOLEAN \cup Levels \cup {Inherit} \cup Keys \cup {None},
             Typed(op, arg), Click(op, arg)
      PROVE  IInv'
  <2>1. PICK s \in Slots : reqs' = [reqs EXCEPT ![s] = Request(op, arg)]
    BY <1>1 DEF Click
  <2>2. /\ Request(op, arg) \in Calls
        /\ Request(op, arg).op = op /\ Request(op, arg).arg = arg /\ Request(op, arg).place = "sent"
    BY DEF Request, Idle, Calls, Kept
  <2>3. /\ reqs' \in [Slots -> Calls] /\ reqs'[s] = Request(op, arg)
        /\ \A t \in Slots : t # s => reqs'[t] = reqs[t]
    BY <2>1, <2>2 DEF IInv, CallTypes
  <2>4. StoreTypes' /\ ShownTypes' /\ HistTypes'
    BY <1>1 DEF Click, store, IInv, StoreTypes, ShownTypes, HistTypes
  <2>5. CallTypes'
    BY <1>1, <2>2, <2>3 DEF IInv, CallTypes
  <2>6. Held'
    BY <1>1, <2>2, <2>3 DEF Click, store, IInv, Held, Kept
  <2> QED BY <2>4, <2>5, <2>6 DEF IInv
<1>2. CASE editGlobal
  <2>1. StoreTypes' /\ CallTypes' /\ HistTypes' /\ Held'
    BY <1>2 DEF editGlobal, EditForm, store, IInv, StoreTypes, CallTypes, HistTypes, Held
  <2>2. ShownTypes'
    BY <1>2 DEF editGlobal, EditForm, IInv, ShownTypes
  <2> QED BY <2>1, <2>2 DEF IInv
<1>3. CASE editAccount
  <2>1. StoreTypes' /\ CallTypes' /\ HistTypes' /\ Held'
    BY <1>3 DEF editAccount, EditForm, store, IInv, StoreTypes, CallTypes, HistTypes, Held
  <2>2. ShownTypes'
    BY <1>3 DEF editAccount, EditForm, IInv, ShownTypes
  <2> QED BY <2>1, <2>2 DEF IInv
<1>4. CASE updatePort
  BY <1>1, <1>4 DEF updatePort, ChangeOps, Typed
<1>5. CASE setAPIEnabled
  <2> DEFINE enabled == ~settings.api
  <2>1. enabled \in BOOLEAN /\ Click("api", enabled)
    BY <1>5 DEF setAPIEnabled
  <2> HIDE DEF enabled
  <2> QED BY <1>1, <2>1 DEF ChangeOps, Typed
<1>6. CASE setGlobalThinking
  <2>1. form.global \in Levels
    BY <1>6 DEF setGlobalThinking, IInv, ShownTypes
  <2> QED BY <1>1, <1>6, <2>1 DEF setGlobalThinking, ChangeOps, Typed
<1>7. CASE setAccountThinking
  <2>1. form.account \in Levels
    BY <1>7 DEF setAccountThinking, IInv, ShownTypes
  <2> QED BY <1>1, <1>7, <2>1 DEF setAccountThinking, ChangeOps, Typed
<1>8. CASE resetAccountThinking
  BY <1>1, <1>8 DEF resetAccountThinking, ChangeOps, Typed
<1>9. CASE createAPIKey
  BY <1>1, <1>9 DEF createAPIKey, ChangeOps, Typed
<1>10. CASE deleteAPIKey
  <2>1. settings \in AdminSettings
    BY <1>10 DEF deleteAPIKey, IInv, ShownTypes
  <2>2. PICK k \in settings.keys : Click("deleteKey", k)
    BY <1>10 DEF deleteAPIKey
  <2>3. k \in Keys
    BY <2>1, <2>2 DEF AdminSettings
  <2> QED BY <1>1, <2>2, <2>3 DEF ChangeOps, Typed
<1> QED BY <1>2, <1>3, <1>4, <1>5, <1>6, <1>7, <1>8, <1>9, <1>10 DEF Clicks

\* The steps that only move a request on, or drop it.
LEMMA MovesIInv ==
    ASSUME IInv, NEW s \in Slots, NEW call \in Calls, reqs' = [reqs EXCEPT ![s] = call],
           Typed(call.op, call.arg), call.place # "sent",
           call.place \in {"copied", "answered"} => call.reply \in AdminSettings,
           call.op = "createKey" /\ call.place \in Kept =>
              reqs[s].op = "createKey" /\ reqs[s].place \in Kept /\ reqs[s].arg = call.arg,
           UNCHANGED store, ShownTypes', HistTypes', hist'.acked = hist.acked,
           hist'.removed = hist.removed, hist'.gone = hist.gone,
           \A k \in hist'.told : k \in hist.told \/ (k = reqs[s].arg /\ reqs[s].op = "createKey"
                                                       /\ reqs[s].place \in Kept)
    PROVE  IInv'
<1>1. /\ reqs' \in [Slots -> Calls] /\ reqs'[s] = call
      /\ \A t \in Slots : t # s => reqs'[t] = reqs[t]
  BY DEF IInv, CallTypes
<1>2. StoreTypes'
  BY DEF IInv, StoreTypes, store
<1>3. CallTypes'
  BY <1>1 DEF IInv, CallTypes
<1>4. Held'
  BY <1>1 DEF IInv, Held, store
<1> QED BY <1>2, <1>3, <1>4 DEF IInv

\* The panel's steps.
LEMMA PanelIInv ==
    ASSUME IInv, NEW s \in Slots, Refresh(s) \/ SetSettings(s) \/ ReadFails(s) \/ Rejected(s)
    PROVE  IInv'
<1>a. reqs[s] \in Calls /\ Typed(reqs[s].op, reqs[s].arg)
  BY DEF IInv, CallTypes
<1>b. Idle \in Calls /\ Idle.op = "none" /\ Idle.place = "none" /\ Typed(Idle.op, Idle.arg)
  BY DEF Idle, Calls, Typed
<1>c. /\ Told(s) \in SUBSET Keys
      /\ \A k \in Told(s) : k = reqs[s].arg /\ reqs[s].op = "createKey"
  BY <1>a DEF Told, Typed
<1>d. ShowSecret(s) => newSecret' \in Keys \cup {None}
  BY <1>a DEF ShowSecret, Told, Typed, IInv, ShownTypes
<1>1. CASE Refresh(s)
  <2> DEFINE call == [reqs[s] EXCEPT !.place = "reading"]
  <2>1. call \in Calls /\ call.op = reqs[s].op /\ call.arg = reqs[s].arg /\ call.place = "reading"
    BY <1>a DEF Calls, Kept
  <2>2. reqs' = [reqs EXCEPT ![s] = call] /\ reqs[s].place \in Kept
    BY <1>1 DEF Refresh, Kept
  <2>3. ShownTypes' /\ HistTypes'
    BY <1>1 DEF Refresh, store, IInv, ShownTypes, HistTypes
  <2> HIDE DEF call
  <2> QED BY <1>1, <1>a, <2>1, <2>2, <2>3, MovesIInv DEF Refresh
<1>2. CASE SetSettings(s)
  <2>1. reqs[s].reply \in AdminSettings /\ reqs[s].place \in Kept /\ reqs' = [reqs EXCEPT ![s] = Idle]
    BY <1>2 DEF SetSettings, IInv, CallTypes, Kept
  <2>2. ShownTypes'
    <3> DEFINE shown == reqs[s].reply
    <3>1. settings' = shown /\ form' = FormAfter(shown)
      BY <1>2 DEF SetSettings
    <3>2. newSecret' \in Keys \cup {None}
      BY <1>2, <1>d DEF SetSettings
    <3>3. shown \in AdminSettings
      BY <2>1
    <3> HIDE DEF shown
    <3> QED BY <3>1, <3>2, <3>3, NoneAssumption DEF FormAfter, IInv, ShownTypes, effectiveOf, AdminSettings
  <2>3. /\ HistTypes' /\ hist'.acked = hist.acked /\ hist'.removed = hist.removed /\ hist'.gone = hist.gone
        /\ \A k \in hist'.told : k \in hist.told \/ (k = reqs[s].arg /\ reqs[s].op = "createKey")
    <3> DEFINE told == hist.told \cup Told(s)
               older == settings # None /\ reqs[s].reply.v < settings.v
               doubt == (hist.doubt \/ older) /\ reqs[s].reply.v < hist.changed
    <3>1. hist' = [hist EXCEPT !.told = told, !.doubt = doubt]
      BY <1>2 DEF SetSettings
    <3>2. told \in SUBSET Keys
      BY <1>c DEF IInv, HistTypes
    <3>3. doubt \in BOOLEAN
      OBVIOUS
    <3>4. \A k \in told : k \in hist.told \/ (k = reqs[s].arg /\ reqs[s].op = "createKey")
      BY <1>c
    <3> HIDE DEF told, doubt
    <3> QED BY <3>1, <3>2, <3>3, <3>4 DEF IInv, HistTypes
  <2> QED BY <1>2, <1>b, <2>1, <2>2, <2>3, MovesIInv DEF SetSettings
<1>3. CASE Rejected(s)
  <2>1. ShownTypes'
    BY <1>3 DEF Rejected, IInv, ShownTypes, effectiveOf
  <2>2. /\ HistTypes' /\ hist'.acked = hist.acked /\ hist'.removed = hist.removed
        /\ hist'.gone = hist.gone /\ hist'.told = hist.told
    BY <1>3 DEF Rejected, IInv, HistTypes
  <2> QED BY <1>3, <1>b, <2>1, <2>2, MovesIInv DEF Rejected
<1>4. CASE ReadFails(s)
  <2> DEFINE told == hist.told \cup Told(s)
  <2>1. ShownTypes'
    BY <1>4, <1>d DEF ReadFails, IInv, ShownTypes, effectiveOf
  <2>2. told \in SUBSET Keys
    BY <1>c DEF IInv, HistTypes
  <2>3. hist' = [hist EXCEPT !.told = told, !.doubt = TRUE]
    BY <1>4 DEF ReadFails
  <2>4. \A k \in told : k \in hist.told \/ (k = reqs[s].arg /\ reqs[s].op = "createKey")
    BY <1>c
  <2> HIDE DEF told
  <2>5. /\ HistTypes' /\ hist'.acked = hist.acked /\ hist'.removed = hist.removed
        /\ hist'.gone = hist.gone /\ hist'.told = told
    BY <2>2, <2>3 DEF IInv, HistTypes
  <2>6. reqs[s].place \in Kept
    BY <1>4 DEF ReadFails, Kept
  <2> QED BY <1>4, <1>b, <2>1, <2>4, <2>5, <2>6, MovesIInv DEF ReadFails
<1> QED BY <1>1, <1>2, <1>3, <1>4

\* The handlers of the proxy.
LEMMA HandleIInv == ASSUME IInv, NEW s \in Slots, Handle(s) PROVE IInv'
<1> DEFINE op == reqs[s].op
           arg == reqs[s].arg
<1>1. /\ reqs[s] \in Calls /\ op \in ChangeOps /\ Typed(op, arg)
      /\ UNCHANGED <<settings, form, newSecret>>
  BY DEF Handle, IInv, CallTypes
<1>2. PICK saved \in BOOLEAN :
         /\ Change(op, arg, saved)
         /\ reqs' = [reqs EXCEPT ![s].place = IF saved \/ op \in Unchecked THEN "done" ELSE "failed"]
         /\ hist' = [Recorded(saved, hist.removed \cup (IF op = "deleteKey" THEN {arg} ELSE {}))
                        EXCEPT !.changed = mem'.v]
  BY DEF Handle
<1> DEFINE place == IF saved \/ op \in Unchecked THEN "done" ELSE "failed"
           removed == hist.removed \cup (IF op = "deleteKey" THEN {arg} ELSE {})
           acked == IF saved THEN mem'.v ELSE hist.acked
           gone == IF saved THEN removed \ mem'.keys ELSE hist.gone
           changed == mem'.v
<1>3. /\ mem' \in AdminSettings /\ mem'.v = mem.v + 1
      /\ disk' = IF saved THEN mem' ELSE disk
      /\ op = "createKey" => /\ arg \notin drawn /\ drawn' = drawn \cup {arg}
                             /\ mem'.keys = mem.keys \cup {arg}
      /\ op = "deleteKey" => /\ arg \in mem.keys /\ mem'.keys = mem.keys \ {arg}
      /\ op # "createKey" => drawn' = drawn
      /\ op \notin {"createKey", "deleteKey"} => mem'.keys = mem.keys
  BY <1>1, <1>2, ChangeFacts DEF IInv
<1>4. /\ reqs' \in [Slots -> Calls] /\ reqs'[s].op = op /\ reqs'[s].arg = arg /\ reqs'[s].place = place
      /\ \A t \in Slots : t # s => reqs'[t] = reqs[t]
  <2>1. place \in {"done", "failed"} /\ reqs' = [reqs EXCEPT ![s].place = place]
    BY <1>2
  <2> HIDE DEF place
  <2> QED BY <1>1, <2>1 DEF IInv, CallTypes, Calls, Kept
<1>5. removed \in SUBSET Keys /\ acked \in Nat /\ gone \in SUBSET Keys /\ changed \in Nat
  BY <1>1, <1>3 DEF Typed, IInv, HistTypes, AdminSettings
<1>6. /\ HistTypes' /\ hist'.told = hist.told
      /\ hist'.acked = acked /\ hist'.removed = removed /\ hist'.gone = gone
  <2>1. hist' = [hist EXCEPT !.acked = acked, !.removed = removed, !.gone = gone, !.changed = changed]
    BY <1>2 DEF Recorded
  <2> HIDE DEF acked, removed, gone, changed
  <2> QED BY <1>5, <2>1 DEF IInv, HistTypes
<1>7. StoreTypes'
  BY <1>1, <1>3 DEF IInv, StoreTypes, Typed
<1>8. CallTypes'
  BY <1>1, <1>4 DEF IInv, CallTypes
<1>9. ShownTypes'
  BY <1>1 DEF IInv, ShownTypes, effectiveOf
<1>10. Held'
  <2>1. /\ disk'.v <= mem'.v /\ disk'.v = hist'.acked
        /\ mem'.keys \subseteq drawn' /\ disk'.keys \subseteq drawn' /\ hist'.removed \subseteq drawn'
    BY <1>1, <1>3, <1>6 DEF IInv, Held, StoreTypes, AdminSettings
  <2>2. \A k \in hist'.told \ hist'.removed : k \in mem'.keys /\ k \in disk'.keys
    BY <1>3, <1>6 DEF IInv, Held
  <2>3. ASSUME NEW t \in Slots, reqs'[t].op = "createKey", reqs'[t].place \in Kept
        PROVE  reqs'[t].arg \in hist'.removed \/ (reqs'[t].arg \in mem'.keys /\ reqs'[t].arg \in disk'.keys)
    <3>1. CASE t = s
      <4>1. op = "createKey" /\ saved
        BY <1>4, <2>3, <3>1 DEF Kept, Unchecked
      <4> QED BY <1>3, <1>4, <3>1, <4>1
    <3>2. CASE t # s
      BY <1>3, <1>4, <1>6, <2>3, <3>2 DEF IInv, Held
    <3> QED BY <3>1, <3>2
  <2>4. ASSUME NEW k \in hist'.gone PROVE k \in drawn' /\ k \notin mem'.keys /\ k \notin disk'.keys
    <3>1. CASE saved
      BY <1>3, <1>6, <2>1, <2>4, <3>1
    <3>2. CASE ~saved
      BY <1>3, <1>6, <2>4, <3>2 DEF IInv, Held
    <3> QED BY <3>1, <3>2
  <2> QED BY <2>1, <2>2, <2>3, <2>4 DEF Held
<1> QED BY <1>6, <1>7, <1>8, <1>9, <1>10 DEF IInv

\* The settings are copied and encoded, and a second deletion of a key fails.
LEMMA AnswerIInv ==
    ASSUME IInv, NEW s \in Slots, HandleFails(s) \/ PublicSnapshot(s) \/ Encode(s)
    PROVE  IInv'
<1>1. /\ reqs[s] \in Calls /\ Typed(reqs[s].op, reqs[s].arg)
      /\ mem \in AdminSettings /\ mem.override \in Levels \cup {Inherit}
  BY DEF IInv, CallTypes, StoreTypes, AdminSettings
<1>2. ShownTypes' /\ HistTypes' /\ UNCHANGED <<store, hist>>
  BY DEF HandleFails, PublicSnapshot, Encode, IInv, ShownTypes, effectiveOf, HistTypes
<1>3. CASE HandleFails(s)
  <2> DEFINE call == [reqs[s] EXCEPT !.place = "failed"]
  <2>1. call \in Calls /\ call.op = reqs[s].op /\ call.arg = reqs[s].arg /\ call.place = "failed"
    BY <1>1 DEF Calls, Kept
  <2>2. reqs' = [reqs EXCEPT ![s] = call]
    BY <1>3 DEF HandleFails
  <2> HIDE DEF call
  <2> QED BY <1>1, <1>2, <2>1, <2>2, MovesIInv DEF Kept
<1>4. CASE PublicSnapshot(s)
  <2> DEFINE call == [reqs[s] EXCEPT !.place = "copied", !.reply = mem]
  <2>1. /\ call \in Calls /\ call.op = reqs[s].op /\ call.arg = reqs[s].arg
        /\ call.place = "copied" /\ call.reply \in AdminSettings
    BY <1>1 DEF Calls, Kept
  <2>2. reqs' = [reqs EXCEPT ![s] = call] /\ reqs[s].place \in Kept
    BY <1>1, <1>4 DEF PublicSnapshot, Kept
  <2> HIDE DEF call
  <2> QED BY <1>1, <1>2, <2>1, <2>2, MovesIInv
<1>5. CASE Encode(s)
  <2> DEFINE reply == [reqs[s].reply EXCEPT !.override = mem.override]
             call == [reqs[s] EXCEPT !.place = "answered", !.reply = reply]
  <2>1. reply \in AdminSettings
    BY <1>1, <1>5 DEF Encode, IInv, CallTypes, AdminSettings
  <2>2. reqs' = [reqs EXCEPT ![s] = call] /\ reqs[s].place \in Kept
    BY <1>1, <1>5 DEF Encode, Kept, IInv, CallTypes, Calls
  <2> HIDE DEF reply
  <2>3. /\ call \in Calls /\ call.op = reqs[s].op /\ call.arg = reqs[s].arg
        /\ call.place = "answered" /\ call.reply \in AdminSettings
    BY <1>1, <2>1 DEF Calls, Kept
  <2> HIDE DEF call
  <2> QED BY <1>1, <1>2, <2>2, <2>3, MovesIInv
<1> QED BY <1>3, <1>4, <1>5

\* A change that the panel did not ask for leaves the keys alone, and may be saved.
LEMMA UnaskedIInv ==
    ASSUME IInv, NEW saved \in BOOLEAN, mem' \in AdminSettings, mem'.v >= mem.v, mem'.keys = mem.keys,
           disk' = IF saved THEN mem' ELSE disk, drawn' = drawn, Unasked, HistTypes',
           hist'.told = hist.told, hist'.removed = hist.removed,
           hist'.acked = IF saved THEN mem'.v ELSE hist.acked,
           hist'.gone = IF saved THEN hist.removed \ mem'.keys ELSE hist.gone
    PROVE  IInv'
<1>1. StoreTypes' /\ CallTypes' /\ ShownTypes'
  BY DEF Unasked, IInv, StoreTypes, CallTypes, ShownTypes, effectiveOf
<1>2. Held'
  <2>1. mem.v \in Nat /\ mem'.v \in Nat /\ disk.v \in Nat
    BY DEF IInv, StoreTypes, AdminSettings
  <2>2. CASE saved
    BY <2>1, <2>2 DEF Unasked, IInv, Held
  <2>3. CASE ~saved
    BY <2>1, <2>3 DEF Unasked, IInv, Held
  <2> QED BY <2>2, <2>3
<1> QED BY <1>1, <1>2 DEF IInv

LEMMA OthersIInv == ASSUME IInv, removeAccount \/ finishMigration PROVE IInv'
<1>1. CASE removeAccount
  <2>1. PICK saved \in BOOLEAN :
           /\ SetAccountThinking(Inherit, saved)
           /\ hist' = [Recorded(saved, hist.removed) EXCEPT !.dropped = mem'.v]
    BY <1>1 DEF removeAccount
  <2>2. Change("reset", Inherit, saved)
    BY <2>1 DEF Change
  <2>3. /\ mem' \in AdminSettings /\ mem'.v = mem.v + 1 /\ mem'.keys = mem.keys
        /\ disk' = IF saved THEN mem' ELSE disk
        /\ drawn' = drawn
    BY <2>2, ChangeFacts DEF IInv, ChangeOps, Typed
  <2>4. mem'.v >= mem.v
    BY <2>3 DEF IInv, StoreTypes, AdminSettings
  <2> DEFINE acked == IF saved THEN mem'.v ELSE hist.acked
             gone == IF saved THEN hist.removed \ mem'.keys ELSE hist.gone
             dropped == mem'.v
  <2>5. hist' = [hist EXCEPT !.acked = acked, !.removed = hist.removed, !.gone = gone, !.dropped = dropped]
    BY <2>1 DEF Recorded
  <2>6. acked \in Nat /\ gone \in SUBSET Keys /\ dropped \in Nat
    BY <2>3 DEF IInv, HistTypes, AdminSettings
  <2> HIDE DEF acked, gone, dropped
  <2>7. /\ HistTypes' /\ hist'.told = hist.told /\ hist'.removed = hist.removed
        /\ hist'.acked = acked /\ hist'.gone = gone
    BY <2>5, <2>6 DEF IInv, HistTypes
  <2> QED BY <1>1, <2>3, <2>4, <2>7, UnaskedIInv DEF removeAccount, acked, gone
<1>2. CASE finishMigration
  <2>1. PICK saved \in BOOLEAN :
           MarkMigrationCompleted(saved) /\ hist' = Recorded(saved, hist.removed)
    BY <1>2 DEF finishMigration
  <2>2. /\ mem' = mem /\ drawn' = drawn /\ disk' = IF saved THEN mem' ELSE disk
    BY <2>1 DEF MarkMigrationCompleted, saveLocked
  <2>3. mem' \in AdminSettings /\ mem'.v >= mem.v /\ mem'.keys = mem.keys
    BY <2>2 DEF IInv, StoreTypes, AdminSettings
  <2> DEFINE acked == IF saved THEN mem'.v ELSE hist.acked
             gone == IF saved THEN hist.removed \ mem'.keys ELSE hist.gone
  <2>4. hist' = [hist EXCEPT !.acked = acked, !.removed = hist.removed, !.gone = gone]
    BY <2>1 DEF Recorded
  <2>5. acked \in Nat /\ gone \in SUBSET Keys
    BY <2>3 DEF IInv, HistTypes, AdminSettings
  <2> HIDE DEF acked, gone
  <2>6. /\ HistTypes' /\ hist'.told = hist.told /\ hist'.removed = hist.removed
        /\ hist'.acked = acked /\ hist'.gone = gone
    BY <2>4, <2>5 DEF IInv, HistTypes
  <2> QED BY <1>2, <2>2, <2>3, <2>6, UnaskedIInv DEF finishMigration, acked, gone
<1> QED BY <1>1, <1>2

\* The application starts again from the file.
LEMMA RestartIInv == ASSUME IInv, Restart PROVE IInv'
<1>1. StoreTypes'
  BY DEF Restart, NewAdminStore, IInv, StoreTypes
<1>2. CallTypes'
  BY FirstReadFacts DEF Restart, CallTypes, Typed, ChangeOps
<1>3. ShownTypes'
  BY DEF Restart, ShownTypes, Untouched
<1>4. HistTypes'
  BY DEF Restart, IInv, HistTypes
<1>5. Held'
  <2>1. \A s \in Slots : reqs'[s].op # "createKey"
    BY FirstReadFacts DEF Restart
  <2>2. /\ mem' = disk /\ UNCHANGED <<disk, drawn>>
        /\ hist'.acked = hist.acked /\ hist'.told = hist.told
        /\ hist'.removed = hist.removed /\ hist'.gone = hist.gone
    BY DEF Restart, NewAdminStore, IInv, HistTypes
  <2> QED BY <2>1, <2>2 DEF IInv, Held, StoreTypes, AdminSettings
<1> QED BY <1>1, <1>2, <1>3, <1>4, <1>5 DEF IInv

LEMMA NextIInv == IInv /\ [Next]_vars => IInv'
<1> SUFFICES ASSUME IInv, [Next]_vars PROVE IInv'
  OBVIOUS
<1>1. CASE Clicks
  BY <1>1, ClicksIInv
<1>2. CASE Restart
  BY <1>2, RestartIInv
<1>7. CASE removeAccount \/ finishMigration
  BY <1>7, OthersIInv
<1>3. ASSUME NEW s \in Slots, Refresh(s) \/ SetSettings(s) \/ ReadFails(s) \/ Rejected(s) PROVE IInv'
  BY <1>3, PanelIInv
<1>4. ASSUME NEW s \in Slots, Handle(s) PROVE IInv'
  BY <1>4, HandleIInv
<1>5. ASSUME NEW s \in Slots, HandleFails(s) \/ PublicSnapshot(s) \/ Encode(s) PROVE IInv'
  BY <1>5, AnswerIInv
<1>6. CASE UNCHANGED vars
  BY <1>6 DEF vars, store, IInv, StoreTypes, CallTypes, ShownTypes, effectiveOf, HistTypes, Held
<1> QED BY <1>1, <1>2, <1>3, <1>4, <1>5, <1>6, <1>7 DEF Next

-----------------------------------------------------------------------------
\* What the memory, the file and the calls under way hold between them in every step.
THEOREM SettingsInvariant == Spec => []IInv
BY InitIInv, NextIInv, PTL DEF Spec

\* The settings keep their types, the file is never ahead of the memory, and a form holds an
\* edit only where it differs from what is shown (admin.go:186, settings-dialog.tsx:45).
THEOREM SettingsTypeCorrect == Spec => []TypeOK
<1>1. IInv => TypeOK
  <2> SUFFICES ASSUME IInv PROVE TypeOK
    OBVIOUS
  <2>1. disk.v <= mem.v /\ mem.keys \cup disk.keys \subseteq drawn
    BY DEF IInv, Held
  <2> QED BY <2>1 DEF IInv, StoreTypes, ShownTypes, TypeOK
<1> QED BY <1>1, SettingsInvariant, PTL

\* What the panel was told stays so over failed saves and restarts: saved changes are in the
\* file, shown secrets open the API until deleted, and deleted keys stay deleted
\* (admin.go:186, 207, 235).
THEOREM ToldIsKept == Spec => []HoldsAsTold
<1>1. IInv => HoldsAsTold
  BY DEF IInv, StoreTypes, AdminSettings, Held, HoldsAsTold, ValidateAPIKey
<1> QED BY <1>1, SettingsInvariant, PTL

-----------------------------------------------------------------------------
(* What is shown.  hist.changed is the version of the last change that was *)
(* asked for, hist.dropped that of the last removal of the account: a copy *)
(* that is not older than the former is what the memory holds, but for an  *)
(* override that was dropped after it was made.                            *)
Agrees(x) ==
    /\ x = [mem EXCEPT !.override = x.override, !.v = x.v]
    /\ x.override = mem.override \/ x.v < hist.dropped

Copy(x) == x.v <= mem.v /\ (x.v >= hist.changed => Agrees(x))

Copies ==
    /\ hist.changed <= mem.v
    /\ \A s \in Slots : reqs[s].place \in {"copied", "answered"} => Copy(reqs[s].reply)
    /\ settings # None => Copy(settings)

\* A request that will still be answered with what the memory holds, or with an error.
Owes(s) ==
    \/ reqs[s].place \in {"sent", "failed", "done", "reading"}
    \/ reqs[s].place \in {"copied", "answered"} /\ reqs[s].reply.v >= hist.changed

\* Without doubt, what is shown is as new as the last change, or about to be.
Shown ==
    \/ hist.doubt
    \/ settings # None /\ settings.v >= hist.changed
    \/ \E s \in Slots : Owes(s)

SInv == Copies /\ Shown

LEMMA InitSInv == Init => SInv
<1> SUFFICES ASSUME Init PROVE SInv
  OBVIOUS
<1>1. PICK s \in Slots : s = CHOOSE t \in Slots : TRUE
  BY SlotsAssumption
<1>2. FirstRead[s].place = "reading"
  BY <1>1 DEF FirstRead, Request, Idle
<1>3. mem.v = 0 /\ hist.changed = 0 /\ settings = None /\ reqs = FirstRead
  BY DEF Init, StoreInit
<1> QED BY <1>2, <1>3, FirstReadFacts DEF SInv, Copies, Shown, Owes

\* A step that leaves memory, screen and history alone, and after which the request owes
\* an answer if it did before.
LEMMA MovesSInv ==
    ASSUME IInv, SInv, NEW s \in Slots, NEW call, reqs' = [reqs EXCEPT ![s] = call],
           UNCHANGED <<mem, settings, hist>>,
           call.place \in {"copied", "answered"} => Copy(call.reply),
           \/ ~Owes(s)
           \/ call.place \in {"sent", "failed", "done", "reading"}
           \/ call.place \in {"copied", "answered"} /\ call.reply.v >= hist.changed
    PROVE  SInv'
<1>1. /\ DOMAIN reqs' = Slots /\ reqs'[s] = call
      /\ \A t \in Slots : t # s => reqs'[t] = reqs[t]
  BY DEF IInv, CallTypes
<1>2. Copies'
  BY <1>1 DEF SInv, Copies, Copy, Agrees
<1>3. Shown'
  <2>1. CASE hist.doubt \/ (settings # None /\ settings.v >= hist.changed)
    BY <2>1 DEF Shown
  <2>2. ASSUME NEW t \in Slots, Owes(t) PROVE Owes(t)'
    BY <1>1, <2>2 DEF Owes
  <2> QED BY <2>1, <2>2 DEF SInv, Shown
<1> QED BY <1>2, <1>3 DEF SInv

LEMMA ClicksSInv == ASSUME IInv, SInv, Clicks PROVE SInv'
<1>1. ASSUME NEW op, NEW arg, Click(op, arg) PROVE SInv'
  <2>1. PICK s \in Slots : reqs[s] = Idle /\ reqs' = [reqs EXCEPT ![s] = Request(op, arg)]
    BY <1>1 DEF Click
  <2>2. Request(op, arg).place = "sent"
    BY DEF Request, Idle
  <2> QED BY <1>1, <2>1, <2>2, MovesSInv DEF Click, store
<1>2. ASSUME NEW name, NEW now, EditForm(name, now) PROVE SInv'
  BY <1>2 DEF EditForm, store, SInv, Copies, Copy, Agrees, Shown, Owes
<1> QED BY <1>1, <1>2 DEF Clicks, editGlobal, editAccount, updatePort, setAPIEnabled,
           setGlobalThinking, setAccountThinking, resetAccountThinking, createAPIKey, deleteAPIKey

\* A request that is given up leaves a doubt.
LEMMA DoubtSInv ==
    ASSUME IInv, SInv, NEW s \in Slots, reqs' = [reqs EXCEPT ![s] = Idle],
           UNCHANGED <<mem, settings>>, hist'.doubt, hist'.changed = hist.changed,
           hist'.dropped = hist.dropped
    PROVE  SInv'
<1>1. /\ reqs'[s] = Idle /\ Idle.place = "none"
      /\ \A t \in Slots : t # s => reqs'[t] = reqs[t]
  BY DEF IInv, CallTypes, Idle
<1>2. Copies'
  BY <1>1 DEF SInv, Copies, Copy, Agrees
<1> QED BY <1>2 DEF SInv, Shown

LEMMA PanelSInv ==
    ASSUME IInv, SInv, NEW s \in Slots, Refresh(s) \/ SetSettings(s) \/ ReadFails(s) \/ Rejected(s)
    PROVE  SInv'
<1>a. reqs[s] \in Calls /\ reqs \in [Slots -> Calls]
  BY DEF IInv, CallTypes
<1>b. Idle.place = "none"
  BY DEF Idle
<1>1. CASE Refresh(s)
  <2> DEFINE call == [reqs[s] EXCEPT !.place = "reading"]
  <2>1. reqs' = [reqs EXCEPT ![s] = call] /\ call.place = "reading"
    BY <1>1, <1>a DEF Refresh, Calls
  <2> HIDE DEF call
  <2> QED BY <1>1, <2>1, MovesSInv DEF Refresh, store
<1>2. CASE SetSettings(s)
  <2> DEFINE reply == reqs[s].reply
             older == settings # None /\ reply.v < settings.v
             doubt == (hist.doubt \/ older) /\ reply.v < hist.changed
  <2>1. /\ settings' = reply /\ UNCHANGED mem
        /\ reqs[s].place = "answered" /\ reqs' = [reqs EXCEPT ![s] = Idle]
    BY <1>2 DEF SetSettings, store
  <2>2. hist'.doubt = doubt /\ hist'.changed = hist.changed /\ hist'.dropped = hist.dropped
    <3> DEFINE told == hist.told \cup Told(s)
    <3>1. hist' = [hist EXCEPT !.told = told, !.doubt = doubt]
      BY <1>2 DEF SetSettings
    <3> HIDE DEF told, doubt
    <3> QED BY <3>1 DEF IInv, HistTypes
  <2>3. /\ reqs'[s] = Idle /\ \A t \in Slots : t # s => reqs'[t] = reqs[t]
    BY <1>a, <2>1
  <2>4. /\ reply \in AdminSettings /\ reply # None /\ Copy(reply)
        /\ reply.v \in Nat /\ hist.changed \in Nat
    BY <2>1, NoneAssumption DEF IInv, CallTypes, HistTypes, AdminSettings, SInv, Copies
  <2>5. Copies'
    <3>1. ASSUME NEW t \in Slots, t # s, reqs[t].place \in {"copied", "answered"}
          PROVE  Copy(reqs[t].reply)'
      BY <2>1, <2>2, <2>3, <3>1 DEF SInv, Copies, Copy, Agrees
    <3> QED BY <1>b, <2>1, <2>2, <2>3, <2>4, <3>1 DEF SInv, Copies, Copy, Agrees
  <2>6. Shown'
    <3>1. CASE reply.v >= hist.changed
      BY <2>1, <2>2, <2>4, <3>1 DEF Shown
    <3>2. CASE reply.v < hist.changed /\ hist.doubt
      BY <2>2, <3>2 DEF Shown
    <3>3. CASE reply.v < hist.changed /\ settings # None /\ settings.v >= hist.changed
      <4>1. settings.v \in Nat
        BY <3>3 DEF IInv, ShownTypes, AdminSettings
      <4>2. older
        BY <2>4, <3>3, <4>1
      <4> QED BY <2>2, <3>3, <4>2 DEF Shown
    <3>4. ASSUME reply.v < hist.changed, NEW t \in Slots, Owes(t) PROVE Shown'
      <4>1. t # s
        BY <2>1, <2>4, <3>4 DEF Owes
      <4>2. Owes(t)'
        BY <2>2, <2>3, <3>4, <4>1 DEF Owes
      <4> QED BY <4>2 DEF Shown
    <3> QED BY <2>4, <3>1, <3>2, <3>3, <3>4 DEF SInv, Shown
  <2> QED BY <2>5, <2>6 DEF SInv
<1>3. CASE Rejected(s)
  <2>1. hist'.doubt /\ hist'.changed = hist.changed /\ hist'.dropped = hist.dropped
    BY <1>3 DEF Rejected, IInv, HistTypes
  <2> QED BY <1>3, <2>1, DoubtSInv DEF Rejected, store
<1>4. CASE ReadFails(s)
  <2> DEFINE told == hist.told \cup Told(s)
  <2>1. hist' = [hist EXCEPT !.told = told, !.doubt = TRUE]
    BY <1>4 DEF ReadFails
  <2> HIDE DEF told
  <2>2. hist'.doubt /\ hist'.changed = hist.changed /\ hist'.dropped = hist.dropped
    BY <2>1 DEF IInv, HistTypes
  <2> QED BY <1>4, <2>2, DoubtSInv DEF ReadFails, store
<1> QED BY <1>1, <1>2, <1>3, <1>4

\* A change makes every copy older than the memory, and its own answer is still to come.
LEMMA HandleSInv == ASSUME IInv, SInv, NEW s \in Slots, Handle(s) PROVE SInv'
<1> DEFINE op == reqs[s].op
           arg == reqs[s].arg
           removed == hist.removed \cup (IF op = "deleteKey" THEN {arg} ELSE {})
<1>1. PICK saved \in BOOLEAN :
         /\ Change(op, arg, saved)
         /\ reqs' = [reqs EXCEPT ![s].place = IF saved \/ op \in Unchecked THEN "done" ELSE "failed"]
         /\ hist' = [Recorded(saved, removed) EXCEPT !.changed = mem'.v]
  BY DEF Handle
<1>2. op \in ChangeOps /\ Typed(op, arg) /\ StoreTypes /\ reqs \in [Slots -> Calls]
  BY DEF Handle, IInv, CallTypes
<1>3. mem'.v = mem.v + 1 /\ mem.v \in Nat
  BY <1>1, <1>2, ChangeFacts DEF StoreTypes, AdminSettings
<1>c. hist'.changed = mem'.v
  <2> DEFINE acked == IF saved THEN mem'.v ELSE hist.acked
             gone == IF saved THEN removed \ mem'.keys ELSE hist.gone
             changed == mem'.v
  <2>1. hist' = [hist EXCEPT !.acked = acked, !.removed = removed, !.gone = gone, !.changed = changed]
    BY <1>1 DEF Recorded
  <2> HIDE DEF acked, gone, changed, removed
  <2>2. hist'.changed = changed
    BY <2>1 DEF IInv, HistTypes
  <2> QED BY <2>2 DEF changed
<1> DEFINE place == IF saved \/ op \in Unchecked THEN "done" ELSE "failed"
<1>4. place \in {"done", "failed"} /\ reqs' = [reqs EXCEPT ![s].place = place]
  BY <1>1
<1> HIDE DEF place
<1>5. reqs'[s].place = place /\ \A t \in Slots : t # s => reqs'[t] = reqs[t]
  BY <1>2, <1>4 DEF Calls
<1>6. Copies'
  <2>1. ASSUME NEW x, x.v \in Nat, Copy(x) PROVE Copy(x)'
    BY <1>3, <1>c, <2>1 DEF Copy
  <2>2. ASSUME NEW t \in Slots, reqs'[t].place \in {"copied", "answered"}
        PROVE  Copy(reqs[t].reply)' /\ reqs'[t] = reqs[t]
    <3>1. reqs'[t] = reqs[t]
      BY <1>4, <1>5, <2>2
    <3>2. reqs[t].reply.v \in Nat /\ Copy(reqs[t].reply)
      BY <2>2, <3>1 DEF IInv, CallTypes, AdminSettings, SInv, Copies
    <3> QED BY <2>1, <3>1, <3>2 DEF Copy
  <2>3. settings' # None => Copy(settings)'
    <3>1. settings' = settings
      BY DEF Handle
    <3>2. settings # None => settings.v \in Nat /\ Copy(settings)
      BY DEF IInv, ShownTypes, AdminSettings, SInv, Copies
    <3> QED BY <2>1, <3>1, <3>2 DEF Copy
  <2>4. hist'.changed <= mem'.v
    BY <1>3, <1>c
  <2> QED BY <2>2, <2>3, <2>4 DEF Copies, Copy, Agrees
<1>7. Owes(s)'
  BY <1>4, <1>5 DEF Owes
<1> QED BY <1>6, <1>7 DEF SInv, Shown

LEMMA AnswerSInv ==
    ASSUME IInv, SInv, NEW s \in Slots, HandleFails(s) \/ PublicSnapshot(s) \/ Encode(s)
    PROVE  SInv'
<1>1. reqs[s] \in Calls /\ mem \in AdminSettings
  BY DEF IInv, CallTypes, StoreTypes
<1>2. UNCHANGED <<mem, settings, hist>>
  BY DEF HandleFails, PublicSnapshot, Encode, store
<1>3. CASE HandleFails(s)
  <2> DEFINE call == [reqs[s] EXCEPT !.place = "failed"]
  <2>1. reqs' = [reqs EXCEPT ![s] = call] /\ call.place = "failed"
    BY <1>1, <1>3 DEF HandleFails, Calls
  <2> HIDE DEF call
  <2> QED BY <1>2, <2>1, MovesSInv
<1>4. CASE PublicSnapshot(s)
  <2> DEFINE call == [reqs[s] EXCEPT !.place = "copied", !.reply = mem]
  <2>1. reqs' = [reqs EXCEPT ![s] = call] /\ call.place = "copied" /\ call.reply = mem
    BY <1>1, <1>4 DEF PublicSnapshot, Calls
  <2>2. mem.v <= mem.v /\ mem.v >= hist.changed
    BY <1>1 DEF AdminSettings, SInv, Copies, IInv, HistTypes
  <2>3. Agrees(mem)
    BY <1>1 DEF Agrees, AdminSettings
  <2>4. Copy(call.reply)
    BY <2>1, <2>2, <2>3 DEF Copy
  <2> HIDE DEF call
  <2> QED BY <1>2, <2>1, <2>2, <2>4, MovesSInv
<1>5. CASE Encode(s)
  <2> DEFINE old == reqs[s].reply
             reply == [old EXCEPT !.override = mem.override]
             call == [reqs[s] EXCEPT !.place = "answered", !.reply = reply]
  <2>1. reqs[s].place = "copied" /\ old \in AdminSettings /\ Copy(old)
    BY <1>5 DEF Encode, IInv, CallTypes, SInv, Copies
  <2>2. reply.v = old.v /\ reply.override = mem.override
    BY <2>1 DEF AdminSettings
  <2>3. Agrees(old) => Agrees(reply)
    <3>1. SUFFICES ASSUME Agrees(old) PROVE reply = [mem EXCEPT !.override = reply.override, !.v = reply.v]
      BY <2>2 DEF Agrees
    <3>2. old = [mem EXCEPT !.override = old.override, !.v = old.v]
      BY <3>1 DEF Agrees
    <3> QED BY <1>1, <2>1, <3>2 DEF AdminSettings
  <2>4. Copy(reply)
    BY <2>1, <2>2, <2>3 DEF Copy
  <2>5. reqs' = [reqs EXCEPT ![s] = call]
    BY <1>5 DEF Encode
  <2>6. call.place = "answered" /\ call.reply = reply
    BY <1>1 DEF Calls
  <2>7. Owes(s) => old.v >= hist.changed
    BY <2>1 DEF Owes
  <2> HIDE DEF call, reply, old
  <2> QED BY <1>2, <2>2, <2>4, <2>5, <2>6, <2>7, MovesSInv
<1> QED BY <1>3, <1>4, <1>5

\* An override that is dropped behind the panel's back makes no copy older than the last change
\* that was asked for.
LEMMA OthersSInv == ASSUME IInv, SInv, removeAccount \/ finishMigration PROVE SInv'
<1>1. UNCHANGED <<settings, reqs>>
  BY DEF removeAccount, finishMigration, Unasked
<1>2. hist'.doubt = hist.doubt /\ hist'.changed = hist.changed
  BY DEF removeAccount, finishMigration, Recorded, IInv, HistTypes
<1>3. Shown'
  BY <1>1, <1>2 DEF SInv, Shown, Owes
<1>4. CASE removeAccount
  <2>1. PICK saved \in BOOLEAN :
           /\ SetAccountThinking(Inherit, saved)
           /\ hist' = [Recorded(saved, hist.removed) EXCEPT !.dropped = mem'.v]
    BY <1>4 DEF removeAccount
  <2> DEFINE n == mem.v + 1
  <2>2. mem' = [mem EXCEPT !.override = Inherit, !.v = n]
    BY <2>1 DEF SetAccountThinking
  <2>3. mem \in AdminSettings /\ n \in Nat /\ mem.v \in Nat /\ mem.v < n
    BY DEF IInv, StoreTypes, AdminSettings
  <2> HIDE DEF n
  <2>4. mem'.v = n
    BY <2>2, <2>3 DEF AdminSettings
  <2>5. hist'.dropped = n
    <3> DEFINE acked == IF saved THEN mem'.v ELSE hist.acked
               gone == IF saved THEN hist.removed \ mem'.keys ELSE hist.gone
               dropped == mem'.v
    <3>1. hist' = [hist EXCEPT !.acked = acked, !.removed = hist.removed, !.gone = gone, !.dropped = dropped]
      BY <2>1 DEF Recorded
    <3> HIDE DEF acked, gone, dropped
    <3>2. hist'.dropped = dropped
      BY <3>1 DEF IInv, HistTypes
    <3> QED BY <2>4, <3>2 DEF dropped
  <2>6. ASSUME NEW x \in AdminSettings, Copy(x)
        PROVE  /\ x.v <= mem'.v
               /\ x.v >= hist'.changed => /\ x = [mem' EXCEPT !.override = x.override, !.v = x.v]
                                          /\ x.v < hist'.dropped
    <3>1. x.v \in Nat /\ x.v <= mem.v
      BY <2>6 DEF AdminSettings, Copy
    <3>2. x.v <= mem'.v /\ x.v < hist'.dropped
      BY <2>3, <2>4, <2>5, <3>1
    <3>3. ASSUME x.v >= hist'.changed PROVE x = [mem' EXCEPT !.override = x.override, !.v = x.v]
      <4>1. x = [mem EXCEPT !.override = x.override, !.v = x.v]
        BY <1>2, <2>6, <3>3 DEF Copy, Agrees
      <4> QED BY <2>2, <2>3, <4>1 DEF AdminSettings
    <3> QED BY <3>2, <3>3
  <2>7. settings # None => settings \in AdminSettings /\ Copy(settings)
    BY DEF IInv, ShownTypes, SInv, Copies
  <2>8. \A s \in Slots : reqs[s].place \in {"copied", "answered"} =>
            reqs[s].reply \in AdminSettings /\ Copy(reqs[s].reply)
    BY DEF IInv, CallTypes, SInv, Copies
  <2>9. hist'.changed <= mem'.v
    <3>1. hist.changed \in Nat /\ hist.changed <= mem.v
      BY DEF IInv, HistTypes, SInv, Copies
    <3> QED BY <1>2, <2>3, <2>4, <3>1
  <2>10. Copies'
    BY <1>1, <2>6, <2>7, <2>8, <2>9 DEF Copies, Copy, Agrees
  <2> QED BY <1>3, <2>10 DEF SInv
<1>5. CASE finishMigration
  <2>1. mem' = mem /\ hist'.dropped = hist.dropped
    BY <1>5 DEF finishMigration, MarkMigrationCompleted, Recorded, IInv, HistTypes
  <2>2. Copies'
    BY <1>1, <1>2, <2>1 DEF SInv, Copies, Copy, Agrees
  <2> QED BY <1>3, <2>2 DEF SInv
<1> QED BY <1>4, <1>5

LEMMA NextSInv == IInv /\ SInv /\ [Next]_vars => SInv'
<1> SUFFICES ASSUME IInv, SInv, [Next]_vars PROVE SInv'
  OBVIOUS
<1>1. CASE Clicks
  BY <1>1, ClicksSInv
<1>2. CASE Restart
  <2>1. reqs' = FirstRead /\ settings' = None /\ mem' = disk
    BY <1>2 DEF Restart, NewAdminStore
  <2>2. PICK s \in Slots : s = CHOOSE t \in Slots : TRUE
    BY SlotsAssumption
  <2>3. FirstRead[s].place = "reading"
    BY <2>2 DEF FirstRead, Request, Idle
  <2>4. hist'.changed = 0 /\ mem'.v \in Nat
    BY <1>2, <2>1 DEF Restart, IInv, HistTypes, StoreTypes, AdminSettings
  <2> QED BY <2>1, <2>3, <2>4, FirstReadFacts DEF SInv, Copies, Shown, Owes
<1>3. ASSUME NEW s \in Slots, Refresh(s) \/ SetSettings(s) \/ ReadFails(s) \/ Rejected(s) PROVE SInv'
  BY <1>3, PanelSInv
<1>4. ASSUME NEW s \in Slots, Handle(s) PROVE SInv'
  BY <1>4, HandleSInv
<1>5. ASSUME NEW s \in Slots, HandleFails(s) \/ PublicSnapshot(s) \/ Encode(s) PROVE SInv'
  BY <1>5, AnswerSInv
<1>6. CASE UNCHANGED vars
  BY <1>6 DEF vars, store, SInv, Copies, Copy, Agrees, Shown, Owes
<1>7. CASE removeAccount \/ finishMigration
  BY <1>7, OthersSInv
<1> QED BY <1>1, <1>2, <1>3, <1>4, <1>5, <1>6, <1>7 DEF Next

\* With nothing under way the panel shows what the proxy has, but for the override of an account
\* that was removed since, unless a change was refused, a read failed, or an older answer came
\* last, although nothing polls the settings (use-settings.ts:18, 20, server.go:1226).
THEOREM ShownWhenQuiet == Spec => []ShownIsTrue
<1>1. SInv => ShownIsTrue
  <2> SUFFICES ASSUME SInv, \A s \in Slots : reqs[s] = Idle, ~hist.doubt
               PROVE  settings # None /\ Agrees(settings)
    BY DEF ShownIsTrue, Agrees
  <2>1. \A s \in Slots : ~Owes(s)
    BY DEF Owes, Idle
  <2>2. settings # None /\ settings.v >= hist.changed
    BY <2>1 DEF SInv, Shown
  <2> QED BY <2>2 DEF SInv, Copies, Copy
<1>2. Spec => []SInv
  BY InitSInv, NextSInv, SettingsInvariant, PTL DEF Spec
<1> QED BY <1>1, <1>2, PTL
=============================================================================
