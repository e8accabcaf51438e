----------------------------- MODULE PanelSettings -----------------------------
(***************************************************************************)
(* The settings of the panel, hooks/use-settings.ts and the dialogs that   *)
(* use it, with the handlers of the proxy over AdminStore.  Nothing polls  *)
(* the settings: the panel shows what its last answer said, and answers of *)
(* overlapping requests come in any order.                                 *)
(***************************************************************************)
EXTENDS AdminStore

CONSTANTS
    None,
    Slots,          \* bound: requests under way
    MaxClicks,      \* bound: clicks of the user
    MaxRepairs,     \* bound: changes of the settings that the panel does not ask for
    MaxRestarts     \* bound: restarts of the application

ASSUME NoneAssumption == None \notin AdminSettings
ASSUME SlotsAssumption == Slots # {}      \* the panel starts with a request under way

VARIABLES
    settings,       \* useSettings: the settings that are shown, None before the first answer
    form,           \* what the user has entered and not saved, None where a form shows the settings
    newSecret,      \* the key whose secret the API dialog shows
    reqs,           \* requests under way, by slot
    left,           \* bounds: clicks, repairs and restarts left
    hist            \* history, for the properties

vars == <<store, settings, form, newSecret, reqs, left, hist>>

Idle == [op |-> "none", arg |-> None, place |-> "none", reply |-> None]
Request(op, arg) == [Idle EXCEPT !.op = op, !.arg = arg, !.place = "sent"]
FirstRead == [s \in Slots |-> IF s = CHOOSE t \in Slots : TRUE
                              THEN [Request("refresh", None) EXCEPT !.place = "reading"] ELSE Idle]

Untouched == [global |-> None, account |-> None]

Init ==
    /\ StoreInit
    /\ settings = None /\ form = Untouched /\ newSecret = None
    /\ reqs = FirstRead
    /\ left = [clicks |-> MaxClicks, repairs |-> MaxRepairs, restarts |-> MaxRestarts]
    /\ hist = [acked |-> 0, told |-> {}, removed |-> {}, gone |-> {},
               doubt |-> FALSE, changed |-> 0, dropped |-> 0]

-----------------------------------------------------------------------------
(* The panel *)

\* A control is disabled while its own request is under way; those of port, deletion and the
\* API switch on the page are not.  Dialogs can be closed meanwhile: other controls are free.
Control == [createKey |-> "dialog", thinking |-> "thinking", account |-> "account", reset |-> "account"]

Enabled(op) ==
    op \in DOMAIN Control =>
        \A s \in Slots : reqs[s].op \in DOMAIN Control => Control[reqs[s].op] # Control[op]

Click(op, arg) ==
    /\ left.clicks > 0 /\ Enabled(op)
    /\ \E s \in Slots : reqs[s] = Idle /\ reqs' = [reqs EXCEPT ![s] = Request(op, arg)]
    /\ left' = [left EXCEPT !.clicks = @ - 1]
    /\ UNCHANGED <<store, settings, form, newSecret, hist>>

DEFAULT_THINKING == CHOOSE l \in Levels : TRUE

\* What applies to the account, as its card sees it: the card is there without the settings.
effectiveOf(shown) ==
    CASE shown = None               -> DEFAULT_THINKING
      [] shown # None /\ shown.override # Inherit -> shown.override
      [] OTHER                      -> shown.thinking

\* The switch, the level and the budget of the two forms, also while a save is under way.
EditForm(name, now) ==
    /\ \E l \in Levels : form' = [form EXCEPT ![name] = IF l = now THEN None ELSE l]
    /\ UNCHANGED <<store, settings, newSecret, reqs, left, hist>>

editGlobal == settings # None /\ EditForm("global", settings.thinking)
editAccount == EditForm("account", effectiveOf(settings))

updatePort == settings # None /\ \E p \in Ports : Click("port", p)
setAPIEnabled == settings # None /\ Click("api", ~settings.api)
setGlobalThinking == form.global # None /\ Click("thinking", form.global)
setAccountThinking == form.account # None /\ Click("account", form.account)
resetAccountThinking == settings # None /\ settings.override # Inherit /\ Click("reset", Inherit)
createAPIKey == settings # None /\ \E k \in Keys \ drawn : Click("createKey", k)
deleteAPIKey == settings # None /\ \E k \in settings.keys : Click("deleteKey", k)

Clicks == editGlobal \/ editAccount \/ updatePort \/ setAPIEnabled \/ setGlobalThinking \/ setAccountThinking
          \/ resetAccountThinking \/ createAPIKey \/ deleteAPIKey

Patches == {"port", "api"}  \* their answer carries the settings

MutRefresh(s) ==    \* trusts the answer of the change, and reads nothing
    /\ reqs[s].place = "done" /\ reqs[s].op \notin Patches
    /\ reqs' = [reqs EXCEPT ![s] = Idle]
    /\ UNCHANGED <<store, settings, form, newSecret, left, hist>>

\* The other changes are answered without them, and are followed by a read.
Refresh(s) ==
    /\ reqs[s].place = "done" /\ reqs[s].op \notin Patches
    /\ reqs' = [reqs EXCEPT ![s].place = "reading"]
    /\ UNCHANGED <<store, settings, form, newSecret, left, hist>>

\* Every answer resets the form of the settings dialog, whose effect depends on the object,
\* and the form of the card only if what applies to the account has changed.
FormAfter(shown) ==
    [global  |-> None,
     account |-> IF effectiveOf(shown) = effectiveOf(settings) THEN form.account ELSE None]

\* The user is shown the secret of a new key.
Told(s) == IF reqs[s].op = "createKey" THEN {reqs[s].arg} ELSE {}
ShowSecret(s) == newSecret' = IF Told(s) = {} THEN newSecret ELSE reqs[s].arg

\* The answer that carries the settings is shown, also when a later one was shown before.
SetSettings(s) ==
    LET reply == reqs[s].reply
        older == settings # None /\ reply.v < settings.v
    IN  /\ reqs[s].place = "answered"
        /\ settings' = reply /\ form' = FormAfter(reply) /\ ShowSecret(s)
        /\ reqs' = [reqs EXCEPT ![s] = Idle]
        /\ hist' = [hist EXCEPT !.told = @ \cup Told(s),
                                !.doubt = (@ \/ older) /\ reply.v < hist.changed]
        /\ UNCHANGED <<store, left>>

\* refresh catches the failure of the read: the settings stay what they were, the change counts
\* as done, and nothing shows the error.
ReadFails(s) ==
    /\ reqs[s].place = "reading"
    /\ ShowSecret(s)
    /\ reqs' = [reqs EXCEPT ![s] = Idle]
    /\ hist' = [hist EXCEPT !.told = @ \cup Told(s), !.doubt = TRUE]
    /\ UNCHANGED <<store, settings, form, left>>

\* The change is refused, and not followed by a read; the settings stay what they were.
Rejected(s) ==
    /\ reqs[s].place = "failed"
    /\ reqs' = [reqs EXCEPT ![s] = Idle]
    /\ hist' = [hist EXCEPT !.doubt = TRUE]
    /\ UNCHANGED <<store, settings, form, newSecret, left>>

-----------------------------------------------------------------------------
(* The handlers of the proxy, internal/api/server.go *)

\* Whether the file could be written is not looked at where a key or an override is removed.
Unchecked == {"deleteKey", "reset"}

Change(op, arg, saved) ==
    CASE op = "port"      -> SetPort(arg, saved)
      [] op = "api"       -> SetAPIEnabled(arg, saved)
      [] op = "thinking"  -> SetGlobalThinking(arg, saved)
      [] op = "account"   -> SetAccountThinking(arg, saved)
      [] op = "reset"     -> SetAccountThinking(Inherit, saved)
      [] op = "createKey" -> CreateAPIKey(arg, saved)
      [] op = "deleteKey" -> DeleteAPIKey(arg, saved)

\* What the history keeps of a save, after the given keys were removed.
Recorded(saved, removed) ==
    [hist EXCEPT !.acked = IF saved THEN mem'.v ELSE @, !.removed = removed,
                 !.gone = IF saved THEN removed \ mem'.keys ELSE @]

Handle(s) ==
    LET op == reqs[s].op
        arg == reqs[s].arg
        removed == hist.removed \cup (IF op = "deleteKey" THEN {arg} ELSE {})
    IN  /\ reqs[s].place = "sent"
        /\ \E saved \in BOOLEAN :
              /\ Change(op, arg, saved)
              /\ reqs' = [reqs EXCEPT ![s].place = IF saved \/ op \in Unchecked THEN "done" ELSE "failed"]
              /\ hist' = [Recorded(saved, removed) EXCEPT !.changed = mem'.v]
        /\ UNCHANGED <<settings, form, newSecret, left>>

\* A second deletion of the same key; an override for an account that is no longer saved.
HandleFails(s) ==
    /\ reqs[s].place = "sent"
    /\ \/ reqs[s].op = "deleteKey" /\ reqs[s].arg \notin mem.keys
       \/ reqs[s].op = "account"
    /\ reqs' = [reqs EXCEPT ![s].place = "failed"]
    /\ UNCHANGED <<store, settings, form, newSecret, left, hist>>

\* Changes that the hook did not ask for, and after which nothing reads the settings: deleting
\* the account, in the panel or by its repair, removes its override, and the repair marks its
\* migration.  Whether the file could be written is not looked at.
Unasked ==
    /\ left.repairs > 0 /\ left' = [left EXCEPT !.repairs = @ - 1]
    /\ UNCHANGED <<settings, form, newSecret, reqs>>

removeAccount ==
    /\ Unasked
    /\ \E saved \in BOOLEAN :
          /\ SetAccountThinking(Inherit, saved)
          /\ hist' = [Recorded(saved, hist.removed) EXCEPT !.dropped = mem'.v]

finishMigration ==
    /\ Unasked
    /\ \E saved \in BOOLEAN :
          MarkMigrationCompleted(saved) /\ hist' = Recorded(saved, hist.removed)

\* PublicSnapshot copies everything under the lock except the map of overrides, which is
\* encoded after the lock is released and so is read later than the rest.  (A change of the
\* map just then may also end the process: Restart.)
PublicSnapshot(s) ==
    /\ reqs[s].place = "reading" \/ (reqs[s].place = "done" /\ reqs[s].op \in Patches)
    /\ reqs' = [reqs EXCEPT ![s].place = "copied", ![s].reply = mem]
    /\ UNCHANGED <<store, settings, form, newSecret, left, hist>>

MutEncode(s) ==     \* the map has become null
    /\ reqs[s].place = "copied"
    /\ reqs' = [reqs EXCEPT ![s].place = "answered", ![s].reply.override = None]
    /\ UNCHANGED <<store, settings, form, newSecret, left, hist>>

Encode(s) ==
    /\ reqs[s].place = "copied"
    /\ reqs' = [reqs EXCEPT ![s].place = "answered", ![s].reply.override = mem.override]
    /\ UNCHANGED <<store, settings, form, newSecret, left, hist>>

\* The application, panel and proxy, ends and starts again.
Restart ==
    /\ left.restarts > 0 /\ left' = [left EXCEPT !.restarts = @ - 1]
    /\ NewAdminStore
    /\ settings' = None /\ form' = Untouched /\ newSecret' = None /\ reqs' = FirstRead
    /\ hist' = [hist EXCEPT !.doubt = FALSE, !.changed = 0, !.dropped = 0]

Next ==
    \/ Clicks \/ removeAccount \/ finishMigration \/ Restart
    \/ \E s \in Slots : \/ Refresh(s) \/ SetSettings(s) \/ ReadFails(s) \/ Rejected(s)
                        \/ Handle(s) \/ HandleFails(s) \/ PublicSnapshot(s) \/ Encode(s)

Spec == Init /\ [][Next]_vars

-----------------------------------------------------------------------------
TypeOK ==
    /\ mem \in AdminSettings /\ disk \in AdminSettings
    /\ disk.v <= mem.v /\ mem.keys \cup disk.keys \subseteq drawn /\ drawn \subseteq Keys
    /\ settings = None \/ settings \in AdminSettings
    /\ form.global \in (IF settings = None THEN {} ELSE Levels \ {settings.thinking}) \cup {None}
    /\ form.account \in (Levels \ {effectiveOf(settings)}) \cup {None}
    /\ newSecret \in Keys \cup {None}

\* With nothing under way the panel shows what the proxy has, although nothing polls it and
\* other parts of the program change it as well, except for the override of an account that was
\* removed since (server.go:1226).  Where the panel may be wrong, a change was refused, a read
\* failed, or an older answer came last (use-settings.ts:18, 20), and no answer since then was up
\* to date.
ShownIsTrue ==
    (\A s \in Slots : reqs[s] = Idle) /\ ~hist.doubt =>
        /\ settings # None
        /\ settings = [mem EXCEPT !.override = settings.override, !.v = settings.v]
        /\ settings.override = mem.override \/ settings.v < hist.dropped

\* What the panel was told stays so, whatever failed before and after it and over restarts: a
\* change that was acknowledged as saved is in the file; a key whose secret was shown opens the
\* API until the user deletes it; a key whose deletion reached the file never opens it again
\* (admin.go:186, 207, 235).
HoldsAsTold ==
    /\ disk.v >= hist.acked
    /\ hist.told \ hist.removed \subseteq mem.keys
    /\ \A k \in hist.gone : ValidateAPIKey(k) => mem.keys = {}
=============================================================================
