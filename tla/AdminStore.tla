------------------------------ MODULE AdminStore ------------------------------
(***************************************************************************)
(* The settings of the proxy, internal/state/admin.go: a copy in memory    *)
(* and the file.  Every operation changes the copy first and then writes   *)
(* all of it to a temporary file that is renamed, which may fail.          *)
(***************************************************************************)
EXTENDS Naturals, FiniteSets

CONSTANTS
    Ports, Levels,  \* ports and thinking settings the user chooses from
    Keys,           \* API keys, by the random secret each is made with
    Inherit         \* no override of the thinking settings for the account

ASSUME StoreAssumption ==
    /\ IsFiniteSet(Keys) /\ Inherit \notin Levels
    /\ Ports # {} /\ Levels # {}

VARIABLES
    mem, disk,      \* AdminSettings, with the number of its last change
    drawn           \* the keys that were ever made
store == <<mem, disk, drawn>>

AdminSettings == [port : Ports, api : BOOLEAN, thinking : Levels, override : Levels \cup {Inherit},
                  keys : SUBSET Keys, v : Nat]

StoreInit ==
    /\ mem = [port |-> CHOOSE p \in Ports : TRUE, api |-> TRUE, thinking |-> CHOOSE l \in Levels : TRUE,
              override |-> Inherit, keys |-> {}, v |-> 0]
    /\ disk = mem /\ drawn = {}

saveLocked(saved) == disk' = IF saved THEN mem' ELSE disk

SetPort(port, saved) ==
    /\ mem' = [mem EXCEPT !.port = port, !.v = @ + 1]
    /\ saveLocked(saved) /\ UNCHANGED drawn

SetAPIEnabled(enabled, saved) ==
    /\ mem' = [mem EXCEPT !.api = enabled, !.v = @ + 1]
    /\ saveLocked(saved) /\ UNCHANGED drawn

SetGlobalThinking(level, saved) ==
    /\ mem' = [mem EXCEPT !.thinking = level, !.v = @ + 1]
    /\ saveLocked(saved) /\ UNCHANGED drawn

\* Also with Inherit, which removes the override.
SetAccountThinking(level, saved) ==
    /\ mem' = [mem EXCEPT !.override = level, !.v = @ + 1]
    /\ saveLocked(saved) /\ UNCHANGED drawn

\* Changes nothing that is modelled, but writes what earlier saves have failed to write.
MarkMigrationCompleted(saved) == UNCHANGED <<mem, drawn>> /\ saveLocked(saved)

MutCreateAPIKey(key, saved) ==  \* saves before it adds the key
    /\ key \notin drawn /\ drawn' = drawn \cup {key}
    /\ mem' = [mem EXCEPT !.keys = @ \cup {key}, !.v = @ + 1]
    /\ disk' = IF saved THEN [mem EXCEPT !.v = @ + 1] ELSE disk

\* The key is in memory also when saving it fails and its secret is never told.
CreateAPIKey(key, saved) ==
    /\ key \notin drawn /\ drawn' = drawn \cup {key}
    /\ mem' = [mem EXCEPT !.keys = @ \cup {key}, !.v = @ + 1]
    /\ saveLocked(saved)

DeleteAPIKey(key, saved) ==
    /\ key \in mem.keys
    /\ mem' = [mem EXCEPT !.keys = @ \ {key}, !.v = @ + 1]
    /\ saveLocked(saved) /\ UNCHANGED drawn

ValidateAPIKey(key) == mem.keys = {} \/ key \in mem.keys

\* The process starts again from the file.
NewAdminStore == mem' = disk /\ UNCHANGED <<disk, drawn>>
=============================================================================
