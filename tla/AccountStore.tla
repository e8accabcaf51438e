---------------------------- MODULE AccountStore ----------------------------
(***************************************************************************)
(* The credential vault (internal/accounts/store.go): the list of Z.ai     *)
(* accounts in memory, the active account, and the encrypted file that     *)
(* holds a copy of both.  Every method changes memory first, under s.mu,   *)
(* and then saves; when the save fails the method returns the error and    *)
(* memory keeps the change, so memory and file drift apart.                *)
(*                                                                         *)
(* An account is its id, its RegistrationOrder and the secrets that a      *)
(* later login may not bring again: "zai" (ZAIAcccessToken) and "plan"     *)
(* (CodingPlanAPIKey).  Encryption, the user's profile and the timestamps  *)
(* are left out; writing the file is one step, because saveLocked writes   *)
(* a temporary file and renames it.                                        *)
(***************************************************************************)
EXTENDS Naturals, Sequences, Functions

CONSTANTS Ids,          \* the account ids
          NoId,         \* activeAccountId when no account is saved
          NoFile,       \* the file has never been written
          Secrets,      \* the optional secrets that are modelled
          MaxOrder,     \* bound on RegistrationOrder, not in the code
          MaxSaved      \* bound on the number of saved accounts, not in the code

ASSUME NoIdIsNoId == NoId \notin Ids
ASSUME SecretsKnown == Secrets \subseteq {"zai", "plan"}

VARIABLES
    mem,        \* s.data
    disk,       \* the file, or NoFile
    up,         \* the program runs
    reply       \* the outcome of the last method call

vars == <<mem, disk, up, reply>>

Account == [id : Ids, order : Nat, secrets : SUBSET Secrets]

\* torn is history: a Reorder that was refused has changed some order since the
\* last Reorder that was accepted.
Data == [list : Seq(Account), active : Ids \cup {NoId}, torn : BOOLEAN]

\* In memory every account has a number from 1 on; 0 marks an account of an older file.
TypeOK ==
    /\ mem \in Data
    /\ \A i \in DOMAIN mem.list : mem.list[i].order > 0
    /\ disk \in Data \cup {NoFile}
    /\ up \in BOOLEAN
    /\ reply \in {"none", "ok", "failed", "refused"}

Empty == [list |-> <<>>, active |-> NoId, torn |-> FALSE]

IdsOf(list) == {list[i].id : i \in DOMAIN list}

IndexOf(list, a) == CHOOSE i \in DOMAIN list : list[i].id = a

\* An older version of the program wrote accounts that had no order yet.
LegacyLists ==
    {[i \in DOMAIN s |-> [id |-> s[i], order |-> 0, secrets |-> {}]] :
        s \in UNION {Injection(1 .. n, Ids) : n \in 1 .. MaxSaved}}

\* The program has not started yet and finds no file, or that of an older version.
Init ==
    /\ mem = Empty
    /\ \/ disk = NoFile
       \/ \E list \in LegacyLists : \E a \in IdsOf(list) :
              disk = [list |-> list, active |-> a, torn |-> FALSE]
    /\ up = FALSE
    /\ reply = "none"

-----------------------------------------------------------------------------
\* saveLocked, the last call of every method that changes the store.
SaveLocked(data) ==
    /\ mem' = data
    /\ \/ disk' = data /\ reply' = "ok"
       \/ UNCHANGED disk /\ reply' = "failed"
    /\ UNCHANGED up

MaxOf(list) ==
    CHOOSE n \in {0} \cup {list[i].order : i \in DOMAIN list} :
        \A i \in DOMAIN list : list[i].order <= n

\* The bounds: a known account may always log in again.
HasRoom(a) ==
    \/ a \in IdsOf(mem.list)
    \/ MaxOf(mem.list) < MaxOrder /\ Len(mem.list) < MaxSaved

MutUpsert(a, fresh) ==      \* a new login replaces the account as a whole
    LET old == IndexOf(mem.list, a)
        list == IF a \in IdsOf(mem.list)
                THEN [mem.list EXCEPT ![old].secrets = fresh]
                ELSE Append(mem.list, [id |-> a, order |-> MaxOf(mem.list) + 1,
                                       secrets |-> fresh])
    IN  /\ up
        /\ HasRoom(a)
        /\ fresh \subseteq {"zai"}
        /\ SaveLocked([mem EXCEPT !.list = list,
                                  !.active = IF @ = NoId THEN a ELSE @])

MutUpsertOrder(a, fresh) ==      \* numbers a new account by the length of the list
    LET old == IndexOf(mem.list, a)
        list == IF a \in IdsOf(mem.list)
                THEN [mem.list EXCEPT ![old].secrets = @ \cup fresh]
                ELSE Append(mem.list, [id |-> a, order |-> Len(mem.list) + 1,
                                       secrets |-> fresh])
    IN  /\ up
        /\ HasRoom(a)
        /\ fresh \subseteq {"zai"}
        /\ SaveLocked([mem EXCEPT !.list = list,
                                  !.active = IF @ = NoId THEN a ELSE @])

\* A login saves an account, with or without an access token.  A new account goes
\* behind the others; a known one keeps its order and the secrets that the login
\* does not bring.
Upsert(a, fresh) ==
    LET old == IndexOf(mem.list, a)
        list == IF a \in IdsOf(mem.list)
                THEN [mem.list EXCEPT ![old].secrets = @ \cup fresh]
                ELSE Append(mem.list, [id |-> a, order |-> MaxOf(mem.list) + 1,
                                       secrets |-> fresh])
    IN  /\ up
        /\ HasRoom(a)
        /\ fresh \subseteq {"zai"}
        /\ SaveLocked([mem EXCEPT !.list = list,
                                  !.active = IF @ = NoId THEN a ELSE @])

\* An empty key clears the stored one.
UpdateCodingPlanAPIKey(a, isKey) ==
    /\ up
    /\ "plan" \in Secrets
    /\ a \in IdsOf(mem.list)
    /\ SaveLocked([mem EXCEPT !.list[IndexOf(mem.list, a)].secrets =
                       IF isKey THEN @ \cup {"plan"} ELSE @ \ {"plan"}])

MutActivate(a) ==       \* reports success before it saves
    /\ up
    /\ a \in IdsOf(mem.list)
    /\ mem' = [mem EXCEPT !.active = a]
    /\ reply' = "ok"
    /\ UNCHANGED <<disk, up>>

Activate(a) ==
    /\ up
    /\ a \in IdsOf(mem.list)
    /\ SaveLocked([mem EXCEPT !.active = a])

\* Reorder with the ids of all saved accounts.  A list of another length, or one that
\* names an account twice, is refused before anything changes.
ReorderAll(order) ==
    /\ up
    /\ IdsOf(mem.list) = Range(order)
    /\ SaveLocked([mem EXCEPT
           !.list = [i \in DOMAIN order |->
                         [mem.list[IndexOf(mem.list, order[i])] EXCEPT !.order = i]],
           !.torn = FALSE])

\* Reorder with as many distinct ids, one of them not saved: the loop that assigns
\* the new orders stops at the first account that is not listed, and the orders it
\* has assigned before stay.  Nothing is sorted and nothing is saved.
ReorderUnknown(order) ==
    LET listed(i) == mem.list[i].id \in Range(order)
        place(i) == CHOOSE n \in DOMAIN order : order[n] = mem.list[i].id
        reached == {i \in DOMAIN mem.list : \A j \in 1 .. i : listed(j)}
    IN  /\ up
        /\ IdsOf(mem.list) # Range(order)
        /\ mem' = [mem EXCEPT
               !.list = [i \in DOMAIN @ |->
                   IF i \in reached THEN [@[i] EXCEPT !.order = place(i)] ELSE @[i]],
               !.torn = @ \/ reached # {}]
        /\ reply' = "refused"
        /\ UNCHANGED <<disk, up>>

\* The loop that filters the list in place: kept[i] is what it has kept of the first i.
Without(list, a) ==
    LET kept[i \in 0 .. Len(list)] ==
            IF i = 0 THEN <<>>
            ELSE IF list[i].id = a THEN kept[i - 1] ELSE Append(kept[i - 1], list[i])
    IN  kept[Len(list)]

MutRemove(a) ==      \* leaves the active id alone
    /\ up
    /\ a \in IdsOf(mem.list)
    /\ SaveLocked([mem EXCEPT !.list = Without(@, a)])

\* Remove: the account goes, and the first of the rest becomes active if it was.
Remove(a) ==
    LET rest == Without(mem.list, a)
    IN  /\ up
        /\ a \in IdsOf(mem.list)
        /\ SaveLocked([mem EXCEPT
               !.list = rest,
               !.active = IF @ # a THEN @ ELSE IF rest = <<>> THEN NoId ELSE rest[1].id])

\* Remove copies the file first; when it cannot, nothing is removed.
RemoveBackupFails(a) ==
    /\ up
    /\ a \in IdsOf(mem.list)
    /\ disk # NoFile
    /\ reply' = "failed"
    /\ UNCHANGED <<mem, disk, up>>

\* The program ends or is killed; memory is lost.
Crash ==
    /\ up
    /\ up' = FALSE
    /\ mem' = Empty
    /\ reply' = "none"
    /\ UNCHANGED disk

MutNumbered(list) == list      \* forgets the migration

\* load gives an account without an order the next one that is free.
Numbered(list) ==
    LET next[i \in 0 .. Len(list)] ==
            IF i = 0 THEN 0
            ELSE IF list[i].order = 0 THEN next[i - 1] + 1
            ELSE IF list[i].order > next[i - 1] THEN list[i].order ELSE next[i - 1]
    IN  [i \in DOMAIN list |-> [list[i] EXCEPT !.order = IF @ = 0 THEN next[i] ELSE @]]

\* NewStore: an older file is numbered and saved again; if that fails NewStore
\* fails, and the program does not start.
NewStore ==
    LET data == IF disk = NoFile THEN Empty ELSE [disk EXCEPT !.list = Numbered(@)]
    IN  /\ ~up
        /\ mem' = data
        /\ \/ /\ disk \in {NoFile, data}
              /\ up' = TRUE
              /\ UNCHANGED disk
           \/ /\ disk \notin {NoFile, data}
              /\ disk' = data
              /\ up' = TRUE
        /\ reply' = "none"

Next ==
    \/ \E a \in Ids :
          \/ \E fresh \in SUBSET (Secrets \cap {"zai"}) : Upsert(a, fresh)
          \/ \E isKey \in BOOLEAN : UpdateCodingPlanAPIKey(a, isKey)
          \/ Activate(a) \/ Remove(a) \/ RemoveBackupFails(a)
    \/ \E order \in Injection(1 .. Len(mem.list), Ids) : ReorderAll(order) \/ ReorderUnknown(order)
    \/ Crash \/ NewStore

Spec == Init /\ [][Next]_vars

-----------------------------------------------------------------------------
\* No account is saved twice, and the list is in the order the panel shows, with a
\* number of its own ("Conta 1", "Conta 2") for every account: so the account that
\* Remove makes active, the first of the list, is the first of the queue.  Only a
\* refused Reorder disturbs it, until the next accepted one.
Ordered(data) ==
    /\ \A i, j \in DOMAIN data.list : data.list[i].id = data.list[j].id => i = j
    /\ ~data.torn => \A i, j \in DOMAIN data.list :
                         i < j => data.list[i].order < data.list[j].order

QueueOrder == up => Ordered(mem)

\* What a method has acknowledged is in the file: a crash does not undo it.
AckedIsOnDisk == up /\ reply = "ok" => disk = mem

\* A login or a change of another account never loses a secret: it goes with its
\* account, with the cleared Coding Plan key, or with a restart from an older file.
SecretsOf(a) == IF a \in IdsOf(mem.list) THEN mem.list[IndexOf(mem.list, a)].secrets ELSE {}

SecretsKept ==
    [][up /\ up' => \A a \in Ids :
          \/ SecretsOf(a) \subseteq SecretsOf(a)'
          \/ a \notin IdsOf(mem'.list)
          \/ UpdateCodingPlanAPIKey(a, FALSE)]_vars

\* The store implements the set of accounts that the dispatcher relies on.
Promise == INSTANCE AccountSet WITH ids <- IdsOf(mem.list), active <- mem.active

KeepsPromise == Promise!SetSpec

\* "Conta 1", "Conta 2": docs/API.md says that the saved order defines the labels.
\* Two accounts share a label after a Reorder that was refused half-way.
LabelsDistinct ==
    \A i, j \in DOMAIN mem.list : mem.list[i].order = mem.list[j].order => i = j
=============================================================================
