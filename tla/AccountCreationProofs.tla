----------------------- MODULE AccountCreationProofs -----------------------
(***************************************************************************)
(* Theorems about the account-creator script, for every supply of          *)
(* addresses and every size of a batch.                                    *)
(***************************************************************************)
EXTENDS AccountCreation, FiniteSetTheorems, TLAPS

\* Where the process has no address reserved.
Calm == {"off", "launch", "mail", "catch", "close"}

\* Where it has, and its account is not finished.
Held == {"inbox", "form", "health", "start", "solve", "job", "create", "verify", "open",
         "complete", "link", "consent", "poll", "listed", "plan", "done"}

Proc == [at : Calm \cup {"reserve"} \cup Held, left : 0..MaxAccounts, link : BOOLEAN,
         email : Emails \cup {NoEmail}, number : Nat, tries : 0..(MaxAttempts - 1),
         started : {"no", "pending", "done"}, dir : 0..(Workdirs + 1), ok : BOOLEAN]

\* The captcha API, and what it may say of the job.
Jobs == {"none", "running", "succeeded", "failed", "gone"}
Api == [up : BOOLEAN, job : Jobs]

Entry == [status : Statuses, number : Nat]

Store == [emails : [Emails -> Entry], contas_criadas : 0..Cardinality(Emails)]

Types ==
    /\ file = Torn \/ file \in Store
    /\ proc \in Proc
    /\ proc.started = "pending" => proc.at = "start"
    /\ api \in Api
    /\ used \subseteq Emails /\ vault \subseteq site

\* While an account is made its address is the next one to finish, under the next number.
Reservation ==
    /\ proc.at = "reserve" => proc.email \in Emails /\ ~Exists(proc.email)
    /\ proc.at \in Held =>
          /\ proc.email \in Emails
          /\ Read.emails[proc.email].status = "em_uso"
          /\ Read.emails[proc.email].number = Read.contas_criadas + 1

\* An address that was typed into the form is in the file, and the one that is about to be
\* typed was not typed before, as long as no write was cut short.
Memory ==
    ~torn =>
      /\ \A e \in used : Exists(e)
      /\ proc.at \in {"reserve", "inbox", "form"} => proc.email \notin used

\* An account that the script has seen in the proxy was there during its own login flow.
Links ==
    /\ vault \subseteq joined
    /\ proc.link /\ proc.at \in {"plan", "done"} => proc.email \in joined

\* The numbers of the finished accounts have no gaps only because the account in work has
\* the number after them, and it has that number only because nobody else writes the file.
IInv == Types /\ Reservation /\ Memory /\ Links /\ NumbersWithoutGaps

-----------------------------------------------------------------------------
(* What the script does to a store, whatever the rest of the state         *)

Done(s) == {e \in Emails : s.emails[e].status = "concluido"}

Gapless(s) ==
    /\ {s.emails[e].number : e \in Done(s)} = 1..s.contas_criadas
    /\ Cardinality(Done(s)) = s.contas_criadas

\* s becomes t: only the entry of e changes.
Changes(s, t, e) ==
    /\ DOMAIN t.emails = Emails
    /\ \A d \in Emails : d # e => t.emails[d] = s.emails[d]

\* The number of addresses is a natural number, and no store is the torn file.
LEMMA Supply == Cardinality(Emails) \in Nat
  BY CreationAssumption, FS_CardinalityType

LEMMA NotTorn ==
  ASSUME NEW s \in Store, Emails # {}
  PROVE  s # Torn
<1>1. DOMAIN s.emails = Emails BY DEF Store
<1>2. DOMAIN Torn.emails = {} BY DEF Torn
<1> QED BY <1>1, <1>2

\* The new file is a store, and numbers no account.
LEMMA NewStore == NoStore \in Store /\ Gapless(NoStore)
<1>1. NoStore \in Store BY Supply DEF NoStore, Absent, Store, Entry, Statuses
<1>2. Done(NoStore) = {} BY DEF Done, NoStore, Absent
<1>3. Cardinality(Done(NoStore)) = 0 BY <1>2, FS_EmptySet
<1>4. {NoStore.emails[e].number : e \in Done(NoStore)} = {} BY <1>2
<1>5. NoStore.contas_criadas = 0 BY DEF NoStore
<1>6. 1..0 = {} OBVIOUS
<1> QED BY <1>1, <1>3, <1>4, <1>5, <1>6 DEF Gapless

\* A change to an account that is not finished, before and after, keeps the numbers.
LEMMA GaplessKept ==
  ASSUME NEW s \in Store, NEW t \in Store, NEW e \in Emails, Gapless(s), Changes(s, t, e),
         t.contas_criadas = s.contas_criadas,
         s.emails[e].status # "concluido", t.emails[e].status # "concluido"
  PROVE  Gapless(t)
<1>1. Done(t) = Done(s) BY DEF Done, Changes
<1>2. \A d \in Done(s) : t.emails[d].number = s.emails[d].number BY DEF Done, Changes
<1>3. {t.emails[d].number : d \in Done(t)} = {s.emails[d].number : d \in Done(s)}
  BY <1>1, <1>2
<1> QED BY <1>1, <1>3 DEF Gapless

\* The account that has the next number is finished: the numbers go one further.
LEMMA GaplessNext ==
  ASSUME NEW s \in Store, NEW t, NEW e \in Emails, Gapless(s), Changes(s, t, e),
         t.contas_criadas = s.contas_criadas + 1,
         s.emails[e].status # "concluido", t.emails[e].status = "concluido",
         t.emails[e].number = s.contas_criadas + 1
  PROVE  Gapless(t) /\ t.contas_criadas \in 0..Cardinality(Emails)
<1> DEFINE n == s.contas_criadas
<1>n. n \in Nat /\ Cardinality(Emails) \in Nat BY Supply DEF Store
<1>1. Done(t) = Done(s) \cup {e} BY DEF Done, Changes
<1>2. e \notin Done(s) /\ Done(t) \subseteq Emails BY DEF Done
<1>3. IsFiniteSet(Done(s)) BY CreationAssumption, FS_Subset DEF Done
<1>4. Cardinality(Done(s)) = n BY DEF Gapless
<1>5. Cardinality(Done(t)) = n + 1 BY <1>1, <1>2, <1>3, <1>4, FS_AddElement
<1>6. Cardinality(Done(t)) <= Cardinality(Emails) BY <1>2, CreationAssumption, FS_Subset
<1>7. \A d \in Done(s) : t.emails[d].number = s.emails[d].number BY <1>2 DEF Done, Changes
<1>8. {t.emails[d].number : d \in Done(t)} = {s.emails[d].number : d \in Done(s)} \cup {n + 1}
  BY <1>1, <1>7
<1>9. {s.emails[d].number : d \in Done(s)} = 1..n BY DEF Gapless
<1>10. (1..n) \cup {n + 1} = 1..(n + 1) BY <1>n
<1>11. Gapless(t) BY <1>5, <1>8, <1>9, <1>10 DEF Gapless
<1>12. n + 1 \in 0..Cardinality(Emails) BY <1>n, <1>5, <1>6
<1> QED BY <1>11, <1>12

-----------------------------------------------------------------------------
(* Reading the file *)

LEMMA ReadsStore ==
  ASSUME Types
  PROVE  Read \in Store
  BY NewStore DEF Types, Read

LEMMA Reread ==
  ASSUME file' = file
  PROVE  Read' = Read
  BY DEF Read, NoStore, Torn, Absent

LEMMA ReadsNew ==
  ASSUME file' = Torn
  PROVE  Read' = NoStore
  BY DEF Read, NoStore, Torn, Absent

LEMMA ReadsWritten ==
  ASSUME NEW data \in Store, Emails # {}, file' = data
  PROVE  Read' = data
<1>1. data # Torn BY NotTorn
<1> QED BY <1>1 DEF Read, Torn

LEMMA Numbered ==
  (NumbersWithoutGaps <=> Gapless(Read)) /\ (NumbersWithoutGaps' <=> Gapless(Read'))
  BY DEF NumbersWithoutGaps, Completed, Gapless, Done

-----------------------------------------------------------------------------
(* Kinds of steps                                                          *)

LEMMA Initially == Init => IInv
<1> SUFFICES ASSUME Init PROVE IInv
  OBVIOUS
<1>1. file = NoStore /\ proc = Off /\ api = [up |-> FALSE, job |-> "none"] /\ used = {} /\ site = {}
      /\ vault = {} /\ joined = {}
  BY DEF Init
<1>2. NoStore \in Store BY NewStore
<1>3. Off \in Proc BY CreationAssumption DEF Off, Proc, Calm
<1>4. Types BY <1>1, <1>2, <1>3 DEF Types, Off, Api, Jobs
<1>5. Reservation BY <1>1 DEF Reservation, Off, Held
<1>6. Memory BY <1>1 DEF Memory, Off
<1>7. Links BY <1>1 DEF Links, Off
<1>8. Read = NoStore BY <1>1 DEF Read
<1> QED BY <1>4, <1>5, <1>6, <1>7, <1>8, NewStore, Numbered DEF IInv

LEMMA JobKept ==
  ASSUME IInv, UNCHANGED api
  PROVE  api' \in Api
  BY DEF IInv, Types

\* The process ends, throws, or waits: the file is left alone, or lost.
LEMMA CalmStep ==
  ASSUME IInv, (file' = file /\ torn' = torn) \/ (file' = Torn /\ torn' = TRUE),
         proc' \in Proc, proc'.at \in Calm, proc'.started # "pending",
         api' \in Api, UNCHANGED <<used, site, vault>>, joined' \in {joined, vault}
  PROVE  IInv'
<1>1. Types' BY DEF IInv, Types, Store
<1>2. Reservation' BY DEF Reservation, Held, Calm
<1>3. Memory' BY Reread DEF IInv, Memory, Calm, Exists
<1>4. Links' BY DEF IInv, Links, Calm
<1>5. NumbersWithoutGaps'
  BY Reread, ReadsNew, NewStore, Numbered DEF IInv
<1> QED BY <1>1, <1>2, <1>3, <1>4, <1>5 DEF IInv

\* The process goes on with its address; at most that one is typed into the form.
LEMMA HeldStep ==
  ASSUME IInv, UNCHANGED <<file, torn, vault>>,
         proc' \in Proc, proc.at \in Held, proc'.at \in Held,
         proc'.email = proc.email, proc'.link = proc.link,
         proc'.started = "pending" => proc'.at = "start",
         proc'.at \in {"inbox", "form"} => proc.at \in {"inbox", "form"} /\ used' = used,
         proc'.at \in {"plan", "done"} =>
             (proc.at \in {"plan", "done"} \/ ~proc.link \/ proc.email \in vault) /\ joined' = joined,
         joined' \in {joined, vault}, api' \in Api,
         used' \subseteq used \cup {proc.email}, site \subseteq site'
  PROVE  IInv'
<1>0. Read' = Read BY Reread
<1>e. /\ proc.email \in Emails
      /\ Read.emails[proc.email].status = "em_uso"
      /\ Read.emails[proc.email].number = Read.contas_criadas + 1
  BY DEF IInv, Reservation
<1>1. Types' BY <1>e DEF IInv, Types, Store
<1>2. Reservation' BY <1>0, <1>e DEF Reservation, Held
<1>3. ASSUME ~torn' PROVE \A e \in used' : Exists(e)'
  <2>1. Exists(proc.email) BY <1>e DEF Exists, Absent
  <2>2. \A e \in used : Exists(e) BY <1>3 DEF IInv, Memory
  <2>3. ASSUME NEW e \in used' PROVE Exists(e)'
    <3>1. Exists(e) BY <2>1, <2>2
    <3> QED BY <3>1, <1>0 DEF Exists
  <2> QED BY <2>3
<1>4. Memory' BY <1>3, <1>e DEF IInv, Memory, Held
<1>5. Links' BY DEF IInv, Links
<1>6. NumbersWithoutGaps' BY <1>0, Numbered DEF IInv
<1> QED BY <1>1, <1>2, <1>4, <1>5, <1>6 DEF IInv

\* The others do something.
LEMMA AsideStep ==
  ASSUME IInv, UNCHANGED <<file, torn, proc, used>>, vault' \subseteq joined', joined \subseteq joined',
         vault' \subseteq site', api' \in Api
  PROVE  IInv'
<1>0. Read' = Read BY Reread
<1>1. Types' BY DEF IInv, Types, Store
<1>2. Reservation' BY <1>0 DEF IInv, Reservation, Exists
<1>3. Memory' BY <1>0 DEF IInv, Memory, Exists
<1>4. Links' BY DEF IInv, Links
<1>5. NumbersWithoutGaps' BY <1>0, Numbered DEF IInv
<1> QED BY <1>1, <1>2, <1>3, <1>4, <1>5 DEF IInv

\* A write that does not succeed.
LEMMA WriteFails ==
  ASSUME IInv, NEW thrown, thrown \in Proc, thrown.at \in Calm, thrown.started # "pending",
         UNCHANGED world,
         \/ proc' = thrown /\ UNCHANGED <<file, torn>>
         \/ file' = Torn /\ torn' = TRUE /\ proc' \in {thrown, Off}
  PROVE  IInv'
<1>1. Off \in Proc /\ Off.at \in Calm /\ Off.started # "pending"
  BY CreationAssumption DEF Off, Proc, Calm
<1>2. proc' \in Proc /\ proc'.at \in Calm /\ proc'.started # "pending" BY <1>1
<1>3. (file' = file /\ torn' = torn) \/ (file' = Torn /\ torn' = TRUE) OBVIOUS
<1> QED BY <1>2, <1>3, JobKept, CalmStep DEF world

-----------------------------------------------------------------------------
(* main.js: the head of the batch, and the reservation                     *)

LEMMA StartKeeps ==
  ASSUME IInv, NEW n \in 1..MaxAccounts, NEW link \in BOOLEAN, Start(n, link)
  PROVE  IInv'
<1>1. Off \in Proc BY CreationAssumption DEF Off, Proc, Calm
<1>2. proc' = [Off EXCEPT !.at = "launch", !.left = n, !.link = link] BY DEF Start
<1>n. n \in 0..MaxAccounts BY CreationAssumption
<1>o. Off.started = "no" BY DEF Off
<1>3. proc' \in Proc /\ proc'.at = "launch" /\ proc'.started = "no"
  BY <1>1, <1>2, <1>n, <1>o DEF Proc, Calm
<1> QED BY <1>3, JobKept, CalmStep DEF Start, world, Calm

LEMMA LaunchBrowserKeeps ==
  ASSUME IInv, LaunchBrowser
  PROVE  IInv'
<1>1. Off \in Proc /\ Off.at \in Calm /\ Off.started # "pending"
  BY CreationAssumption DEF Off, Proc, Calm
<1>2. proc \in Proc /\ proc.started # "pending" BY DEF IInv, Types, LaunchBrowser
<1>3. proc' = [proc EXCEPT !.at = "mail", !.email = NoEmail, !.tries = 0] \/ proc' = Off
  BY DEF LaunchBrowser, Exit
<1>z. 0 \in 0..(MaxAttempts - 1) BY CreationAssumption
<1>4. proc' \in Proc /\ proc'.at \in Calm /\ proc'.started # "pending"
  <2>1. CASE proc' = [proc EXCEPT !.at = "mail", !.email = NoEmail, !.tries = 0]
    BY <1>2, <1>z, <2>1 DEF Proc, Calm
  <2> QED BY <1>1, <1>3, <2>1
<1> QED BY <1>4, JobKept, CalmStep DEF LaunchBrowser

LEMMA GetFreshEmailKeeps ==
  ASSUME IInv, NEW e \in Emails, GetFreshEmail(e)
  PROVE  IInv'
<1>p. proc \in Proc /\ proc.at = "mail" /\ proc.started # "pending"
  BY DEF IInv, Types, GetFreshEmail
<1>u. UNCHANGED <<file, torn, world>> BY DEF GetFreshEmail
<1>1. CASE ~Exists(e) /\ proc' = [proc EXCEPT !.at = "reserve", !.email = e]
  <2>1. proc' \in Proc BY <1>1, <1>p DEF Proc
  <2>2. /\ proc'.at = "reserve" /\ proc'.email = e /\ proc'.started = proc.started
        /\ proc'.link = proc.link
    BY <1>1, <1>p DEF Proc
  <2>3. Read' = Read BY <1>u, Reread
  <2>4. Types' BY <2>1, <2>2, <1>p, <1>u DEF IInv, Types, Store, world
  <2>5. Reservation' BY <2>2, <2>3, <1>1 DEF Reservation, Held, Exists
  <2>6. ASSUME ~torn' PROVE (\A d \in used : Exists(d)) /\ e \notin used
    BY <2>6, <1>u, <1>1 DEF IInv, Memory
  <2>7. Memory' BY <2>2, <2>3, <2>6, <1>u DEF Memory, Exists, world
  <2>8. Links' BY <2>2, <1>u DEF IInv, Links, world
  <2>9. NumbersWithoutGaps' BY <2>3, Numbered DEF IInv
  <2> QED BY <2>4, <2>5, <2>7, <2>8, <2>9 DEF IInv
<1>2. CASE proc.tries + 1 < MaxAttempts /\ proc' = [proc EXCEPT !.tries = @ + 1]
  <2> DEFINE tries == proc.tries + 1
  <2>1. tries \in 0..(MaxAttempts - 1) BY <1>2, <1>p, CreationAssumption DEF Proc
  <2>2. proc' = [proc EXCEPT !.tries = tries] BY <1>2
  <2> HIDE DEF tries
  <2>3. proc' \in Proc /\ proc'.at = "mail" /\ proc'.started # "pending"
    BY <2>1, <2>2, <1>p DEF Proc
  <2> QED BY <2>3, <1>u, JobKept, CalmStep DEF Calm, world
<1>3. CASE Throw
  <2>1. proc' = [proc EXCEPT !.at = "catch"] BY <1>3 DEF Throw, Goto
  <2>2. proc' \in Proc /\ proc'.at = "catch" /\ proc'.started # "pending"
    BY <2>1, <1>p DEF Proc, Calm
  <2> QED BY <2>2, <1>u, JobKept, CalmStep DEF Calm, world
<1> QED BY <1>1, <1>2, <1>3 DEF GetFreshEmail

\* The address gets the number after the finished accounts' ones.
LEMMA ReserveKeeps ==
  ASSUME IInv, Reserve
  PROVE  IInv'
<1> DEFINE email == proc.email
           number == Read.contas_criadas + 1
           entry == [status |-> "em_uso", number |-> number]
           data == [Read EXCEPT !.emails[email] = entry]
           next == [proc EXCEPT !.at = "inbox", !.number = number]
           thrown == [proc EXCEPT !.at = "catch"]
<1>p. proc \in Proc /\ proc.at = "reserve" /\ proc.started # "pending"
  BY DEF IInv, Types, Reserve
<1>e. email \in Emails /\ ~Exists(email) BY <1>p DEF IInv, Reservation
<1>r. Read \in Store BY ReadsStore DEF IInv
<1>n. number \in Nat BY <1>r, Supply DEF Store
<1>u. UNCHANGED world BY DEF Reserve
<1>w. Write(data, next, thrown) BY <1>e DEF Reserve
<1>x. entry \in Entry /\ entry.status = "em_uso" /\ entry.number = number
  BY <1>n DEF Entry, Statuses
<1>t. thrown \in Proc /\ thrown.at \in Calm /\ thrown.started # "pending" BY <1>p DEF Proc, Calm
<1> HIDE DEF number, entry
<1>d. data \in Store /\ data.emails[email] = entry /\ Changes(Read, data, email)
      /\ data.contas_criadas = Read.contas_criadas
  BY <1>r, <1>e, <1>x DEF Store, Changes
<1>s. /\ next \in Proc /\ next.at = "inbox" /\ next.email = email /\ next.link = proc.link
      /\ next.started = proc.started
  BY <1>p, <1>n DEF Proc, Held
<1> HIDE DEF email, data, next, thrown
<1>1. CASE file' = data /\ proc' = next /\ UNCHANGED torn
  <2>1. Emails # {} BY <1>e
  <2>2. Read' = data BY <2>1, <1>1, <1>d, ReadsWritten
  <2>3. Types' BY <1>1, <1>d, <1>s, <1>p, <1>u DEF IInv, Types, Store, world
  <2>4. Reservation' BY <2>2, <1>1, <1>s, <1>d, <1>x, <1>e DEF Reservation, Held, number
  <2>5. ASSUME ~torn' PROVE (\A d \in used : Exists(d)') /\ email \notin used
    <3>1. (\A d \in used : Exists(d)) /\ email \notin used
      BY <2>5, <1>1, <1>p DEF IInv, Memory, email
    <3>2. used \subseteq Emails BY DEF IInv, Types
    <3>3. \A d \in used : data.emails[d] = Read.emails[d] BY <3>1, <3>2, <1>d DEF Changes
    <3> QED BY <3>1, <3>3, <2>2 DEF Exists
  <2>6. Memory' BY <2>5, <1>1, <1>s, <1>u DEF Memory, world
  <2>7. Links' BY <1>1, <1>s, <1>u DEF IInv, Links, world
  <2>8. Gapless(Read) BY Numbered DEF IInv
  <2>9. Read.emails[email].status # "concluido" BY <1>e DEF Exists, Absent
  <2>10. Gapless(data) BY <2>8, <2>9, <1>r, <1>d, <1>e, <1>x, GaplessKept
  <2> QED BY <2>2, <2>3, <2>4, <2>6, <2>7, <2>10, Numbered DEF IInv
<1>2. CASE \/ proc' = thrown /\ UNCHANGED <<file, torn>>
           \/ file' = Torn /\ torn' = TRUE /\ proc' \in {thrown, Off}
  BY <1>2, <1>t, <1>u, WriteFails
<1> QED BY <1>w, <1>1, <1>2 DEF Write

-----------------------------------------------------------------------------
(* The pages of a sign-up                                                  *)

\* Most steps go on to the next place or throw.
LEMMA Visits ==
  ASSUME IInv, NEW place \in Held, Goto(place) \/ Throw, proc.at \in Held, proc.at # "start",
         UNCHANGED <<file, torn, vault>>, api' \in Api, joined' \in {joined, vault},
         place # "inbox", place = "form" => proc.at = "inbox" /\ used' = used,
         place \in {"plan", "done"} =>
             (proc.at = "plan" \/ ~proc.link \/ proc.email \in vault) /\ joined' = joined,
         Goto(place) \/ UNCHANGED <<used, site>>,
         used' \subseteq used \cup {proc.email}, site \subseteq site'
  PROVE  IInv'
<1>p. proc \in Proc /\ proc.started # "pending" BY DEF IInv, Types
<1>1. CASE Goto(place)
  <2>1. /\ proc' \in Proc /\ proc'.at = place /\ proc'.email = proc.email
        /\ proc'.link = proc.link /\ proc'.started = proc.started
    BY <1>1, <1>p DEF Proc, Goto
  <2>2. proc'.at \in {"inbox", "form"} => proc.at \in {"inbox", "form"} /\ used' = used
    BY <2>1
  <2>3. proc'.at \in {"plan", "done"} =>
            (proc.at \in {"plan", "done"} \/ ~proc.link \/ proc.email \in vault) /\ joined' = joined
    BY <2>1
  <2> QED BY <1>p, <2>1, <2>2, <2>3, HeldStep
<1>2. CASE Throw /\ UNCHANGED <<used, site>>
  <2>1. proc' \in Proc /\ proc'.at = "catch" /\ proc'.started = proc.started
    BY <1>2, <1>p DEF Proc, Throw, Goto, Calm
  <2> QED BY <1>2, <1>p, <2>1, CalmStep DEF Calm
<1> QED BY <1>1, <1>2

LEMMA OpenInboxKeeps ==
  ASSUME IInv, OpenInbox
  PROVE  IInv'
  BY JobKept, Visits DEF OpenInbox, world, Held

LEMMA FillFormKeeps ==
  ASSUME IInv, FillForm
  PROVE  IInv'
  BY JobKept, Visits DEF FillForm, Held

LEMMA EnsureAPIKeeps ==
  ASSUME IInv, EnsureAPI
  PROVE  IInv'
<1>1. CASE Goto("solve")
  BY <1>1, JobKept, Visits DEF EnsureAPI, world, Held
<1>2. CASE proc' = [proc EXCEPT !.at = "start", !.started = "pending", !.dir = 1]
  <2>1. proc \in Proc /\ proc.at = "health" BY DEF IInv, Types, EnsureAPI
  <2>2. 1 \in 0..(Workdirs + 1) BY CreationAssumption
  <2>3. /\ proc' \in Proc /\ proc'.at = "start" /\ proc'.email = proc.email
        /\ proc'.link = proc.link
    BY <1>2, <2>1, <2>2 DEF Proc, Held
  <2> QED BY <2>1, <2>3, JobKept, HeldStep DEF EnsureAPI, world, Held
<1> QED BY <1>1, <1>2 DEF EnsureAPI

LEMMA TryWorkdirKeeps ==
  ASSUME IInv, TryWorkdir
  PROVE  IInv'
<1>p. proc \in Proc /\ proc.at = "start" /\ proc.dir <= Workdirs
  BY DEF IInv, Types, TryWorkdir
<1>j. api' \in Api
  <2>1. PICK up \in {api.up, TRUE} : api' = [api EXCEPT !.up = up] BY DEF TryWorkdir
  <2>2. api \in Api BY DEF IInv, Types
  <2>3. up \in BOOLEAN BY <2>2 DEF Api
  <2> QED BY <2>1, <2>2, <2>3 DEF Api
<1>1. CASE proc' = [proc EXCEPT !.at = "solve", !.started = "done"]
  <2>1. /\ proc' \in Proc /\ proc'.at = "solve" /\ proc'.email = proc.email
        /\ proc'.link = proc.link /\ proc'.started = "done"
    BY <1>1, <1>p DEF Proc, Held
  <2> QED BY <1>p, <1>j, <2>1, HeldStep DEF TryWorkdir, Held
<1>2. CASE proc' = [proc EXCEPT !.dir = @ + 1]
  <2> DEFINE dir == proc.dir + 1
  <2>1. dir \in 0..(Workdirs + 1) BY <1>p, CreationAssumption DEF Proc
  <2>2. proc' = [proc EXCEPT !.dir = dir] BY <1>2
  <2> HIDE DEF dir
  <2>3. /\ proc' \in Proc /\ proc'.at = "start" /\ proc'.email = proc.email
        /\ proc'.link = proc.link
    BY <1>p, <2>1, <2>2 DEF Proc
  <2> QED BY <1>p, <1>j, <2>3, HeldStep DEF TryWorkdir, Held
<1> QED BY <1>1, <1>2 DEF TryWorkdir

LEMMA NoWorkdirLeftKeeps ==
  ASSUME IInv, NoWorkdirLeft
  PROVE  IInv'
<1>1. proc \in Proc BY DEF IInv, Types
<1>2. proc' = [proc EXCEPT !.at = "catch", !.started = "no"] BY DEF NoWorkdirLeft
<1>3. proc' \in Proc /\ proc'.at = "catch" /\ proc'.started = "no"
  BY <1>1, <1>2 DEF Proc, Calm
<1> QED BY <1>3, JobKept, CalmStep DEF NoWorkdirLeft, world, Calm

LEMMA CreateJobKeeps ==
  ASSUME IInv, CreateJob
  PROVE  IInv'
<1>1. api' \in Api
  <2>0. api \in Api BY DEF IInv, Types
  <2>1. CASE api' = [api EXCEPT !.job = "running"]
    BY <2>0, <2>1 DEF Api, Jobs
  <2>2. CASE UNCHANGED api
    BY <2>2, JobKept
  <2> QED BY <2>1, <2>2 DEF CreateJob
<1> QED BY <1>1, Visits DEF CreateJob, Held

LEMMA WaitJobKeeps ==
  ASSUME IInv, WaitJob
  PROVE  IInv'
<1>0. api \in Api BY DEF IInv, Types
<1>1. api' \in Api BY <1>0 DEF WaitJob, Api, Jobs
<1> QED BY <1>1, Visits DEF WaitJob, Held

LEMMA MailKeeps ==
  ASSUME IInv, CreateAccount \/ PollVerifyEmail \/ OpenVerifyEmail
  PROVE  IInv'
  BY JobKept, Visits DEF CreateAccount, PollVerifyEmail, OpenVerifyEmail, world, Held

LEMMA CompleteRegistrationKeeps ==
  ASSUME IInv, CompleteRegistration
  PROVE  IInv'
<1>1. CASE Goto("link") /\ proc.link
  BY <1>1, JobKept, Visits DEF CompleteRegistration, Held
<1>2. CASE Goto("done") /\ ~proc.link
  BY <1>2, JobKept, Visits DEF CompleteRegistration, Held
<1>3. CASE Throw /\ UNCHANGED site
  BY <1>3, JobKept, Visits DEF CompleteRegistration, Held
<1>4. proc.link \in BOOLEAN BY DEF IInv, Types, Proc
<1> QED BY <1>1, <1>2, <1>3, <1>4 DEF CompleteRegistration

LEMMA LinkKeeps ==
  ASSUME IInv, StartLink \/ AcceptZCodeConsent
  PROVE  IInv'
  BY JobKept, Visits DEF StartLink, AcceptZCodeConsent, Held

LEMMA PollKeeps ==
  ASSUME IInv, PollLinkedAccount
  PROVE  IInv'
  BY JobKept, Visits DEF PollLinkedAccount, world, Held

LEMMA ListedKeeps ==
  ASSUME IInv, WaitForAccountInProxy
  PROVE  IInv'
<1>1. CASE Goto("plan") /\ proc.email \in vault
  BY <1>1, JobKept, Visits DEF WaitForAccountInProxy, world, Held
<1>2. CASE Throw
  BY <1>2, JobKept, Visits DEF WaitForAccountInProxy, world, Held
<1> QED BY <1>1, <1>2 DEF WaitForAccountInProxy

LEMMA QuotaKeeps ==
  ASSUME IInv, RefreshAndWaitForQuota
  PROVE  IInv'
  BY JobKept, Visits DEF RefreshAndWaitForQuota, world, Held

\* What the API and the proxy do meanwhile.
LEMMA ApiStepKeeps ==
  ASSUME IInv, ApiStep
  PROVE  IInv'
<1>1. api' \in Api
  <2>0. api \in Api BY DEF IInv, Types
  <2>1. ASSUME NEW end \in {"succeeded", "failed"}, api' = [api EXCEPT !.job = end]
        PROVE  api' \in Api
    BY <2>0, <2>1 DEF Api, Jobs
  <2>2. ASSUME NEW up \in BOOLEAN,
               api' = [up |-> up, job |-> IF proc.at = "job" THEN "gone" ELSE "none"]
        PROVE  api' \in Api
    BY <2>2 DEF Api, Jobs
  <2> QED BY <2>1, <2>2 DEF ApiStep
<1>2. vault' = vault /\ site' = site /\ joined' = joined BY DEF ApiStep
<1>3. vault' \subseteq joined' /\ joined \subseteq joined' BY <1>2 DEF IInv, Links
<1> QED BY <1>1, <1>2, <1>3, AsideStep DEF ApiStep, IInv, Types

LEMMA EndFlowKeeps ==
  ASSUME IInv, EndFlow
  PROVE  IInv'
<1>1. vault' \subseteq site' BY DEF EndFlow, Vault, IInv, Types
<1>2. vault' \subseteq joined' /\ joined \subseteq joined' BY DEF EndFlow, Vault, IInv, Links
<1> QED BY <1>1, <1>2, JobKept, AsideStep DEF EndFlow

LEMMA RemoveAccountKeeps ==
  ASSUME IInv, NEW e \in Emails, RemoveAccount(e)
  PROVE  IInv'
<1>1. vault' \subseteq site' BY DEF RemoveAccount, Vault, IInv, Types
<1>2. vault' \subseteq joined' /\ joined \subseteq joined' BY DEF RemoveAccount, Vault
<1> QED BY <1>1, <1>2, JobKept, AsideStep DEF RemoveAccount

-----------------------------------------------------------------------------
(* The end of an account                                                   *)

\* A write that succeeds and leaves the account: every address in the file stays there.
LEMMA Closes ==
  ASSUME IInv, NEW data \in Store, NEW e \in Emails, Changes(Read, data, e),
         data.emails[e] # Absent, Gapless(data), file' = data,
         proc' \in Proc, proc'.at \in Calm, proc'.started # "pending", UNCHANGED <<torn, world>>
  PROVE  IInv'
<1>1. Read' = data BY ReadsWritten
<1>2. Types' BY DEF IInv, Types, world
<1>3. Reservation' BY DEF Reservation, Held, Calm
<1>4. Memory'
  <2>1. used \subseteq Emails BY DEF IInv, Types
  <2>2. ASSUME ~torn, NEW d \in used PROVE data.emails[d] # Absent
    <3>1. Read.emails[d] # Absent BY <2>2 DEF IInv, Memory, Exists
    <3> QED BY <3>1, <2>1 DEF Changes
  <2> QED BY <1>1, <2>2 DEF Memory, Exists, Calm, world
<1>5. Links' BY DEF IInv, Links, Calm, world
<1> QED BY <1>1, <1>2, <1>3, <1>4, <1>5, Numbered DEF IInv

LEMMA MarkCompletedKeeps ==
  ASSUME IInv, MarkCompleted
  PROVE  IInv'
<1> DEFINE email == proc.email
           number == Read.contas_criadas + 1
           data == [Read EXCEPT !.emails[email].status = "concluido", !.contas_criadas = number]
           next == [proc EXCEPT !.at = "close", !.ok = TRUE]
           thrown == [proc EXCEPT !.at = "catch"]
<1>p. proc \in Proc /\ proc.at = "done" /\ proc.started # "pending"
  BY DEF IInv, Types, MarkCompleted
<1>r. Read \in Store BY ReadsStore DEF IInv
<1>e. /\ email \in Emails /\ Read.emails[email].status = "em_uso"
      /\ Read.emails[email].number = number
  BY <1>p DEF IInv, Reservation, Held
<1>x. Exists(email) BY <1>e DEF Exists, Absent
<1>u. UNCHANGED world BY DEF MarkCompleted
<1>w. Write(data, next, thrown) BY <1>x DEF MarkCompleted
<1>t. thrown \in Proc /\ thrown.at \in Calm /\ thrown.started # "pending" BY <1>p DEF Proc, Calm
<1>s. next \in Proc /\ next.at \in Calm /\ next.started # "pending" BY <1>p DEF Proc, Calm
<1> HIDE DEF number
<1>d. /\ DOMAIN data.emails = Emails
      /\ data.emails[email] = [Read.emails[email] EXCEPT !.status = "concluido"]
      /\ \A d \in Emails : d # email => data.emails[d] = Read.emails[d]
      /\ data.contas_criadas = number
  BY <1>r, <1>e DEF Store
<1>y. Read.emails[email] \in Entry BY <1>r, <1>e DEF Store
<1>z. /\ data.emails[email] \in Entry /\ data.emails[email].status = "concluido"
      /\ data.emails[email].number = number
  BY <1>d, <1>y, <1>e DEF Entry, Statuses
<1>c. Changes(Read, data, email) BY <1>d DEF Changes
<1>g. Gapless(data) /\ data.contas_criadas \in 0..Cardinality(Emails)
  <2>1. Gapless(Read) BY Numbered DEF IInv
  <2>2. data.contas_criadas = Read.contas_criadas + 1 BY <1>d DEF number
  <2>3. data.emails[email].number = Read.contas_criadas + 1 BY <1>z DEF number
  <2>4. Read.emails[email].status # "concluido" BY <1>e
  <2> HIDE DEF data, email
  <2> QED BY <2>1, <2>2, <2>3, <2>4, <1>z, <1>c, <1>r, <1>e, GaplessNext
<1>f. data \in Store
  <2>1. data.emails \in [Emails -> Entry]
    <3>1. Read.emails \in [Emails -> Entry] BY <1>r DEF Store
    <3>2. data.emails = [Read.emails EXCEPT ![email] = data.emails[email]]
      BY <1>r, <1>e, <1>d DEF Store
    <3> QED BY <3>1, <3>2, <1>z
  <2>2. number \in 0..Cardinality(Emails) BY <1>g, <1>d
  <2> QED BY <2>1, <2>2, <1>r DEF Store
<1>a. data.emails[email] # Absent BY <1>z DEF Absent
<1> HIDE DEF email, data, next, thrown
<1>1. CASE file' = data /\ proc' = next /\ UNCHANGED torn
  BY <1>1, <1>s, <1>u, <1>c, <1>g, <1>f, <1>a, <1>e, Closes
<1>2. CASE \/ proc' = thrown /\ UNCHANGED <<file, torn>>
           \/ file' = Torn /\ torn' = TRUE /\ proc' \in {thrown, Off}
  BY <1>2, <1>t, <1>u, WriteFails
<1> QED BY <1>w, <1>1, <1>2 DEF Write

LEMMA MarkFailedKeeps ==
  ASSUME IInv, MarkFailed
  PROVE  IInv'
<1> DEFINE email == proc.email
           data == [Read EXCEPT !.emails[email].status = "falhou"]
           close == [proc EXCEPT !.at = "close", !.ok = FALSE]
<1>p. proc \in Proc /\ proc.at = "catch" /\ proc.started # "pending"
  BY DEF IInv, Types, MarkFailed
<1>r. Read \in Store BY ReadsStore DEF IInv
<1>u. UNCHANGED world BY DEF MarkFailed
<1>s. close \in Proc /\ close.at \in Calm /\ close.started # "pending" BY <1>p DEF Proc, Calm
<1>1. CASE /\ email # NoEmail /\ Exists(email) /\ Read.emails[email].status # "concluido"
           /\ Write(data, close, close)
  <2>1. email \in Emails BY <1>1, <1>p DEF Proc
  <2>2. Read.emails[email] \in Entry BY <1>r, <2>1 DEF Store
  <2>3. /\ data.emails[email] \in Entry /\ data.emails[email].status = "falhou"
        /\ Changes(Read, data, email) /\ data.contas_criadas = Read.contas_criadas
        /\ data \in Store
    BY <1>r, <2>1, <2>2 DEF Entry, Statuses, Changes, Store
  <2>4. data.emails[email] # Absent BY <2>3 DEF Absent
  <2>5. Gapless(Read) BY Numbered DEF IInv
  <2> HIDE DEF email, data, close
  <2>6. Gapless(data) BY <2>1, <2>3, <2>5, <1>1, <1>r, GaplessKept
  <2>7. CASE file' = data /\ proc' = close /\ UNCHANGED torn
    BY <2>1, <2>3, <2>4, <2>6, <2>7, <1>s, <1>u, Closes
  <2>8. CASE \/ proc' = close /\ UNCHANGED <<file, torn>>
             \/ file' = Torn /\ torn' = TRUE /\ proc' \in {close, Off}
    BY <2>8, <1>s, <1>u, WriteFails
  <2> QED BY <1>1, <2>7, <2>8 DEF Write
<1>2. CASE proc' = close /\ UNCHANGED <<file, torn>>
  BY <1>2, <1>s, <1>u, JobKept, CalmStep DEF world
<1> QED BY <1>1, <1>2 DEF MarkFailed

LEMMA CloseBrowserKeeps ==
  ASSUME IInv, CloseBrowser
  PROVE  IInv'
<1>p. proc \in Proc /\ proc.at = "close" /\ proc.started # "pending"
  BY DEF IInv, Types, CloseBrowser
<1>o. Off \in Proc /\ Off.at \in Calm /\ Off.started # "pending"
  BY CreationAssumption DEF Off, Proc, Calm
<1>1. CASE /\ proc.left > 1
           /\ proc' = [proc EXCEPT !.at = "launch", !.left = @ - 1, !.email = NoEmail,
                                   !.number = 0, !.dir = 0, !.ok = FALSE]
  <2> DEFINE left == proc.left - 1
  <2>1. left \in 0..MaxAccounts BY <1>1, <1>p, CreationAssumption DEF Proc
  <2>2. 0 \in 0..(Workdirs + 1) /\ 0 \in Nat BY CreationAssumption
  <2>3. proc' = [proc EXCEPT !.at = "launch", !.left = left, !.email = NoEmail,
                             !.number = 0, !.dir = 0, !.ok = FALSE]
    BY <1>1
  <2> HIDE DEF left
  <2>4. proc' \in Proc /\ proc'.at = "launch" /\ proc'.started # "pending"
    BY <1>p, <2>1, <2>2, <2>3 DEF Proc, Calm
  <2> QED BY <2>4, JobKept, CalmStep DEF CloseBrowser, Calm
<1>2. CASE proc' = Off
  BY <1>2, <1>o, JobKept, CalmStep DEF CloseBrowser
<1> QED BY <1>1, <1>2 DEF CloseBrowser

LEMMA KillKeeps ==
  ASSUME IInv, Kill
  PROVE  IInv'
<1>o. Off \in Proc /\ Off.at \in Calm /\ Off.started # "pending"
  BY CreationAssumption DEF Off, Proc, Calm
<1> QED BY <1>o, JobKept, CalmStep DEF Kill, Exit

LEMMA Stands ==
  ASSUME IInv, CloseChrome \/ UNCHANGED vars
  PROVE  IInv'
<1>1. UNCHANGED <<file, torn, proc, used, api, vault, joined, site>> BY DEF CloseChrome, vars
<1>2. vault' \subseteq joined' /\ joined \subseteq joined' /\ vault' \subseteq site'
  BY <1>1 DEF IInv, Types, Links
<1> QED BY <1>1, <1>2, JobKept, AsideStep

LEMMA Inductive == IInv /\ [Next]_vars => IInv'
  BY StartKeeps, LaunchBrowserKeeps, GetFreshEmailKeeps, ReserveKeeps, OpenInboxKeeps,
     FillFormKeeps, EnsureAPIKeeps, TryWorkdirKeeps, NoWorkdirLeftKeeps, CreateJobKeeps,
     WaitJobKeeps, MailKeeps, CompleteRegistrationKeeps, LinkKeeps, PollKeeps, ListedKeeps,
     QuotaKeeps, ApiStepKeeps, EndFlowKeeps, RemoveAccountKeeps, MarkCompletedKeeps, MarkFailedKeeps,
     CloseBrowserKeeps, KillKeeps, Stands
  DEF Next, Step

LEMMA Invariance == Spec => []IInv
  BY Initially, Inductive, PTL DEF Spec

-----------------------------------------------------------------------------
(* The results                                                             *)

\* Type correctness: among others, the file never counts more accounts than there are
\* addresses, and a start of the captcha API is pending only while the script waits for it.
THEOREM Typing == Spec => []TypeOK
<1>1. ASSUME IInv PROVE TypeOK
  <2>1. proc \in Proc BY <1>1 DEF IInv, Types
  <2>2. /\ proc.email \in Emails \cup {NoEmail} /\ proc.left \in 0..MaxAccounts
        /\ proc.tries \in 0..(MaxAttempts - 1) /\ proc.dir \in 0..(Workdirs + 1)
        /\ proc.started \in {"no", "pending", "done"}
    BY <2>1 DEF Proc
  <2>3. proc.tries < MaxAttempts BY <2>2, CreationAssumption
  <2>4. api.job \in {"none", "running", "succeeded", "failed", "gone"}
    BY <1>1 DEF IInv, Types, Api, Jobs
  <2> QED BY <1>1, <2>2, <2>3, <2>4 DEF IInv, Types, TypeOK, Store, Entry
<1> QED BY <1>1, Invariance, PTL

\* Whatever fails, is killed, or is lost, the finished accounts are numbered from one without
\* gaps or repetitions, and contas_criadas is their number.
THEOREM Numbers == Spec => []NumbersWithoutGaps
<1>1. IInv => NumbersWithoutGaps BY DEF IInv
<1> QED BY <1>1, Invariance, PTL

\* No address is typed into the sign-up form twice as long as emails.json was never cut short.
THEOREM UsedOnce == Spec => AddressUsedOnce
<1>1. IInv => (proc.at = "form" /\ proc'.at = "health" /\ ~torn => proc.email \notin used)
  BY DEF IInv, Memory
<1> QED BY <1>1, Invariance, PTL DEF Spec, AddressUsedOnce

\* Only markCompleted finishes an account, and only the one in work.
LEMMA Completes ==
  ASSUME IInv, [Next]_vars, NEW e \in Completed' \ Completed
  PROVE  proc.at = "done" /\ e = proc.email
<1>e. e \in Emails /\ Read'.emails[e].status = "concluido" /\ Read.emails[e].status # "concluido"
  BY DEF Completed
<1>r. Read \in Store BY ReadsStore DEF IInv
<1>f. file' # file /\ file' # Torn
  <2>1. Read' # Read BY <1>e
  <2>2. Read' # NoStore BY <1>e DEF NoStore, Absent
  <2> QED BY <2>1, <2>2, Reread, ReadsNew
<1>1. Reserve \/ MarkCompleted \/ MarkFailed
  BY <1>f DEF Next, Step, vars, Start, LaunchBrowser, GetFreshEmail, OpenInbox, FillForm,
     EnsureAPI, TryWorkdir, NoWorkdirLeft, CreateJob, WaitJob, CreateAccount, PollVerifyEmail,
     OpenVerifyEmail, CompleteRegistration, StartLink, AcceptZCodeConsent, PollLinkedAccount,
     WaitForAccountInProxy, RefreshAndWaitForQuota, CloseBrowser, ApiStep, EndFlow,
     RemoveAccount, Kill, CloseChrome
<1>2. CASE Reserve
  <2> DEFINE email == proc.email
             entry == [status |-> "em_uso", number |-> Read.contas_criadas + 1]
             data == [Read EXCEPT !.emails[email] = entry]
  <2>1. email \in Emails /\ ~Exists(email) BY <1>2 DEF Reserve, IInv, Reservation
  <2>2. file' = data BY <1>2, <1>f, <2>1 DEF Reserve, Write
  <2>3. entry.status = "em_uso" OBVIOUS
  <2>4. Read.contas_criadas + 1 \in Nat BY <1>r, Supply DEF Store
  <2>5. entry \in Entry BY <2>4 DEF Entry, Statuses
  <2> HIDE DEF entry
  <2>6. /\ data \in Store /\ data.emails[email] = entry
        /\ \A d \in Emails : d # email => data.emails[d] = Read.emails[d]
    BY <2>1, <2>5, <1>r DEF Store
  <2>7. Read' = data BY <2>1, <2>2, <2>6, ReadsWritten
  <2> QED BY <2>3, <2>6, <2>7, <1>e
<1>3. CASE MarkFailed
  <2> DEFINE email == proc.email
             data == [Read EXCEPT !.emails[email].status = "falhou"]
  <2>1. email \in Emails
    BY <1>3, <1>f DEF MarkFailed, IInv, Types, Proc
  <2>2. file' = data BY <1>3, <1>f DEF MarkFailed, Write
  <2>3. Read.emails[email] \in Entry BY <1>r, <2>1 DEF Store
  <2>4. /\ data \in Store /\ data.emails[email].status = "falhou"
        /\ \A d \in Emails : d # email => data.emails[d] = Read.emails[d]
    BY <2>1, <2>3, <1>r DEF Store, Entry, Statuses
  <2>5. Read' = data BY <2>1, <2>2, <2>4, ReadsWritten
  <2> QED BY <2>4, <2>5, <1>e
<1>4. CASE MarkCompleted
  <2> DEFINE email == proc.email
             status == IF Exists(email) THEN "concluido" ELSE Read.emails[email].status
             number == Read.contas_criadas + 1
             data == [Read EXCEPT !.emails[email].status = status, !.contas_criadas = number]
  <2>1. email \in Emails /\ proc.at = "done"
    BY <1>4 DEF MarkCompleted, IInv, Reservation, Held
  <2>2. file' = data BY <1>4, <1>f DEF MarkCompleted, Write
  <2> HIDE DEF status, number
  <2>3. \A d \in Emails : d # email => data.emails[d] = Read.emails[d]
    BY <2>1, <1>r DEF Store
  <2> HIDE DEF data
  <2>4. Read' = data BY <2>2, <1>f DEF Read, Torn
  <2> QED BY <2>1, <2>3, <2>4, <1>e
<1> QED BY <1>1, <1>2, <1>3, <1>4

\* An account that is to be linked is recorded as finished only when it was in the proxy itself
\* during the login flow of its own run, whoever adds and removes accounts meanwhile.
THEOREM Linked == Spec => CompletedWasLinked
<1>1. ASSUME IInv, [Next]_vars, proc.link, NEW e \in Completed' \ Completed
      PROVE  e \in joined
  BY <1>1, Completes DEF IInv, Links
<1>2. IInv /\ [Next]_vars => [proc.link => \A e \in Completed' \ Completed : e \in joined]_vars
  BY <1>1
<1> QED BY <1>2, Invariance, PTL DEF Spec, CompletedWasLinked
=============================================================================
