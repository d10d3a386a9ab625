-------------------------- MODULE AutoCleanupProofs --------------------------
(***************************************************************************)
(* Proofs about AutoCleanup, for every value of its constants.             *)
(*                                                                         *)
(* What a thread may do to the email it has popped was decided steps       *)
(* earlier: by the settings the run read, the emails it listed as kept and *)
(* the query that filled the queue.  Inv carries each of these facts from  *)
(* where it is found to where the email is moved.                          *)
(***************************************************************************)
EXTENDS AutoCleanup, TLAPS

\* The settings a run still has to see to are among those that it read.
SettingsOK(r) ==
    /\ \A key \in run[r].todo \cup run[r].of_user : run[r].settings[key].exists
    /\ At(r, "clean") => run[r].key \in Keys /\ run[r].settings[run[r].key].exists

\* Emails a run is about to clean up are of its current setting, were processed
\* long enough ago and are not among those it listed.
ToClean(r, e) ==
    /\ At(r, "clean") /\ e \in due /\ processed[e] = run[r].key
    /\ e \notin run[r].keep_ids

WorkOK(r) ==
    /\ \A e \in queue[r] : ToClean(r, e)
    /\ \A t \in Threads : cleaning[r][t] # None => ToClean(r, cleaning[r][t])

\* The emails kept in the inbox are still there, and they are of the user the
\* run took; behind the list they are in it.
KeptOK(r) ==
    /\ \A e \in kept[r] : mailbox[e].keep /\ mailbox[e].place = "inbox"
    /\ run[r].pc \in {"list", "settings", "clean"} =>
          \A e \in kept[r] : User(processed[e]) = run[r].user
    /\ run[r].pc \in {"settings", "clean"} /\ r \notin misled => kept[r] \subseteq run[r].keep_ids

Typed ==
    /\ mailbox \in [Emails -> Mail] /\ processed \in [Emails -> Keys] /\ due \subseteq Emails
    /\ setting \in [Keys -> Setting] /\ active \subseteq Users
    /\ run \in [Runs -> Run] /\ queue \in [Runs -> SUBSET Emails]
    /\ cleaning \in [Runs -> [Threads -> Emails \cup {None}]]
    /\ kept \in [Runs -> SUBSET Emails] /\ misled \subseteq Runs

BoundsOK == edits \in 0..MaxEdits /\ failures \in 0..MaxFailures /\ restarts \in 0..MaxRestarts

RunOK(r) == SettingsOK(r) /\ WorkOK(r) /\ KeptOK(r)

Inv == Typed /\ BoundsOK /\ \A r \in Runs : RunOK(r)

LEMMA InvImpliesTypeOK == Inv => TypeOK
<1> SUFFICES ASSUME Inv PROVE TypeOK
  OBVIOUS
<1>1. ASSUME NEW r \in Runs PROVE At(r, "clean") \/ (queue[r] = {} /\ Threadless(r))
  BY DEF Inv, Typed, RunOK, WorkOK, ToClean, Threadless
<1>2. QED
  BY <1>1 DEF Inv, Typed, BoundsOK, TypeOK

LEMMA InitInv == Init => Inv
<1> SUFFICES ASSUME Init PROVE Inv
  OBVIOUS
<1>1. NoSetting \in Setting /\ Idle \in Run
  BY DEF NoSetting, Setting, CleanupAction, Idle, Run
<1>2. Typed
  BY <1>1 DEF Init, Typed
<1>3. BoundsOK
  BY CleanupAssumption DEF Init, BoundsOK
<1>4. ASSUME NEW r \in Runs PROVE RunOK(r)
  BY DEF Init, RunOK, SettingsOK, WorkOK, KeptOK, At, Idle
<1>5. QED
  BY <1>2, <1>3, <1>4 DEF Inv

\* The bounds hold whatever a step counts.
LEMMA BoundsKept == ASSUME BoundsOK, Works \/ Fails \/ Edits PROVE BoundsOK'
BY CleanupAssumption DEF BoundsOK, Works, Fails, Edits

-----------------------------------------------------------------------------
(* The mailbox and the tables *)

\* What becomes of an email disturbs no run: an email that is no longer kept in
\* the inbox is not counted among the kept ones.
LEMMA MailMoves ==
    ASSUME Inv, NEW e \in Emails, NEW m \in Mail, SetMail(e, m)
    PROVE  /\ mailbox' \in [Emails -> Mail] /\ kept' \in [Runs -> SUBSET Emails]
           /\ \A r \in Runs : kept'[r] \subseteq kept[r]
           /\ \A r \in Runs : \A k \in kept'[r] : mailbox'[k].keep /\ mailbox'[k].place = "inbox"
<1>1. mailbox' \in [Emails -> Mail] /\ mailbox'[e] = m
      /\ \A k \in Emails : k # e => mailbox'[k] = mailbox[k]
  BY DEF SetMail, Inv, Typed
<1>2. CASE m.keep /\ m.place = "inbox"
  BY <1>1, <1>2 DEF SetMail, Inv, Typed, RunOK, KeptOK
<1>3. CASE ~(m.keep /\ m.place = "inbox")
  <2>1. \A r \in Runs : kept'[r] = kept[r] \ {e}
    BY <1>3 DEF SetMail
  <2>2. kept' \in [Runs -> SUBSET Emails]
    BY <1>3 DEF SetMail, Inv, Typed
  <2>3. QED
    BY <1>1, <2>1, <2>2 DEF Inv, Typed, RunOK, KeptOK
<1>4. QED
  BY <1>2, <1>3

LEMMA EditMailKeeps == ASSUME Inv, NEW e \in Emails, NEW m \in Mail, EditMail(e, m) PROVE Inv'
<1>1. SetMail(e, m) /\ UNCHANGED <<tables, runVars>> /\ BoundsOK'
  BY BoundsKept DEF EditMail, Inv
<1>2. Typed'
  BY <1>1, MailMoves DEF Inv, Typed, tables, runVars
<1>3. ASSUME NEW r \in Runs PROVE RunOK(r)'
  BY <1>1, MailMoves
  DEF Inv, RunOK, SettingsOK, WorkOK, ToClean, KeptOK, At, tables, runVars
<1>4. QED
  BY <1>1, <1>2, <1>3 DEF Inv

LEMMA TablesKeep ==
    ASSUME Inv,
           \/ \E key \in Keys, s \in Setting : EditSetting(key, s)
           \/ \E u \in Users : Subscribe(u)
           \/ \E e \in Emails : Age(e)
    PROVE  Inv'
<1>1. /\ UNCHANGED <<mailbox, processed, runVars, kept>> /\ due \subseteq due'
      /\ due' \subseteq Emails /\ setting' \in [Keys -> Setting] /\ active' \subseteq Users
      /\ BoundsOK'
  BY BoundsKept DEF EditSetting, Subscribe, Age, Inv, Typed
<1>2. Typed'
  BY <1>1 DEF Inv, Typed, runVars
<1>3. ASSUME NEW r \in Runs PROVE RunOK(r)'
  BY <1>1 DEF Inv, RunOK, SettingsOK, WorkOK, ToClean, KeptOK, At, runVars
<1>4. QED
  BY <1>1, <1>2, <1>3 DEF Inv

-----------------------------------------------------------------------------
(* A run *)

\* A step of one run that gives it new locals, queue and threads, and leaves all
\* else alone but for what is kept and who is misled, both of this run only.
LEMMA OtherRuns ==
    ASSUME Inv, NEW r \in Runs, UNCHANGED <<mailbox, tables>>, BoundsOK',
           Typed', RunOK(r)',
           \A o \in Runs \ {r} : /\ run'[o] = run[o] /\ queue'[o] = queue[o]
                                 /\ cleaning'[o] = cleaning[o] /\ kept'[o] = kept[o]
                                 /\ (o \in misled' <=> o \in misled)
    PROVE  Inv'
<1>1. ASSUME NEW o \in Runs \ {r} PROVE RunOK(o)'
  BY <1>1 DEF Inv, RunOK, SettingsOK, WorkOK, ToClean, KeptOK, At, tables
<1>2. QED
  BY <1>1 DEF Inv

\* A run with nothing to clean up at the moment has its queue and its threads empty.
LEMMA NoWork ==
    ASSUME Inv, NEW r \in Runs, ~At(r, "clean")
    PROVE  queue[r] = {} /\ \A t \in Threads : cleaning[r][t] = None
BY DEF Inv, Typed, RunOK, WorkOK, ToClean

LEMMA StartRunKeeps == ASSUME Inv, NEW r \in Runs, StartRun(r) PROVE Inv'
<1>1. PICK read : read = {k \in Keys : setting[k].exists /\ User(k) \in active}
  OBVIOUS
<1>2. PICK new : new = [Idle EXCEPT !.pc = "users", !.settings = setting, !.todo = read]
  OBVIOUS
<1>3. /\ new \in Run /\ new.pc = "users" /\ new.of_user = {} /\ new.todo = read
      /\ new.settings = setting
  BY <1>1, <1>2 DEF Idle, Run, Inv, Typed
<1>4. run' = [run EXCEPT ![r] = new] /\ misled' = misled \ {r}
  BY <1>1, <1>2 DEF StartRun
<1>5. Typed' /\ BoundsOK' /\ run'[r] = new
  BY <1>3, <1>4, BoundsKept DEF StartRun, Inv, Typed, tables
<1>6. RunOK(r)'
  <2>1. queue'[r] = {} /\ \A t \in Threads : cleaning'[r][t] = None
    BY NoWork DEF StartRun, At
  <2>2. QED
    BY <1>1, <1>3, <1>5, <2>1 DEF RunOK, SettingsOK, WorkOK, KeptOK, At, StartRun, Inv
<1>7. QED
  BY <1>4, <1>5, <1>6, OtherRuns DEF StartRun, Inv, Typed

LEMMA TakeUserKeeps == ASSUME Inv, NEW r \in Runs, NEW u \in Users, TakeUser(r, u) PROVE Inv'
<1>1. PICK mine : mine = {k \in run[r].todo : User(k) = u}
  OBVIOUS
<1>2. queue[r] = {} /\ \A t \in Threads : cleaning[r][t] = None
  BY NoWork DEF TakeUser, At
<1>3. BoundsOK' /\ UNCHANGED <<mailbox, tables, queue, cleaning, misled>> /\ run[r] \in Run
  BY BoundsKept DEF TakeUser, Inv, Typed
<1>4. CASE /\ run' = [run EXCEPT ![r].pc = "list", ![r].todo = @ \ mine, ![r].of_user = mine,
                                 ![r].user = u, ![r].keep_ids = {}]
           /\ kept' = [kept EXCEPT ![r] = KeptInInbox(u)]
  <2>1. KeptInInbox(u) \subseteq Emails
    BY DEF KeptInInbox, InInbox
  <2>2. /\ run'[r] \in Run /\ run'[r].pc = "list" /\ run'[r].todo = run[r].todo \ mine
        /\ run'[r].of_user = mine /\ run'[r].user = u /\ run'[r].settings = run[r].settings
    BY <1>1, <1>3, <1>4 DEF Run, Inv, Typed
  <2>3. Typed'
    BY <1>3, <1>4, <2>1, <2>2 DEF Inv, Typed, tables
  <2>4. RunOK(r)'
    <3>1. \A e \in kept'[r] : mailbox[e].keep /\ mailbox[e].place = "inbox"
                              /\ User(processed[e]) = u
      BY <1>4 DEF KeptInInbox, InInbox, Inv, Typed
    <3>2. QED
      BY <1>1, <1>2, <1>3, <2>2, <3>1
      DEF RunOK, SettingsOK, WorkOK, KeptOK, At, Inv, tables
  <2>5. QED
    BY <1>3, <1>4, <2>3, <2>4, OtherRuns DEF Inv, Typed
<1>5. CASE run' = [run EXCEPT ![r].todo = @ \ mine] /\ UNCHANGED kept
  <2>1. /\ run'[r] \in Run /\ run'[r].pc = "users" /\ run'[r].todo = run[r].todo \ mine
        /\ run'[r].of_user = run[r].of_user /\ run'[r].settings = run[r].settings
    BY <1>3, <1>5 DEF Run, Inv, Typed, TakeUser, At
  <2>2. Typed'
    BY <1>3, <1>5, <2>1 DEF Inv, Typed, tables
  <2>3. RunOK(r)'
    BY <1>2, <1>3, <1>5, <2>1 DEF RunOK, SettingsOK, WorkOK, KeptOK, At, Inv, tables
  <2>4. QED
    BY <1>3, <1>5, <2>2, <2>3, OtherRuns DEF Inv, Typed
<1>6. QED
  BY <1>1, <1>4, <1>5 DEF TakeUser

\* A run behind its user goes on within the user's list and settings: it keeps its
\* user and settings, has left what it leaves alone, and its queue and threads
\* stay empty.
LEMMA RunGoesOn ==
    ASSUME Inv, NEW r \in Runs, ~At(r, "clean"),
           UNCHANGED <<mailbox, tables, queue, cleaning, kept>>, BoundsOK',
           run'[r] \in Run, run' = [run EXCEPT ![r] = run'[r]],
           misled' \in {misled, misled \cup {r}},
           run'[r].pc \in {"idle", "users", "list", "settings"},
           run'[r].settings = run[r].settings \/ run'[r].todo \cup run'[r].of_user = {},
           run'[r].todo \subseteq run[r].todo, run'[r].of_user \subseteq run[r].of_user,
           KeptOK(r)'
    PROVE  Inv'
<1>1. Typed'
  BY DEF Inv, Typed, tables
<1>2. RunOK(r)'
  BY NoWork DEF Inv, RunOK, SettingsOK, WorkOK, At
<1>3. QED
  BY <1>1, <1>2, OtherRuns DEF Inv, Typed

LEMMA ListPageKeeps == ASSUME Inv, NEW r \in Runs, ListPage(r) PROVE Inv'
<1>1. PICK rest : rest = KeptInInbox(run[r].user) \ run[r].keep_ids
  OBVIOUS
<1>2. PICK page \in SUBSET rest :
         run' = [run EXCEPT ![r].keep_ids = @ \cup page,
                            ![r].pc = IF page = rest THEN "settings" ELSE "list"]
  BY <1>1 DEF ListPage
<1>3. rest \subseteq Emails /\ run[r] \in Run /\ run[r].pc = "list"
  BY <1>1 DEF KeptInInbox, InInbox, ListPage, At, Inv, Typed
<1>4. /\ run'[r] \in Run /\ run'[r].keep_ids = run[r].keep_ids \cup page
      /\ run'[r].pc = IF page = rest THEN "settings" ELSE "list"
      /\ run'[r].user = run[r].user /\ run'[r].settings = run[r].settings
      /\ run'[r].todo = run[r].todo /\ run'[r].of_user = run[r].of_user
      /\ run' = [run EXCEPT ![r] = run'[r]]
  BY <1>2, <1>3 DEF Run, Inv, Typed
<1>5. KeptOK(r)'
  <2>1. kept[r] \subseteq KeptInInbox(run[r].user)
    BY <1>3 DEF Inv, Typed, RunOK, KeptOK, KeptInInbox, InInbox
  <2>2. UNCHANGED <<mailbox, processed, kept>>
    BY DEF ListPage, tables
  <2>3. \A e \in kept[r] : mailbox[e].keep /\ mailbox[e].place = "inbox"
                           /\ User(processed[e]) = run[r].user
    BY <1>3 DEF Inv, RunOK, KeptOK
  <2>4. run'[r].pc \in {"settings", "clean"} => kept[r] \subseteq run'[r].keep_ids
    BY <1>1, <1>4, <2>1
  <2>5. QED
    BY <1>4, <2>2, <2>3, <2>4 DEF KeptOK, User
<1>6. QED
  BY <1>3, <1>4, <1>5, RunGoesOn, BoundsKept DEF ListPage, At, Inv

LEMMA ListErrorPageKeeps == ASSUME Inv, NEW r \in Runs, ListErrorPage(r) PROVE Inv'
<1>1. run[r] \in Run /\ run[r].pc = "list"
  BY DEF ListErrorPage, At, Inv, Typed
<1>2. /\ run'[r] \in Run /\ run'[r].pc = "settings"
      /\ run'[r].user = run[r].user /\ run'[r].settings = run[r].settings
      /\ run'[r].todo = run[r].todo /\ run'[r].of_user = run[r].of_user
      /\ run' = [run EXCEPT ![r] = run'[r]] /\ r \in misled'
  BY <1>1 DEF Run, Inv, Typed, ListErrorPage
<1>3. KeptOK(r)'
  BY <1>1, <1>2 DEF Inv, RunOK, KeptOK, ListErrorPage, tables, User
<1>4. QED
  BY <1>1, <1>2, <1>3, RunGoesOn, BoundsKept DEF ListErrorPage, At, Inv

LEMMA RunEnds ==
    ASSUME Inv, NEW r \in Runs, ListFails(r) \/ EndRun(r)
    PROVE  Inv'
<1>1. Idle \in Run /\ Idle.pc = "idle" /\ Idle.todo \cup Idle.of_user = {}
  BY DEF Idle, Run, NoSetting, Setting, CleanupAction
<1>2. /\ run' = [run EXCEPT ![r] = Idle] /\ UNCHANGED <<mailbox, tables, queue, cleaning, kept, misled>>
      /\ ~At(r, "clean") /\ BoundsOK'
  BY BoundsKept DEF ListFails, EndRun, At, Inv
<1>3. run'[r] = Idle
  BY <1>2 DEF Inv, Typed
<1>4. KeptOK(r)'
  BY <1>1, <1>2, <1>3 DEF Inv, RunOK, KeptOK
<1>5. QED
  BY <1>1, <1>2, <1>3, <1>4, RunGoesOn

LEMMA EndUserKeeps == ASSUME Inv, NEW r \in Runs, EndUser(r) PROVE Inv'
<1>1. run[r] \in Run /\ run[r].pc = "settings"
  BY DEF EndUser, At, Inv, Typed
<1>2. /\ run'[r] \in Run /\ run'[r].pc = "users" /\ run'[r].settings = run[r].settings
      /\ run'[r].todo = run[r].todo /\ run'[r].of_user = run[r].of_user
      /\ run' = [run EXCEPT ![r] = run'[r]]
  BY <1>1 DEF Run, Inv, Typed, EndUser
<1>3. KeptOK(r)'
  BY <1>2 DEF Inv, RunOK, KeptOK, EndUser, tables
<1>4. QED
  BY <1>1, <1>2, <1>3, RunGoesOn, BoundsKept DEF EndUser, At, Inv

LEMMA TakeSettingKeeps ==
    ASSUME Inv, NEW r \in Runs, NEW key \in Keys, TakeSetting(r, key)
    PROVE  Inv'
<1>1. PICK emails : emails = {e \in due : processed[e] = key}
  OBVIOUS
<1>2. /\ run[r] \in Run /\ run[r].pc = "settings" /\ key \in run[r].of_user /\ BoundsOK'
      /\ UNCHANGED <<mailbox, tables, cleaning, kept, misled>>
  BY BoundsKept DEF TakeSetting, At, Inv, Typed
<1>3. CASE run' = [run EXCEPT ![r].of_user = @ \ {key}] /\ UNCHANGED queue
  <2>1. /\ run'[r] \in Run /\ run'[r].pc = "settings" /\ run'[r].settings = run[r].settings
        /\ run'[r].todo = run[r].todo /\ run'[r].of_user = run[r].of_user \ {key}
        /\ run'[r].user = run[r].user /\ run'[r].keep_ids = run[r].keep_ids
        /\ run' = [run EXCEPT ![r] = run'[r]]
    BY <1>2, <1>3 DEF Run, Inv, Typed
  <2>2. KeptOK(r)'
    BY <1>2, <2>1 DEF Inv, RunOK, KeptOK, tables, User
  <2>3. QED
    BY <1>2, <1>3, <2>1, <2>2, RunGoesOn DEF At
<1>4. CASE /\ run' = [run EXCEPT ![r].of_user = @ \ {key}, ![r].key = key, ![r].pc = "clean"]
           /\ queue' = [queue EXCEPT ![r] = emails \ run[r].keep_ids]
  <2>1. /\ run'[r] \in Run /\ run'[r].pc = "clean" /\ run'[r].settings = run[r].settings
        /\ run'[r].todo = run[r].todo /\ run'[r].of_user = run[r].of_user \ {key}
        /\ run'[r].user = run[r].user /\ run'[r].keep_ids = run[r].keep_ids
        /\ run'[r].key = key /\ queue'[r] = emails \ run[r].keep_ids
    BY <1>2, <1>4 DEF Run, Inv, Typed
  <2>2. Typed'
    BY <1>1, <1>2, <1>4, <2>1 DEF Inv, Typed, tables
  <2>3. SettingsOK(r)'
    BY <1>2, <2>1 DEF Inv, RunOK, SettingsOK, At
  <2>4. WorkOK(r)'
    <3>1. \A t \in Threads : cleaning'[r][t] = None
      BY <1>2, NoWork DEF At
    <3>2. \A e \in queue'[r] : ToClean(r, e)'
      BY <1>1, <1>2, <2>1 DEF ToClean, At, tables
    <3>3. QED
      BY <3>1, <3>2 DEF WorkOK
  <2>5. KeptOK(r)'
    BY <1>2, <2>1 DEF Inv, RunOK, KeptOK, tables, User
  <2>6. QED
    BY <1>2, <1>4, <2>2, <2>3, <2>4, <2>5, OtherRuns DEF RunOK, Inv, Typed
<1>5. QED
  BY <1>1, <1>3, <1>4 DEF TakeSetting

-----------------------------------------------------------------------------
(* The threads *)

LEMMA PopEmailKeeps == ASSUME Inv, NEW r \in Runs, NEW t \in Threads, PopEmail(r, t) PROVE Inv'
<1>1. PICK e \in queue[r] : /\ queue' = [queue EXCEPT ![r] = @ \ {e}]
                            /\ cleaning' = [cleaning EXCEPT ![r][t] = e]
  BY DEF PopEmail
<1>2. BoundsOK' /\ UNCHANGED <<mailbox, tables, run, kept, misled>> /\ e \in Emails
  BY <1>1, BoundsKept DEF PopEmail, Inv, Typed
<1>3. Typed'
  BY <1>1, <1>2 DEF Inv, Typed, tables
<1>4. RunOK(r)'
  <2>1. /\ queue'[r] = queue[r] \ {e}
        /\ \A s \in Threads : cleaning'[r][s] = IF s = t THEN e ELSE cleaning[r][s]
    BY <1>1 DEF Inv, Typed
  <2>2. \A k \in Emails : ToClean(r, k) => ToClean(r, k)'
    BY <1>2 DEF ToClean, At, tables
  <2>3. WorkOK(r)'
    BY <1>2, <2>1, <2>2 DEF Inv, Typed, RunOK, WorkOK
  <2>4. QED
    BY <1>2, <2>3 DEF Inv, RunOK, SettingsOK, KeptOK, At, tables
<1>5. QED
  BY <1>1, <1>2, <1>3, <1>4, OtherRuns DEF Inv, Typed

LEMMA CleanedIsMail ==
    ASSUME NEW m \in Mail, NEW action \in CleanupAction
    PROVE  Cleaned(m, action) \in Mail
BY DEF Cleaned, Mail, CleanupAction

\* The setting under which a run cleans up is one that it read.
LEMMA ActionRead ==
    ASSUME Inv, NEW r \in Runs, At(r, "clean")
    PROVE  /\ run[r].key \in Keys /\ run[r].settings[run[r].key].exists
           /\ run[r].settings[run[r].key].cleanup_action \in CleanupAction
<1>1. run[r].key \in Keys /\ run[r].settings[run[r].key].exists /\ run[r] \in Run
  BY DEF Inv, Typed, RunOK, SettingsOK
<1>2. run[r].settings[run[r].key] \in Setting
  BY <1>1 DEF Run
<1>3. \A s \in Setting : s.cleanup_action \in CleanupAction
  <2>1. \A s \in [cleanup_action : CleanupAction, is_disabled : BOOLEAN, exists : {TRUE}] :
           s.cleanup_action \in CleanupAction
    OBVIOUS
  <2>2. NoSetting.cleanup_action \in CleanupAction
    BY DEF NoSetting, CleanupAction
  <2>3. QED
    BY <2>1, <2>2 DEF Setting
<1>4. QED
  BY <1>1, <1>2, <1>3

LEMMA CleanEmailKeeps == ASSUME Inv, NEW r \in Runs, NEW t \in Threads, CleanEmail(r, t) PROVE Inv'
<1>1. /\ cleaning[r][t] # None /\ cleaning[r][t] \in Emails /\ ToClean(r, cleaning[r][t])
      /\ BoundsOK' /\ UNCHANGED <<tables, run, queue, misled>>
      /\ cleaning' = [cleaning EXCEPT ![r][t] = None]
  BY BoundsKept DEF CleanEmail, Inv, Typed, RunOK, WorkOK
<1>2. /\ mailbox' \in [Emails -> Mail] /\ kept' \in [Runs -> SUBSET Emails]
      /\ \A o \in Runs : kept'[o] \subseteq kept[o]
      /\ \A o \in Runs : \A k \in kept'[o] : mailbox'[k].keep /\ mailbox'[k].place = "inbox"
  <2>1. CASE UNCHANGED <<mailbox, kept>>
    BY <2>1 DEF Inv, Typed, RunOK, KeptOK
  <2>2. CASE SetMail(cleaning[r][t], Cleaned(mailbox[cleaning[r][t]],
                                             run[r].settings[run[r].key].cleanup_action))
    <3>1. Cleaned(mailbox[cleaning[r][t]], run[r].settings[run[r].key].cleanup_action) \in Mail
      BY <1>1, ActionRead, CleanedIsMail DEF ToClean, Inv, Typed
    <3>2. QED
      BY <1>1, <2>2, <3>1, MailMoves
  <2>3. QED
    BY <2>1, <2>2 DEF CleanEmail
<1>3. Typed'
  BY <1>1, <1>2 DEF Inv, Typed, tables
<1>4. ASSUME NEW o \in Runs PROVE RunOK(o)'
  <2>1. \A s \in Threads : cleaning'[o][s] \in {cleaning[o][s], None}
    BY <1>1 DEF Inv, Typed
  <2>2. \A k : ToClean(o, k) => ToClean(o, k)'
    BY <1>1 DEF ToClean, At, tables
  <2>3. WorkOK(o)'
    BY <1>1, <2>1, <2>2 DEF Inv, RunOK, WorkOK
  <2>4. QED
    BY <1>1, <1>2, <2>3 DEF Inv, RunOK, SettingsOK, KeptOK, At, tables
<1>5. QED
  BY <1>1, <1>3, <1>4 DEF Inv

LEMMA JoinThreadsKeeps == ASSUME Inv, NEW r \in Runs, JoinThreads(r) PROVE Inv'
<1>1. /\ run[r] \in Run /\ run[r].pc = "clean" /\ BoundsOK' /\ queue[r] = {}
      /\ \A t \in Threads : cleaning[r][t] = None
      /\ UNCHANGED <<mailbox, tables, queue, cleaning, kept, misled>>
  BY BoundsKept DEF JoinThreads, Threadless, At, Inv, Typed
<1>2. /\ run'[r] \in Run /\ run'[r].pc = "settings" /\ run'[r].settings = run[r].settings
      /\ run'[r].todo = run[r].todo /\ run'[r].of_user = run[r].of_user
      /\ run'[r].user = run[r].user /\ run'[r].keep_ids = run[r].keep_ids
      /\ run' = [run EXCEPT ![r] = run'[r]]
  BY <1>1 DEF Run, Inv, Typed, JoinThreads
<1>3. Typed'
  BY <1>1, <1>2 DEF Inv, Typed, tables
<1>4. RunOK(r)'
  BY <1>1, <1>2 DEF Inv, RunOK, SettingsOK, WorkOK, KeptOK, At, tables, User
<1>5. QED
  BY <1>1, <1>2, <1>3, <1>4, OtherRuns DEF Inv, Typed

LEMMA RestartKeeps == ASSUME Inv, Restart PROVE Inv'
<1>1. Idle \in Run /\ Idle.pc = "idle" /\ Idle.todo \cup Idle.of_user = {}
  BY DEF Idle, Run, NoSetting, Setting, CleanupAction
<1>2. Typed'
  BY <1>1 DEF Restart, Inv, Typed, tables
<1>3. BoundsOK'
  BY CleanupAssumption DEF Restart, Inv, BoundsOK
<1>4. ASSUME NEW r \in Runs PROVE RunOK(r)'
  BY <1>1 DEF Restart, RunOK, SettingsOK, WorkOK, KeptOK, At
<1>5. QED
  BY <1>2, <1>3, <1>4 DEF Inv

-----------------------------------------------------------------------------
(* Theorems *)

LEMMA NextInv == Inv /\ [Next]_vars => Inv'
<1> SUFFICES ASSUME Inv, [Next]_vars PROVE Inv'
  OBVIOUS
<1>1. CASE UNCHANGED vars
  <2>1. Typed' /\ BoundsOK'
    BY <1>1 DEF vars, tables, runVars, Inv, Typed, BoundsOK
  <2>2. \A r \in Runs : RunOK(r)'
    BY <1>1 DEF vars, tables, runVars, Inv, RunOK, SettingsOK, WorkOK, ToClean, KeptOK, At
  <2>3. QED
    BY <2>1, <2>2 DEF Inv
<1>2. ASSUME NEW r \in Runs, RunStep(r) PROVE Inv'
  BY <1>2, StartRunKeeps, TakeUserKeeps, ListPageKeeps, ListErrorPageKeeps, RunEnds,
     EndUserKeeps, TakeSettingKeeps, PopEmailKeeps, CleanEmailKeeps, JoinThreadsKeeps
  DEF RunStep
<1>3. CASE \E e \in Emails, m \in Mail : EditMail(e, m)
  BY <1>3, EditMailKeeps
<1>4. CASE \/ \E key \in Keys, s \in Setting : EditSetting(key, s)
           \/ \E u \in Users : Subscribe(u)
           \/ \E e \in Emails : Age(e)
  BY <1>4, TablesKeep
<1>5. CASE Restart
  BY <1>5, RestartKeeps
<1>6. QED
  BY <1>1, <1>2, <1>3, <1>4, <1>5 DEF Next

\* Every variable has its type, and threads have work only while their run waits
\* for them.
THEOREM CleanupTyping == Spec => []TypeOK
BY InitInv, NextInv, InvImpliesTypeOK, PTL DEF Spec

\* What a thread that moves an email knows of it.
LEMMA CleanedEmail ==
    ASSUME Inv, NEW r \in Runs, NEW t \in Threads, NEW e \in Emails, CleanedBy(r, t, e)
    PROVE  /\ ToClean(r, e) /\ run[r].key = processed[e]
           /\ mailbox[e] \in Mail
           /\ mailbox'[e] = Cleaned(mailbox[e], run[r].settings[processed[e]].cleanup_action)
<1>1. CleanEmail(r, t) /\ cleaning[r][t] = e /\ mailbox'[e] # mailbox[e] /\ e # None
  BY DEF CleanedBy, CleanEmail
<1>2. ToClean(r, e) /\ run[r].key = processed[e] /\ mailbox[e] \in Mail
  BY <1>1 DEF Inv, Typed, RunOK, WorkOK, ToClean
<1>3. SetMail(e, Cleaned(mailbox[e], run[r].settings[run[r].key].cleanup_action))
  BY <1>1 DEF CleanEmail
<1>4. QED
  BY <1>2, <1>3 DEF SetMail, Inv, Typed

\* An email is moved only as a setting of its user and category asked that the run
\* read, and after its days have passed: whatever other runs, failing calls and
\* edits of the settings come in between.
THEOREM MovesOnlyAsAsked == Spec => OnlyAsAsked
<1>1. Inv /\ [Next]_vars =>
        [\A r \in Runs, t \in Threads, e \in Emails : CleanedBy(r, t, e) =>
           LET asked == run[r].settings[processed[e]] IN
           /\ asked.exists /\ e \in due
           /\ mailbox'[e].place = IF asked.cleanup_action = "DELETE" THEN "trash" ELSE "archive"]_vars
  <2> SUFFICES ASSUME Inv, NEW r \in Runs, NEW t \in Threads, NEW e \in Emails,
                      CleanedBy(r, t, e)
               PROVE  /\ run[r].settings[processed[e]].exists /\ e \in due
                      /\ mailbox'[e].place =
                           IF run[r].settings[processed[e]].cleanup_action = "DELETE"
                           THEN "trash" ELSE "archive"
    OBVIOUS
  <2>1. run[r].settings[processed[e]].exists /\ e \in due
    BY CleanedEmail, ActionRead DEF ToClean
  <2>2. mailbox'[e] # mailbox[e]
    BY DEF CleanedBy
  <2>3. \A m \in Mail : \A action : Cleaned(m, action) # m =>
           Cleaned(m, action).place = IF action = "DELETE" THEN "trash" ELSE "archive"
    BY DEF Cleaned, Mail
  <2>4. QED
    BY <2>1, <2>2, <2>3, CleanedEmail
<1>2. QED
  BY <1>1, InitInv, NextInv, PTL DEF Spec, OnlyAsAsked

\* An email that was kept in the inbox from before the run took its user is not
\* moved by a run that read every page of its list.
THEOREM KeptEmailsStay == Spec => KeepProtects
<1>1. Inv /\ [Next]_vars =>
        [\A r \in Runs \ misled, t \in Threads, e \in Emails :
           CleanedBy(r, t, e) => e \notin kept[r]]_vars
  <2> SUFFICES ASSUME Inv, NEW r \in Runs \ misled, NEW t \in Threads, NEW e \in Emails,
                      CleanedBy(r, t, e)
               PROVE  e \notin kept[r]
    OBVIOUS
  <2>1. ToClean(r, e)
    BY CleanedEmail
  <2>2. QED
    BY <2>1 DEF ToClean, At, Inv, RunOK, KeptOK
<1>2. QED
  BY <1>1, InitInv, NextInv, PTL DEF Spec, KeepProtects
=============================================================================
