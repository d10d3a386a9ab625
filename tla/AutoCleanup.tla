----------------------------- MODULE AutoCleanup -----------------------------
(***************************************************************************)
(* The hourly cleanup (run_auto_email_cleanup of email/tasks.rs): old      *)
(* processed emails are trashed or archived as the settings of their user  *)
(* ask, but for those that carry the keep label.                           *)
(*                                                                         *)
(* A setting is known by its user and category, which are unique.  Runs of *)
(* two hours may overlap.  FlagIsSelected is that of AccountAccess: with   *)
(* FALSE, the code, no run gets a mail client; TRUE adds the column, so    *)
(* that the code behind the query can be studied.                          *)
(***************************************************************************)
EXTENDS Integers, FiniteSets

CONSTANTS
    Users, Categories, Emails,
    Runs,               \* runs of the job at a time
    Threads,            \* tasks of a run that clean emails
    None,               \* no user, no setting, no email
    PageSize,           \* most ids in a page of the mail list
    FlagIsSelected,     \* the query for the user yields needs_reauthentication
    MaxEdits,           \* bound on what the users change
    MaxFailures,        \* bound on failing calls of services
    MaxRestarts         \* bound on restarts of the server

ASSUME CleanupAssumption ==
    /\ None \notin Emails \cup Users \cup (Users \X Categories)
    /\ FlagIsSelected \in BOOLEAN
    /\ PageSize \in Nat \ {0}
    /\ {MaxEdits, MaxFailures, MaxRestarts} \subseteq Nat

VARIABLES
    mailbox,        \* email -> where it is, and whether it has the keep label
    processed,      \* email -> the user and category of its row in processed_email
    due,            \* emails processed more than after_days_old ago
    setting,        \* user and category -> the row of auto_cleanup_setting
    active,         \* users with an active subscription
    run,            \* run -> its locals
    queue,          \* run -> emails to clean up under its current setting
    cleaning,       \* run, thread -> the email it has popped
    kept,           \* run -> emails kept in the inbox ever since it took their user
    misled,         \* runs that took an error for an empty page
    edits, failures, restarts

tables == <<processed, due, setting, active>>
runVars == <<run, queue, cleaning, misled>>
vars == <<mailbox, tables, runVars, kept, edits, failures, restarts>>

Keys == Users \X Categories
CleanupAction == {"DELETE", "ARCHIVE", "NOTHING"}
NoSetting == [cleanup_action |-> "NOTHING", is_disabled |-> FALSE, exists |-> FALSE]
Setting == [cleanup_action : CleanupAction, is_disabled : BOOLEAN, exists : {TRUE}] \cup {NoSetting}
Mail == [place : {"inbox", "archive", "trash"}, keep : BOOLEAN]

User(key) == key[1]
InInbox(u) == {e \in Emails : User(processed[e]) = u /\ mailbox[e].place = "inbox"}
KeptInInbox(u) == {e \in InInbox(u) : mailbox[e].keep}

Idle == [pc |-> "idle", settings |-> [k \in Keys |-> NoSetting], todo |-> {}, of_user |-> {},
         user |-> None, keep_ids |-> {}, key |-> None]

Works == UNCHANGED <<edits, failures, restarts>>
Fails == failures < MaxFailures /\ failures' = failures + 1 /\ UNCHANGED <<edits, restarts>>

\* What became of an email: it stays among the kept ones only if it still is one.
SetMail(e, m) ==
    /\ mailbox' = [mailbox EXCEPT ![e] = m]
    /\ kept' = IF m.keep /\ m.place = "inbox" THEN kept ELSE [r \in Runs |-> kept[r] \ {e}]

-----------------------------------------------------------------------------
(* The users and the time *)

Edits == edits < MaxEdits /\ edits' = edits + 1 /\ UNCHANGED <<failures, restarts>>

\* In Gmail: the keep label is put on or taken off, an email is moved.
EditMail(e, m) ==
    /\ Edits /\ m # mailbox[e]
    /\ SetMail(e, m)
    /\ UNCHANGED <<tables, runVars>>

EditSetting(key, s) ==
    /\ Edits /\ setting' = [setting EXCEPT ![key] = s]
    /\ UNCHANGED <<mailbox, processed, due, active, runVars, kept>>

Subscribe(u) ==
    /\ Edits /\ active' = (active \ {u}) \cup ({u} \ active)
    /\ UNCHANGED <<mailbox, processed, due, setting, runVars, kept>>

Age(e) ==
    /\ due' = due \cup {e} /\ e \notin due /\ Works
    /\ UNCHANGED <<mailbox, processed, setting, active, runVars, kept>>

-----------------------------------------------------------------------------
(* A run *)

At(r, pc) == run[r].pc = pc
Threadless(r) == \A t \in Threads : cleaning[r][t] = None

\* all_active_user_cleanup_settings: disabled ones too.
StartRun(r) ==
    LET read == {k \in Keys : setting[k].exists /\ User(k) \in active} IN
    /\ At(r, "idle") /\ Works
    /\ run' = [run EXCEPT ![r] = [Idle EXCEPT !.pc = "users", !.settings = setting, !.todo = read]]
    /\ misled' = misled \ {r}
    /\ UNCHANGED <<mailbox, tables, queue, cleaning, kept>>

\* get_email_client: when it fails, as it does while the query lacks the column,
\* the run goes on with the next user.
TakeUser(r, u) ==
    LET mine == {k \in run[r].todo : User(k) = u} IN
    /\ At(r, "users") /\ mine # {}
    /\ \/ /\ FlagIsSelected /\ Works
          /\ run' = [run EXCEPT ![r].pc = "list", ![r].todo = @ \ mine, ![r].of_user = mine,
                                ![r].user = u, ![r].keep_ids = {}]
          /\ kept' = [kept EXCEPT ![r] = KeptInInbox(u)]
       \/ /\ (~FlagIsSelected /\ Works) \/ Fails
          /\ run' = [run EXCEPT ![r].todo = @ \ mine]
          /\ UNCHANGED kept
    /\ UNCHANGED <<mailbox, tables, queue, cleaning, misled>>

\* Mutant: the first page is taken for the whole list.
ListFirstPage(r) ==
    /\ At(r, "list") /\ Works
    /\ \E page \in SUBSET KeptInInbox(run[r].user) :
         /\ Cardinality(page) <= PageSize
         /\ run' = [run EXCEPT ![r].keep_ids = @ \cup page, ![r].pc = "settings"]
    /\ UNCHANGED <<mailbox, tables, queue, cleaning, kept, misled>>

\* A page of get_all_message_ids_with_keep_label, up to the one without a next
\* page or without messages.
ListPage(r) ==
    LET rest == KeptInInbox(run[r].user) \ run[r].keep_ids IN
    /\ At(r, "list") /\ Works
    /\ \E page \in SUBSET rest :
         /\ Cardinality(page) <= PageSize /\ (page = {} => rest = {})
         /\ run' = [run EXCEPT ![r].keep_ids = @ \cup page,
                               ![r].pc = IF page = rest THEN "settings" ELSE "list"]
    /\ UNCHANGED <<mailbox, tables, queue, cleaning, kept, misled>>

\* An answer that is an error is read as a page without messages.
ListErrorPage(r) ==
    /\ At(r, "list") /\ Fails
    /\ run' = [run EXCEPT ![r].pc = "settings"]
    /\ misled' = misled \cup {r}
    /\ UNCHANGED <<mailbox, tables, queue, cleaning, kept>>

\* No answer: the error ends the run, for all users that are left.
ListFails(r) ==
    /\ At(r, "list") /\ Fails
    /\ run' = [run EXCEPT ![r] = Idle]
    /\ UNCHANGED <<mailbox, tables, queue, cleaning, kept, misled>>

\* Mutant: the query does not ask for the category.
TakeSettingAnyCategory(r, key) ==
    LET emails == {e \in due : User(processed[e]) = User(key)} IN
    /\ At(r, "settings") /\ key \in run[r].of_user
    /\ \/ /\ emails = {} /\ Works
          /\ run' = [run EXCEPT ![r].of_user = @ \ {key}] /\ UNCHANGED queue
       \/ /\ emails # {} /\ Works
          /\ run' = [run EXCEPT ![r].of_user = @ \ {key}, ![r].key = key, ![r].pc = "clean"]
          /\ queue' = [queue EXCEPT ![r] = emails \ run[r].keep_ids]
    /\ UNCHANGED <<mailbox, tables, cleaning, kept, misled>>

\* get_users_processed_emails_for_cleanup: without emails, or when it fails, the
\* run goes on with the next setting.
TakeSetting(r, key) ==
    LET emails == {e \in due : processed[e] = key} IN
    /\ At(r, "settings") /\ key \in run[r].of_user
    /\ \/ /\ (emails = {} /\ Works) \/ Fails
          /\ run' = [run EXCEPT ![r].of_user = @ \ {key}] /\ UNCHANGED queue
       \/ /\ emails # {} /\ Works
          /\ run' = [run EXCEPT ![r].of_user = @ \ {key}, ![r].key = key, ![r].pc = "clean"]
          /\ queue' = [queue EXCEPT ![r] = emails \ run[r].keep_ids]
    /\ UNCHANGED <<mailbox, tables, cleaning, kept, misled>>

PopEmail(r, t) ==
    /\ At(r, "clean") /\ cleaning[r][t] = None /\ Works
    /\ \E e \in queue[r] :
         /\ queue' = [queue EXCEPT ![r] = @ \ {e}]
         /\ cleaning' = [cleaning EXCEPT ![r][t] = e]
    /\ UNCHANGED <<mailbox, tables, run, kept, misled>>

\* trash_email moves an email from anywhere, archive_email takes it from the inbox.
Cleaned(m, action) ==
    CASE action = "DELETE" -> [m EXCEPT !.place = "trash"]
      [] action = "ARCHIVE" /\ m.place = "inbox" -> [m EXCEPT !.place = "archive"]
      [] OTHER -> m

\* The action is that of the setting as it was read.  A failure is logged, or
\* with an answer that is an error not even noticed.
CleanEmail(r, t) ==
    LET e == cleaning[r][t]
        action == run[r].settings[run[r].key].cleanup_action
    IN
    /\ e # None
    /\ cleaning' = [cleaning EXCEPT ![r][t] = None]
    /\ \/ Works /\ SetMail(e, Cleaned(mailbox[e], action))
       \/ Fails /\ UNCHANGED <<mailbox, kept>>
    /\ UNCHANGED <<tables, run, queue, misled>>

\* Mutant: the threads are not waited for.
LeaveThreads(r) ==
    /\ At(r, "clean") /\ queue[r] = {} /\ Works
    /\ run' = [run EXCEPT ![r].pc = "settings", ![r].key = None]
    /\ UNCHANGED <<mailbox, tables, queue, cleaning, kept, misled>>

JoinThreads(r) ==
    /\ At(r, "clean") /\ queue[r] = {} /\ Threadless(r) /\ Works
    /\ run' = [run EXCEPT ![r].pc = "settings", ![r].key = None]
    /\ UNCHANGED <<mailbox, tables, queue, cleaning, kept, misled>>

\* The settings of the user are done; or all users are.
EndUser(r) ==
    /\ At(r, "settings") /\ run[r].of_user = {} /\ Works
    /\ run' = [run EXCEPT ![r].pc = "users", ![r].user = None]
    /\ UNCHANGED <<mailbox, tables, queue, cleaning, kept, misled>>

EndRun(r) ==
    /\ At(r, "users") /\ run[r].todo = {} /\ Works
    /\ run' = [run EXCEPT ![r] = Idle]
    /\ UNCHANGED <<mailbox, tables, queue, cleaning, kept, misled>>

RunStep(r) ==
    \/ StartRun(r) \/ ListPage(r) \/ ListErrorPage(r) \/ ListFails(r)
    \/ JoinThreads(r) \/ EndUser(r) \/ EndRun(r)
    \/ \E u \in Users : TakeUser(r, u)
    \/ \E key \in Keys : TakeSetting(r, key)
    \/ \E t \in Threads : PopEmail(r, t) \/ CleanEmail(r, t)

Restart ==
    /\ restarts < MaxRestarts /\ restarts' = restarts + 1
    /\ run' = [r \in Runs |-> Idle]
    /\ queue' = [r \in Runs |-> {}]
    /\ cleaning' = [r \in Runs |-> [t \in Threads |-> None]]
    /\ misled' = {} /\ kept' = [r \in Runs |-> {}]
    /\ UNCHANGED <<mailbox, tables, edits, failures>>

-----------------------------------------------------------------------------

Init ==
    /\ mailbox \in [Emails -> {m \in Mail : m.place = "inbox"}]
    /\ processed \in [Emails -> Keys] /\ due = {}
    /\ setting \in [Keys -> {s \in Setting : ~s.is_disabled}] /\ active = Users
    /\ run = [r \in Runs |-> Idle]
    /\ queue = [r \in Runs |-> {}]
    /\ cleaning = [r \in Runs |-> [t \in Threads |-> None]]
    /\ kept = [r \in Runs |-> {}] /\ misled = {}
    /\ edits = 0 /\ failures = 0 /\ restarts = 0

Next ==
    \/ \E e \in Emails : Age(e) \/ \E m \in Mail : EditMail(e, m)
    \/ \E key \in Keys, s \in Setting : EditSetting(key, s)
    \/ \E u \in Users : Subscribe(u)
    \/ \E r \in Runs : RunStep(r)
    \/ Restart

Spec == Init /\ [][Next]_vars

\* The scheduler starts a run every hour, and its tasks go on to their end.
FairSpec == Spec /\ \A r \in Runs : WF_vars(RunStep(r))

-----------------------------------------------------------------------------
(* Properties *)

Run == [pc : {"idle", "users", "list", "settings", "clean"}, settings : [Keys -> Setting],
        todo : SUBSET Keys, of_user : SUBSET Keys, user : Users \cup {None}, keep_ids : SUBSET Emails,
        key : Keys \cup {None}]

\* Types; and threads have work only while their run waits for them.
TypeOK ==
    /\ mailbox \in [Emails -> Mail] /\ processed \in [Emails -> Keys] /\ due \subseteq Emails
    /\ setting \in [Keys -> Setting] /\ active \subseteq Users
    /\ run \in [Runs -> Run] /\ queue \in [Runs -> SUBSET Emails]
    /\ cleaning \in [Runs -> [Threads -> Emails \cup {None}]]
    /\ kept \in [Runs -> SUBSET Emails] /\ misled \subseteq Runs
    /\ \A r \in Runs : At(r, "clean") \/ (queue[r] = {} /\ Threadless(r))
    /\ edits \in 0..MaxEdits /\ failures \in 0..MaxFailures /\ restarts \in 0..MaxRestarts

\* A step of the cleanup, for the properties.
CleanedBy(r, t, e) == CleanEmail(r, t) /\ cleaning[r][t] = e /\ mailbox'[e] # mailbox[e]

\* An email is moved only where a setting of its own user and category asked for
\* it when the run read the settings, and after its days have passed.
OnlyAsAsked ==
    [][\A r \in Runs, t \in Threads, e \in Emails : CleanedBy(r, t, e) =>
         LET asked == run[r].settings[processed[e]] IN
         /\ asked.exists /\ e \in due
         /\ mailbox'[e].place = IF asked.cleanup_action = "DELETE" THEN "trash" ELSE "archive"]_vars

\* Kept emails stay: those in the inbox with the keep label from before the run
\* took their user, however many pages they fill.
KeepProtects ==
    [][\A r \in Runs \ misled, t \in Threads, e \in Emails :
         CleanedBy(r, t, e) => e \notin kept[r]]_vars

\* "Error loading next keep label email page" (tasks.rs:222): a page that cannot
\* be loaded is an error, and never an email that is not protected.
KeptIsKept ==
    [][\A r \in Runs, t \in Threads, e \in Emails : CleanedBy(r, t, e) => e \notin kept[r]]_vars

\* is_disabled (schema.prisma:111): a setting that was disabled when the run read
\* it moves nothing.
DisabledIsLeftAlone ==
    [][\A r \in Runs, t \in Threads, e \in Emails :
         CleanedBy(r, t, e) => ~run[r].settings[processed[e]].is_disabled]_vars

\* "Start of every hour, run auto email cleanup" (main.rs:149): what a setting asks
\* for is done in the end, unless it no longer asks for it.
Asked(e) ==
    LET s == setting[processed[e]] IN
    /\ e \in due /\ User(processed[e]) \in active
    /\ s.exists /\ s.cleanup_action = "DELETE"
    /\ ~mailbox[e].keep

AskedIsDone == \A e \in Emails : Asked(e) ~> (mailbox[e].place = "trash" \/ ~Asked(e))
=============================================================================
