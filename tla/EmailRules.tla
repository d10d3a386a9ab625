----------------------------- MODULE EmailRules -----------------------------
(***************************************************************************)
(* One user's rules: the rows of custom_email_rule and                     *)
(* default_email_rule_override, which the front end writes; the copy a     *)
(* processor takes of them when it is made (UserEmailRules::from_user);    *)
(* the job of every minute that replaces a processor made before the last  *)
(* update of a rule (insert_processor); and the workers that file emails   *)
(* by the copy.                                                            *)
(*                                                                         *)
(* A processor's rules and its created_at never change: a worker holds a   *)
(* copy of them.  What else ends a processor is EmailPipeline's subject    *)
(* and may happen at any time here.                                        *)
(***************************************************************************)
EXTENDS RuleChoice, FiniteSets

CONSTANTS
    CustomRules,        \* the rules the user may add
    Overrides,          \* the contents an override may have
    Jobs,               \* overlapping runs of the minute job
    Workers,            \* the tasks of run_email_processing_loop
    MaxEdits,           \* bound on edits of the rules
    MaxFailures         \* bound on failing queries

ASSUME EmailRulesAssumption ==
    /\ CustomRules \subseteq Rule
    /\ Overrides \subseteq Override
    /\ MaxEdits \in Nat /\ MaxFailures \in Nat

VARIABLES
    overrides,          \* label -> its row in default_email_rule_override
    custom,             \* the rules in custom_email_rule
    updated_at,         \* row -> when it was written, 0 if there is none
    now,                \* the time: the number of edits so far
    processor,          \* the user's processor in the map
    job,                \* job -> where it is and what it has read
    worker,             \* worker -> the email it files
    failures            \* failed queries so far

tables == <<overrides, custom, updated_at, now>>
vars == <<tables, processor, job, worker, failures>>

NoOverride == [exists |-> FALSE, is_disabled |-> FALSE, category |-> NoCategory]
NoRules == [custom |-> {}, default |-> {}]

\* The rows: an override is known by its label, a custom rule by itself.
Rows == [table : {"override"}, key : Categories] \cup [table : {"custom"}, key : CustomRules]
OverrideRow(l) == [table |-> "override", key |-> l]
CustomRow(r) == [table |-> "custom", key |-> r]

\* created_at and the rules of a processor.  blind is a ghost, for a
\* processor whose rules differ from the tables in a way no time shows.
NoProcessor == [exists |-> FALSE, data |-> NoRules, created_at |-> 0, blind |-> FALSE]
Processor == [exists : BOOLEAN, data : RuleData, created_at : Nat, blind : BOOLEAN]

JobPC == {"idle", "check", "create"}
IdleJob == [pc |-> "idle", updates |-> {}, read |-> {},
            overrides |-> [l \in Categories |-> NoOverride], custom |-> {}, blind |-> FALSE]
Job == [pc : JobPC, updates : SUBSET Nat, read : SUBSET {"override", "custom"},
        overrides : [Categories -> Override], custom : SUBSET Rule, blind : BOOLEAN]

WorkerPC == {"idle", "prompt", "file"}
IdleWorker == [pc |-> "idle", data |-> NoRules, created_at |-> 0, blind |-> FALSE,
               answer |-> UnknownRule.prompt_content, confident |-> FALSE,
               sender |-> CHOOSE s \in Senders : TRUE, rule |-> UnknownRule]
Worker == [pc : WorkerPC, data : RuleData, created_at : Nat, blind : BOOLEAN,
           answer : Answers, confident : BOOLEAN, sender : Senders, rule : Rule]

Fails == failures < MaxFailures /\ failures' = failures + 1

CurrentRules == BuildCategoryRules(overrides, custom)

-----------------------------------------------------------------------------
(* The front end *)

\* A row is written: jobs that have read its table already do not see it.
Write(row) ==
    /\ now < MaxEdits /\ now' = now + 1
    /\ updated_at' = [updated_at EXCEPT ![row] = now + 1]
    /\ job' = [j \in Jobs |-> [job[j] EXCEPT !.blind = @ \/ row.table \in job[j].read]]
    /\ UNCHANGED <<processor, worker, failures>>

\* A row is deleted, and its time with it.
Delete(row) ==
    /\ now < MaxEdits /\ now' = now + 1
    /\ updated_at' = [updated_at EXCEPT ![row] = 0]
    /\ job' = [j \in Jobs |-> [job[j] EXCEPT !.blind = @ \/ row.table \in job[j].read]]
    /\ processor' = [processor EXCEPT !.blind = processor.exists]
    /\ UNCHANGED <<worker, failures>>

WriteOverride(l, o) ==
    /\ o.exists /\ Write(OverrideRow(l))
    /\ overrides' = [overrides EXCEPT ![l] = o]
    /\ UNCHANGED custom

DeleteOverride(l) ==
    /\ overrides[l].exists /\ Delete(OverrideRow(l))
    /\ overrides' = [overrides EXCEPT ![l] = NoOverride]
    /\ UNCHANGED custom

AddCustomRule(r) ==
    /\ r \notin custom /\ Write(CustomRow(r))
    /\ custom' = custom \cup {r}
    /\ UNCHANGED overrides

DeleteCustomRule(r) ==
    /\ r \in custom /\ Delete(CustomRow(r))
    /\ custom' = custom \ {r}
    /\ UNCHANGED overrides

Edit ==
    \/ \E l \in Categories : DeleteOverride(l) \/ \E o \in Overrides : WriteOverride(l, o)
    \/ \E r \in CustomRules : AddCustomRule(r) \/ DeleteCustomRule(r)

-----------------------------------------------------------------------------
(* The minute job *)

\* Mutant: GREATEST leaves out the overrides.
CustomUpdates == {updated_at[CustomRow(r)] : r \in CustomRules}

\* last_rule_update_time is the greatest of these: a time is before it if it is
\* before one of them.
RuleUpdates == {updated_at[row] : row \in Rows}

\* all_with_available_quota
ReadUsers(j) ==
    /\ job[j].pc = "idle"
    /\ job' = [job EXCEPT ![j].pc = "check", ![j].updates = RuleUpdates]
    /\ UNCHANGED <<tables, processor, worker, failures>>

\* Mutant: only the processor's own state counts.
CheckStateOnly(j, ended) ==
    /\ job[j].pc = "check"
    /\ job' = [job EXCEPT ![j] = IF ~processor.exists \/ ended
                                 THEN [@ EXCEPT !.pc = "create", !.updates = {}] ELSE IdleJob]
    /\ UNCHANGED <<tables, processor, worker, failures>>

\* insert_processor: ended stands for a processor that has stopped, or whose
\* token count differs from the row.
CheckProcessor(j, ended) ==
    LET outdated == \E u \in job[j].updates : processor.created_at < u IN
    /\ job[j].pc = "check"
    /\ job' = [job EXCEPT ![j] = IF ~processor.exists \/ ended \/ outdated
                                 THEN [@ EXCEPT !.pc = "create", !.updates = {}] ELSE IdleJob]
    /\ UNCHANGED <<tables, processor, worker, failures>>

\* from_user: two queries at the same time.
ReadOverrides(j) ==
    /\ job[j].pc = "create" /\ "override" \notin job[j].read
    /\ job' = [job EXCEPT ![j].read = @ \cup {"override"}, ![j].overrides = overrides]
    /\ UNCHANGED <<tables, processor, worker, failures>>

ReadCustomRules(j) ==
    /\ job[j].pc = "create" /\ "custom" \notin job[j].read
    /\ job' = [job EXCEPT ![j].read = @ \cup {"custom"}, ![j].custom = custom]
    /\ UNCHANGED <<tables, processor, worker, failures>>

\* No client, or a query that fails: the job is done with this user.
CreateFails(j) ==
    /\ job[j].pc = "create" /\ Fails
    /\ job' = [job EXCEPT ![j] = IdleJob]
    /\ UNCHANGED <<tables, processor, worker>>

\* Mutant: the answers are kept for the next user.
CreateAndKeep(j) ==
    /\ job[j].pc = "create" /\ job[j].read = {"override", "custom"}
    /\ processor' = [exists |-> TRUE, created_at |-> now, blind |-> job[j].blind,
                     data |-> BuildCategoryRules(job[j].overrides, job[j].custom)]
    /\ job' = [job EXCEPT ![j].pc = "idle"]
    /\ UNCHANGED <<tables, worker, failures>>

\* EmailProcessor::new has both answers, takes the time and is put in the map.
CreateProcessor(j) ==
    /\ job[j].pc = "create" /\ job[j].read = {"override", "custom"}
    /\ processor' = [exists |-> TRUE, created_at |-> now, blind |-> job[j].blind,
                     data |-> BuildCategoryRules(job[j].overrides, job[j].custom)]
    /\ job' = [job EXCEPT ![j] = IdleJob]
    /\ UNCHANGED <<tables, worker, failures>>

JobStep(j) ==
    \/ ReadUsers(j) \/ ReadOverrides(j) \/ ReadCustomRules(j) \/ CreateProcessor(j)
    \/ \E ended \in BOOLEAN : CheckProcessor(j, ended)

\* The cleanup loop drops a processor that has stopped; a restart drops it too.
DropProcessor ==
    /\ processor.exists /\ Fails
    /\ processor' = NoProcessor
    /\ UNCHANGED <<tables, job, worker>>

-----------------------------------------------------------------------------
(* The workers *)

GetProcessor(w) ==
    /\ worker[w].pc = "idle" /\ processor.exists
    /\ worker' = [worker EXCEPT ![w] = [@ EXCEPT !.pc = "prompt", !.data = processor.data,
                                           !.created_at = processor.created_at,
                                           !.blind = processor.blind]]
    /\ UNCHANGED <<tables, processor, job, failures>>

\* parse_and_prompt_email
ChooseRule(w, answer, confident, sender) ==
    /\ worker[w].pc = "prompt"
    /\ \E r \in Selected(worker[w].data, answer, confident, sender) :
         worker' = [worker EXCEPT ![w] = [@ EXCEPT !.pc = "file", !.answer = answer, !.rule = r,
                                            !.confident = confident, !.sender = sender]]
    /\ UNCHANGED <<tables, processor, job, failures>>

\* The email is labelled and recorded, or given up.
Finish(w) ==
    /\ worker[w].pc # "idle"
    /\ worker' = [worker EXCEPT ![w] = IdleWorker]
    /\ UNCHANGED <<tables, processor, job, failures>>

-----------------------------------------------------------------------------

Init ==
    /\ overrides = [l \in Categories |-> NoOverride]
    /\ custom = {}
    /\ updated_at = [row \in Rows |-> 0]
    /\ now = 0
    /\ processor = NoProcessor
    /\ job = [j \in Jobs |-> IdleJob]
    /\ worker = [w \in Workers |-> IdleWorker]
    /\ failures = 0

Next ==
    \/ Edit \/ DropProcessor
    \/ \E j \in Jobs : JobStep(j) \/ CreateFails(j)
    \/ \E w \in Workers : GetProcessor(w) \/ Finish(w)
    \/ \E w \in Workers, answer \in Answers, confident \in BOOLEAN, sender \in Senders :
         ChooseRule(w, answer, confident, sender)

Spec == Init /\ [][Next]_vars

\* The scheduler starts the job every minute and its queries return.
FairSpec == Spec /\ \A j \in Jobs : WF_vars(JobStep(j))
-----------------------------------------------------------------------------
(* Properties *)

\* The variables have the types of the rows and structs they stand for, and a
\* job keeps what it read only while it makes a processor.
TypeOK ==
    /\ overrides \in [Categories -> Override]
    /\ custom \subseteq CustomRules
    /\ updated_at \in [Rows -> Nat] /\ now \in Nat /\ failures \in Nat
    /\ processor \in Processor
    /\ job \in [Jobs -> Job]
    /\ \A j \in Jobs : job[j].pc # "create" => job[j].read = {} /\ ~job[j].blind
    /\ worker \in [Workers -> Worker]

\* The comparison of insert_processor misses no change it can see: a processor
\* whose rules are not the user's rules any more was made before their last
\* update, unless a rule was deleted or its table written while it was read.
StaleIsSeen ==
    processor.exists =>
        \/ processor.data = CurrentRules
        \/ \E u \in RuleUpdates : processor.created_at < u
        \/ processor.blind

\* parse_and_prompt_email, for the rules the user wrote: an email leaves the rule
\* of the answer only for a heuristic of its sender or for doubt; the user's own
\* rule goes before a default one; an exempt answer keeps its rule whoever sent
\* it; and a doubtful answer is never filed as it says.
FiledAsAnswered ==
    \A w \in Workers : worker[w].pc = "file" =>
        LET rule == worker[w].rule
            answer == worker[w].answer
            own == Answering(worker[w].data.custom, answer)
            answering == own \cup Answering(worker[w].data.default, answer)
            heuristics == HeuristicOf[worker[w].sender]
        IN /\ answer \in Exempt \/ heuristics = {} =>
                /\ worker[w].confident /\ answering # {} => rule \in answering
                /\ worker[w].confident /\ own # {} => rule \in own
           /\ rule \in answering \cup heuristics \cup {UnknownRule}
           /\ ~worker[w].confident => rule = UnknownRule \/ rule.prompt_content # answer

\* A category the user has disabled is not what an email is filed under by a
\* processor made since then, but for another rule or a heuristic of its label.
DisabledIsUnused ==
    \A w \in Workers : worker[w].pc = "file" =>
        LET l == worker[w].rule.mail_label IN
        \/ l \notin Categories \/ ~overrides[l].is_disabled
        \/ worker[w].created_at < updated_at[OverrideRow(l)] \/ worker[w].blind
        \/ l \in LabelsOf(worker[w].data.custom \cup HeuristicRules \cup {UnknownRule})

\* A user who stops editing gets a processor with the rules as they are, unless
\* the last change was one StaleIsSeen lets pass.
RulesFollowed ==
    <>[](processor.exists /\ (processor.data = CurrentRules \/ processor.blind))

\* "Rules have changed, recreating processor" (active_email_processors.rs:55):
\* every change is followed in the end.
EveryChangeFollowed == <>[](processor.exists /\ processor.data = CurrentRules)
=============================================================================
