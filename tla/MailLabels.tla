----------------------------- MODULE MailLabels -----------------------------
(***************************************************************************)
(* The labels of one user's mailbox: how processors make sure that they    *)
(* exist (configure_labels_if_needed), how emails get them (label_email),  *)
(* and how a worker whose labelling fails repairs them.                    *)
(*                                                                         *)
(* A processor configures the labels before its run loop; so does a worker *)
(* after any error of a labelling.  Each lists the labels first and then   *)
(* creates the missing ones at the same time, while other processors and   *)
(* workers do the same and the user deletes labels in Gmail.               *)
(***************************************************************************)
EXTENDS RuleChoice, FiniteSets

CONSTANTS
    NProcs,             \* the processors made for the user, one after the other
    RulesOf,            \* processor -> its rules
    Threads,            \* the tasks of run_email_processing_loop
    Emails,             \* the user's new emails
    Parent,             \* the label Mailclerk itself
    Present,            \* labels the mailbox has when the server starts
    Deletable,          \* the labels the user may delete
    MaxEdits,           \* bound on labels deleted and emails moved by the user
    MaxFailures,        \* bound on failing calls
    MaxReplaced         \* bound on processors replaced though they did not fail

Procs == 1..NProcs
Actors == Procs \cup Threads

ASSUME LabelsAssumption ==
    /\ NProcs \in Nat /\ RulesOf \in [Procs -> RuleData]
    /\ Procs \cap Threads = {} /\ Parent \notin LabelNames
    /\ Present \subseteq LabelNames \cup {Parent}
    /\ {MaxEdits, MaxFailures, MaxReplaced} \subseteq Nat

VARIABLES
    labels,             \* label -> its id in Gmail, 0 if there is none
    categories,         \* email -> the Gmail categories it is in
    labelled,           \* emails labelled and recorded, or hidden by their label
    moved,              \* ghost: emails moved after their message was fetched
    edits,              \* the user's edits so far; later labels have later ids
    current,            \* the processor in the map, 0 before the first
    failed,             \* processors sent the signal Fail
    config,             \* actor -> its call of configure_labels_if_needed
    thread,             \* thread -> the email it labels
    failures, replaced  \* failing calls and replacements so far

gmail == <<labels, categories, labelled, moved, edits>>
map == <<current, failed, replaced>>
vars == <<gmail, map, config, thread, failures>>

Names == LabelNames \cup {Parent}

\* A call of configure_labels_if_needed for a processor: labels still to be
\* created, whether a creation has failed, and (a ghost) the labels deleted since
\* it listed them.
Config == [pc : {"idle", "list", "parent", "create", "ok"}, proc : 0..NProcs,
           todo : SUBSET Names, erred : BOOLEAN, gone : SUBSET Names]
NoConfig == [pc |-> "idle", proc |-> 0, todo |-> {}, erred |-> FALSE, gone |-> {}]
NewConfig(p) == [NoConfig EXCEPT !.pc = "list", !.proc = p]

\* A worker in process_email: the message's categories as fetched, the rule
\* chosen, and the id found for its label.
Thread == [pc : {"idle", "fetch", "labels", "modify", "config"}, proc : 0..NProcs,
           email : SUBSET Emails, held : SUBSET ClientCategories, rule : Rule, id : Nat]
IdleThread == [pc |-> "idle", proc |-> 0, email |-> {}, held |-> {},
               rule |-> UnknownRule, id |-> 0]

\* Whatever parse_and_prompt_email may select.
Choosable(p) == RulesOf[p].custom \cup RulesOf[p].default \cup HeuristicRules \cup {UnknownRule}

Fails == failures < MaxFailures /\ failures' = failures + 1

-----------------------------------------------------------------------------
(* Gmail and its user *)

\* Calls in progress or returned remember what is deleted under them.
Gone(n) == [a \in Actors |-> IF config[a].pc = "idle" THEN config[a]
                             ELSE [config[a] EXCEPT !.gone = @ \cup {n}]]

DeleteLabel(n) ==
    /\ n \in Deletable /\ labels[n] # 0
    /\ edits < MaxEdits /\ edits' = edits + 1
    /\ labels' = [labels EXCEPT ![n] = 0]
    /\ config' = Gone(n)
    /\ UNCHANGED <<categories, labelled, moved, map, thread, failures>>

\* A new email takes the place of one the user has archived.
Arrive(e, c) ==
    /\ \A t \in Threads : e \notin thread[t].email
    /\ labelled' = labelled \ {e} /\ moved' = moved \ {e}
    /\ categories' = [categories EXCEPT ![e] = {c}]
    /\ UNCHANGED <<labels, edits, map, config, thread, failures>>

Holds(t, e) == e \in thread[t].email /\ thread[t].pc \in {"labels", "modify"}

\* The user drags an email to another tab.
MoveEmail(e, c) ==
    /\ edits < MaxEdits /\ edits' = edits + 1
    /\ categories' = [categories EXCEPT ![e] = {c}]
    /\ moved' = IF \E t \in Threads : Holds(t, e) THEN moved \cup {e} ELSE moved \ {e}
    /\ UNCHANGED <<labels, labelled, map, config, thread, failures>>

\* A POST to labels: the answer to an existing name is 409.
Created(n) == IF labels[n] = 0 THEN [labels EXCEPT ![n] = edits + 1] ELSE labels

-----------------------------------------------------------------------------
(* configure_labels_if_needed *)

\* Labels that exist without being required change nothing but the flag in the
\* log that configuration took place.
ListLabels(a) ==
    LET missing == {n \in RequiredLabels(RulesOf[config[a].proc]) : labels[n] = 0} IN
    /\ config[a].pc = "list"
    /\ config' = [config EXCEPT ![a] =
                    [@ EXCEPT !.pc = IF labels[Parent] = 0 THEN "parent" ELSE "create",
                              !.todo = missing, !.gone = {}]]
    /\ UNCHANGED <<gmail, map, thread, failures>>

CreateParent(a) ==
    /\ config[a].pc = "parent"
    /\ config' = [config EXCEPT ![a].pc = "create"]
    /\ labels' = Created(Parent)
    /\ UNCHANGED <<categories, labelled, moved, edits, map, thread, failures>>

\* Mutant: the label another processor has just created is an error.
CreateNewLabel(a, n) ==
    /\ config[a].pc = "create" /\ n \in config[a].todo
    /\ config' = [config EXCEPT ![a].todo = @ \ {n}, ![a].erred = @ \/ labels[n] # 0]
    /\ labels' = Created(n)
    /\ UNCHANGED <<categories, labelled, moved, edits, map, thread, failures>>

\* create_label, joined with the others of the call.
CreateLabel(a, n) ==
    /\ config[a].pc = "create" /\ n \in config[a].todo
    /\ config' = [config EXCEPT ![a].todo = @ \ {n}]
    /\ labels' = Created(n)
    /\ UNCHANGED <<categories, labelled, moved, edits, map, thread, failures>>

\* A creation that fails, carried out or not; the other ones are still awaited.
CreateLabelFails(a, n, applied) ==
    /\ config[a].pc = "create" /\ n \in config[a].todo /\ Fails
    /\ config' = [config EXCEPT ![a].todo = @ \ {n}, ![a].erred = TRUE]
    /\ labels' = IF applied THEN Created(n) ELSE labels
    /\ UNCHANGED <<categories, labelled, moved, edits, map, thread>>

\* Without the list or the parent nothing is created.
ConfigureStopped(a) ==
    /\ config[a].pc \in {"list", "parent"} /\ Fails
    /\ config' = [config EXCEPT ![a] = [@ EXCEPT !.pc = "create", !.todo = {}, !.erred = TRUE]]
    /\ UNCHANGED <<gmail, map, thread>>

\* A worker is done with its email after configuring, whatever came of it.
Released(a) == IF a \in Threads THEN [thread EXCEPT ![a] = IdleThread] ELSE thread

\* Mutant: the worker keeps its email.
ConfiguredOnly(a) ==
    /\ config[a].pc = "create" /\ config[a].todo = {} /\ ~config[a].erred
    /\ config' = [config EXCEPT ![a].pc = "ok"]
    /\ UNCHANGED <<gmail, map, thread, failures>>

\* The run loop starts to fetch; the worker's email may be fetched again.
Configured(a) ==
    /\ config[a].pc = "create" /\ config[a].todo = {} /\ ~config[a].erred
    /\ config' = [config EXCEPT ![a].pc = "ok"]
    /\ thread' = Released(a)
    /\ UNCHANGED <<gmail, map, failures>>

\* The processor is sent the signal Fail.
ConfigureFailed(a) ==
    /\ config[a].pc = "create" /\ config[a].todo = {} /\ config[a].erred
    /\ config' = [config EXCEPT ![a] = NoConfig]
    /\ failed' = failed \cup {config[a].proc}
    /\ thread' = Released(a)
    /\ UNCHANGED <<gmail, current, replaced, failures>>

Configures(a) ==
    \/ ListLabels(a) \/ CreateParent(a) \/ Configured(a) \/ ConfigureFailed(a)
    \/ \E n \in Names : CreateLabel(a, n)

-----------------------------------------------------------------------------
(* Processors *)

\* The minute job makes the first processor, and the next one for one that
\* failed, or that stops for another reason.
StartProcessor(p) ==
    /\ p = current + 1 /\ current' = p
    /\ IF current \in failed \cup {0} THEN UNCHANGED replaced
       ELSE replaced < MaxReplaced /\ replaced' = replaced + 1
    /\ config' = [config EXCEPT ![p] = NewConfig(p)]
    /\ UNCHANGED <<gmail, failed, thread, failures>>

-----------------------------------------------------------------------------
(* Workers *)

\* The gate of process_email is open, and the pipeline's claims keep an email
\* with one worker.
TakeEmail(t, e) ==
    /\ thread[t].pc = "idle" /\ current \notin failed \cup {0} /\ e \notin labelled
    /\ \A u \in Threads : e \notin thread[u].email
    /\ thread' = [thread EXCEPT ![t] = [IdleThread EXCEPT !.pc = "fetch", !.email = {e},
                                                          !.proc = current]]
    /\ UNCHANGED <<gmail, map, config, failures>>

\* The message is fetched and the model asked.
FetchEmail(t, e) ==
    /\ thread[t].pc = "fetch" /\ e \in thread[t].email
    /\ \E r \in Choosable(thread[t].proc) :
         thread' = [thread EXCEPT ![t] = [@ EXCEPT !.pc = "labels", !.held = categories[e],
                                                      !.rule = r]]
    /\ moved' = IF Cardinality(categories[e]) <= 1 THEN moved \ {e} ELSE moved
    /\ UNCHANGED <<labels, categories, labelled, edits, map, config, failures>>

\* Either fails: the email is released.
FetchFails(t) ==
    /\ thread[t].pc = "fetch" /\ Fails
    /\ thread' = [thread EXCEPT ![t] = IdleThread]
    /\ UNCHANGED <<gmail, map, config>>

\* Mutant: the error is returned without a repair.
GiveUp(t) ==
    /\ thread' = [thread EXCEPT ![t] = IdleThread]
    /\ UNCHANGED config

\* categorize_email_in_client, after any error: configure_user_labels.
Repair(t) ==
    /\ thread' = [thread EXCEPT ![t].pc = "config"]
    /\ config' = [config EXCEPT ![t] = NewConfig(thread[t].proc)]

\* label_email: get_labels and build_label_update, which needs the label.
GetLabels(t) ==
    LET id == labels[thread[t].rule.mail_label] IN
    /\ thread[t].pc = "labels"
    /\ IF id = 0 THEN Repair(t)
       ELSE /\ thread' = [thread EXCEPT ![t].pc = "modify", ![t].id = id]
            /\ UNCHANGED config
    /\ UNCHANGED <<gmail, map, failures>>

GetLabelsFails(t) ==
    /\ thread[t].pc = "labels" /\ Fails /\ Repair(t)
    /\ UNCHANGED <<gmail, map>>

\* Mutant: the categories are added without removing others.
AddedOnly(cats, held, rule) ==
    IF rule.category = NoCategory THEN cats ELSE cats \cup {rule.category}

\* addLabelIds and removeLabelIds of build_label_update, as Gmail applies them:
\* the categories removed are those the message had when it was fetched.
Recategorized(cats, held, rule) ==
    IF rule.category = NoCategory THEN cats
    ELSE (cats \ (held \ {rule.category})) \cup {rule.category}

Modified(t, e) ==
    categories' = [categories EXCEPT ![e] = Recategorized(@, thread[t].held, thread[t].rule)]

\* The modify call: Gmail refuses an id that is no label's any more.
ModifyEmail(t, e) ==
    /\ thread[t].pc = "modify" /\ e \in thread[t].email
    /\ IF labels[thread[t].rule.mail_label] = thread[t].id
       THEN /\ Modified(t, e) /\ labelled' = labelled \cup {e}
            /\ thread' = [thread EXCEPT ![t] = IdleThread]
            /\ UNCHANGED config
       ELSE Repair(t) /\ UNCHANGED <<categories, labelled>>
    /\ UNCHANGED <<labels, moved, edits, map, failures>>

\* It fails, carried out or not.  Lists show an email with a custom label again.
ModifyFails(t, e) ==
    LET label == thread[t].rule.mail_label IN
    /\ thread[t].pc = "modify" /\ e \in thread[t].email /\ Fails /\ Repair(t)
    /\ \/ /\ labels[label] = thread[t].id /\ Modified(t, e)
          /\ labelled' = IF label \in ConfiguredLabels THEN labelled \cup {e} ELSE labelled
       \/ UNCHANGED <<categories, labelled>>
    /\ UNCHANGED <<labels, moved, edits, map>>

Labels(t) ==
    \/ GetLabels(t)
    \/ \E e \in Emails : TakeEmail(t, e) \/ FetchEmail(t, e) \/ ModifyEmail(t, e)

-----------------------------------------------------------------------------

Init ==
    /\ labels = [n \in Names |-> IF n \in Present THEN 1 ELSE 0]
    /\ edits = 0 /\ moved = {} /\ labelled = {}
    /\ categories \in [Emails -> {{c} : c \in ClientCategories}]
    /\ current = 0 /\ failed = {} /\ replaced = 0 /\ failures = 0
    /\ config = [a \in Actors |-> NoConfig]
    /\ thread = [t \in Threads |-> IdleThread]

Next ==
    \/ \E n \in Names : DeleteLabel(n)
    \/ \E e \in Emails, c \in ClientCategories : Arrive(e, c) \/ MoveEmail(e, c)
    \/ \E p \in Procs : StartProcessor(p)
    \/ \E a \in Actors : Configures(a) \/ ConfigureStopped(a)
    \/ \E a \in Actors, n \in Names, applied \in BOOLEAN : CreateLabelFails(a, n, applied)
    \/ \E t \in Threads : Labels(t) \/ FetchFails(t) \/ GetLabelsFails(t)
    \/ \E t \in Threads, e \in Emails : ModifyFails(t, e)

Spec == Init /\ [][Next]_vars

\* The job of every minute, the run loops and the workers go on, and their calls
\* return.
FairSpec ==
    /\ Spec
    /\ \A p \in Procs : WF_vars(StartProcessor(p) /\ current \in failed \cup {0})
    /\ \A a \in Actors : WF_vars(Configures(a))
    /\ \A t \in Threads : WF_vars(Labels(t))

-----------------------------------------------------------------------------
(* Properties *)

\* The variables have the types of what they stand for; a worker configures
\* labels exactly while its email waits for that.
TypeOK ==
    /\ labels \in [Names -> Nat]
    /\ categories \in [Emails -> SUBSET ClientCategories]
    /\ labelled \subseteq Emails /\ moved \subseteq Emails /\ edits \in Nat
    /\ current \in 0..NProcs /\ failed \subseteq Procs
    /\ replaced \in Nat /\ failures \in Nat
    /\ config \in [Actors -> Config]
    /\ thread \in [Threads -> Thread]
    /\ \A t \in Threads :
         (thread[t].pc = "config") <=> (config[t].pc \in {"list", "parent", "create"})

\* configure_labels_if_needed: whoever else creates labels at the time, once a
\* call has succeeded every rule that an email of its processor may be filed
\* under has its label, unless the user has deleted it since the call's list.
ConfiguredIsComplete ==
    \A a \in Actors : config[a].pc = "ok" =>
        \A r \in Choosable(config[a].proc) :
            labels[r.mail_label] # 0 \/ r.mail_label \in config[a].gone

\* Two processors or workers that configure the same labels do each other no
\* harm (the answer 409 in create_label): a processor is told to fail only if a
\* call has failed, one for each such processor.
FailsOnlyOnError == Cardinality(failed) <= failures

\* build_label_update: an email that was in one category is in one afterwards,
\* unless it was moved between the fetch of its message and its labelling.
OneCategory == \A e \in Emails : Cardinality(categories[e]) <= 1 \/ e \in moved

\* "If labeling fails, try to fix labels" (processor.rs:440), and "allow email
\* to be queued again" (processor.rs:448): every email is labelled in the end,
\* if there is a processor left.
EveryEmailLabelled ==
    \A e \in Emails : e \notin labelled ~> (e \in labelled \/ NProcs \in failed)
=============================================================================
