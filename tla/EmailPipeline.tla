---------------------------- MODULE EmailPipeline ----------------------------
(***************************************************************************)
(* The way of an email through the server: a processor per user finds the  *)
(* ids of unprocessed emails and pushes them on the prompt queue           *)
(* (email/processor.rs, run), a pool of workers pops them and runs the     *)
(* user's processor on each (email/tasks.rs, email_processing_task), jobs  *)
(* create the processors and a loop drops those that have stopped          *)
(* (email/active_email_processors.rs, email/tasks.rs).                     *)
(*                                                                         *)
(* A step is the code between two awaits, or one call of a shared          *)
(* structure.  Calls of the mail provider, the language model and the      *)
(* database may fail, MaxFailures times in all; a processor's access token *)
(* may expire, which no bound on failures covers: all its later calls of   *)
(* the mail provider fail.  A worker may panic.  The server may be         *)
(* restarted MaxRestarts times, which loses everything but the database    *)
(* and the mailboxes.  The model covers one day: usage is never reset.     *)
(***************************************************************************)
EXTENDS PromptPriorityQueue

CONSTANTS
    Procs,              \* EmailProcessor objects made between two restarts
    Workers,            \* the tasks of run_email_processing_loop
    Jobs,               \* runs of create_processors_for_users at a time
    None,               \* the absence of a user, processor or entry
    MailOf,             \* user -> the ids of the user's mailbox
    OldIds,             \* ids of emails older than 14 days
    FetchLimit,         \* ids collected by one fetch, 500 in the code
    DailyQuota,         \* tokens of a user in a day
    TokensPerEmail,     \* tokens a prompt consumes
    MaxFailures,        \* bound on failing calls
    MaxExpired,         \* bound on processors whose access token has expired
    MaxPanics,          \* bound on workers that have panicked
    MaxRestarts         \* bound on restarts

ASSUME PipelineAssumption ==
    /\ None \notin Users \cup Procs \cup PromptQueueEmailEntry
    /\ MailOf \in [Users -> SUBSET Ids]
    /\ OldIds \subseteq Ids
    /\ IsFiniteSet(Workers) /\ Workers # {}
    /\ DailyQuota \in Nat
    /\ FetchLimit \in Nat \ {0}
    /\ TokensPerEmail \in Nat \ {0}
    /\ {MaxFailures, MaxExpired, MaxPanics, MaxRestarts} \subseteq Nat

VARIABLES
    mail,               \* mailboxes: user -> id -> MailState
    processed_email,    \* table: id -> user_id of its row
    tokens_consumed,    \* table user_token_usage_stat: today's row of a user
    \* ActiveEmailProcessorMap, and the HashSet of run_processor_cleanup_loop
    active_processors,  \* user -> processor
    for_cleanup,        \* users whose processor is about to be dropped
    \* EmailProcessor
    owner,              \* processor -> user
    signal,             \* processor -> InterruptSignal of its channel
    token_count,        \* processor -> its count of today's tokens
    expired,            \* processors whose client's access token has expired
    \* EmailProcessor::run
    run_pc,             \* processor -> where its run loop is
    fetching,           \* processor -> priority it is fetching emails for
    already_processed,  \* processor -> ids it read from processed_email
    to_push,            \* processor -> ids fetched and not yet pushed
    num_added,          \* processor -> has this fetch pushed an email?
    \* email_processing_task
    worker_pc,          \* worker -> where it is
    entry,              \* worker -> the entry it popped
    processor,          \* worker -> the processor it got for it
    tally,              \* worker -> the tokens it read back from the user's row
    \* create_processors_for_users
    job,                \* job -> the user it is creating a processor for
    job_tokens,         \* job -> the tokens_consumed it read for that user
    failures,           \* failed calls so far
    restarts            \* restarts so far

dbVars == <<mail, processed_email, tokens_consumed>>
mapVars == <<active_processors, for_cleanup>>
procVars == <<owner, token_count, expired>>
runVars == <<run_pc, fetching, already_processed, to_push, num_added>>
workerVars == <<worker_pc, entry, processor, tally>>
jobVars == <<job, job_tokens>>
boundVars == <<failures, restarts>>

pipelineVars ==
    <<queueVars, dbVars, mapVars, procVars, signal, runVars, workerVars, jobVars, boundVars>>

MailState == {"absent", "unlabelled", "hidden", "shown"}
InterruptSignal == {"Run", "Cancel", "Quota", "Fail"}
RunPC == {"none", "configure", "loop", "read", "list", "push", "exited"}
WorkerPC ==
    {"idle", "popped", "prompt", "label", "record", "tally", "insert", "select", "store",
     "release", "panicked"}

LowPriorityCutoff == DailyQuota \div 2

Fails == failures < MaxFailures /\ failures' = failures + 1
Works == UNCHANGED failures

\* Calls of the mail provider with the client of p: the access token is read
\* when the client is made and is never refreshed.
ClientWorks(p) == p \notin expired /\ Works
ClientFails(p) == IF p \in expired THEN Works ELSE Fails

\* Tasks that have panicked.
Panicked == {w \in Workers : worker_pc[w] = "panicked"}

-----------------------------------------------------------------------------
(* EmailProcessor: signals and status. *)

QuotaReached(p) == token_count[p] >= DailyQuota

\* has_stopped_queueing, and the gate of process_email.
HasStopped(p) == signal[p] \in {"Cancel", "Fail"} \/ QuotaReached(p)

\* The signal of p once status, has_stopped_queueing or the gate has run: they
\* call is_quota_reached unless p is cancelled, and that sends Quota.
Observed(p) == IF signal[p] # "Cancel" /\ QuotaReached(p) THEN "Quota" ELSE signal[p]

\* The signals once get_current_state has asked the processors in S.
ObservedIn(S) == [p \in Procs |-> IF p \in S THEN Observed(p) ELSE signal[p]]

Mapped == {active_processors[u] : u \in Users} \ {None}

-----------------------------------------------------------------------------
(* The mailbox receives an email. *)

Arrive(u, i) ==
    /\ i \in MailOf[u] /\ mail[u][i] = "absent"
    /\ mail' = [mail EXCEPT ![u][i] = "unlabelled"]
    /\ UNCHANGED <<queueVars, processed_email, tokens_consumed, mapVars, procVars,
                   signal, runVars, workerVars, jobVars, boundVars>>

\* The hour of the access token of p's client is over.
ExpireToken(p) ==
    /\ run_pc[p] # "none" /\ p \notin expired
    /\ Cardinality(expired) < MaxExpired
    /\ expired' = expired \cup {p}
    /\ UNCHANGED <<queueVars, dbVars, mapVars, owner, token_count, signal, runVars, workerVars,
                   jobVars, boundVars>>

-----------------------------------------------------------------------------
(* add_users_to_processing and insert_processor. *)

\* The job reads the users with quota left, then takes them one by one: the
\* row of u may be from before its latest usage.  A processor that runs and
\* agrees with the row stays; one that disagrees, or that was made before the
\* user's rules changed (which may be any time), is cancelled.
CheckProcessor(j, u, tokens, rules_changed) ==
    /\ job[j] = None
    /\ tokens \in 0..tokens_consumed[u] /\ tokens < DailyQuota
    /\ LET p == active_processors[u] IN
       \/ /\ p # None /\ HasStopped(p)
          /\ signal' = [signal EXCEPT ![p] = Observed(p)]
          /\ job' = [job EXCEPT ![j] = u] /\ job_tokens' = [job_tokens EXCEPT ![j] = tokens]
       \/ /\ p # None /\ ~HasStopped(p) /\ (token_count[p] # tokens \/ rules_changed)
          /\ signal' = [signal EXCEPT ![p] = "Cancel"]
          /\ job' = [job EXCEPT ![j] = u] /\ job_tokens' = [job_tokens EXCEPT ![j] = tokens]
       \/ /\ p = None
          /\ job' = [job EXCEPT ![j] = u] /\ job_tokens' = [job_tokens EXCEPT ![j] = tokens]
          /\ UNCHANGED signal
    /\ UNCHANGED <<queueVars, dbVars, mapVars, procVars, runVars, workerVars, boundVars>>

\* EmailProcessor::new spawns the run loop, then insert_processor puts the
\* processor in the map, and get_current_state asks every processor of the map
\* for its status.  There is no await from the spawn on: one step.
CreateProcessor(j, p) ==
    LET u == job[j] IN
    /\ u # None /\ run_pc[p] = "none"
    /\ owner' = [owner EXCEPT ![p] = u]
    /\ token_count' = [token_count EXCEPT ![p] = job_tokens[j]]
    /\ signal' = [ObservedIn(Mapped \ {active_processors[u]}) EXCEPT ![p] = "Run"]
    /\ run_pc' = [run_pc EXCEPT ![p] = "configure"]
    /\ active_processors' = [active_processors EXCEPT ![u] = p]
    /\ job' = [job EXCEPT ![j] = None]
    /\ job_tokens' = [job_tokens EXCEPT ![j] = 0]
    /\ UNCHANGED <<queueVars, dbVars, for_cleanup, expired, fetching, already_processed, to_push,
                   num_added, workerVars, boundVars>>

\* No access token, or no rules: the job goes on with the next user.
CreateFails(j) ==
    /\ job[j] # None /\ Fails
    /\ job' = [job EXCEPT ![j] = None]
    /\ job_tokens' = [job_tokens EXCEPT ![j] = 0]
    /\ UNCHANGED <<queueVars, dbVars, mapVars, procVars, signal, runVars, workerVars, restarts>>

-----------------------------------------------------------------------------
(* EmailProcessor::run *)

ConfigureLabels(p) ==
    /\ run_pc[p] = "configure"
    /\ \/ /\ ClientWorks(p)
          /\ run_pc' = [run_pc EXCEPT ![p] = "loop"]
          /\ UNCHANGED signal
       \/ /\ ClientFails(p)
          /\ run_pc' = [run_pc EXCEPT ![p] = "exited"]
          /\ signal' = [signal EXCEPT ![p] = "Fail"]
    /\ UNCHANGED <<queueVars, dbVars, mapVars, procVars, fetching, already_processed,
                   to_push, num_added, workerVars, jobVars, restarts>>

\* The interval ticks; it may win the select! over an interrupt.
Tick(p) ==
    /\ run_pc[p] = "loop"
    /\ NumInQueue(owner[p], "High") = 0
    /\ run_pc' = [run_pc EXCEPT ![p] = "read"]
    /\ fetching' = [fetching EXCEPT ![p] = "High"]
    /\ UNCHANGED <<queueVars, dbVars, mapVars, procVars, signal, already_processed, to_push,
                   num_added, workerVars, jobVars, boundVars>>

\* Mutant: the loop is not woken by Quota.
InterruptedByStop(p) ==
    /\ run_pc[p] = "loop" /\ signal[p] \in {"Cancel", "Fail"}
    /\ run_pc' = [run_pc EXCEPT ![p] = "exited"]
    /\ UNCHANGED <<queueVars, dbVars, mapVars, procVars, signal, fetching, already_processed,
                   to_push, num_added, workerVars, jobVars, boundVars>>

\* The last log line asks for the status.
Interrupted(p) ==
    /\ run_pc[p] = "loop" /\ signal[p] # "Run"
    /\ run_pc' = [run_pc EXCEPT ![p] = "exited"]
    /\ signal' = [signal EXCEPT ![p] = Observed(p)]
    /\ UNCHANGED <<queueVars, dbVars, mapVars, procVars, fetching, already_processed,
                   to_push, num_added, workerVars, jobVars, boundVars>>

\* Mutant: the loop ends on an error and does not call fail.
ReadProcessedOrEnd(p) ==
    /\ run_pc[p] = "read"
    /\ \/ /\ Works
          /\ already_processed' =
               [already_processed EXCEPT ![p] = {i \in Ids : processed_email[i] = owner[p]}]
          /\ run_pc' = [run_pc EXCEPT ![p] = "list"]
       \/ /\ Fails
          /\ run_pc' = [run_pc EXCEPT ![p] = IF fetching[p] = "High" THEN "exited" ELSE "loop"]
          /\ UNCHANGED already_processed
    /\ UNCHANGED <<queueVars, dbVars, mapVars, procVars, signal, fetching, to_push, num_added,
                   workerVars, jobVars, restarts>>

\* fetch_email_ids, first await.  A database error ends the run loop while it
\* fetches recent emails and only this turn of it while it fetches older ones.
ReadProcessed(p) ==
    /\ run_pc[p] = "read"
    /\ \/ /\ Works
          /\ already_processed' =
               [already_processed EXCEPT ![p] = {i \in Ids : processed_email[i] = owner[p]}]
          /\ run_pc' = [run_pc EXCEPT ![p] = "list"]
          /\ UNCHANGED signal
       \/ /\ Fails
          /\ IF fetching[p] = "High"
             THEN /\ run_pc' = [run_pc EXCEPT ![p] = "exited"]
                  /\ signal' = [signal EXCEPT ![p] = "Fail"]
             ELSE /\ run_pc' = [run_pc EXCEPT ![p] = "loop"]
                  /\ UNCHANGED signal
          /\ UNCHANGED already_processed
    /\ UNCHANGED <<queueVars, dbVars, mapVars, procVars, fetching, to_push, num_added,
                   workerVars, jobVars, restarts>>

\* The emails of u the list call returns: in the inbox, without a label of
\* the default categories, and for High not older than 14 days.
Listed(u, priority) ==
    {i \in MailOf[u] : /\ mail[u][i] \in {"unlabelled", "shown"}
                       /\ priority = "High" => i \notin OldIds}

\* fetch_email_ids, the pages.  A page that fails, or whose body is an error,
\* ends the list there: the ids of the pages before it are kept.  The answer to
\* an expired token is such a body: from then on the list is empty.
ListMessages(p, ids) ==
    LET new == Listed(owner[p], fetching[p]) \ already_processed[p] IN
    /\ run_pc[p] = "list"
    /\ ids \subseteq new /\ Cardinality(ids) <= FetchLimit
    /\ \/ p \notin expired /\ (ids = new \/ Cardinality(ids) = FetchLimit) /\ Works
       \/ p \notin expired /\ ids # new /\ Cardinality(ids) < FetchLimit /\ Fails
       \/ p \in expired /\ ids = {} /\ Works
    /\ to_push' = [to_push EXCEPT ![p] = ids]
    /\ already_processed' = [already_processed EXCEPT ![p] = {}]
    /\ num_added' = [num_added EXCEPT ![p] = FALSE]
    /\ run_pc' = [run_pc EXCEPT ![p] = "push"]
    /\ UNCHANGED <<queueVars, dbVars, mapVars, procVars, signal, fetching, workerVars,
                   jobVars, restarts>>

PushNext(p, i) ==
    /\ run_pc[p] = "push" /\ i \in to_push[p]
    /\ Push(owner[p], i, fetching[p])
    /\ to_push' = [to_push EXCEPT ![p] = @ \ {i}]
    /\ num_added' = [num_added EXCEPT ![p] = @ \/ Accepts(i)]
    /\ UNCHANGED <<dbVars, mapVars, procVars, signal, run_pc, fetching, already_processed,
                   workerVars, jobVars, boundVars>>

\* Older emails are fetched when no recent one was added and usage is below
\* the cutoff; otherwise the loop waits for its next tick.
EndPush(p) ==
    /\ run_pc[p] = "push" /\ to_push[p] = {}
    /\ IF fetching[p] = "High" /\ ~num_added[p] /\ token_count[p] < LowPriorityCutoff
       THEN /\ run_pc' = [run_pc EXCEPT ![p] = "read"]
            /\ fetching' = [fetching EXCEPT ![p] = "Low"]
       ELSE /\ run_pc' = [run_pc EXCEPT ![p] = "loop"]
            /\ fetching' = [fetching EXCEPT ![p] = "High"]
    /\ num_added' = [num_added EXCEPT ![p] = FALSE]
    /\ UNCHANGED <<queueVars, dbVars, mapVars, procVars, signal, already_processed, to_push,
                   workerVars, jobVars, boundVars>>

Run(p) ==
    \/ ConfigureLabels(p) \/ Tick(p) \/ ReadProcessed(p) \/ EndPush(p)
    \/ \E ids \in SUBSET Ids : ListMessages(p, ids)
    \/ \E i \in Ids : PushNext(p, i)

-----------------------------------------------------------------------------
(* email_processing_task and process_email *)

PopEntry(w, e) ==
    /\ worker_pc[w] = "idle"
    /\ Pop(e)
    /\ worker_pc' = [worker_pc EXCEPT ![w] = "popped"]
    /\ entry' = [entry EXCEPT ![w] = e]
    /\ UNCHANGED <<dbVars, mapVars, procVars, signal, runVars, processor, tally, jobVars,
                   boundVars>>

\* The user has no processor in the map: the entry is dropped, and its id
\* stays in the in_processing set.
DropEntry(w) ==
    /\ worker_pc[w] = "popped"
    /\ active_processors[entry[w].user_email] = None
    /\ worker_pc' = [worker_pc EXCEPT ![w] = "idle"]
    /\ entry' = [entry EXCEPT ![w] = None]
    /\ UNCHANGED <<queueVars, dbVars, mapVars, procVars, signal, runVars, processor, tally,
                   jobVars, boundVars>>

\* The processor the map holds now, and the gate of its process_email.
GetProcessor(w) ==
    LET p == active_processors[entry[w].user_email]
        refused == \/ HasStopped(p)
                   \/ entry[w].priority = "Low" /\ token_count[p] > LowPriorityCutoff
    IN
    /\ worker_pc[w] = "popped" /\ p # None
    /\ worker_pc' = [worker_pc EXCEPT ![w] = IF refused THEN "release" ELSE "prompt"]
    /\ processor' = [processor EXCEPT ![w] = p]
    /\ signal' = [signal EXCEPT ![p] = Observed(p)]
    /\ UNCHANGED <<queueVars, dbVars, mapVars, procVars, runVars, entry, tally, jobVars,
                   boundVars>>

\* Mutant: the pipeline frees an email it cannot prompt for, and the worker
\* frees it again.
PromptEmailOrFree(w) ==
    /\ worker_pc[w] = "prompt"
    /\ \/ /\ ClientWorks(processor[w])
          /\ worker_pc' = [worker_pc EXCEPT ![w] = "label"]
          /\ UNCHANGED queueVars
       \/ /\ ClientFails(processor[w])
          /\ worker_pc' = [worker_pc EXCEPT ![w] = "release"]
          /\ RemoveFromProcessing(entry[w].email_id)
    /\ UNCHANGED <<dbVars, mapVars, procVars, signal, runVars, entry, processor, tally,
                   jobVars, restarts>>

\* Mutant: an email that could not be prompted for is not released.
PromptEmailOrForget(w) ==
    /\ worker_pc[w] = "prompt"
    /\ \/ /\ ClientWorks(processor[w])
          /\ worker_pc' = [worker_pc EXCEPT ![w] = "label"]
          /\ UNCHANGED <<entry, processor>>
       \/ /\ ClientFails(processor[w])
          /\ worker_pc' = [worker_pc EXCEPT ![w] = "idle"]
          /\ entry' = [entry EXCEPT ![w] = None]
          /\ processor' = [processor EXCEPT ![w] = None]
    /\ UNCHANGED <<queueVars, dbVars, mapVars, procVars, signal, runVars, tally, jobVars,
                   restarts>>

\* Mutant: the worker tries until it succeeds.
PromptEmailAgain(w) ==
    /\ worker_pc[w] = "prompt"
    /\ \/ ClientWorks(processor[w]) /\ worker_pc' = [worker_pc EXCEPT ![w] = "label"]
       \/ ClientFails(processor[w]) /\ UNCHANGED worker_pc
    /\ UNCHANGED <<queueVars, dbVars, mapVars, procVars, signal, runVars, entry, processor,
                   tally, jobVars, restarts>>

\* The message is read, the rate limiter passed and the prompt answered.
PromptEmail(w) ==
    /\ worker_pc[w] = "prompt"
    /\ \/ /\ ClientWorks(processor[w])
          /\ worker_pc' = [worker_pc EXCEPT ![w] = "label"]
       \/ /\ ClientFails(processor[w])
          /\ worker_pc' = [worker_pc EXCEPT ![w] = "release"]
    /\ UNCHANGED <<queueVars, dbVars, mapVars, procVars, signal, runVars, entry, processor,
                   tally, jobVars, restarts>>

\* The message that was read cannot be parsed, or its labels are missing, and
\* the code unwraps: the task is gone with its entry, whose id stays in the
\* in_processing set.  Its handle stays in the JoinSet, whose length is all the
\* supervisor looks at: the worker is never started again.
Panic(w) ==
    /\ worker_pc[w] = "prompt"
    /\ Cardinality(Panicked) < MaxPanics
    /\ worker_pc' = [worker_pc EXCEPT ![w] = "panicked"]
    /\ entry' = [entry EXCEPT ![w] = None]
    /\ processor' = [processor EXCEPT ![w] = None]
    /\ UNCHANGED <<queueVars, dbVars, mapVars, procVars, signal, runVars, tally, jobVars,
                   boundVars>>

\* The states of message i once the modify call has been applied: labels are
\* only added, and the label of a custom rule does not hide the message from
\* the list call.
Labelled(u, i) == IF mail[u][i] = "hidden" THEN {"hidden"} ELSE {"hidden", "shown"}

\* Mutant: an error of the label call is logged only.
LabelEmailOrGoOn(w, state) ==
    LET u == entry[w].user_email
        i == entry[w].email_id
    IN
    /\ worker_pc[w] = "label"
    /\ \/ ClientWorks(processor[w]) /\ state \in Labelled(u, i)
       \/ ClientFails(processor[w]) /\ state = mail[u][i]
    /\ worker_pc' = [worker_pc EXCEPT ![w] = "record"]
    /\ mail' = [mail EXCEPT ![u][i] = state]
    /\ UNCHANGED <<queueVars, processed_email, tokens_consumed, mapVars, procVars, signal,
                   runVars, entry, processor, tally, jobVars, restarts>>

\* categorize_email_in_client.  When the call fails (the request, or the
\* answer after the labels were applied), the labels are configured anew, and
\* when that fails too the processor does.  With an expired token all of these
\* calls fail.
LabelEmail(w, state) ==
    LET u == entry[w].user_email
        i == entry[w].email_id
        p == processor[w]
    IN
    /\ worker_pc[w] = "label"
    /\ \/ /\ ClientWorks(p)
          /\ state \in Labelled(u, i)
          /\ worker_pc' = [worker_pc EXCEPT ![w] = "record"]
          /\ UNCHANGED signal
       \/ /\ ClientFails(p)
          /\ state \in {mail[u][i]} \cup Labelled(u, i)
          /\ worker_pc' = [worker_pc EXCEPT ![w] = "release"]
          /\ signal' \in {signal, [signal EXCEPT ![p] = "Fail"]}
          /\ p \in expired => state = mail[u][i] /\ signal'[p] = "Fail"
    /\ mail' = [mail EXCEPT ![u][i] = state]
    /\ UNCHANGED <<queueVars, processed_email, tokens_consumed, mapVars, procVars, runVars,
                   entry, processor, tally, jobVars, restarts>>

\* record_processed_email; the row of an id that has one is left alone.
RecordEmail(w) ==
    LET i == entry[w].email_id
        p == processor[w]
    IN
    /\ worker_pc[w] = "record"
    /\ \/ /\ Works
          /\ processed_email' =
               [processed_email EXCEPT ![i] = IF @ = None THEN owner[p] ELSE @]
          /\ token_count' = [token_count EXCEPT ![p] = @ + TokensPerEmail]
          /\ worker_pc' = [worker_pc EXCEPT ![w] = "tally"]
       \/ /\ Fails
          /\ worker_pc' = [worker_pc EXCEPT ![w] = "release"]
          /\ UNCHANGED <<processed_email, token_count>>
    /\ UNCHANGED <<queueVars, mail, tokens_consumed, mapVars, owner, expired, signal, runVars,
                   entry, processor, tally, jobVars, restarts>>

\* Mutant: the tokens are added to a row that is there, and else forgotten.
AddTallyIfPresent(w) ==
    LET u == owner[processor[w]] IN
    /\ worker_pc[w] = "tally"
    /\ worker_pc' = [worker_pc EXCEPT ![w] = IF tokens_consumed[u] = 0 THEN "release" ELSE "select"]
    /\ tokens_consumed' =
         [tokens_consumed EXCEPT ![u] = IF @ = 0 THEN @ ELSE @ + TokensPerEmail]
    /\ UNCHANGED <<queueVars, mail, processed_email, mapVars, procVars, signal, runVars, entry,
                   processor, tally, jobVars, boundVars>>

\* add_to_daily_quota: today's row of the user is looked up and, when there is
\* one, added to.  The row is never dropped and every addition to it is
\* atomic, so that the lookup and the addition are one step.
AddTally(w) ==
    LET u == owner[processor[w]] IN
    /\ worker_pc[w] = "tally"
    /\ \/ /\ Works
          /\ IF tokens_consumed[u] = 0
             THEN /\ worker_pc' = [worker_pc EXCEPT ![w] = "insert"]
                  /\ UNCHANGED tokens_consumed
             ELSE /\ worker_pc' = [worker_pc EXCEPT ![w] = "select"]
                  /\ tokens_consumed' = [tokens_consumed EXCEPT ![u] = @ + TokensPerEmail]
       \/ /\ Fails
          /\ worker_pc' = [worker_pc EXCEPT ![w] = "release"]
          /\ UNCHANGED tokens_consumed
    /\ UNCHANGED <<queueVars, mail, processed_email, mapVars, procVars, signal, runVars, entry,
                   processor, tally, jobVars, restarts>>

\* Without one, a row is inserted: an error when another worker has inserted
\* it since, as date and user_email are a unique key.
InsertTally(w) ==
    LET u == owner[processor[w]] IN
    /\ worker_pc[w] = "insert"
    /\ \/ /\ tokens_consumed[u] = 0 /\ Works
          /\ worker_pc' = [worker_pc EXCEPT ![w] = "select"]
          /\ tokens_consumed' = [tokens_consumed EXCEPT ![u] = TokensPerEmail]
       \/ /\ \/ tokens_consumed[u] # 0 /\ Works
             \/ Fails
          /\ worker_pc' = [worker_pc EXCEPT ![w] = "release"]
          /\ UNCHANGED tokens_consumed
    /\ UNCHANGED <<queueVars, mail, processed_email, mapVars, procVars, signal, runVars, entry,
                   processor, tally, jobVars, restarts>>

\* The row is read back ...
SelectTally(w) ==
    /\ worker_pc[w] = "select"
    /\ \/ /\ Works
          /\ worker_pc' = [worker_pc EXCEPT ![w] = "store"]
          /\ tally' = [tally EXCEPT ![w] = tokens_consumed[owner[processor[w]]]]
       \/ /\ Fails
          /\ worker_pc' = [worker_pc EXCEPT ![w] = "release"]
          /\ UNCHANGED tally
    /\ UNCHANGED <<queueVars, dbVars, mapVars, procVars, signal, runVars, entry, processor,
                   jobVars, restarts>>

\* ... and add_tally_to_user_daily_quota makes it the processor's count.
StoreTally(w) ==
    /\ worker_pc[w] = "store"
    /\ worker_pc' = [worker_pc EXCEPT ![w] = "release"]
    /\ token_count' = [token_count EXCEPT ![processor[w]] = tally[w]]
    /\ tally' = [tally EXCEPT ![w] = 0]
    /\ UNCHANGED <<queueVars, dbVars, mapVars, owner, expired, signal, runVars, entry,
                   processor, jobVars, boundVars>>

\* Mutant: the worker keeps the entry it has released.
ReleaseAndKeep(w) ==
    /\ worker_pc[w] = "release"
    /\ RemoveFromProcessing(entry[w].email_id)
    /\ worker_pc' = [worker_pc EXCEPT ![w] = "idle"]
    /\ processor' = [processor EXCEPT ![w] = None]
    /\ UNCHANGED <<dbVars, mapVars, procVars, signal, runVars, entry, tally, jobVars,
                   boundVars>>

Release(w) ==
    /\ worker_pc[w] = "release"
    /\ RemoveFromProcessing(entry[w].email_id)
    /\ worker_pc' = [worker_pc EXCEPT ![w] = "idle"]
    /\ entry' = [entry EXCEPT ![w] = None]
    /\ processor' = [processor EXCEPT ![w] = None]
    /\ UNCHANGED <<dbVars, mapVars, procVars, signal, runVars, tally, jobVars, boundVars>>

Work(w) ==
    \/ \E e \in queue : PopEntry(w, e)
    \/ DropEntry(w) \/ GetProcessor(w) \/ PromptEmail(w)
    \/ \E state \in MailState : LabelEmail(w, state)
    \/ RecordEmail(w) \/ AddTally(w) \/ InsertTally(w) \/ SelectTally(w) \/ StoreTally(w)
    \/ Release(w)

-----------------------------------------------------------------------------
(* run_processor_cleanup_loop, watch, and restarts. *)

\* The loop asks the processors of the map one by one, while workers, jobs and
\* run loops go on, and notes the users whose processor has stopped and who have
\* nothing queued.  (Of the others it only asks the status, as Watch does.)
CollectStopped(u) ==
    LET p == active_processors[u] IN
    /\ p # None /\ u \notin for_cleanup
    /\ HasStopped(p) /\ NumQueued(u) = 0
    /\ for_cleanup' = for_cleanup \cup {u}
    /\ signal' = [signal EXCEPT ![p] = Observed(p)]
    /\ UNCHANGED <<queueVars, dbVars, active_processors, procVars, runVars, workerVars,
                   jobVars, boundVars>>

\* cleanup_processors drops by user, and asks those that are left.
DropStopped ==
    LET left == [u \in Users |-> IF u \in for_cleanup THEN None ELSE active_processors[u]] IN
    /\ for_cleanup # {}
    /\ active_processors' = left
    /\ for_cleanup' = {}
    /\ signal' = ObservedIn({left[u] : u \in Users} \ {None})
    /\ UNCHANGED <<queueVars, dbVars, procVars, runVars, workerVars, jobVars, boundVars>>

\* The status report every five seconds.
Watch ==
    /\ signal' = ObservedIn(Mapped)
    /\ UNCHANGED <<queueVars, dbVars, mapVars, procVars, runVars, workerVars, jobVars, boundVars>>

\* What the server has in memory when it starts.
MemoryInit(map, drop, own, sig, count, exp, pc, fetch, seen, push, add, wpc, ent, proc, t, j, jt) ==
    /\ map = [u \in Users |-> None]
    /\ drop = {}
    /\ own = [p \in Procs |-> None]
    /\ sig = [p \in Procs |-> "Run"]
    /\ count = [p \in Procs |-> 0]
    /\ exp = {}
    /\ pc = [p \in Procs |-> "none"]
    /\ fetch = [p \in Procs |-> "High"]
    /\ seen = [p \in Procs |-> {}]
    /\ push = [p \in Procs |-> {}]
    /\ add = [p \in Procs |-> FALSE]
    /\ wpc = [w \in Workers |-> "idle"]
    /\ ent = [w \in Workers |-> None]
    /\ proc = [w \in Workers |-> None]
    /\ t = [w \in Workers |-> 0]
    /\ j = [k \in Jobs |-> None]
    /\ jt = [k \in Jobs |-> 0]

Restart ==
    /\ restarts < MaxRestarts
    /\ restarts' = restarts + 1
    /\ New
    /\ MemoryInit(active_processors', for_cleanup', owner', signal', token_count', expired',
                  run_pc', fetching', already_processed', to_push', num_added', worker_pc',
                  entry', processor', tally', job', job_tokens')
    /\ UNCHANGED <<dbVars, failures>>

-----------------------------------------------------------------------------

Init ==
    /\ QueueInit
    /\ MemoryInit(active_processors, for_cleanup, owner, signal, token_count, expired, run_pc,
                  fetching, already_processed, to_push, num_added, worker_pc, entry,
                  processor, tally, job, job_tokens)
    /\ mail = [u \in Users |-> [i \in Ids |-> "absent"]]
    /\ processed_email = [i \in Ids |-> None]
    /\ tokens_consumed = [u \in Users |-> 0]
    /\ failures = 0
    /\ restarts = 0

Next ==
    \/ \E u \in Users, i \in Ids : Arrive(u, i)
    \/ \E j \in Jobs, u \in Users, tokens \in 0..DailyQuota, rules_changed \in BOOLEAN :
          CheckProcessor(j, u, tokens, rules_changed)
    \/ \E j \in Jobs, p \in Procs : CreateProcessor(j, p)
    \/ \E j \in Jobs : CreateFails(j)
    \/ \E p \in Procs : Run(p) \/ Interrupted(p) \/ ExpireToken(p)
    \/ \E w \in Workers : Work(w) \/ Panic(w)
    \/ \E u \in Users : CollectStopped(u)
    \/ DropStopped \/ Watch
    \/ Restart

\* Tasks that can go on do: the run loops, the workers and the loops of
\* tasks.rs are spawned on the runtime and wait for nothing but time.  A run
\* loop whose tick and interrupt are both ready takes either, at random.
Fairness ==
    /\ \A p \in Procs : WF_pipelineVars(Run(p)) /\ SF_pipelineVars(Interrupted(p))
    /\ \A w \in Workers : WF_pipelineVars(Work(w))
    /\ WF_pipelineVars(Watch)

Spec == Init /\ [][Next]_pipelineVars
FairSpec == Spec /\ Fairness

-----------------------------------------------------------------------------
(* Properties. *)

HeldIds == {entry[w].email_id : w \in {v \in Workers : entry[v] # None}}

MemoryTypeOK ==
    /\ active_processors \in [Users -> Procs \cup {None}]
    /\ for_cleanup \subseteq Users
    /\ owner \in [Procs -> Users \cup {None}]
    /\ signal \in [Procs -> InterruptSignal]
    /\ token_count \in [Procs -> Nat]
    /\ expired \subseteq Procs
    /\ run_pc \in [Procs -> RunPC]
    /\ fetching \in [Procs -> Priority]
    /\ already_processed \in [Procs -> SUBSET Ids]
    /\ to_push \in [Procs -> SUBSET Ids]
    /\ num_added \in [Procs -> BOOLEAN]
    /\ job \in [Jobs -> Users \cup {None}]
    /\ job_tokens \in [Jobs -> Nat]

WorkerTypeOK ==
    /\ worker_pc \in [Workers -> WorkerPC]
    /\ entry \in [Workers -> PromptQueueEmailEntry \cup {None}]
    /\ processor \in [Workers -> Procs \cup {None}]
    /\ tally \in [Workers -> Nat]
    /\ \A w \in Workers : (entry[w] = None) <=> (worker_pc[w] \in {"idle", "panicked"})
    /\ \A w \in Workers :
          (processor[w] = None) <=> (worker_pc[w] \in {"idle", "popped", "panicked"})

DatabaseTypeOK ==
    /\ mail \in [Users -> [Ids -> MailState]]
    /\ processed_email \in [Ids -> Users \cup {None}]
    /\ tokens_consumed \in [Users -> Nat]

\* Every variable has its type; a worker holds an entry exactly while it is
\* neither idle nor gone, and a processor from the gate to the release.
TypeOK ==
    QueueTypeOK /\ MemoryTypeOK /\ WorkerTypeOK /\ DatabaseTypeOK

\* An email is with at most one worker, and not in the queue while it is with
\* one, however many processors of its user are pushing (a cancelled one and
\* its successor, or one the cleanup loop dropped by mistake).
ClaimedOnce ==
    /\ MarkedOnce
    /\ HeldIds \subseteq handed_out
    /\ \A v, w \in Workers :
          /\ entry[v] # None /\ entry[w] # None
          /\ entry[v].email_id = entry[w].email_id
          => v = w

\* An email recorded as processed carries a label: "We allow email to be
\* queued again later if labeling fails / As we will not record as
\* successfully processed" (processor.rs, categorize_email_in_client).
RecordedIsLabelled ==
    \A i \in Ids : processed_email[i] # None =>
        mail[processed_email[i]][i] \in {"hidden", "shown"}

\* Every recorded email is paid for (processor.rs, run_processor_pipeline): the
\* tokens of a user's recorded emails are in the user's row of today, but for
\* those of the workers that have yet to add them, of a failed call each, of the
\* workers a restart ended, and of those that lost the race to insert the row,
\* which happens once a day and has one winner.
RecordedIsCharged ==
    \A u \in Users :
        LET recorded == {i \in Ids : processed_email[i] = u}
            adding == {w \in Workers : worker_pc[w] \in {"tally", "insert"}
                                        /\ owner[processor[w]] = u}
            losers == Cardinality(Workers) - 1
            excused == Cardinality(adding) + failures + restarts * Cardinality(Workers) + losers
        IN  TokensPerEmail * Cardinality(recorded)
              <= tokens_consumed[u] + TokensPerEmail * excused

\* Seen from the queue, the pipeline is a well-behaved client: it releases
\* only what it was handed.
ImplementsQueue == QueueSpec

Ledger == INSTANCE EmailLedger WITH row <- processed_email, claimed <- handed_out

\* Seen from the mailbox and the table, an email is labelled and recorded only
\* by the worker that has claimed it, in this order, and its row and its labels
\* stay, whatever is pushed, cancelled, failed or restarted meanwhile
\* (processor.rs, run_processor_pipeline).
KeepsLedger == Ledger!Spec

\* Ids handed out that no worker has: they stay marked until a restart.
Lost == handed_out \ HeldIds

\* An id is lost in two ways only (tasks.rs, email_processing_task): its worker
\* finds no processor of the user in the map, or panics in process_email before
\* it calls remove_from_processing.  Whatever else becomes of an email, refused
\* by the gate, failed at any call, with a token that has expired, or recorded,
\* its worker releases it before it takes another.
LostByDropOrPanic ==
    [][\A i \in Lost' \ Lost : \E w \in Workers :
          /\ entry[w] # None /\ entry[w].email_id = i
          /\ \/ worker_pc[w] = "popped" /\ active_processors[entry[w].user_email] = None
             \/ worker_pc[w] = "prompt" /\ worker_pc'[w] = "panicked"]_pipelineVars

\* No worker is left.
NoWorkers == Panicked = Workers

\* A run loop whose processor has been told to stop ends (or is lost in a
\* restart), wherever it is when the signal comes and whichever branch of the
\* select! it takes.
StoppedRunEnds ==
    \A p \in Procs :
        signal[p] # "Run" /\ run_pc[p] # "none" ~> run_pc[p] \in {"none", "exited"}

\* Recent email i of u waits in the mailbox and has not been handled.
Waiting(u, i) == i \in Listed(u, "High") /\ processed_email[i] = None

\* Recent email i of u that waits while the map holds processor p of u is
\* handled, or one of the things that can come between has happened: p is
\* replaced or dropped, told to stop, or its access token has expired; the id
\* was lost; or no worker is left.  In particular no other failure leaves an
\* email waiting with a processor that goes on: a worker that gives it up
\* releases it, a list that ends early is fetched again, and a run loop that
\* ends says so.
RecentMailHandled ==
    \A u \in Users, p \in Procs, i \in Ids :
        Waiting(u, i) /\ active_processors[u] = p
          ~> \/ ~Waiting(u, i)
             \/ active_processors[u] # p \/ signal[p] # "Run" \/ p \in expired
             \/ i \in Lost \/ NoWorkers

\* A mark of the in_processing set is lifted, so that the email can be queued
\* again: the email is popped and its worker comes to an end with it, also when
\* its processor has been cancelled, dropped or outlived by its token, unless
\* the id was lost or no worker is left.
MarksAreLifted ==
    \A i \in Ids :
        i \in in_processing_set ~> i \notin in_processing_set \/ i \in Lost \/ NoWorkers

-----------------------------------------------------------------------------
(* What comments of the code say, and the code does not do. *)

\* "Check if the email is already in processing so emails are not processed
\* multiple times" (priority_queue.rs, push): no worker prompts for an email
\* that is recorded as processed for the same user.
NotProcessedTwice ==
    \A w \in Workers :
        worker_pc[w] = "prompt" => processed_email[entry[w].email_id] # entry[w].user_email

\* "This function pulls emails from the prompt priority queue and sends them
\* to the appropriate email processor for processing" (tasks.rs,
\* run_email_processing_loop): every email popped is with a worker until it
\* is released.
NoClaimDropped == Lost = {}

\* "Do not process email if processor is failed, cancelled or quota is reached"
\* (processor.rs, process_email): a processor that failed or was cancelled
\* stays so.
StopIsFinal ==
    [][\A p \in Procs :
         signal[p] \in {"Cancel", "Fail"} /\ run_pc'[p] # "none"
            => signal'[p] \in {"Cancel", "Fail"}]_pipelineVars

\* "We allow email to be queued again later if labeling fails"
\* (processor.rs, categorize_email_in_client): an email whose labelling
\* failed is still among those the list call returns.
LabelErrorRequeues ==
    [][\A w \in Workers :
         worker_pc[w] = "label" /\ worker_pc'[w] = "release" =>
            (entry[w].email_id \in Listed(entry[w].user_email, "Low"))']_pipelineVars

\* "Update the user's token usage in the database" (user_token_usage.rs,
\* add_to_daily_quota): while no call has failed, the tokens of a user's
\* recorded emails are in the user's row or about to be added to it.
RecordedIsInUsage ==
    failures = 0 /\ restarts = 0 =>
        \A u \in Users :
            LET recorded == {i \in Ids : processed_email[i] = u}
                adding == {w \in Workers : worker_pc[w] \in {"tally", "insert"}
                                            /\ owner[processor[w]] = u}
            IN  TokensPerEmail * (Cardinality(recorded) - Cardinality(adding))
                  <= tokens_consumed[u]

\* "Start of every minute, create processors for active users" (main.rs): a
\* processor whose run loop has ended and that no worker, job or cleanup is at
\* any more is one the next run of the job replaces, if the user has quota left.
EndedIsReplaced ==
    \A u \in Users :
        LET p == active_processors[u] IN
        /\ p # None
        /\ run_pc[p] = "exited" /\ \A w \in Workers : processor[w] # p
        /\ u \notin for_cleanup /\ \A j \in Jobs : job[j] # u
        /\ tokens_consumed[u] < DailyQuota
        => HasStopped(p) \/ token_count[p] # tokens_consumed[u]
==============================================================================
