# A TLA+ development of the mail assistant

The server (Rust, `server/src`) reads the Gmail mailboxes of its users, asks a
language model for a category for each message, labels the message accordingly,
and keeps an account of the tokens it spends for each user. This directory
holds TLA+ models of the parts of it that run concurrently, the TLC
configurations that check them, and TLAPS proofs of the main safety properties.

    tlc -config PromptPriorityQueue.cfg PromptPriorityQueue
    tlc -config pipeline_<run>.cfg MCEmailPipeline
    tlc -config access_<run>.cfg AccountAccess
    tlc -config cleanup_safety.cfg MCAutoCleanup
    tlc -config cleanup_asked.cfg AutoCleanup
    tlc -config email_rules.cfg MCEmailRules
    tlc -config mail_labels.cfg MCMailLabels
    tlc -config prompt_limits.cfg PromptLimits
    tlapm <module>Proofs.tla

## The system

| component | state | operations | works with |
|---|---|---|---|
| prompt queue (`prompt/priority_queue.rs`) | a heap of entries (user, email id, priority), two counters per user, the set of ids in processing, each behind a lock | `push`, `pop`, `remove_from_processing`, counts | pushed by processors, popped and released by workers, counts read by run loops, cleanup and status |
| email processor (`email/processor.rs`) | owner, token count (atomic), interrupt channel, counters | `run` (a task of its own), `process_email` (called by workers), `status` and the other getters, some of which send a signal | database, Gmail, language model, queue |
| processor map (`email/active_email_processors.rs`) | user -> processor behind a lock | `insert_processor`, `get`, `cleanup_processors`, `get_current_state` | jobs insert, workers look up, cleanup removes |
| background tasks (`email/tasks.rs`, `main.rs`) | none but their locals | the job of every minute that makes processors, the worker pool and its supervisor, the cleanup loop, the status loop, the hourly auto cleanup | all of the above |
| token usage (`model/user_token_usage.rs`, `model/user.rs`) | one row per user and day | `add_to_daily_quota`, `all_with_available_quota` | tallied by workers, read by the minute job |
| processed emails (`model/processed_email.rs`) | one row per email id | `insert`, the ids of a user, the cleanup query | written by workers, read by run loops |
| mail client (`email/client.rs`) | an access token, a rate limiter | list, get, label, create labels, trash, archive | Gmail |
| language model client (`prompt/mistral.rs`) and rate limiters (`rate_limiters.rs`) | a leaky bucket, the backoff flag | prompt, acquire, trigger a backoff | shared by all workers |
| rules (`email/rules.rs`) | custom rules and overrides in the database, a copy in each processor | the rules of a user, the rule for an answer | written by the front end, read when a processor is made, used by workers |
| account access and sign-in (`routes`, `auth`, `model/user.rs`) | sessions in memory, encrypted tokens in the database | OAuth flow, token refresh | the mail client |
| auto cleanup (`email/tasks.rs`) | settings in the database | trash or archive old processed emails | Gmail |
| daily summary (`email/daily_summary_mailer.rs`) | none | build and send a summary | scheduled by nothing at this commit |

What is hard about it: everything above runs on a multi-threaded runtime. A
processor is used at the same time by its own run loop, by the workers that
popped its user's emails, and by the jobs that ask for its status, which may
itself send a signal. A processor that is cancelled goes on pushing until its
loop looks at the channel, while its successor already runs. Nearly every step
is an await on a service that may fail or be late, and what was read before it
(the processed ids, the list of messages, the row of today's usage, the users to
clean up) is used after it. Only the database and the mailboxes survive a
restart.

What makes each part correct:

- the queue: exact counters; an id waits or is worked on once; high priority first;
- the pipeline: it releases only what it popped, records only what it labelled,
  accounts for what it recorded, and handles all recent mail of a user whose
  processor runs;
- processors: a stop signal ends the run loop; no id stays marked but for want of a
  processor or by a panic; a processor that is done is replaced (not so);
- account access: a stored refresh token is kept, a processor starts with a token of
  its user that was good when taken; every active user gets a processor (not so);
- usage: no tally is lost; the count in memory follows the row;
- rules: a change is followed by a new processor; an email is filed as the rules,
  the heuristics and the model's confidence say; a disabled category is not used;
- labels: who configures them at the same time does no harm; a rule that may be
  chosen has its label; an email ends in one category and gets its label in the end;
- rate limits: the rate holds for all workers together, a backoff stops them and ends;
- cleanup: an email is moved only as a setting asked and never with the keep
  label; what is asked is done in the end (not so).

## Modules

**`EmailClaims`** is the abstract specification of the queue: an email id is
free, waits at a priority, or is claimed. It knows no heap, counters or locks.

**`PromptPriorityQueue`** models `priority_queue.rs`. `queue`,
`num_in_queue_by_email_address` and `in_processing_set` are the struct's fields;
`handed_out` stands for the local `entry` of the workers that have popped an id
and not yet released it (a ghost of the queue, tied to the real locals by
`EmailPipeline`). `Push`, `Pop` and `RemoveFromProcessing` are the calls; each is
one step, since it does all its reading and writing under its locks. The heap
is a set: the order of entries compares priorities only, so that `Pop` may
return any entry of the highest priority present. `ImplementsClaims` states that
it implements `EmailClaims` under the mapping `StageOf`.

**`EmailLedger`** is the abstract specification of the mailboxes and the table
`processed_email`, as a user of the mailbox would state it: emails arrive, are
claimed, labelled, recorded and released, in this order; a row and a label are never
taken back; a restart loses the claims only. It knows no processors, queues or
workers. `EmailPipeline` is shown to implement it (`KeepsLedger`, with `handed_out`
as the claims).

**`EmailPipeline`** extends `PromptPriorityQueue` with processors, map, workers, jobs, mailboxes and
tables. A step is the code between two awaits or one call of a shared structure.

| code | actions | state |
|---|---|---|
| `insert_processor`, `EmailProcessor::new` | `CheckProcessor`, `CreateProcessor`, `CreateFails` | `job`, `job_tokens`, `active_processors`, `owner` |
| `EmailProcessor::run`, `fetch_email_ids`, `queue_*_emails` | `ConfigureLabels`, `Tick`, `Interrupted`, `ReadProcessed`, `ListMessages`, `PushNext`, `EndPush` | `run_pc`, `fetching`, `already_processed`, `to_push`, `num_added` |
| `is_quota_reached`, `status`, `has_stopped_queueing` | `Observed`, `ObservedIn`, `HasStopped`, used by every action whose code calls them | `signal`, `token_count` |
| `email_processing_task`, `process_email`, `run_processor_pipeline` | `PopEntry`, `DropEntry`, `GetProcessor`, `PromptEmail`, `LabelEmail`, `RecordEmail`, `Release`; `Panic`, a message that ends the task | `worker_pc`, `entry`, `processor` |
| `add_tally_to_user_daily_quota`, `add_to_daily_quota` | `AddTally`, `InsertTally`, `SelectTally`, `StoreTally` | `tally`, `tokens_consumed` |
| `run_processor_cleanup_loop`, `watch` | `CollectStopped`, `DropStopped`, `Watch` | `for_cleanup` |
| `EmailClient`: the token it is made with is never refreshed (`client.rs:112`) | `ExpireToken`; `ClientWorks`, `ClientFails` in every action that calls Gmail | `expired` |
| start of the process | `MemoryInit`, `Restart` | everything but the database and the mailboxes |

The data is reduced to what the properties tell apart. An email is its id, a
message is `absent`, `unlabelled`, `hidden` (it has a label the list query filters
on) or `shown` (it has the label of a custom rule, which the query does not
filter on); a prompt costs `TokensPerEmail`. The processor's clones share their
state in the code and are one processor here. `CheckProcessor` lets the row a
job read be an earlier one of the day, because the users are read once and taken
one by one. `to_push` is a set although the code's `IndexSet` keeps the order of
the list; every order is thereby allowed. Getters of the queue called twice
inside one action read one state. The cleanup loop collects user by user
(`CollectStopped(u)`), as other threads run between its calls; `insert_processor`
makes a processor, spawns its loop and puts it in the map without an await and is one
step, `CreateProcessor`.

**`MCEmailPipeline`**, **`MCAutoCleanup`**, **`MCEmailRules`** and **`MCMailLabels`**
hold the definitions the configurations need. In every module the
definitions introduced by a comment "Mutant:" are small faults of the code, each
before the definition it is a fault of; they are used in no specification, and
replacing the definition by its mutant must make the named property fail.

**`AccountAccess`** models where access tokens come from and who uses them:
Google (external), the sign-in flow, the rows of `user_account_access`, the job
that makes processors and the routes that check a connection and refresh a token.

| code | actions | state |
|---|---|---|
| `handler_auth_gmail`, `handler_auth_gmail_callback` | `StartSignIn`, `ExchangeCode`, `CheckSession`, `GetProfile`, `LookUpUser`, `UpsertAccess`, `SignInFails` | `signin`, `sessions`, `let_in` (ghost) |
| `session_store.rs` | `SessionExpires`, in one step with the store's cleaning | `sessions` |
| `add_users_to_processing`, `insert_processor` | `StartJob`, `ReadUsers`, `VisitUser`, `CreateProcessor`, `Panic` | `call`, `status`, `client` |
| `get_new_token`, `exchange_refresh_token`, `update_account_access`, `EmailClient::new` | `UseStoredToken`, `ExchangeRefreshToken`, `RefreshRefused`, `UpdateAccess`, `CallFails` | `call`, `account` |
| `check_account_connection`, `handler_refresh_user_token` | `StartRequest`, `SaysNotConnected`, `ChecksAccess` | `call` |
| `fetch_email_ids`, as far as the token matters | `FetchEmailIds`, `ProcessorStops` | `caught_up` |
| Google's account page and token endpoint (external) | `Consent`, `Withdraw`, `Expire` | `grant`, `consents`, `issued`, `old` |

Tokens are numbers in the order of their issue, which give the user and the
consent they belong to; a refresh token is the number of its consent. Encryption
is left out but for its one consequence: an empty refresh token cannot be
decrypted, and `refresh_token()` unwraps the error (`Panic`). `Expire` lets any token
grow old but one just issued to a sign-in or a refresh: a stored token that was good when
looked at may be old when a processor starts with it, as the code checks without a
margin. The filter of the job's query (quota and subscription, `user.rs:172-174`) is
left out: the users of the instance pass it.

Two constants are choices between builds. `FlagIsSelected` is FALSE for this commit:
the queries that join the two tables (`user.rs:31-44`, `51-64`, `119-135`) select no
`needs_reauthentication`, which the structs they are read into require, so that every
read of a row by them fails. The runs `others` and `asked` check that code, and find
that no user gets a processor and nothing is cleaned up. With TRUE the column is
there: the runs `tokens` and `cleanup` look at the code behind the queries, which the
server never reaches at this commit. `EmailPipeline` and `EmailRules` do so as well:
their jobs can read their users. `UnkeyedUpdatePanics` says what `sea_orm` does with an
update without a primary key, panic or error; either way the flag is never stored.

**`AutoCleanup`** models the hourly `run_auto_email_cleanup`. `run` holds its
locals, `queue` and `cleaning` the queue and the popped emails of the threads it
spawns for a setting. `StartRun` is the query for the settings, `TakeUser` the
client of the next user, `ListPage`, `ListErrorPage` and `ListFails` a page of
the emails with the keep label, `TakeSetting` the query for a setting's emails,
`PopEmail` and `CleanEmail` a thread, `JoinThreads` the `join_all` behind them.
The settings, the mailbox and the days (`due`) change at any time. `kept` is a
ghost: the emails that have been in the inbox with the keep label ever since the
run took their user. `FlagIsSelected` is that of `AccountAccess`: with FALSE, which is
this commit, no run gets a client.

**`RuleChoice`** holds the algorithms of `email/rules.rs` and of
`parse_and_prompt_email` as operators, shared by the next two modules: the rules of
a user from the configured categories, the overrides and the custom rules
(`BuildCategoryRules`), the rule for an answer (`Found`, `AfterHeuristics`,
`AfterConfidence`, together `Selected`), and the labels that follow from them
(`ConfiguredLabels`, `RequiredLabels`). A rule has its three fields; answers, labels
and categories are values. The code keeps one list with the custom rules in front
and the default ones in the order of a hash map: `RuleData` keeps the two parts, and
where the code takes the first match, the operators give all it may take. Whether a
heuristic matches a sender is the constant `HeuristicOf`.

**`EmailRules`** models one user's rules from the tables to an email.

| code | actions | state |
|---|---|---|
| the front end (external) | `WriteOverride`, `DeleteOverride`, `AddCustomRule`, `DeleteCustomRule` | `overrides`, `custom`, `updated_at`, `now` |
| `all_with_available_quota` | `ReadUsers` (with `RuleUpdates` for `last_rule_update_time`) | `job` |
| `insert_processor` | `CheckProcessor` | `job` |
| `UserEmailRules::from_user`, `EmailProcessor::new` | `ReadOverrides`, `ReadCustomRules`, `CreateProcessor`, `CreateFails` | `job`, `processor` |
| `cleanup_processors` | `DropProcessor` | `processor` |
| `email_processing_task`, `parse_and_prompt_email` | `GetProcessor`, `ChooseRule`, `Finish` | `worker` |

Time is the number of edits. The rows' `updated_at` is the database's clock and a
processor's `created_at` the server's; they are taken to be one clock. Other reasons
to end or replace a processor are the subject of `EmailPipeline` and may apply at any
time here (the argument `ended`, `DropProcessor`). `blind` is a ghost of a processor
or job: its rules differ from the tables in a way no time shows, because a row was
deleted (its time goes with it) or a table was written while the job read it.

**`MailLabels`** models the labels of one mailbox and who makes and uses them.

| code | actions | state |
|---|---|---|
| Gmail and its user (external) | `DeleteLabel`, `Arrive`, `MoveEmail` | `labels`, `categories`, `labelled` |
| `configure_labels_if_needed` | `ListLabels`, `CreateParent`, `CreateLabel`, `CreateLabelFails`, `ConfigureStopped`, `Configured`, `ConfigureFailed` | `config` |
| `insert_processor`, start of `run` | `StartProcessor` | `current`, `failed` |
| `run_processor_pipeline`, `label_email`, `build_label_update`, `categorize_email_in_client` | `TakeEmail`, `FetchEmail`, `FetchFails`, `GetLabels`, `GetLabelsFails`, `ModifyEmail`, `ModifyFails`, each error of which goes to `Repair` | `thread` |

A label is its name and the id of its making, so that an id listed earlier may be
that of a label since deleted and made again. The creations that `join_all`
starts are steps in any order. A call that fails may have been carried out.
Recording, tallies and the queue are those of `EmailPipeline` and left out: an
email is `labelled` when it is recorded or hidden from the lists. Labels that exist
without being required only change a flag that is logged.

**`PromptLimits`** models `rate_limiters.rs`, its callers, and the error answer of
`send_category_prompt` that triggers a backoff. Time is counted in intervals of the
limiter's refill; `leaky_bucket` is external: a bucket, and a line in which callers
are served in their order.

| code | actions | state |
|---|---|---|
| `acquire_one` | `AcquireOne`, `Wake`, `GetToken` | `pc`, `left`, `line`, `bucket` |
| `send_category_prompt` | `Reply`, `TriggerBackoff` | `backoff`, `timers` |
| the task spawned by `trigger_backoff` | `BackoffExpired` | `backoff`, `timers` |
| time | `Tick`: the refill, the sleeps and the timers | `bucket`, `left`, `timers` |
| a worker task that panics | `Panic` | `pc`, `panics` |

`sent` and `asked` are ghosts: prompts in the interval, and prompts of each worker
in the backoff.

**`PromptPriorityQueueProofs`**, **`EmailPipelineProofs`**,
**`EmailPipelineUsageProofs`** (the account of tokens), **`AccountAccessProofs`**,
**`AutoCleanupProofs`**, **`EmailRulesProofs`**, **`MailLabelsProofs`**,
**`PromptLimitsProofs`**: the theorems.

## Runs

| run | configuration | question | bounds |
|---|---|---|---|
| queue | `PromptPriorityQueue.cfg` | types, exact counters, single marks, `EmailClaims` | 2 users, 4 ids, any calls |
| workers | `pipeline_workers.cfg` | types; recorded emails are paid for; an id is lost only for want of a processor or by a panic | 1 user, a recent and an old email, fetch limit 1, 2 workers, 1 failure, 1 expired token, 1 panic, quota reached by the second email |
| succession | `pipeline_succession.cfg` | an id is with one worker; recorded emails are labelled; the queue is used as it demands; `EmailLedger` | 2 processors of one user, 2 workers, 1 failure, 1 panic |
| liveness | `pipeline_liveness.cfg` | stopped loops end; recent mail is handled; marks are lifted | 1 processor, 2 workers, 1 failure, 1 expired token, 1 panic, 1 restart |
| successors | `pipeline_successors.cfg` | recent mail is handled by a processor that has a predecessor | 2 processors of one user, 1 worker, quota reached by the first email, 1 failure |
| tokens | `access_tokens.cfg` | types; a stored refresh token stays; jobs and requests go on with tokens of their users, good when taken | 1 user, 2 sign-ins, 1 job, 1 request, 2 consents, 1 token that grows old, 1 failure, 1 restart |
| cleanup | `cleanup_safety.cfg` | types; emails are moved as asked; kept ones stay | 1 user, 2 categories, 2 emails, pages of one id, 2 threads, 1 edit, 1 failure, 1 restart |
| asked | `cleanup_asked.cfg` | is what is asked done? (no) | this commit; 1 user, 2 categories, any settings, 1 email, no failure |
| rules | `email_rules.cfg` | types; outdated rules are seen and replaced; emails are filed as answered; disabled categories are unused | 2 categories, 1 heuristic, 1 custom rule, 2 contents of an override, 2 senders, 1 job, 1 worker, 2 edits, 1 failure |
| labels | `mail_labels.cfg` | types; configuration is complete and harmless; one category; every email is labelled | 2 processors with different rules, 1 worker, 1 email, 5 labels, 1 edit by the user, 1 failure, 1 replacement |
| limits | `prompt_limits.cfg` | types; the rate; few prompts in a backoff; backoffs end; who waits is served | 3 workers, 2 tokens, a refill of 1, a backoff of 2 intervals, 1 panic |
| others | `access_others.cfg` | does every active user get a processor every minute? (no) | this commit; 1 sign-in, 1 consent, no failure |

Every bound is a constant. Two workers are enough for every race of the workers,
since each touches one email, one row and one count at a time; two processors of
one user are a cancelled one and its successor; two ids let a user reach the
quota, the cutoff of low priority and the fetch limit. `DailyQuota = 3` and
`TokensPerEmail = 2` put the cutoff (1) below one email and the quota between
one and two, so that each threshold is crossed. `MaxFailures` and `MaxRestarts`
bound what would otherwise happen for ever. `MaxExpired` and `MaxPanics` do not make
the damage pass: a token that has expired fails every later call of its processor,
and a worker that has panicked never comes back. One of each leaves a processor with a
dead token beside a worker that still pops its emails. One job is enough for the runs: a
second one only adds a processor, which `Procs` bounds too; the proofs hold for any
number. In account access, two sign-ins let one store what another is about to
overwrite, and two consents make one refresh token outdated. In the cleanup, two categories are
settings that may differ, and two kept emails with pages of one fill more than
one page. Emails of two users that share an id, the ledger and the account across a
restart, and cleanup runs of two hours that overlap, are left to the proofs, which
hold for any number of users, restarts and runs.
For the rules, two edits write two rows, or one and its deletion, before, between and after
the reads of the job; two overlapping jobs have been checked once (3.5 million
states) and are covered by the proofs. For the labels, the actors that
configure are a cancelled processor, its successor and a repairing worker, and the
one label that may be deleted is a heuristic's, which is missing at the start too. For the
limits, three workers are one more than the tokens, and a backoff of two intervals
lets a second trigger come between the first and its timer. No configuration turns the deadlock check off.

Symmetry is used for workers, processors and users (and for categories, emails
and threads in the cleanup) in runs that check no liveness; the mailboxes of
the instance are equal for all users.

### Fairness

`FairSpec` assumes weak fairness of each run loop and each worker, and of the status
loop: they are tokio tasks of a server with nothing that blocks them, and their
waits are timers. A panic is no part of that and owes nothing. A run loop that waits has
both its tick and its interrupt; the `select!` picks a ready branch at random, hence strong
fairness for `Interrupted`.
Nothing is assumed of the jobs, of the cleanup loop or of arriving mail. Calls of
services return (they work or fail). Those that fail by chance are finitely many; the
failure that lasts, a client whose access token has expired, is `ExpireToken`, after
which every call of Gmail by that processor fails, for ever. `RecentMailHandled` is
therefore a promise of a processor with a good token only: one that outlives its token
reads the error answer to its list call as an empty list, and no mail of its user is
handled any more while it stays in the map (`CollectsUntilNoMore` of `AccountAccess`).
`MarksAreLifted` holds with a dead token as well.

In `AccountAccess` only the steps of the minute job are fair: the scheduler
starts it every minute and its awaits return. Users, Google and requests owe
nothing. In `AutoCleanup` the steps of a run are fair as a whole, the first one
included (the scheduler starts one every hour): its loops always have a next step
until it ends. Users may stop changing things, and failures are finitely many.

In `EmailRules` the steps of the minute job are fair, and nothing else: users and
workers owe nothing. In `MailLabels` the run loops and workers that
configure, the workers that label, and the job that replaces a failed processor are
fair; `MaxEdits`, `MaxFailures` and `MaxReplaced` make the disturbances finitely many, and
`EveryEmailLabelled` excepts the case that the last of the `NProcs` processors
has failed, after which the bound allows no other. In `PromptLimits` the clock, the
timers, the sleeps and the limiter are fair; that there is mail, and that a prompt is
ever answered, is not assumed. `Tick` waits for what is due in its interval: a task
whose sleep is over runs within the interval of the limiter in which it ends.

### What the violations show

- `EveryMinuteEveryUser` (`main.rs:140`): the query of the job lacks the column
  `needs_reauthentication` (`user.rs:132`) that its row type requires (`user.rs:299`). Once
  anybody has signed in, every run of the job ends at the query (`tasks.rs:32`), and no
  user gets a processor.
- `AskedIsDone` (`main.rs:149`): the query behind the mail client lacks the same column
  (`user.rs:38`, required at `user.rs:237`). `get_email_client` fails for every user, and a
  run of the cleanup goes on with the next until there is none.

### Other statements

These are statements of comments, names or columns of the code that are defined in
the modules and refuted as well; to see it, put the statement in the place of the
properties of the configuration, as an INVARIANT or, where it has a temporal
operator, as a PROPERTY, with the change named if there is one.

| statement | configuration | what happens |
|---|---|---|
| `EveryMinuteEveryUser` (`main.rs:140`) | `access_others.cfg`, `FlagIsSelected = TRUE`, `SignIns = {s1, s2, s3}` | with the column added: a sign-in whose session expires after the code was exchanged loses the refresh token; the next one stores a row without it, whose `refresh_token()` panics the job before the users behind that row |
| `NotProcessedTwice` (`priority_queue.rs:64`, at `processor.rs:222`) | `pipeline_succession.cfg` | an email recorded and released between a fetch's reads and its push is pushed, prompted for and charged again |
| `EndedIsReplaced` (`main.rs:140`, at `processor.rs:574`) | `pipeline_workers.cfg` | the count of a processor rises over the quota by `fetch_add_token_count`, the run loop ends, and `set_token_count` takes the count back below the quota; the processor in the map looks alive, is never replaced, and its user's mail is not fetched any more |
| `StopIsFinal` (`processor.rs:547`) | `pipeline_workers.cfg` | `is_quota_reached` overwrites `Fail` by `Quota`; when a late tally then sets the count back below the quota, the failed processor accepts emails again |
| `NoClaimDropped` (`tasks.rs:102`) | `pipeline_succession.cfg` | an entry whose user has no processor in the map any more is dropped with its id marked until a restart; the cleanup loop drops by address what it collected before, so that this happens to a live user too |
| `LabelErrorRequeues` (`processor.rs:450`) | `pipeline_succession.cfg` | a label call applied without an answer hides the email from the list, and nobody records it |
| `RecordedIsInUsage` (`user_token_usage.rs:64`) | `pipeline_workers.cfg` | two workers both find no row of the day; the second insertion violates the unique key, and its tally is lost |
| `ReauthenticationHeals` (`client.rs:89`) | `access_tokens.cfg`, `FairSpec` | while the stored access token looks good, a sign-in drops the new refresh token; if the consent had been taken back, no later sign-in brings another |
| `CollectsUntilNoMore` (`processor.rs:256`) | `access_tokens.cfg` | the error answer to an expired token reads as the end of the list |
| `NotConnectedIsTrue` (`account_connection.rs:203`) | `access_tokens.cfg` | the check asks about the token it read before its own refresh, and reports a working account as not connected |
| `KeptIsKept` (`tasks.rs:222`, at `client.rs:199`) | `cleanup_safety.cfg` | an error answer to the listing of kept emails reads as an empty list, and a kept email is trashed |
| `DisabledIsLeftAlone` (`schema.prisma:111`) | `cleanup_safety.cfg` | nobody reads `is_disabled` of a cleanup setting |
| `EveryChangeFollowed` (`active_email_processors.rs:55`) | `email_rules.cfg` | a deleted rule takes its `updated_at` with it, and a row written between the job's reading of its table and `created_at` is older than the processor that has not seen it: the old rules stay in use |
| `BackoffLasts` (`rate_limiters.rs:28`) | `prompt_limits.cfg` | the timer of an earlier trigger clears the flag a later one has set anew |
| `WorkersRestarted` (`tasks.rs:134`) | `prompt_limits.cfg` | a task that panicked stays in the `JoinSet`, whose length is what the supervisor compares: nothing restarts it |

## Proofs

From the modules' assumptions on their constants alone (`PipelineAssumption`,
`AccessAssumption`, `CleanupAssumption`, `RulesAssumption`, `EmailRulesAssumption`,
`LabelsAssumption`, `LimitsAssumption`: distinct names, natural bounds, rules that are rules,
one heuristic at most for a sender), for all sets of users, ids, processors,
workers, jobs, sign-ins, emails, runs, threads, rules and labels (not assumed
finite, but for the workers of the pipeline, of which there are also some: the pool of
`run_email_processing_loop` has `rate * 2 - 1` tasks, `tasks.rs:109`; the processors of
`MailLabels` are numbered) and all bounds:

| theorem | property |
|---|---|
| `QueueTyping`, `CountersExact`, `EmailsMarkedOnce` | `QueueTypeOK`, `CountsExact`, `MarkedOnce` of the queue |
| `QueueImplementsClaims` | the queue implements `EmailClaims` |
| `Typing` | `TypeOK` of the pipeline |
| `EmailsClaimedOnce` | `ClaimedOnce` |
| `RecordedEmailsAreLabelled` | `RecordedIsLabelled` |
| `PipelineImplementsQueue` | the pipeline implements `QueueSpec` |
| `PipelineImplementsClaims` | ... and through it `EmailClaims` |
| `PipelineKeepsLedger` | the pipeline implements `EmailLedger` |
| `RecordedEmailsAreCharged` | `RecordedIsCharged` |
| `OnlyDropsAndPanicsLose` | `LostByDropOrPanic` |
| `AccessTyping` | `TypeOK` of account access |
| `ProcessorsStartWithAccess` | `StartsWithAccess` |
| `RefreshTokensKept` | `RefreshTokenKept` |
| `CleanupTyping` | `TypeOK` of the cleanup |
| `MovesOnlyAsAsked` | `OnlyAsAsked` |
| `KeptEmailsStay` | `KeepProtects` |
| `RulesTyping` | `TypeOK` of the rules |
| `ChangesAreSeen` | `StaleIsSeen` |
| `AnswersAreFollowed` | `FiledAsAnswered` |
| `DisabledStaysUnused` | `DisabledIsUnused` |
| `LabelsTyping` | `TypeOK` of the labels |
| `LabelsConfigured` | `ConfiguredIsComplete` |
| `ProcessorsFailOnErrors` | `FailsOnlyOnError` |
| `CategoriesStaySingle` | `OneCategory` |
| `LimitsTyping` | `TypeOK` of the limits |
| `PromptsKeepRate` | `RateKept` |
| `BackoffIsRespected` | `FewPromptsInBackoff` |

*Queue.* The inductive invariant `QueueInv` is the conjunction of the three
properties: the counters are exact only because an id has at most one entry, so
that a push adds an element to the set it counts and a pop removes one; they
are never decremented at 0 only because they are exact. `NumInQueueExact`
reads a counter as a cardinality whether or not the user has one. For the
refinement, `StageOfEntry` gives the stage of a queued id its entry's priority.

*Pipeline.* `ClaimedOnce` needs `QueueInv`: what a worker releases was handed out
to it and to no one else. `RecordedIsLabelled` is not inductive: a row is
written for the *processor's* user and the label was put in the mailbox of the
*entry's* user, so the invariant `Inv` also says that a processor in use belongs
to the entry's user (`Owned`, which rests on the map and on processors being made
once), and that the message of a worker about to record is labelled
(`RecordingIsLabelled`). There is a lemma per action; `QueueFrame`, `OwnedFrame`,
`LabelFrame` and `SignalFrame` say what a step keeps that leaves a part of the state
alone. `PipelineImplementsQueue` uses `Inv` for one thing: a released id is handed
out.

*Ledger.* Each action is mapped to the step of `EmailLedger` of the same name, and
the others to a stutter. `Inv` gives most of the guards: a popped id was not claimed,
a worker's email is claimed by it, what it records is labelled. The guard of the
label is new: the message must have arrived. `OnlyArrived` follows a message from
the list call to `to_push`, the queue and a worker; it also says that a processor
not yet made has nothing to push, as the owner of `to_push` is set when it is made.
Two steps stutter although they write: an insertion that finds a row, and a failed
label call that left the message alone.

*Lost emails.* `Lost` is what is handed out and with no worker. A step that takes an
entry from a worker without releasing its id loses that id and no other
(`ForgettingLosesOne`), and only `DropEntry` and `Panic` do: every other end of a worker's
round, whatever failed on the way, is `Release`. A worker releases the id of its own
entry, which by `ClaimedOnce` is no other worker's.

*Usage.* `RecordedIsCharged` sums over workers, failures and restarts, and is not
inductive: it says nothing of a worker that may still lose the race for the first row
of the day. `Charged` keeps an allowance for every worker from the start: as long as a
user has no row, nobody has lost, and any worker but the one to come may; once there
is a row, only the workers at `insert` may lose (`Covered`), and nobody joins them,
since a tally that finds the row adds to it. Each step is then compared with what it
takes from or adds to that sum.

*Account access.* `StartsWithAccess` is about two steps, the one that takes a token
(not old then, and of the right user) and the one that starts a processor with it
(still of that user). The token comes
from Google through a sign-in or a refresh to a row, from there to the copy of a
job. `Inv` says at each of these places whose token it is (`SignInOK`, `CallOK`,
`RowOf`) and that the expiry of a row is that of its token, without which a job
would take an old token for a good one. It relies on the guard of `Expire` for new
tokens alone: one lives an hour and does not grow old in the seconds a sign-in or a
refresh has it in hand. `NothingIssued` and `OneIssued` carry these facts over steps that
leave Google's tokens alone or add one.

*Cleanup.* What a thread may do to an email was decided when the settings were
read, the list was loaded and the queue was filled. `Inv` carries each decision
along: `SettingsOK` (the settings to see to were among those read), `ToClean` (an
email in the queue or popped belongs to the current setting, is due and is not on
the list) and `KeptOK` (behind a complete listing, the emails kept all along are
on the list). The last needs that a page is loaded from what is in the inbox at
the time, and that an email that leaves it is not kept all along. `OtherRuns`
reduces a step to the run that takes it.

*Rules.* `StaleIsSeen` rests on `Read`: a job's copy of a table is the table unless
the job is `blind`, and a processor is never made later than now, so that a change after
it has a later time. The GREATEST of the query is the set `RuleUpdates`, since a time is
before the greatest if it is before one of them. `FiledAsAnswered` follows from the rule
being one that `Selected` gives (`Chosen`), and the lemmas about `Selected`;
`DisabledIsUnused` says of a processor and of a worker's copy of its rules that a
disabled category is not among the default ones or was disabled later (`Excluded`).

*Labels.* `ConfiguredIsComplete` is not inductive: `Covers` says of a call under way
that each label it requires exists, is still to be created by it, or was deleted
since its list, whoever created it. `FailsOnlyOnError` counts the processors that have failed
together with those an erring call is about to fail (`Tainted`), each of which took a
failing call of its own. `OneCategory` needs `Known`: an email is with one worker, and
the categories a worker holds are at least those the email is in, unless it was moved.

*Limits.* `RateKept` follows from the sum of tokens left and prompts sent in an interval.
`FewPromptsInBackoff` needs to know why a third prompt cannot come: a worker
that has sent one in the backoff sleeps before its next, and the sleep, which began under
a running timer of no greater length, ends no earlier than that timer (`AskedOK`), at
which the clock stands until the flag is cleared.

*Model-checked only.* The liveness properties `StoppedRunEnds`, `RecentMailHandled`,
`MarksAreLifted`, `RulesFollowed`, `EveryEmailLabelled`, `BackoffEnds` and
`EveryPromptIsSent`: TLAPS cannot reason about the enabledness that fairness needs.

## Plan

1. *done* `EmailClaims`, `PromptPriorityQueue`, `EmailPipeline` and their proofs.
2. *dropped* `TokenAccounting`, tallies across midnight and a bound on the overshoot of
   the quota. A tally or a processor made from an older row sets the count back and
   opens the gate again, so that one email for each worker is no bound, and none was
   found that says more than the actions do; what is left of it are
   `RecordedIsCharged`, `RecordedIsInUsage` and `EndedIsReplaced`.
3. *done* `PromptLimits` and its proofs. That no prompt starts within the backoff is
   not true of the code; `FewPromptsInBackoff` is what it keeps.
4. *done with 3* the worker pool: its supervisor compares a length that never changes,
   so that it has no step of its own; a worker that panics is `Panic`, of its token in
   `PromptLimits` and of its email in `EmailPipeline`.
5. *done* `AccountAccess` and its proofs.
6. *done* `MailLabels` and its proofs.
7. *done* `AutoCleanup` and its proofs.
8. *done* `RuleChoice`, `EmailRules` and their proofs.

What could be added: the usage rows of two days; the composition of `MailLabels` with
`EmailPipeline`, which would join the failure of a processor to what becomes of
its queue; a run of `EmailRules` with two jobs, which takes long.

## Not modelled

- HTTP, JSON and template code, configuration, tracing and the generated entities
  keep no state that matters here. The text of a prompt and the two ways to read an answer
  come to one answer with a confidence, or to an error.
- `prompt/groq.rs` and `prompt/converse.rs` are not reached;
  `sweep_for_cancelled_subscriptions`, `reset_quota`, `delete_label` and the sending of the
  daily summary, with the label it makes, have no caller.
- The branch of `run_email_processing_loop` that restarts the workers is never
  taken: `JoinSet::len` counts tasks that have ended until they are joined, and
  nothing joins them.
- The change of day and the overshoot of the quota, see the plan.
- The rate limiter of a mail client: it delays calls and nothing depends on how long.
