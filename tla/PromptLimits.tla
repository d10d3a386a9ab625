---------------------------- MODULE PromptLimits ----------------------------
(***************************************************************************)
(* How often the language model is asked: the rate limiter all workers     *)
(* share (rate_limiters.rs), the backoff its error answer triggers         *)
(* (prompt/mistral.rs), and the workers that wait for both.                *)
(*                                                                         *)
(* Time passes in intervals of the limiter's refill.  What is due, a sleep *)
(* that ends or a timer, runs before the next interval: Tick waits for it. *)
(* The limiter itself is the crate leaky_bucket: it lets callers through   *)
(* in their order, one for each token.                                     *)
(***************************************************************************)
EXTENDS Naturals, Sequences

CONSTANTS
    Threads,            \* the tasks of run_email_processing_loop
    MaxTokens,          \* rate_limit_per_sec: initial and max of the limiter
    Refill,             \* refill_amount
    Backoff,            \* backoff_duration, in intervals
    MaxPanics           \* bound on workers that panic

ASSUME LimitsAssumption ==
    /\ MaxTokens \in Nat \ {0} /\ Refill \in Nat \ {0} /\ Backoff \in Nat \ {0}
    /\ MaxPanics \in Nat

VARIABLES
    pc,                 \* thread -> where it is
    left,               \* thread -> intervals of sleep it has left
    line,               \* threads waiting for a token, in their order
    bucket,             \* tokens of the limiter
    backoff,            \* the flag
    timers,             \* k -> tasks of trigger_backoff that end in k intervals
    sent,               \* ghost: prompts sent since the last refill
    asked,              \* ghost: thread -> prompts sent since the flag was set
    panics              \* workers that panicked

vars == <<pc, left, line, bucket, backoff, timers, sent, asked, panics>>

PC == {"idle", "sleep", "line", "prompt", "panicked"}

\* What comes back: an answer that can be read, one that cannot (no choice, no
\* category or confidence), "Requests rate limit exceeded", or anything else.
\* The statuses the code looks at are those of an error in reading the body,
\* which has none.
Replies == {"answer", "unreadable", "limited", "error"}

Least(m, n) == IF m <= n THEN m ELSE n

\* Mutant: the builder is not given its max.
Unlimited == bucket + Refill

\* The builder's max.
Refilled == Least(MaxTokens, bucket + Refill)

-----------------------------------------------------------------------------
(* acquire_one *)

\* Mutant: the flag is not looked at.
WaitInLine(t) ==
    /\ pc[t] = "idle"
    /\ pc' = [pc EXCEPT ![t] = "line"] /\ line' = Append(line, t) /\ UNCHANGED left
    /\ UNCHANGED <<bucket, backoff, timers, sent, asked, panics>>

\* A worker with a message: it sleeps while the flag is set, else it waits.
AcquireOne(t) ==
    /\ pc[t] = "idle"
    /\ IF backoff
       THEN /\ pc' = [pc EXCEPT ![t] = "sleep"] /\ left' = [left EXCEPT ![t] = Backoff]
            /\ UNCHANGED line
       ELSE /\ pc' = [pc EXCEPT ![t] = "line"] /\ line' = Append(line, t)
            /\ UNCHANGED left
    /\ UNCHANGED <<bucket, backoff, timers, sent, asked, panics>>

\* A thread sends its prompt; what is asked during a backoff is counted.
Sends(t) ==
    /\ pc' = [pc EXCEPT ![t] = "prompt"]
    /\ sent' = sent + 1
    /\ asked' = IF backoff THEN [asked EXCEPT ![t] = @ + 1] ELSE asked

\* Mutant: after the sleep there is no wait for a token.
WakeAndSend(t) ==
    /\ pc[t] = "sleep" /\ left[t] = 0
    /\ Sends(t)
    /\ UNCHANGED <<left, line, bucket, backoff, timers, panics>>

\* Mutant: it sleeps again while the flag is set.
SleepOn(t) ==
    /\ pc[t] = "sleep" /\ left[t] = 0
    /\ IF backoff
       THEN /\ left' = [left EXCEPT ![t] = Backoff] /\ UNCHANGED <<pc, line>>
       ELSE /\ pc' = [pc EXCEPT ![t] = "line"] /\ line' = Append(line, t) /\ UNCHANGED left
    /\ UNCHANGED <<bucket, backoff, timers, sent, asked, panics>>

\* The flag is not looked at again.
Wake(t) ==
    /\ pc[t] = "sleep" /\ left[t] = 0
    /\ pc' = [pc EXCEPT ![t] = "line"] /\ line' = Append(line, t)
    /\ UNCHANGED <<left, bucket, backoff, timers, sent, asked, panics>>

GetToken(t) ==
    /\ line # <<>> /\ t = Head(line) /\ line' = Tail(line)
    /\ bucket > 0 /\ bucket' = bucket - 1
    /\ Sends(t)
    /\ UNCHANGED <<left, backoff, timers, panics>>

-----------------------------------------------------------------------------
(* send_category_prompt *)

\* Mutant: the timer is forgotten.
TriggerFlag ==
    /\ backoff' = TRUE
    /\ UNCHANGED timers

\* trigger_backoff: a timer for each trigger.
TriggerBackoff ==
    /\ backoff' = TRUE
    /\ timers' = [timers EXCEPT ![Backoff] = @ + 1]

Reply(t, reply) ==
    /\ pc[t] = "prompt" /\ pc' = [pc EXCEPT ![t] = "idle"]
    /\ IF reply = "limited" THEN TriggerBackoff ELSE UNCHANGED <<backoff, timers>>
    /\ UNCHANGED <<left, line, bucket, sent, asked, panics>>

\* The first timer to end clears the flag, whoever triggered since.
BackoffExpired ==
    /\ timers[0] > 0 /\ timers' = [timers EXCEPT ![0] = @ - 1]
    /\ backoff' = FALSE
    /\ asked' = [t \in Threads |-> 0]
    /\ UNCHANGED <<pc, left, line, bucket, sent, panics>>

-----------------------------------------------------------------------------
(* The pool and the clock *)

\* A message that makes its parser panic ends the task.  It stays in the JoinSet,
\* which nothing joins, so that the length the supervisor compares is as before.
Panic(t) ==
    /\ pc[t] = "idle" /\ pc' = [pc EXCEPT ![t] = "panicked"]
    /\ panics < MaxPanics /\ panics' = panics + 1
    /\ UNCHANGED <<left, line, bucket, backoff, timers, sent, asked>>

Due(t) == pc[t] = "sleep" /\ left[t] = 0

Tick ==
    /\ timers[0] = 0 /\ \A t \in Threads : ~Due(t)
    /\ timers' = [k \in 0..Backoff |-> IF k < Backoff THEN timers[k + 1] ELSE 0]
    /\ left' = [t \in Threads |-> IF pc[t] = "sleep" THEN left[t] - 1 ELSE 0]
    /\ bucket' = Refilled
    /\ sent' = 0
    /\ UNCHANGED <<pc, line, backoff, asked, panics>>

-----------------------------------------------------------------------------

Init ==
    /\ pc = [t \in Threads |-> "idle"]
    /\ left = [t \in Threads |-> 0]
    /\ line = <<>>
    /\ bucket = MaxTokens
    /\ backoff = FALSE
    /\ timers = [k \in 0..Backoff |-> 0]
    /\ sent = 0
    /\ asked = [t \in Threads |-> 0]
    /\ panics = 0

Next ==
    \/ \E t \in Threads : AcquireOne(t) \/ Wake(t) \/ GetToken(t) \/ Panic(t)
    \/ \E t \in Threads, reply \in Replies : Reply(t, reply)
    \/ BackoffExpired \/ Tick

Spec == Init /\ [][Next]_vars

\* The clock goes on, and with it the timers, the sleeps and the limiter; whether
\* there are messages, and when replies come, is not said.
FairSpec ==
    /\ Spec
    /\ WF_vars(Tick) /\ WF_vars(BackoffExpired)
    /\ \A t \in Threads : WF_vars(Wake(t)) /\ WF_vars(GetToken(t))

-----------------------------------------------------------------------------
(* Properties *)

\* The variables have their types, and the line holds the threads that wait, each
\* once.
TypeOK ==
    /\ pc \in [Threads -> PC] /\ left \in [Threads -> 0..Backoff]
    /\ line \in Seq(Threads)
    /\ \A t \in Threads : pc[t] = "line" <=> \E i \in 1..Len(line) : line[i] = t
    /\ \A i, k \in 1..Len(line) : line[i] = line[k] => i = k
    /\ bucket \in 0..MaxTokens /\ sent \in Nat /\ panics \in Nat
    /\ backoff \in BOOLEAN /\ timers \in [0..Backoff -> Nat]
    /\ asked \in [Threads -> Nat]

\* The limiter holds for the prompts of all workers together, those that slept
\* through a backoff and wake at one time included: in an interval there are no
\* more than rate_limit_per_sec of them.
RateKept == sent <= MaxTokens

\* acquire_one looks at the flag once, before a sleep as long as the backoff: in
\* one backoff a worker sends the prompt it had passed the check with, and one
\* more only if its sleep ends just before the timer.
FewPromptsInBackoff == \A t \in Threads : asked[t] <= 2

\* A backoff ends, however often it is triggered again.
BackoffEnds == backoff ~> ~backoff

\* Every worker that waits gets to send its prompt, though each sleep may end in
\* another backoff and others wait for the same tokens.
EveryPromptIsSent ==
    \A t \in Threads : pc[t] \in {"sleep", "line"} ~> pc[t] = "prompt"

\* "backoff_duration" (rate_limiters.rs:28) after the last trigger: refuted.
BackoffLasts == [][backoff /\ ~backoff' => \A k \in 0..Backoff : timers'[k] = 0]_vars

\* "Restarting email processing threads" (tasks.rs:134): refuted.
WorkersRestarted == \A t \in Threads : pc[t] = "panicked" ~> pc[t] # "panicked"
=============================================================================
