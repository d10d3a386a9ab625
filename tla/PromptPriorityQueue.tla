------------------------- MODULE PromptPriorityQueue -------------------------
(***************************************************************************)
(* server/src/prompt/priority_queue.rs: the queue between the processors   *)
(* that find emails and the workers that prompt for them.                  *)
(*                                                                         *)
(* Its three fields are behind three locks.  push takes them all, pop the  *)
(* first two, remove_from_processing the third, and the getters one; what  *)
(* each call reads and writes is under the locks it holds, so that every   *)
(* call is one step.                                                       *)
(*                                                                         *)
(* The heap is the set of its entries.  Its order compares priorities      *)
(* only, so that pop may return any entry of the highest priority present. *)
(***************************************************************************)
EXTENDS Integers, FiniteSets

CONSTANTS
    Users,      \* email addresses of the users
    Ids         \* email ids, the u128 of the code

VARIABLES
    queue,                          \* the BinaryHeap, as a set of entries
    num_in_queue_by_email_address,  \* user -> QueueCount, for some users
    in_processing_set,              \* ids queued or being processed
    handed_out                      \* ids popped and not yet released: the
                                    \* local variable `entry` of the workers

queueVars ==
    <<queue, num_in_queue_by_email_address, in_processing_set, handed_out>>

Priority == {"High", "Low"}

PromptQueueEmailEntry ==
    [user_email : Users, email_id : Ids, priority : Priority]

QueueCount == [Priority -> Nat]

-----------------------------------------------------------------------------
(* The counters. *)

\* num_high_priority_in_queue and num_low_priority_in_queue.
NumInQueue(u, p) ==
    IF u \in DOMAIN num_in_queue_by_email_address
    THEN num_in_queue_by_email_address[u][p]
    ELSE 0

\* num_in_queue.
NumQueued(u) == NumInQueue(u, "High") + NumInQueue(u, "Low")

\* Mutant: push counts every email as one of high priority.
CountedInAsHigh(u, p) ==
    [q \in Priority |-> IF q = "High" THEN NumInQueue(u, q) + 1 ELSE NumInQueue(u, q)]

\* Mutant: pop takes one off both counters, and lets them underflow.
CountedOutTwice(u, p) == [q \in Priority |-> NumInQueue(u, q) - 1]

\* The counters of u after an email of priority p has joined its queue.
CountedIn(u, p) ==
    [q \in Priority |-> IF q = p THEN NumInQueue(u, q) + 1 ELSE NumInQueue(u, q)]

\* ... and after one has left: checked_sub(1), and 0 where that underflows.
CountedOut(u, p) ==
    [q \in Priority |->
        IF q = p /\ NumInQueue(u, q) > 0 THEN NumInQueue(u, q) - 1 ELSE NumInQueue(u, q)]

\* The counter map with the counters of u replaced by c.
WithCount(u, c) ==
    [v \in DOMAIN num_in_queue_by_email_address \cup {u} |->
        IF v = u THEN c ELSE num_in_queue_by_email_address[v]]

NoCounts == [v \in {} |-> [q \in Priority |-> 0]]

WithoutCount(u) ==
    [v \in DOMAIN num_in_queue_by_email_address \ {u} |-> num_in_queue_by_email_address[v]]

-----------------------------------------------------------------------------
(* The operations. *)

\* Mutant: push looks for the id in the heap only.
AcceptsUnlessQueued(i) == \A e \in queue : e.email_id # i

\* push: TRUE in the code when the id was not in processing.
Accepts(i) == i \notin in_processing_set

Push(u, i, p) ==
    \/ /\ Accepts(i)
       /\ in_processing_set' = in_processing_set \cup {i}
       /\ queue' = queue \cup {[user_email |-> u, email_id |-> i, priority |-> p]}
       /\ num_in_queue_by_email_address' = WithCount(u, CountedIn(u, p))
       /\ UNCHANGED handed_out
    \/ /\ ~Accepts(i)
       /\ UNCHANGED queueVars

\* Mutant: the entries compare equal whatever their priority.
GreatestOfEqual == queue

\* The entries pop may return: those no other entry is greater than.
Greatest == {e \in queue : e.priority = "Low" => \A f \in queue : f.priority = "Low"}

Pop(e) ==
    /\ e \in Greatest
    /\ queue' = queue \ {e}
    /\ LET u == e.user_email
           c == CountedOut(u, e.priority)
       IN  num_in_queue_by_email_address' =
             IF u \in DOMAIN num_in_queue_by_email_address
             THEN IF \A q \in Priority : c[q] = 0 THEN WithoutCount(u) ELSE WithCount(u, c)
             ELSE num_in_queue_by_email_address
    /\ handed_out' = handed_out \cup {e.email_id}
    /\ UNCHANGED in_processing_set

RemoveFromProcessing(i) ==
    /\ in_processing_set' = in_processing_set \ {i}
    /\ handed_out' = handed_out \ {i}
    /\ UNCHANGED <<queue, num_in_queue_by_email_address>>

\* A queue is made once, empty, when the server starts.
New ==
    /\ queue' = {}
    /\ num_in_queue_by_email_address' = NoCounts
    /\ in_processing_set' = {}
    /\ handed_out' = {}

-----------------------------------------------------------------------------
(* The queue alone, with clients that release only what they popped. *)

QueueInit ==
    /\ queue = {}
    /\ num_in_queue_by_email_address = NoCounts
    /\ in_processing_set = {}
    /\ handed_out = {}

QueueNext ==
    \/ \E u \in Users, i \in Ids, p \in Priority : Push(u, i, p)
    \/ \E e \in queue : Pop(e)
    \/ \E i \in handed_out : RemoveFromProcessing(i)
    \/ New

QueueSpec == QueueInit /\ [][QueueNext]_queueVars

-----------------------------------------------------------------------------
(* Properties. *)

QueuedIds == {e.email_id : e \in queue}

\* The entries the counter of user u and priority p stands for.
EntriesOf(u, p) == {e \in queue : e.user_email = u /\ e.priority = p}

\* Every variable has its type, and the heap is finite.
QueueTypeOK ==
    /\ queue \subseteq PromptQueueEmailEntry
    /\ IsFiniteSet(queue)
    /\ DOMAIN num_in_queue_by_email_address \subseteq Users
    /\ num_in_queue_by_email_address \in
         [DOMAIN num_in_queue_by_email_address -> QueueCount]
    /\ in_processing_set \subseteq Ids
    /\ handed_out \subseteq Ids

\* The counters agree with the heap: every user's two counters are the
\* numbers of the user's entries of each priority, and a user without
\* entries has no counters.  A processor looks for new emails when its high
\* counter is 0 (processor.rs, run) and is dropped when the counters are 0
\* (tasks.rs, run_processor_cleanup_loop), so a counter that drifts starves
\* the user or keeps the processor for ever; the error log "Detected negative
\* ... count" of pop is unreachable as long as it holds.
CountsExact ==
    /\ DOMAIN num_in_queue_by_email_address = {e.user_email : e \in queue}
    /\ \A u \in DOMAIN num_in_queue_by_email_address, p \in Priority :
          num_in_queue_by_email_address[u][p] = Cardinality(EntriesOf(u, p))

\* No email is in the program twice: an id has at most one entry in the heap,
\* an id with an entry is not at the same time handed to a worker, and the
\* in_processing set is exactly the ids that are queued or handed out.
MarkedOnce ==
    /\ \A e, f \in queue : e.email_id = f.email_id => e = f
    /\ QueuedIds \cap handed_out = {}
    /\ in_processing_set = QueuedIds \cup handed_out

-----------------------------------------------------------------------------
(* The queue implements EmailClaims. *)

StageOf(i) ==
    IF \E e \in queue : e.email_id = i /\ e.priority = "High" THEN "High"
    ELSE IF \E e \in queue : e.email_id = i THEN "Low"
    ELSE IF i \in handed_out THEN "claimed"
    ELSE "free"

Claims == INSTANCE EmailClaims WITH stage <- [i \in Ids |-> StageOf(i)]

\* Every call of the queue is a step of EmailClaims or leaves every email at
\* its stage: a second push of an email changes nothing, pop serves the high
\* priority first, and remove_from_processing frees the email it is given.
ImplementsClaims == Claims!Spec
==============================================================================
