---------------------- MODULE PromptPriorityQueueProofs ----------------------
(***************************************************************************)
(* Proofs about PromptPriorityQueue, for every set of users and of ids:    *)
(* its types, the exactness of its counters, the uniqueness of its claims, *)
(* and that it implements EmailClaims.                                     *)
(*                                                                         *)
(* The three invariants need each other: the counters follow the heap only *)
(* because a pushed entry is new to it, which is what MarkedOnce says of   *)
(* an id that is not in in_processing_set.                                 *)
(***************************************************************************)
EXTENDS PromptPriorityQueue, FiniteSetTheorems, TLAPS

QueueInv == QueueTypeOK /\ CountsExact /\ MarkedOnce

\* The entries of one counter are finitely many, and the getters return their
\* number, for users with counters and users without.
LEMMA NumInQueueExact ==
    ASSUME QueueTypeOK, CountsExact, NEW u, NEW p \in Priority
    PROVE  /\ IsFiniteSet(EntriesOf(u, p))
           /\ NumInQueue(u, p) = Cardinality(EntriesOf(u, p))
           /\ NumInQueue(u, p) \in Nat
<1>1. IsFiniteSet(EntriesOf(u, p))
  BY FS_Subset DEF EntriesOf, QueueTypeOK
<1>2. CASE u \in DOMAIN num_in_queue_by_email_address
  BY <1>1, <1>2, FS_CardinalityType DEF CountsExact, NumInQueue
<1>3. CASE u \notin DOMAIN num_in_queue_by_email_address
  <2>1. EntriesOf(u, p) = {}
    BY <1>3 DEF EntriesOf, CountsExact
  <2>2. QED
    BY <1>1, <1>3, <2>1, FS_EmptySet DEF NumInQueue
<1>4. QED
  BY <1>2, <1>3

LEMMA InitQueueInv == QueueInit => QueueInv
<1>1. SUFFICES ASSUME QueueInit PROVE QueueInv
  OBVIOUS
<1>2. QueueTypeOK
  BY <1>1, FS_EmptySet DEF QueueInit, QueueTypeOK, NoCounts
<1>3. CountsExact
  BY <1>1 DEF QueueInit, CountsExact, NoCounts
<1>4. MarkedOnce
  BY <1>1 DEF QueueInit, MarkedOnce, QueuedIds
<1>5. QED
  BY <1>2, <1>3, <1>4 DEF QueueInv

-----------------------------------------------------------------------------
(* push *)

LEMMA PushQueueInv ==
    ASSUME QueueInv, NEW u \in Users, NEW i \in Ids, NEW p \in Priority, Push(u, i, p)
    PROVE  QueueInv'
<1> DEFINE e == [user_email |-> u, email_id |-> i, priority |-> p]
<1>1. CASE UNCHANGED queueVars
  BY <1>1 DEF QueueInv, QueueTypeOK, CountsExact, MarkedOnce, EntriesOf, QueuedIds, queueVars
<1>2. CASE Accepts(i) /\ ~UNCHANGED queueVars
  <2>1. /\ i \notin in_processing_set
        /\ in_processing_set' = in_processing_set \cup {i}
        /\ queue' = queue \cup {e}
        /\ num_in_queue_by_email_address' = WithCount(u, CountedIn(u, p))
        /\ handed_out' = handed_out
    BY <1>2 DEF Push, Accepts
  <2>2. e \in PromptQueueEmailEntry /\ e \notin queue
    BY <2>1 DEF PromptQueueEmailEntry, QueueInv, MarkedOnce, QueuedIds
  <2>3. \A q \in Priority : /\ IsFiniteSet(EntriesOf(u, q))
                            /\ NumInQueue(u, q) = Cardinality(EntriesOf(u, q))
                            /\ NumInQueue(u, q) \in Nat
    BY NumInQueueExact DEF QueueInv
  <2>4. CountedIn(u, p) \in QueueCount
    BY <2>3 DEF CountedIn, QueueCount
  <2>5. /\ DOMAIN num_in_queue_by_email_address'
             = DOMAIN num_in_queue_by_email_address \cup {u}
        /\ \A v \in DOMAIN num_in_queue_by_email_address' :
             num_in_queue_by_email_address'[v] =
               IF v = u THEN CountedIn(u, p) ELSE num_in_queue_by_email_address[v]
    BY <2>1 DEF WithCount
  <2>6. QueueTypeOK'
    <3>1. queue' \subseteq PromptQueueEmailEntry /\ IsFiniteSet(queue')
      BY <2>1, <2>2, FS_AddElement DEF QueueInv, QueueTypeOK
    <3>2. num_in_queue_by_email_address' \in
            [DOMAIN num_in_queue_by_email_address' -> QueueCount]
      BY <2>1, <2>4 DEF QueueInv, QueueTypeOK, WithCount
    <3>3. QED
      BY <2>1, <2>5, <3>1, <3>2 DEF QueueInv, QueueTypeOK
  <2>7. CountsExact'
    <3>1. DOMAIN num_in_queue_by_email_address' = {f.user_email : f \in queue'}
      <4>1. {f.user_email : f \in queue'} = {f.user_email : f \in queue} \cup {e.user_email}
        BY <2>1
      <4>2. QED
        BY <2>5, <4>1 DEF QueueInv, CountsExact
    <3>2. ASSUME NEW v \in DOMAIN num_in_queue_by_email_address', NEW q \in Priority
          PROVE  num_in_queue_by_email_address'[v][q] = Cardinality(EntriesOf(v, q)')
      <4>1. CASE v = u /\ q = p
        <5>1. EntriesOf(v, q)' = EntriesOf(u, p) \cup {e} /\ e \notin EntriesOf(u, p)
          BY <2>1, <2>2, <4>1 DEF EntriesOf
        <5>2. Cardinality(EntriesOf(v, q)') = Cardinality(EntriesOf(u, p)) + 1
          BY <2>3, <5>1, FS_AddElement
        <5>3. num_in_queue_by_email_address'[v][q] = NumInQueue(u, p) + 1
          BY <2>5, <4>1 DEF CountedIn
        <5>4. QED
          BY <2>3, <5>2, <5>3
      <4>2. CASE v = u /\ q # p
        <5>1. EntriesOf(v, q)' = EntriesOf(u, q)
          BY <2>1, <4>2 DEF EntriesOf
        <5>2. num_in_queue_by_email_address'[v][q] = NumInQueue(u, q)
          BY <2>5, <4>2 DEF CountedIn
        <5>3. QED
          BY <2>3, <5>1, <5>2
      <4>3. CASE v # u
        <5>1. EntriesOf(v, q)' = EntriesOf(v, q)
          BY <2>1, <4>3 DEF EntriesOf
        <5>2. QED
          BY <2>5, <4>3, <5>1 DEF QueueInv, CountsExact
      <4>4. QED
        BY <4>1, <4>2, <4>3
    <3>3. QED
      BY <3>1, <3>2 DEF CountsExact
  <2>8. MarkedOnce'
    <3>1. QueuedIds' = QueuedIds \cup {i}
      <4>1. QueuedIds' = QueuedIds \cup {e.email_id}
        BY <2>1 DEF QueuedIds
      <4>2. QED
        BY <4>1
    <3>2. \A f \in queue : f.email_id # i
      BY <2>1 DEF QueueInv, MarkedOnce, QueuedIds
    <3>3. \A f, g \in queue' : f.email_id = g.email_id => f = g
      BY <2>1, <3>2 DEF QueueInv, MarkedOnce
    <3>4. QED
      BY <2>1, <3>1, <3>3 DEF QueueInv, MarkedOnce
  <2>9. QED
    BY <2>6, <2>7, <2>8 DEF QueueInv
<1>3. QED
  BY <1>1, <1>2 DEF Push

-----------------------------------------------------------------------------
(* pop *)

LEMMA PopQueueInv ==
    ASSUME QueueInv, NEW e \in queue, Pop(e)
    PROVE  QueueInv'
<1> DEFINE u == e.user_email
           p == e.priority
<1>1. /\ u \in Users /\ p \in Priority /\ e.email_id \in Ids
      /\ u \in DOMAIN num_in_queue_by_email_address
  BY DEF QueueInv, QueueTypeOK, CountsExact, PromptQueueEmailEntry
<1>2. /\ queue' = queue \ {e}
      /\ num_in_queue_by_email_address' =
           IF \A q \in Priority : CountedOut(u, p)[q] = 0
           THEN WithoutCount(u) ELSE WithCount(u, CountedOut(u, p))
      /\ handed_out' = handed_out \cup {e.email_id}
      /\ in_processing_set' = in_processing_set
  BY <1>1 DEF Pop
<1>3. \A q \in Priority : /\ IsFiniteSet(EntriesOf(u, q))
                          /\ NumInQueue(u, q) = Cardinality(EntriesOf(u, q))
                          /\ NumInQueue(u, q) \in Nat
  BY NumInQueueExact DEF QueueInv
<1>4. \A q \in Priority : CountedOut(u, p)[q] = Cardinality(EntriesOf(u, q)')
  <2>1. SUFFICES ASSUME NEW q \in Priority
                 PROVE  CountedOut(u, p)[q] = Cardinality(EntriesOf(u, q)')
    OBVIOUS
  <2>2. CASE q = p
    <3>1. e \in EntriesOf(u, p) /\ EntriesOf(u, q)' = EntriesOf(u, p) \ {e}
      BY <1>2, <2>2 DEF EntriesOf
    <3>2. Cardinality(EntriesOf(u, q)') = Cardinality(EntriesOf(u, p)) - 1
      <4>1. IsFiniteSet(EntriesOf(u, p))
        BY <1>1, <1>3
      <4>2. Cardinality(EntriesOf(u, p) \ {e}) = Cardinality(EntriesOf(u, p)) - 1
        BY ONLY <3>1, <4>1, FS_RemoveElement
      <4>3. QED
        BY ONLY <3>1, <4>2
    <3>3. EntriesOf(u, p) # {}
      BY <3>1
    <3>4. NumInQueue(u, p) > 0
      BY <1>1, <1>3, <3>3, FS_EmptySet
    <3>5. CountedOut(u, p)[q] = NumInQueue(u, p) - 1
      BY <2>2, <3>4 DEF CountedOut
    <3>6. QED
      BY <1>1, <1>3, <3>2, <3>5
  <2>3. CASE q # p
    <3>1. EntriesOf(u, q)' = EntriesOf(u, q)
      BY <1>2, <2>3 DEF EntriesOf
    <3>2. QED
      BY <1>3, <2>3, <3>1 DEF CountedOut
  <2>4. QED
    BY <2>2, <2>3
<1>5. CountedOut(u, p) \in QueueCount
  BY <1>3 DEF CountedOut, QueueCount
<1>6. (\A q \in Priority : CountedOut(u, p)[q] = 0) <=> u \notin {f.user_email : f \in queue'}
  <2>1. \A q \in Priority : IsFiniteSet(EntriesOf(u, q)')
    BY <1>2, <1>3, FS_Subset DEF EntriesOf
  <2>2. \A q \in Priority : CountedOut(u, p)[q] = 0 <=> EntriesOf(u, q)' = {}
    BY <1>4, <2>1, FS_EmptySet
  <2>3. (\A q \in Priority : EntriesOf(u, q)' = {}) <=> u \notin {f.user_email : f \in queue'}
    <3>1. \A f \in queue' : f.priority \in Priority
      BY <1>2 DEF QueueInv, QueueTypeOK, PromptQueueEmailEntry
    <3>2. QED
      BY <3>1 DEF EntriesOf
  <2>4. QED
    BY <2>2, <2>3
<1>7. \A v : v # u => /\ v \in {f.user_email : f \in queue'} <=> v \in {f.user_email : f \in queue}
                     /\ \A q \in Priority : EntriesOf(v, q)' = EntriesOf(v, q)
  BY <1>2 DEF EntriesOf
<1>8. MarkedOnce'
  <2>1. QueuedIds' = QueuedIds \ {e.email_id}
    BY <1>2 DEF QueuedIds, QueueInv, MarkedOnce
  <2>2. e.email_id \in QueuedIds
    BY DEF QueuedIds
  <2>3. QED
    BY <1>2, <2>1, <2>2 DEF QueueInv, MarkedOnce
<1>9. CASE \A q \in Priority : CountedOut(u, p)[q] = 0
  <2>1. /\ DOMAIN num_in_queue_by_email_address' = DOMAIN num_in_queue_by_email_address \ {u}
        /\ \A v \in DOMAIN num_in_queue_by_email_address' :
             num_in_queue_by_email_address'[v] = num_in_queue_by_email_address[v]
        /\ num_in_queue_by_email_address' \in
             [DOMAIN num_in_queue_by_email_address' -> QueueCount]
    BY <1>2, <1>9 DEF WithoutCount, QueueInv, QueueTypeOK
  <2>2. CountsExact'
    BY <1>6, <1>7, <1>9, <2>1 DEF QueueInv, CountsExact
  <2>3. QueueTypeOK'
    BY <1>1, <1>2, <2>1, FS_Subset DEF QueueInv, QueueTypeOK
  <2>4. QED
    BY <1>8, <2>2, <2>3 DEF QueueInv
<1>10. CASE ~ \A q \in Priority : CountedOut(u, p)[q] = 0
  <2>1. /\ DOMAIN num_in_queue_by_email_address' = DOMAIN num_in_queue_by_email_address
        /\ \A v \in DOMAIN num_in_queue_by_email_address' :
             num_in_queue_by_email_address'[v] =
               IF v = u THEN CountedOut(u, p) ELSE num_in_queue_by_email_address[v]
        /\ num_in_queue_by_email_address' \in
             [DOMAIN num_in_queue_by_email_address' -> QueueCount]
    BY <1>1, <1>2, <1>5, <1>10 DEF WithCount, QueueInv, QueueTypeOK
  <2>2. CountsExact'
    <3>1. DOMAIN num_in_queue_by_email_address' = {f.user_email : f \in queue'}
      BY <1>1, <1>6, <1>7, <1>10, <2>1 DEF QueueInv, CountsExact
    <3>2. \A v \in DOMAIN num_in_queue_by_email_address', q \in Priority :
            num_in_queue_by_email_address'[v][q] = Cardinality(EntriesOf(v, q)')
      BY <1>4, <1>7, <2>1 DEF QueueInv, CountsExact
    <3>3. QED
      BY <3>1, <3>2 DEF CountsExact
  <2>3. QueueTypeOK'
    BY <1>1, <1>2, <2>1, FS_Subset DEF QueueInv, QueueTypeOK
  <2>4. QED
    BY <1>8, <2>2, <2>3 DEF QueueInv
<1>11. QED
  BY <1>9, <1>10

-----------------------------------------------------------------------------
(* The invariant, and what follows from it. *)

\* Releasing an email needs no more than that it was handed out.
LEMMA RemoveQueueInv ==
    ASSUME QueueInv, NEW i \in handed_out, RemoveFromProcessing(i)
    PROVE  QueueInv'
<1>1. QueueTypeOK' /\ CountsExact'
  BY DEF QueueInv, QueueTypeOK, CountsExact, EntriesOf, RemoveFromProcessing
<1>2. MarkedOnce'
  BY DEF QueueInv, MarkedOnce, QueuedIds, RemoveFromProcessing
<1>3. QED
  BY <1>1, <1>2 DEF QueueInv

LEMMA NewQueueInv == New => QueueInv'
<1>1. SUFFICES ASSUME New PROVE QueueInv'
  OBVIOUS
<1>2. QueueTypeOK'
  BY <1>1, FS_EmptySet DEF New, QueueTypeOK, NoCounts
<1>3. CountsExact'
  BY <1>1 DEF New, CountsExact, NoCounts
<1>4. MarkedOnce'
  BY <1>1 DEF New, MarkedOnce, QueuedIds
<1>5. QED
  BY <1>2, <1>3, <1>4 DEF QueueInv

LEMMA NextQueueInv == QueueInv /\ [QueueNext]_queueVars => QueueInv'
<1>1. SUFFICES ASSUME QueueInv, [QueueNext]_queueVars PROVE QueueInv'
  OBVIOUS
<1>2. ASSUME NEW u \in Users, NEW i \in Ids, NEW p \in Priority, Push(u, i, p)
      PROVE  QueueInv'
  BY <1>1, <1>2, PushQueueInv
<1>3. ASSUME NEW e \in queue, Pop(e) PROVE QueueInv'
  BY <1>1, <1>3, PopQueueInv
<1>4. ASSUME NEW i \in handed_out, RemoveFromProcessing(i) PROVE QueueInv'
  BY <1>1, <1>4, RemoveQueueInv
<1>5. CASE New
  BY <1>5, NewQueueInv
<1>6. CASE UNCHANGED queueVars
  BY <1>1, <1>6 DEF QueueInv, QueueTypeOK, CountsExact, MarkedOnce, EntriesOf, QueuedIds,
                    queueVars
<1>7. QED
  BY <1>1, <1>2, <1>3, <1>4, <1>5, <1>6 DEF QueueNext

LEMMA QueueInvariant == QueueSpec => []QueueInv
  BY InitQueueInv, NextQueueInv, PTL DEF QueueSpec

\* Every variable of the queue has its type, and the heap is finite.
THEOREM QueueTyping == QueueSpec => []QueueTypeOK
<1>1. QueueInv => QueueTypeOK
  BY DEF QueueInv
<1>2. QED
  BY <1>1, QueueInvariant, PTL

\* The counters by which processors decide to look for new emails are at all
\* times the numbers of entries in the heap (push and pop of priority_queue.rs).
THEOREM CountersExact == QueueSpec => []CountsExact
<1>1. QueueInv => CountsExact
  BY DEF QueueInv
<1>2. QED
  BY <1>1, QueueInvariant, PTL

\* No email is queued twice, nor queued while it is handed out, and
\* in_processing_set holds exactly the emails that are one or the other.
THEOREM EmailsMarkedOnce == QueueSpec => []MarkedOnce
<1>1. QueueInv => MarkedOnce
  BY DEF QueueInv
<1>2. QED
  BY <1>1, QueueInvariant, PTL

-----------------------------------------------------------------------------
(* The queue implements EmailClaims. *)

LEMMA StageTyped == \A i \in Ids : StageOf(i) \in Claims!Stage
  BY DEF StageOf, Claims!Stage

\* Where an email is, said by the entry that has its id.
LEMMA StageOfEntry ==
    ASSUME QueueInv, NEW e \in queue
    PROVE  StageOf(e.email_id) = e.priority
  BY DEF StageOf, QueueInv, QueueTypeOK, MarkedOnce, PromptQueueEmailEntry, Priority

LEMMA PushIsClaimStep ==
    ASSUME QueueInv, NEW u \in Users, NEW i \in Ids, NEW p \in Priority, Push(u, i, p),
           Accepts(i)
    PROVE  Claims!Enqueue(i, p)
<1> DEFINE e == [user_email |-> u, email_id |-> i, priority |-> p]
<1>1. queue' = queue \cup {e} /\ handed_out' = handed_out /\ i \notin in_processing_set
  BY DEF Push, Accepts
<1>2. e.email_id = i /\ e.priority = p
  OBVIOUS
<1>3. i \notin handed_out /\ \A f \in queue : f.email_id # i
  BY <1>1 DEF QueueInv, MarkedOnce, QueuedIds
<1> HIDE DEF e
<1>4. StageOf(i) = "free"
  BY <1>3 DEF StageOf
<1>5. StageOf(i)' = p
  BY <1>1, <1>2, <1>3 DEF StageOf, Priority
<1>6. \A j \in Ids : j # i => StageOf(j)' = StageOf(j)
  BY <1>1, <1>2 DEF StageOf
<1>7. QED
  BY <1>4, <1>5, <1>6 DEF Claims!Enqueue

LEMMA PopIsClaimStep ==
    ASSUME QueueInv, NEW e \in queue, Pop(e)
    PROVE  Claims!HandOut(e.email_id)
<1> DEFINE i == e.email_id
<1>1. /\ queue' = queue \ {e} /\ handed_out' = handed_out \cup {i}
      /\ e.priority = "Low" => \A f \in queue : f.priority = "Low"
      /\ i \in Ids /\ e.priority \in Priority
  BY DEF Pop, Greatest, QueueInv, QueueTypeOK, PromptQueueEmailEntry
<1>2. \A f \in queue : f.email_id = i => f = e
  BY DEF QueueInv, MarkedOnce
<1>3. StageOf(i) = e.priority
  BY StageOfEntry
<1>4. StageOf(i)' = "claimed"
  BY <1>1, <1>2 DEF StageOf
<1>5. \A j \in Ids : j # i => StageOf(j)' = StageOf(j)
  BY <1>1 DEF StageOf
<1>6. e.priority = "Low" => \A j \in Ids : StageOf(j) # "High"
  BY <1>1 DEF StageOf
<1>7. QED
  BY <1>1, <1>3, <1>4, <1>5, <1>6 DEF Claims!HandOut, Priority

LEMMA RemoveIsClaimStep ==
    ASSUME QueueInv, NEW i \in handed_out, RemoveFromProcessing(i)
    PROVE  Claims!Release(i)
<1>1. /\ queue' = queue /\ handed_out' = handed_out \ {i}
      /\ i \in Ids /\ \A f \in queue : f.email_id # i
  BY DEF RemoveFromProcessing, QueueInv, QueueTypeOK, MarkedOnce, QueuedIds
<1>2. StageOf(i) = "claimed" /\ StageOf(i)' = "free"
  BY <1>1 DEF StageOf
<1>3. \A j \in Ids : j # i => StageOf(j)' = StageOf(j)
  BY <1>1 DEF StageOf
<1>4. QED
  BY <1>1, <1>2, <1>3 DEF Claims!Release

\* push, pop and remove_from_processing keep the promises of EmailClaims: an
\* email is enqueued only while it is free, handed out only to one worker and
\* in the order of the priorities, and free again only once it is released.
THEOREM QueueImplementsClaims == QueueSpec => ImplementsClaims
<1>1. QueueInit => Claims!Init
  BY DEF QueueInit, Claims!Init, StageOf
<1>2. QueueInv /\ [QueueNext]_queueVars => [Claims!Next]_([i \in Ids |-> StageOf(i)])
  <2>1. SUFFICES ASSUME QueueInv, [QueueNext]_queueVars
                 PROVE  [Claims!Next]_([i \in Ids |-> StageOf(i)])
    OBVIOUS
  <2>2. ASSUME NEW u \in Users, NEW i \in Ids, NEW p \in Priority, Push(u, i, p)
        PROVE  [Claims!Next]_([j \in Ids |-> StageOf(j)])
    <3>1. CASE Accepts(i)
      BY <2>1, <2>2, <3>1, PushIsClaimStep DEF Claims!Next, Priority
    <3>2. CASE ~Accepts(i)
      BY <2>2, <3>2 DEF Push, queueVars, StageOf
    <3>3. QED
      BY <3>1, <3>2
  <2>3. ASSUME NEW e \in queue, Pop(e)
        PROVE  Claims!Next
    <3>1. e.email_id \in Ids
      BY <2>1 DEF QueueInv, QueueTypeOK, PromptQueueEmailEntry
    <3>2. QED
      BY <2>1, <2>3, <3>1, PopIsClaimStep DEF Claims!Next
  <2>4. ASSUME NEW i \in handed_out, RemoveFromProcessing(i)
        PROVE  Claims!Next
    <3>1. i \in Ids
      BY <2>1 DEF QueueInv, QueueTypeOK
    <3>2. QED
      BY <2>1, <2>4, <3>1, RemoveIsClaimStep DEF Claims!Next
  <2>5. CASE New
    BY <2>5 DEF New, Claims!Next, Claims!Restart, StageOf
  <2>6. CASE UNCHANGED queueVars
    BY <2>6 DEF queueVars, StageOf
  <2>7. QED
    BY <2>1, <2>2, <2>3, <2>4, <2>5, <2>6 DEF QueueNext
<1>3. QED
  BY <1>1, <1>2, QueueInvariant, PTL DEF QueueSpec, ImplementsClaims, Claims!Spec
==============================================================================
