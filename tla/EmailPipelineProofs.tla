------------------------- MODULE EmailPipelineProofs -------------------------
(***************************************************************************)
(* Proofs about EmailPipeline, for every value of its constants.           *)
(*                                                                         *)
(* ClaimedOnce and RecordedIsLabelled are not inductive.  The first needs  *)
(* the invariant of the queue; the second needs that the processor a       *)
(* worker uses belongs to the user of its entry, which rests on the map    *)
(* and on the owners of the processors in it, and that the message of a    *)
(* worker about to record it is labelled.  Inv is their conjunction.       *)
(***************************************************************************)
EXTENDS EmailPipeline, PromptPriorityQueueProofs

\* A processor in use has been made, for the user it is used for.
Owned ==
    /\ \A p \in Procs : run_pc[p] # "none" => owner[p] \in Users
    /\ \A u \in Users : active_processors[u] # None =>
          /\ owner[active_processors[u]] = u
          /\ run_pc[active_processors[u]] # "none"
    /\ \A w \in Workers : processor[w] # None =>
          /\ owner[processor[w]] = entry[w].user_email
          /\ run_pc[processor[w]] # "none"

HasLabel(u, i) == mail[u][i] \in {"hidden", "shown"}

RecordingIsLabelled ==
    \A w \in Workers :
        worker_pc[w] = "record" => HasLabel(entry[w].user_email, entry[w].email_id)

Inv ==
    /\ QueueInv /\ ClaimedOnce
    /\ MemoryTypeOK /\ WorkerTypeOK /\ DatabaseTypeOK
    /\ Owned
    /\ RecordingIsLabelled /\ RecordedIsLabelled

\* What a worker holds.
LEMMA HeldFacts ==
    ASSUME WorkerTypeOK, NEW w \in Workers, worker_pc[w] \notin {"idle", "panicked"}
    PROVE  /\ entry[w] # None
           /\ entry[w] \in PromptQueueEmailEntry
           /\ entry[w].user_email \in Users /\ entry[w].email_id \in Ids
           /\ entry[w].email_id \in HeldIds
           /\ worker_pc[w] # "popped" => processor[w] \in Procs /\ processor[w] # None
BY DEF WorkerTypeOK, HeldIds, PromptQueueEmailEntry

-----------------------------------------------------------------------------
(* Steps that leave a part of the state alone keep what is said of it. *)

LEMMA QueueFrame ==
    ASSUME QueueInv, ClaimedOnce, UNCHANGED <<queueVars, entry>>
    PROVE  QueueInv' /\ ClaimedOnce'
<1>1. QueueInv'
  BY NextQueueInv DEF queueVars
<1>2. QED
  BY <1>1 DEF ClaimedOnce, HeldIds, QueueInv, queueVars

LEMMA OwnedFrame ==
    ASSUME Owned, UNCHANGED <<active_processors, owner, entry, processor>>,
           MemoryTypeOK, WorkerTypeOK,
           \A p \in Procs : run_pc'[p] = "none" <=> run_pc[p] = "none"
    PROVE  Owned'
BY DEF Owned, MemoryTypeOK, WorkerTypeOK

LEMMA LabelFrame ==
    ASSUME RecordingIsLabelled, RecordedIsLabelled, UNCHANGED <<mail, processed_email, entry>>,
           \A w \in Workers : worker_pc'[w] = "record" => worker_pc[w] = "record"
    PROVE  RecordingIsLabelled' /\ RecordedIsLabelled'
BY DEF RecordingIsLabelled, RecordedIsLabelled, HasLabel

LEMMA NoneFacts ==
    /\ None \notin Users /\ None \notin Procs /\ None \notin PromptQueueEmailEntry
    /\ TokensPerEmail \in Nat /\ DailyQuota \in Nat
BY PipelineAssumption

\* A step that changes signals only, to signals.
LEMMA SignalFrame ==
    ASSUME Inv, signal' \in [Procs -> InterruptSignal],
           UNCHANGED <<queueVars, dbVars, procVars, runVars, workerVars, active_processors>>,
           for_cleanup' \subseteq Users,
           job' \in [Jobs -> Users \cup {None}], job_tokens' \in [Jobs -> Nat]
    PROVE  Inv'
<1>1. QueueInv' /\ ClaimedOnce'
  BY QueueFrame DEF Inv, workerVars
<1>2. MemoryTypeOK' /\ WorkerTypeOK' /\ DatabaseTypeOK'
  BY DEF Inv, MemoryTypeOK, WorkerTypeOK, DatabaseTypeOK, dbVars, procVars, runVars, workerVars
<1>3. Owned'
  BY OwnedFrame DEF Inv, procVars, runVars, workerVars
<1>4. RecordingIsLabelled' /\ RecordedIsLabelled'
  BY LabelFrame DEF Inv, dbVars, workerVars
<1>5. QED
  BY <1>1, <1>2, <1>3, <1>4 DEF Inv

LEMMA ObservedTyped ==
    ASSUME MemoryTypeOK
    PROVE  /\ \A p \in Procs : Observed(p) \in InterruptSignal
           /\ \A S : ObservedIn(S) \in [Procs -> InterruptSignal]
BY DEF MemoryTypeOK, Observed, ObservedIn, InterruptSignal

LEMMA ArriveKeepsInv ==
    ASSUME Inv, NEW u \in Users, NEW i \in Ids, Arrive(u, i)
    PROVE  Inv'
<1>1. /\ mail[u][i] = "absent" /\ mail' = [mail EXCEPT ![u][i] = "unlabelled"]
      /\ UNCHANGED <<queueVars, processed_email, tokens_consumed, mapVars, procVars, signal,
                     runVars, workerVars, jobVars>>
  BY DEF Arrive
<1>2. QueueInv' /\ ClaimedOnce'
  BY <1>1, QueueFrame DEF Inv, workerVars
<1>3. MemoryTypeOK' /\ WorkerTypeOK' /\ DatabaseTypeOK'
  BY <1>1 DEF Inv, MemoryTypeOK, WorkerTypeOK, DatabaseTypeOK, mapVars, procVars, runVars,
              workerVars, jobVars, MailState
<1>4. Owned'
  BY <1>1, OwnedFrame DEF Inv, mapVars, procVars, runVars, workerVars
<1>5. \A v \in Users, j \in Ids : HasLabel(v, j) => HasLabel(v, j)'
  BY <1>1 DEF Inv, DatabaseTypeOK, HasLabel
<1>6. RecordingIsLabelled'
  BY <1>1, <1>5, HeldFacts DEF Inv, RecordingIsLabelled, workerVars
<1>7. RecordedIsLabelled'
  BY <1>1, <1>5 DEF Inv, RecordedIsLabelled, HasLabel, DatabaseTypeOK
<1>8. QED
  BY <1>2, <1>3, <1>4, <1>6, <1>7 DEF Inv

LEMMA ExpireTokenKeepsInv ==
    ASSUME Inv, NEW p \in Procs, ExpireToken(p)
    PROVE  Inv'
<1>1. /\ expired' = expired \cup {p}
      /\ UNCHANGED <<queueVars, dbVars, mapVars, owner, token_count, signal, runVars, workerVars,
                     jobVars>>
  BY DEF ExpireToken
<1>2. QueueInv' /\ ClaimedOnce'
  BY <1>1, QueueFrame DEF Inv, workerVars
<1>3. MemoryTypeOK' /\ WorkerTypeOK' /\ DatabaseTypeOK'
  BY <1>1 DEF Inv, MemoryTypeOK, WorkerTypeOK, DatabaseTypeOK, dbVars, mapVars, runVars,
              workerVars, jobVars
<1>4. Owned'
  BY <1>1, OwnedFrame DEF Inv, mapVars, runVars, workerVars
<1>5. RecordingIsLabelled' /\ RecordedIsLabelled'
  BY <1>1, LabelFrame DEF Inv, dbVars, workerVars
<1>6. QED
  BY <1>2, <1>3, <1>4, <1>5 DEF Inv

-----------------------------------------------------------------------------
(* The processors and their map. *)

LEMMA CheckProcessorKeepsInv ==
    ASSUME Inv, NEW j \in Jobs, NEW u \in Users, NEW tokens \in 0..DailyQuota,
           NEW rules_changed \in BOOLEAN, CheckProcessor(j, u, tokens, rules_changed)
    PROVE  Inv'
<1>1. signal' \in [Procs -> InterruptSignal]
  BY ObservedTyped, NoneFacts DEF CheckProcessor, Inv, MemoryTypeOK, InterruptSignal
<1>2. job' \in [Jobs -> Users \cup {None}] /\ job_tokens' \in [Jobs -> Nat]
  BY NoneFacts DEF CheckProcessor, Inv, MemoryTypeOK
<1>3. QED
  BY <1>1, <1>2, SignalFrame DEF CheckProcessor, Inv, MemoryTypeOK, mapVars

LEMMA CreateProcessorKeepsInv ==
    ASSUME Inv, NEW j \in Jobs, NEW p \in Procs, CreateProcessor(j, p)
    PROVE  Inv'
<1> DEFINE u == job[j]
<1>1. /\ u \in Users /\ run_pc[p] = "none" /\ p # None
      /\ owner' = [owner EXCEPT ![p] = u]
      /\ token_count' = [token_count EXCEPT ![p] = job_tokens[j]]
      /\ signal' = [ObservedIn(Mapped \ {active_processors[u]}) EXCEPT ![p] = "Run"]
      /\ run_pc' = [run_pc EXCEPT ![p] = "configure"]
      /\ active_processors' = [active_processors EXCEPT ![u] = p]
      /\ job' = [job EXCEPT ![j] = None] /\ job_tokens' = [job_tokens EXCEPT ![j] = 0]
      /\ UNCHANGED <<queueVars, dbVars, for_cleanup, expired, fetching, already_processed,
                     to_push, num_added, workerVars>>
  BY NoneFacts DEF CreateProcessor, Inv, MemoryTypeOK
<1>2. QueueInv' /\ ClaimedOnce'
  BY <1>1, QueueFrame DEF Inv, workerVars
<1>3. signal' \in [Procs -> InterruptSignal]
  BY <1>1, ObservedTyped DEF Inv, InterruptSignal
<1>4. MemoryTypeOK'
  BY <1>1, <1>3 DEF Inv, MemoryTypeOK, RunPC
<1>5. WorkerTypeOK' /\ DatabaseTypeOK'
  BY <1>1 DEF Inv, WorkerTypeOK, DatabaseTypeOK, dbVars, workerVars
<1>6. Owned'
  <2>1. \A q \in Procs : run_pc[q] # "none" => /\ q # p
                                              /\ owner'[q] = owner[q] /\ run_pc'[q] = run_pc[q]
    BY <1>1 DEF Inv, MemoryTypeOK
  <2>2. owner'[p] = u /\ run_pc'[p] = "configure"
    BY <1>1 DEF Inv, MemoryTypeOK
  <2>3. \A v \in Users : active_processors'[v] = IF v = u THEN p ELSE active_processors[v]
    BY <1>1 DEF Inv, MemoryTypeOK
  <2>4. \A q \in Procs : run_pc'[q] # "none" => owner'[q] \in Users
    BY <1>1, <2>1, <2>2 DEF Inv, Owned, MemoryTypeOK
  <2>5. \A v \in Users : active_processors'[v] # None =>
          owner'[active_processors'[v]] = v /\ run_pc'[active_processors'[v]] # "none"
    BY <2>1, <2>2, <2>3 DEF Inv, Owned, MemoryTypeOK
  <2>6. \A w \in Workers : processor'[w] # None =>
          owner'[processor'[w]] = entry'[w].user_email /\ run_pc'[processor'[w]] # "none"
    BY <1>1, <2>1 DEF Inv, Owned, WorkerTypeOK, workerVars
  <2>7. QED
    BY <2>4, <2>5, <2>6 DEF Owned
<1>7. RecordingIsLabelled' /\ RecordedIsLabelled'
  BY <1>1, LabelFrame DEF Inv, dbVars, workerVars
<1>8. QED
  BY <1>2, <1>4, <1>5, <1>6, <1>7 DEF Inv

LEMMA CreateFailsKeepsInv ==
    ASSUME Inv, NEW j \in Jobs, CreateFails(j)
    PROVE  Inv'
<1>1. job' \in [Jobs -> Users \cup {None}] /\ job_tokens' \in [Jobs -> Nat]
  BY DEF CreateFails, Inv, MemoryTypeOK
<1>2. signal' \in [Procs -> InterruptSignal] /\ for_cleanup' \subseteq Users
  BY DEF CreateFails, Inv, MemoryTypeOK, mapVars
<1>3. QED
  BY <1>1, <1>2, SignalFrame DEF CreateFails, mapVars

LEMMA CleanupKeepsInv ==
    ASSUME Inv, (\E u \in Users : CollectStopped(u)) \/ DropStopped \/ Watch
    PROVE  Inv'
<1>1. CASE (\E u \in Users : CollectStopped(u)) \/ Watch
  <2>1. signal' \in [Procs -> InterruptSignal]
    BY <1>1, ObservedTyped DEF CollectStopped, Watch, Inv, MemoryTypeOK
  <2>2. for_cleanup' \subseteq Users
    BY <1>1 DEF CollectStopped, Watch, Inv, MemoryTypeOK, mapVars
  <2>3. UNCHANGED <<queueVars, dbVars, procVars, runVars, workerVars, active_processors, jobVars>>
    BY <1>1 DEF CollectStopped, Watch, mapVars
  <2>4. QED
    BY <2>1, <2>2, <2>3, SignalFrame DEF Inv, MemoryTypeOK, jobVars
<1>2. CASE DropStopped
  <2>1. /\ active_processors' =
             [u \in Users |-> IF u \in for_cleanup THEN None ELSE active_processors[u]]
        /\ for_cleanup' = {}
        /\ UNCHANGED <<queueVars, dbVars, procVars, runVars, workerVars, jobVars>>
    BY <1>2 DEF DropStopped
  <2>2. signal' \in [Procs -> InterruptSignal]
    BY <1>2, ObservedTyped DEF DropStopped, Inv
  <2>3. QueueInv' /\ ClaimedOnce'
    BY <2>1, QueueFrame DEF Inv, workerVars
  <2>4. MemoryTypeOK' /\ WorkerTypeOK' /\ DatabaseTypeOK'
    BY <2>1, <2>2 DEF Inv, MemoryTypeOK, WorkerTypeOK, DatabaseTypeOK, dbVars, procVars,
                      runVars, workerVars, jobVars
  <2>5. Owned'
    BY <2>1 DEF Inv, Owned, procVars, runVars, workerVars
  <2>6. RecordingIsLabelled' /\ RecordedIsLabelled'
    BY <2>1, LabelFrame DEF Inv, dbVars, workerVars
  <2>7. QED
    BY <2>3, <2>4, <2>5, <2>6 DEF Inv
<1>3. QED
  BY <1>1, <1>2

-----------------------------------------------------------------------------
(* The run loop of a processor. *)

LEMMA RunKeepsInv ==
    ASSUME Inv, NEW p \in Procs, Run(p) \/ Interrupted(p)
    PROVE  Inv'
<1>1. CASE \/ ConfigureLabels(p) \/ Tick(p) \/ ReadProcessed(p) \/ EndPush(p) \/ Interrupted(p)
           \/ \E ids \in SUBSET Ids : ListMessages(p, ids)
  <2>1. UNCHANGED <<queueVars, dbVars, mapVars, procVars, workerVars, jobVars>>
    BY <1>1 DEF ConfigureLabels, Tick, ReadProcessed, EndPush, Interrupted, ListMessages
  <2>2. MemoryTypeOK'
    <3> USE DEF Inv, MemoryTypeOK, RunPC, mapVars, procVars, jobVars
    <3>1. CASE ConfigureLabels(p)
      BY <2>1, <3>1 DEF ConfigureLabels, InterruptSignal
    <3>2. CASE Tick(p)
      BY <2>1, <3>2 DEF Tick, Priority
    <3>3. CASE ReadProcessed(p)
      BY <2>1, <3>3 DEF ReadProcessed, InterruptSignal
    <3>4. CASE EndPush(p)
      BY <2>1, <3>4 DEF EndPush, Priority
    <3>5. CASE Interrupted(p)
      BY <2>1, <3>5, ObservedTyped DEF Interrupted
    <3>6. CASE \E ids \in SUBSET Ids : ListMessages(p, ids)
      BY <2>1, <3>6 DEF ListMessages
    <3>7. QED
      BY <1>1, <3>1, <3>2, <3>3, <3>4, <3>5, <3>6
  <2>3. \A q \in Procs : run_pc'[q] = "none" <=> run_pc[q] = "none"
    BY <1>1 DEF ConfigureLabels, Tick, ReadProcessed, EndPush, Interrupted, ListMessages,
                Inv, MemoryTypeOK
  <2>4. QueueInv' /\ ClaimedOnce'
    BY <2>1, QueueFrame DEF Inv, workerVars
  <2>5. WorkerTypeOK' /\ DatabaseTypeOK'
    BY <2>1 DEF Inv, WorkerTypeOK, DatabaseTypeOK, dbVars, workerVars
  <2>6. Owned'
    BY <2>1, <2>3, OwnedFrame DEF Inv, mapVars, procVars, workerVars
  <2>7. RecordingIsLabelled' /\ RecordedIsLabelled'
    BY <2>1, LabelFrame DEF Inv, dbVars, workerVars
  <2>8. QED
    BY <2>2, <2>4, <2>5, <2>6, <2>7 DEF Inv
<1>2. ASSUME NEW i \in Ids, PushNext(p, i)
      PROVE  Inv'
  <2>1. /\ run_pc[p] = "push" /\ Push(owner[p], i, fetching[p])
        /\ to_push' = [to_push EXCEPT ![p] = @ \ {i}]
        /\ num_added' = [num_added EXCEPT ![p] = @ \/ Accepts(i)]
        /\ UNCHANGED <<dbVars, mapVars, procVars, signal, run_pc, fetching, already_processed,
                       workerVars, jobVars>>
    BY <1>2 DEF PushNext
  <2>2. owner[p] \in Users /\ fetching[p] \in Priority
    BY <2>1 DEF Inv, Owned, MemoryTypeOK
  <2>3. QueueInv'
    BY <2>1, <2>2, PushQueueInv DEF Inv
  <2>4. handed_out' = handed_out
    BY <2>1 DEF Push, queueVars
  <2>5. ClaimedOnce'
    BY <2>1, <2>3, <2>4 DEF Inv, QueueInv, ClaimedOnce, HeldIds, workerVars
  <2>6. MemoryTypeOK' /\ WorkerTypeOK' /\ DatabaseTypeOK'
    <3>1. num_added' \in [Procs -> BOOLEAN]
      BY <2>1 DEF Inv, MemoryTypeOK
    <3>2. QED
      BY <2>1, <3>1 DEF Inv, MemoryTypeOK, WorkerTypeOK, DatabaseTypeOK, dbVars, mapVars,
                        procVars, workerVars, jobVars
  <2>7. Owned'
    BY <2>1, OwnedFrame DEF Inv, mapVars, procVars, workerVars
  <2>8. RecordingIsLabelled' /\ RecordedIsLabelled'
    BY <2>1, LabelFrame DEF Inv, dbVars, workerVars
  <2>9. QED
    BY <2>3, <2>5, <2>6, <2>7, <2>8 DEF Inv
<1>3. QED
  BY <1>1, <1>2 DEF Run

-----------------------------------------------------------------------------
(* The workers. *)

LEMMA PopEntryKeepsInv ==
    ASSUME Inv, NEW w \in Workers, NEW e \in queue, PopEntry(w, e)
    PROVE  Inv'
<1>1. /\ worker_pc[w] = "idle" /\ Pop(e)
      /\ worker_pc' = [worker_pc EXCEPT ![w] = "popped"]
      /\ entry' = [entry EXCEPT ![w] = e]
      /\ UNCHANGED <<dbVars, mapVars, procVars, signal, runVars, processor, tally, jobVars>>
  BY DEF PopEntry
<1>2. QueueInv'
  BY <1>1, PopQueueInv DEF Inv
<1>3. /\ e \in PromptQueueEmailEntry /\ e # None /\ e.email_id \notin handed_out
      /\ handed_out' = handed_out \cup {e.email_id}
  BY <1>1, NoneFacts DEF Pop, Inv, QueueInv, QueueTypeOK, MarkedOnce, QueuedIds
<1>4. \A v \in Workers : entry'[v] = IF v = w THEN e ELSE entry[v]
  BY <1>1 DEF Inv, WorkerTypeOK
<1>5. ClaimedOnce'
  <2>1. HeldIds' \subseteq handed_out'
    BY <1>3, <1>4 DEF Inv, ClaimedOnce, HeldIds
  <2>2. \A v \in Workers : entry[v] # None => entry[v].email_id # e.email_id
    BY <1>3 DEF Inv, ClaimedOnce, HeldIds
  <2>3. QED
    BY <1>2, <1>4, <2>1, <2>2 DEF Inv, ClaimedOnce, QueueInv
<1>6. MemoryTypeOK' /\ WorkerTypeOK' /\ DatabaseTypeOK'
  BY <1>1, <1>3 DEF Inv, MemoryTypeOK, WorkerTypeOK, WorkerPC, DatabaseTypeOK, dbVars, mapVars,
                    procVars, runVars, jobVars
<1>7. Owned'
  <2>1. processor[w] = None
    BY <1>1 DEF Inv, WorkerTypeOK
  <2>2. QED
    BY <1>1, <1>4, <2>1 DEF Inv, Owned, mapVars, procVars, runVars
<1>8. RecordingIsLabelled' /\ RecordedIsLabelled'
  BY <1>1, <1>4 DEF Inv, RecordingIsLabelled, RecordedIsLabelled, HasLabel, WorkerTypeOK, dbVars
<1>9. QED
  BY <1>2, <1>5, <1>6, <1>7, <1>8 DEF Inv

LEMMA DropEntryKeepsInv ==
    ASSUME Inv, NEW w \in Workers, DropEntry(w)
    PROVE  Inv'
<1>1. /\ worker_pc[w] = "popped"
      /\ worker_pc' = [worker_pc EXCEPT ![w] = "idle"]
      /\ entry' = [entry EXCEPT ![w] = None]
      /\ UNCHANGED <<queueVars, dbVars, mapVars, procVars, signal, runVars, processor, tally, jobVars>>
  BY DEF DropEntry
<1>2. \A v \in Workers : entry'[v] = IF v = w THEN None ELSE entry[v]
  BY <1>1 DEF Inv, WorkerTypeOK
<1>3. QueueInv'
  BY <1>1, NextQueueInv DEF Inv
<1>4. ClaimedOnce'
  BY <1>1, <1>2, <1>3 DEF Inv, ClaimedOnce, HeldIds, QueueInv, queueVars
<1>5. MemoryTypeOK' /\ WorkerTypeOK' /\ DatabaseTypeOK'
  BY <1>1 DEF Inv, MemoryTypeOK, WorkerTypeOK, WorkerPC, DatabaseTypeOK, dbVars, mapVars,
              procVars, runVars, jobVars
<1>6. Owned'
  <2>1. processor[w] = None
    BY <1>1 DEF Inv, WorkerTypeOK
  <2>2. QED
    BY <1>1, <1>2, <2>1 DEF Inv, Owned, mapVars, procVars, runVars
<1>7. RecordingIsLabelled' /\ RecordedIsLabelled'
  BY <1>1, <1>2 DEF Inv, RecordingIsLabelled, RecordedIsLabelled, HasLabel, WorkerTypeOK, dbVars
<1>8. QED
  BY <1>3, <1>4, <1>5, <1>6, <1>7 DEF Inv

LEMMA GetProcessorKeepsInv ==
    ASSUME Inv, NEW w \in Workers, GetProcessor(w)
    PROVE  Inv'
<1> DEFINE p == active_processors[entry[w].user_email]
<1>1. /\ worker_pc[w] = "popped" /\ p # None
      /\ \E pc \in {"release", "prompt"} : worker_pc' = [worker_pc EXCEPT ![w] = pc]
      /\ processor' = [processor EXCEPT ![w] = p]
      /\ signal' = [signal EXCEPT ![p] = Observed(p)]
      /\ UNCHANGED <<queueVars, dbVars, mapVars, procVars, runVars, entry, tally, jobVars>>
  BY DEF GetProcessor
<1>2. entry[w].user_email \in Users /\ p \in Procs /\ entry[w] # None
  BY <1>1, HeldFacts DEF Inv, MemoryTypeOK
<1>3. owner[p] = entry[w].user_email /\ run_pc[p] # "none"
  BY <1>1, <1>2 DEF Inv, Owned
<1>4. QueueInv' /\ ClaimedOnce'
  BY <1>1, QueueFrame DEF Inv
<1>5. signal' \in [Procs -> InterruptSignal]
  BY <1>1, <1>2, ObservedTyped DEF Inv, MemoryTypeOK
<1>6. MemoryTypeOK' /\ WorkerTypeOK' /\ DatabaseTypeOK'
  BY <1>1, <1>2, <1>5 DEF Inv, MemoryTypeOK, WorkerTypeOK, WorkerPC, DatabaseTypeOK, dbVars,
                          mapVars, procVars, runVars, jobVars
<1>7. Owned'
  BY <1>1, <1>2, <1>3 DEF Inv, Owned, WorkerTypeOK, mapVars, procVars, runVars
<1>8. RecordingIsLabelled' /\ RecordedIsLabelled'
  BY <1>1, LabelFrame DEF Inv, WorkerTypeOK, dbVars
<1>9. QED
  BY <1>4, <1>6, <1>7, <1>8 DEF Inv

LEMMA PromptEmailKeepsInv ==
    ASSUME Inv, NEW w \in Workers, PromptEmail(w)
    PROVE  Inv'
<1>1. /\ worker_pc[w] = "prompt"
      /\ \E pc \in {"release", "label"} : worker_pc' = [worker_pc EXCEPT ![w] = pc]
      /\ UNCHANGED <<queueVars, dbVars, mapVars, procVars, signal, runVars, entry, processor,
                     tally, jobVars>>
  BY DEF PromptEmail
<1>2. QueueInv' /\ ClaimedOnce'
  BY <1>1, QueueFrame DEF Inv
<1>3. MemoryTypeOK' /\ WorkerTypeOK' /\ DatabaseTypeOK'
  BY <1>1 DEF Inv, MemoryTypeOK, WorkerTypeOK, WorkerPC, DatabaseTypeOK, dbVars, mapVars,
              procVars, runVars, jobVars
<1>4. Owned'
  BY <1>1, OwnedFrame DEF Inv, mapVars, procVars, runVars
<1>5. RecordingIsLabelled' /\ RecordedIsLabelled'
  BY <1>1, LabelFrame DEF Inv, WorkerTypeOK, dbVars
<1>6. QED
  BY <1>2, <1>3, <1>4, <1>5 DEF Inv

LEMMA PanicKeepsInv ==
    ASSUME Inv, NEW w \in Workers, Panic(w)
    PROVE  Inv'
<1>1. /\ worker_pc' = [worker_pc EXCEPT ![w] = "panicked"]
      /\ entry' = [entry EXCEPT ![w] = None]
      /\ processor' = [processor EXCEPT ![w] = None]
      /\ UNCHANGED <<queueVars, dbVars, mapVars, procVars, signal, runVars, tally, jobVars>>
  BY DEF Panic
<1>2. \A v \in Workers : /\ entry'[v] = IF v = w THEN None ELSE entry[v]
                         /\ processor'[v] = IF v = w THEN None ELSE processor[v]
  BY <1>1 DEF Inv, WorkerTypeOK
<1>3. QueueInv'
  BY <1>1, NextQueueInv DEF Inv
<1>4. ClaimedOnce'
  BY <1>1, <1>2, <1>3 DEF Inv, ClaimedOnce, HeldIds, QueueInv, queueVars
<1>5. MemoryTypeOK' /\ WorkerTypeOK' /\ DatabaseTypeOK'
  BY <1>1 DEF Inv, MemoryTypeOK, WorkerTypeOK, WorkerPC, DatabaseTypeOK, dbVars, mapVars,
              procVars, runVars, jobVars
<1>6. Owned'
  BY <1>1, <1>2 DEF Inv, Owned, mapVars, procVars, runVars
<1>7. RecordingIsLabelled' /\ RecordedIsLabelled'
  BY <1>1, <1>2 DEF Inv, RecordingIsLabelled, RecordedIsLabelled, HasLabel, WorkerTypeOK, dbVars
<1>8. QED
  BY <1>3, <1>4, <1>5, <1>6, <1>7 DEF Inv

LEMMA LabelEmailKeepsInv ==
    ASSUME Inv, NEW w \in Workers, NEW state \in MailState, LabelEmail(w, state)
    PROVE  Inv'
<1> DEFINE u == entry[w].user_email
           i == entry[w].email_id
<1>1. /\ worker_pc[w] = "label"
      /\ u \in Users /\ i \in Ids /\ processor[w] \in Procs
  BY HeldFacts DEF LabelEmail, Inv
<1>2. /\ mail' = [mail EXCEPT ![u][i] = state]
      /\ UNCHANGED <<queueVars, processed_email, tokens_consumed, mapVars, procVars, runVars,
                     entry, processor, tally, jobVars>>
  BY DEF LabelEmail
<1>3. \/ /\ worker_pc' = [worker_pc EXCEPT ![w] = "record"]
         /\ state \in {"hidden", "shown"} /\ signal' = signal
      \/ /\ worker_pc' = [worker_pc EXCEPT ![w] = "release"]
         /\ state \in {mail[u][i], "hidden", "shown"}
         /\ signal' \in {signal, [signal EXCEPT ![processor[w]] = "Fail"]}
  BY DEF LabelEmail, Labelled
<1> HIDE DEF u, i
<1>4. QueueInv' /\ ClaimedOnce'
  BY <1>2, QueueFrame DEF Inv
<1>5. signal' \in [Procs -> InterruptSignal]
  BY <1>1, <1>3 DEF Inv, MemoryTypeOK, InterruptSignal
<1>6. MemoryTypeOK' /\ WorkerTypeOK' /\ DatabaseTypeOK'
  <2>1. MemoryTypeOK'
    BY <1>2, <1>5 DEF Inv, MemoryTypeOK, mapVars, procVars, runVars, jobVars
  <2>2. WorkerTypeOK'
    BY <1>1, <1>2, <1>3 DEF Inv, WorkerTypeOK, WorkerPC
  <2>3. DatabaseTypeOK'
    BY <1>1, <1>2 DEF Inv, DatabaseTypeOK
  <2>4. QED
    BY <2>1, <2>2, <2>3
<1>7. Owned'
  BY <1>2, OwnedFrame DEF Inv, mapVars, procVars, runVars
<1>8. \A v \in Users, j \in Ids : HasLabel(v, j) => HasLabel(v, j)'
  BY <1>1, <1>2, <1>3 DEF Inv, DatabaseTypeOK, HasLabel
<1>9. RecordingIsLabelled'
  <2>1. SUFFICES ASSUME NEW v \in Workers, worker_pc'[v] = "record"
                 PROVE  HasLabel(entry[v].user_email, entry[v].email_id)'
    BY <1>2 DEF RecordingIsLabelled
  <2>2. CASE v = w
    <3>1. state \in {"hidden", "shown"}
      BY <1>3, <2>1, <2>2 DEF Inv, WorkerTypeOK
    <3>2. mail'[u][i] \in {"hidden", "shown"}
      BY <1>1, <1>2, <3>1 DEF Inv, DatabaseTypeOK
    <3>3. QED
      BY <1>2, <2>2, <3>2 DEF u, i, HasLabel
  <2>3. CASE v # w
    <3>1. worker_pc[v] = "record"
      BY <1>3, <2>1, <2>3 DEF Inv, WorkerTypeOK
    <3>2. HasLabel(entry[v].user_email, entry[v].email_id)
      BY <3>1 DEF Inv, RecordingIsLabelled
    <3>3. entry[v].user_email \in Users /\ entry[v].email_id \in Ids
      BY <3>1, HeldFacts DEF Inv
    <3>4. QED
      BY <1>2, <1>8, <3>2, <3>3 DEF HasLabel
  <2>4. QED
    BY <2>2, <2>3
<1>10. RecordedIsLabelled'
  BY <1>2, <1>8 DEF Inv, RecordedIsLabelled, HasLabel, DatabaseTypeOK
<1>11. QED
  BY <1>4, <1>6, <1>7, <1>9, <1>10 DEF Inv

LEMMA RecordEmailKeepsInv ==
    ASSUME Inv, NEW w \in Workers, RecordEmail(w)
    PROVE  Inv'
<1> DEFINE u == entry[w].user_email
           i == entry[w].email_id
           p == processor[w]
<1>1. /\ worker_pc[w] = "record"
      /\ u \in Users /\ i \in Ids /\ p \in Procs /\ owner[p] = u
      /\ HasLabel(u, i)
  BY HeldFacts DEF RecordEmail, Inv, Owned, RecordingIsLabelled
<1>2. UNCHANGED <<queueVars, mail, tokens_consumed, mapVars, owner, expired, signal, runVars, entry,
                  processor, tally, jobVars>>
  BY DEF RecordEmail
<1>3. /\ \E pc \in {"tally", "release"} : worker_pc' = [worker_pc EXCEPT ![w] = pc]
      /\ processed_email' \in {processed_email,
                                [processed_email EXCEPT ![i] = IF @ = None THEN u ELSE @]}
      /\ token_count' \in {token_count, [token_count EXCEPT ![p] = @ + TokensPerEmail]}
  BY <1>1 DEF RecordEmail
<1> HIDE DEF u, i, p
<1>4. QueueInv' /\ ClaimedOnce'
  BY <1>2, QueueFrame DEF Inv
<1>5. MemoryTypeOK'
  <2>1. token_count' \in [Procs -> Nat]
    BY <1>1, <1>3, NoneFacts DEF Inv, MemoryTypeOK
  <2>2. QED
    BY <1>2, <2>1 DEF Inv, MemoryTypeOK, mapVars, runVars, jobVars
<1>6. WorkerTypeOK'
  BY <1>1, <1>2, <1>3 DEF Inv, WorkerTypeOK, WorkerPC
<1>7. DatabaseTypeOK'
  BY <1>1, <1>2, <1>3 DEF Inv, DatabaseTypeOK
<1>8. Owned'
  BY <1>2, OwnedFrame DEF Inv, mapVars, runVars
<1>9. RecordingIsLabelled'
  BY <1>2, <1>3 DEF Inv, RecordingIsLabelled, HasLabel, WorkerTypeOK
<1>10. RecordedIsLabelled'
  <2>1. \A j \in Ids : processed_email'[j] = processed_email[j]
                       \/ (j = i /\ processed_email'[j] = u)
    BY <1>1, <1>3 DEF Inv, DatabaseTypeOK
  <2>2. QED
    BY <1>1, <1>2, <2>1 DEF Inv, RecordedIsLabelled, HasLabel
<1>11. QED
  BY <1>4, <1>5, <1>6, <1>7, <1>8, <1>9, <1>10 DEF Inv

\* The steps of add_tally_to_user_daily_quota change counts of tokens only.
LEMMA TallyKeepsInv ==
    ASSUME Inv, NEW w \in Workers,
           AddTally(w) \/ InsertTally(w) \/ SelectTally(w) \/ StoreTally(w)
    PROVE  Inv'
<1> DEFINE p == processor[w]
           u == owner[p]
<1>1. worker_pc[w] \in {"tally", "insert", "select", "store"}
  BY DEF AddTally, InsertTally, SelectTally, StoreTally
<1>2. p \in Procs /\ u \in Users
  BY <1>1, HeldFacts DEF Inv, Owned
<1>3. UNCHANGED <<queueVars, mail, processed_email, mapVars, owner, expired, signal, runVars, entry,
                  processor, jobVars>>
  BY DEF AddTally, InsertTally, SelectTally, StoreTally, dbVars, procVars
<1>4. \E pc \in {"release", "insert", "select", "store"} :
         worker_pc' = [worker_pc EXCEPT ![w] = pc]
  BY DEF AddTally, InsertTally, SelectTally, StoreTally
<1>5. tokens_consumed' \in [Users -> Nat]
  <2>1. tokens_consumed' \in {tokens_consumed,
                              [tokens_consumed EXCEPT ![u] = @ + TokensPerEmail],
                              [tokens_consumed EXCEPT ![u] = TokensPerEmail]}
    BY DEF AddTally, InsertTally, SelectTally, StoreTally, dbVars
  <2>2. QED
    BY <1>2, <2>1, NoneFacts DEF Inv, DatabaseTypeOK
<1>6. tally' \in [Workers -> Nat]
  <2>1. tally' \in {tally, [tally EXCEPT ![w] = tokens_consumed[u]], [tally EXCEPT ![w] = 0]}
    BY DEF AddTally, InsertTally, SelectTally, StoreTally
  <2>2. QED
    BY <1>2, <2>1 DEF Inv, WorkerTypeOK, DatabaseTypeOK
<1>7. token_count' \in [Procs -> Nat]
  <2>1. token_count' \in {token_count, [token_count EXCEPT ![p] = tally[w]]}
    BY DEF AddTally, InsertTally, SelectTally, StoreTally, procVars
  <2>2. QED
    BY <1>2, <2>1 DEF Inv, WorkerTypeOK, MemoryTypeOK
<1> HIDE DEF p, u
<1>8. QueueInv' /\ ClaimedOnce'
  BY <1>3, QueueFrame DEF Inv
<1>9. MemoryTypeOK'
  BY <1>3, <1>7 DEF Inv, MemoryTypeOK, mapVars, runVars, jobVars
<1>10. WorkerTypeOK'
  BY <1>1, <1>3, <1>4, <1>6 DEF Inv, WorkerTypeOK, WorkerPC
<1>11. DatabaseTypeOK'
  BY <1>3, <1>5 DEF Inv, DatabaseTypeOK
<1>12. Owned'
  BY <1>3, OwnedFrame DEF Inv, mapVars, runVars
<1>13. RecordingIsLabelled' /\ RecordedIsLabelled'
  BY <1>3, <1>4, LabelFrame DEF Inv, WorkerTypeOK
<1>14. QED
  BY <1>8, <1>9, <1>10, <1>11, <1>12, <1>13 DEF Inv

LEMMA ReleaseKeepsInv ==
    ASSUME Inv, NEW w \in Workers, Release(w)
    PROVE  Inv'
<1> DEFINE i == entry[w].email_id
<1>1. /\ worker_pc[w] = "release" /\ RemoveFromProcessing(i)
      /\ worker_pc' = [worker_pc EXCEPT ![w] = "idle"]
      /\ entry' = [entry EXCEPT ![w] = None]
      /\ processor' = [processor EXCEPT ![w] = None]
      /\ UNCHANGED <<dbVars, mapVars, procVars, signal, runVars, tally, jobVars>>
  BY DEF Release
<1>2. entry[w] # None /\ i \in handed_out
  BY <1>1, HeldFacts DEF Inv, ClaimedOnce
<1>3. QueueInv'
  BY <1>1, <1>2, RemoveQueueInv DEF Inv
<1>4. \A v \in Workers : /\ entry'[v] = IF v = w THEN None ELSE entry[v]
                         /\ processor'[v] = IF v = w THEN None ELSE processor[v]
  BY <1>1 DEF Inv, WorkerTypeOK
<1>5. ClaimedOnce'
  <2>1. \A v \in Workers : v # w /\ entry[v] # None => entry[v].email_id # i
    BY <1>2 DEF Inv, ClaimedOnce
  <2>2. HeldIds' \subseteq handed_out'
    BY <1>1, <1>4, <2>1 DEF Inv, ClaimedOnce, HeldIds, RemoveFromProcessing
  <2>3. QED
    BY <1>3, <1>4, <2>2 DEF Inv, ClaimedOnce, QueueInv
<1>6. MemoryTypeOK' /\ WorkerTypeOK' /\ DatabaseTypeOK'
  BY <1>1 DEF Inv, MemoryTypeOK, WorkerTypeOK, WorkerPC, DatabaseTypeOK, dbVars, mapVars,
              procVars, runVars, jobVars
<1>7. Owned'
  BY <1>1, <1>4 DEF Inv, Owned, mapVars, procVars, runVars
<1>8. RecordingIsLabelled' /\ RecordedIsLabelled'
  BY <1>1, <1>4 DEF Inv, RecordingIsLabelled, RecordedIsLabelled, HasLabel, WorkerTypeOK, dbVars
<1>9. QED
  BY <1>3, <1>5, <1>6, <1>7, <1>8 DEF Inv

LEMMA WorkKeepsInv ==
    ASSUME Inv, NEW w \in Workers, Work(w)
    PROVE  Inv'
BY PopEntryKeepsInv, DropEntryKeepsInv, GetProcessorKeepsInv, PromptEmailKeepsInv,
   LabelEmailKeepsInv, RecordEmailKeepsInv, TallyKeepsInv, ReleaseKeepsInv DEF Work

-----------------------------------------------------------------------------
(* The start of the server, and the invariant. *)

LEMMA RestartKeepsInv == ASSUME Inv, Restart PROVE Inv'
<1>1. New /\ dbVars' = dbVars
  BY DEF Restart
<1>2. QueueInv'
  BY <1>1, NewQueueInv
<1>3. /\ active_processors' = [u \in Users |-> None] /\ for_cleanup' = {}
      /\ owner' = [p \in Procs |-> None] /\ signal' = [p \in Procs |-> "Run"]
      /\ token_count' = [p \in Procs |-> 0] /\ run_pc' = [p \in Procs |-> "none"]
      /\ fetching' = [p \in Procs |-> "High"] /\ already_processed' = [p \in Procs |-> {}]
      /\ to_push' = [p \in Procs |-> {}] /\ num_added' = [p \in Procs |-> FALSE]
      /\ worker_pc' = [w \in Workers |-> "idle"] /\ entry' = [w \in Workers |-> None]
      /\ processor' = [w \in Workers |-> None] /\ tally' = [w \in Workers |-> 0]
      /\ job' = [k \in Jobs |-> None]
      /\ job_tokens' = [k \in Jobs |-> 0] /\ expired' = {}
  BY DEF Restart, MemoryInit
<1>4. ClaimedOnce'
  BY <1>2, <1>3 DEF ClaimedOnce, HeldIds, QueueInv
<1>5. MemoryTypeOK'
  BY <1>3 DEF MemoryTypeOK, RunPC, InterruptSignal, Priority
<1>6. WorkerTypeOK' /\ DatabaseTypeOK'
  BY <1>1, <1>3 DEF WorkerTypeOK, WorkerPC, DatabaseTypeOK, Inv, dbVars
<1>7. Owned'
  BY <1>3 DEF Owned
<1>8. RecordingIsLabelled' /\ RecordedIsLabelled'
  BY <1>1, <1>3 DEF RecordingIsLabelled, RecordedIsLabelled, Inv, dbVars
<1>9. QED
  BY <1>2, <1>4, <1>5, <1>6, <1>7, <1>8 DEF Inv

LEMMA InitInv == Init => Inv
<1>1. SUFFICES ASSUME Init PROVE Inv
  OBVIOUS
<1>2. QueueInv
  BY <1>1, InitQueueInv DEF Init
<1>3. ClaimedOnce
  BY <1>1, <1>2 DEF Init, MemoryInit, ClaimedOnce, HeldIds, QueueInv
<1>4. MemoryTypeOK
  BY <1>1 DEF Init, MemoryInit, MemoryTypeOK, RunPC, InterruptSignal, Priority
<1>5. WorkerTypeOK /\ DatabaseTypeOK
  BY <1>1 DEF Init, MemoryInit, WorkerTypeOK, WorkerPC, DatabaseTypeOK, MailState
<1>6. Owned
  BY <1>1 DEF Init, MemoryInit, Owned
<1>7. RecordingIsLabelled /\ RecordedIsLabelled
  BY <1>1 DEF Init, MemoryInit, RecordingIsLabelled, RecordedIsLabelled
<1>8. QED
  BY <1>2, <1>3, <1>4, <1>5, <1>6, <1>7 DEF Inv

LEMMA NextInv == Inv /\ [Next]_pipelineVars => Inv'
<1>1. SUFFICES ASSUME Inv, [Next]_pipelineVars PROVE Inv'
  OBVIOUS
<1>2. ASSUME NEW u \in Users, NEW i \in Ids, Arrive(u, i) PROVE Inv'
  BY <1>1, <1>2, ArriveKeepsInv
<1>3. ASSUME NEW j \in Jobs, NEW u \in Users, NEW tokens \in 0..DailyQuota,
             NEW rules_changed \in BOOLEAN, CheckProcessor(j, u, tokens, rules_changed)
      PROVE  Inv'
  BY <1>1, <1>3, CheckProcessorKeepsInv
<1>4. ASSUME NEW j \in Jobs, NEW p \in Procs, CreateProcessor(j, p) PROVE Inv'
  BY <1>1, <1>4, CreateProcessorKeepsInv
<1>5. ASSUME NEW j \in Jobs, CreateFails(j) PROVE Inv'
  BY <1>1, <1>5, CreateFailsKeepsInv
<1>6. ASSUME NEW p \in Procs, Run(p) \/ Interrupted(p) \/ ExpireToken(p) PROVE Inv'
  BY <1>1, <1>6, RunKeepsInv, ExpireTokenKeepsInv
<1>7. ASSUME NEW w \in Workers, Work(w) \/ Panic(w) PROVE Inv'
  BY <1>1, <1>7, WorkKeepsInv, PanicKeepsInv
<1>8. CASE (\E u \in Users : CollectStopped(u)) \/ DropStopped \/ Watch
  BY <1>1, <1>8, CleanupKeepsInv
<1>9. CASE Restart
  BY <1>1, <1>9, RestartKeepsInv
<1>10. CASE UNCHANGED pipelineVars
  <2>1. /\ UNCHANGED <<queueVars, dbVars, mapVars, procVars, signal, runVars, workerVars, jobVars>>
    BY <1>10 DEF pipelineVars
  <2>2. signal' \in [Procs -> InterruptSignal] /\ for_cleanup' \subseteq Users
        /\ job' \in [Jobs -> Users \cup {None}] /\ job_tokens' \in [Jobs -> Nat]
    BY <1>1, <2>1 DEF Inv, MemoryTypeOK, mapVars, jobVars
  <2>3. QED
    BY <1>1, <2>1, <2>2, SignalFrame DEF mapVars
<1>11. QED
  BY <1>1, <1>2, <1>3, <1>4, <1>5, <1>6, <1>7, <1>8, <1>9, <1>10 DEF Next

LEMMA Invariant == Spec => []Inv
  BY InitInv, NextInv, PTL DEF Spec

\* Every variable of the pipeline has its type, and a worker holds an entry
\* and a processor exactly in the stages of email_processing_task where the
\* code has them.
THEOREM Typing == Spec => []TypeOK
<1>1. Inv => TypeOK
  BY DEF Inv, QueueInv, TypeOK
<1>2. QED
  BY <1>1, Invariant, PTL

\* However many processors of a user push at the same time, and however the
\* jobs, the cleanup loop, failures and restarts interleave with the workers,
\* no email is with two workers, or in the queue while a worker has it.
THEOREM EmailsClaimedOnce == Spec => []ClaimedOnce
<1>1. Inv => ClaimedOnce
  BY DEF Inv
<1>2. QED
  BY <1>1, Invariant, PTL

\* A row of processed_email stands for a message that carries a label: an
\* email whose labelling failed is not recorded as processed (processor.rs,
\* categorize_email_in_client and record_processed_email).
THEOREM RecordedEmailsAreLabelled == Spec => []RecordedIsLabelled
<1>1. Inv => RecordedIsLabelled
  BY DEF Inv
<1>2. QED
  BY <1>1, Invariant, PTL

\* The pipeline uses the queue as the queue demands: each of its steps is a
\* call of push, pop or remove_from_processing, the last for an email that
\* was handed out, or leaves the queue alone.
THEOREM PipelineImplementsQueue == Spec => ImplementsQueue
<1>1. Init => QueueInit
  BY DEF Init
<1>2. Inv /\ [Next]_pipelineVars => [QueueNext]_queueVars
  <2>1. SUFFICES ASSUME Inv, [Next]_pipelineVars PROVE [QueueNext]_queueVars
    OBVIOUS
  <2>2. ASSUME NEW p \in Procs, NEW i \in Ids, PushNext(p, i)
        PROVE  QueueNext
    <3>1. owner[p] \in Users /\ fetching[p] \in Priority /\ Push(owner[p], i, fetching[p])
      BY <2>1, <2>2 DEF PushNext, Inv, Owned, MemoryTypeOK
    <3>2. QED
      BY <3>1 DEF QueueNext
  <2>3. ASSUME NEW w \in Workers, NEW e \in queue, PopEntry(w, e)
        PROVE  QueueNext
    BY <2>3 DEF PopEntry, QueueNext
  <2>4. ASSUME NEW w \in Workers, Release(w)
        PROVE  QueueNext
    <3>1. entry[w].email_id \in handed_out
      BY <2>1, <2>4, HeldFacts DEF Release, Inv, ClaimedOnce
    <3>2. QED
      BY <2>4, <3>1 DEF Release, QueueNext
  <2>5. CASE Restart
    BY <2>5 DEF Restart, QueueNext
  <2>6. ASSUME NEW p \in Procs, Run(p) \/ Interrupted(p) \/ ExpireToken(p)
        PROVE  [QueueNext]_queueVars
    BY <2>2, <2>6 DEF Run, Interrupted, ConfigureLabels, Tick, ReadProcessed, EndPush,
                      ListMessages, ExpireToken
  <2>7. ASSUME NEW w \in Workers, Work(w) \/ Panic(w)
        PROVE  [QueueNext]_queueVars
    BY <2>3, <2>4, <2>7 DEF Work, DropEntry, GetProcessor, PromptEmail, LabelEmail, RecordEmail,
                            AddTally, InsertTally, SelectTally, StoreTally, Panic
  <2>8. CASE (\E u \in Users : CollectStopped(u)) \/ DropStopped \/ Watch
    BY <2>8 DEF CollectStopped, DropStopped, Watch
  <2>9. QED
    BY <2>1, <2>5, <2>6, <2>7, <2>8
       DEF Next, pipelineVars, Arrive, CheckProcessor, CreateProcessor, CreateFails
<1>3. QED
  BY <1>1, <1>2, Invariant, PTL DEF Spec, QueueSpec, ImplementsQueue

\* ... and so, whatever processors, workers and restarts do, every email goes
\* the way EmailClaims states: it is not enqueued while it waits or is claimed,
\* and one of low priority is handed out only while none of high priority
\* waits.
THEOREM PipelineImplementsClaims == Spec => ImplementsClaims
  BY PipelineImplementsQueue, QueueImplementsClaims, PTL DEF ImplementsQueue

-----------------------------------------------------------------------------
(* The jobs and loops around run loops and workers, and the lifetime of    *)
(* their access tokens.                                                    *)

Supervises ==
    \/ \E j \in Jobs, u \in Users, tokens \in 0..DailyQuota, rules_changed \in BOOLEAN :
          CheckProcessor(j, u, tokens, rules_changed)
    \/ \E j \in Jobs, p \in Procs : CreateProcessor(j, p)
    \/ \E j \in Jobs : CreateFails(j)
    \/ \E u \in Users : CollectStopped(u)
    \/ \E p \in Procs : ExpireToken(p)
    \/ DropStopped \/ Watch

\* They leave the emails alone.
LEMMA SupervisionFrame ==
    ASSUME Supervises \/ UNCHANGED pipelineVars
    PROVE  UNCHANGED <<queueVars, dbVars, workerVars>>
<1>1. ASSUME NEW j \in Jobs, NEW u \in Users, NEW tokens \in 0..DailyQuota,
             NEW rules_changed \in BOOLEAN, CheckProcessor(j, u, tokens, rules_changed)
      PROVE  UNCHANGED <<queueVars, dbVars, workerVars>>
  BY <1>1 DEF CheckProcessor
<1>2. ASSUME NEW j \in Jobs, NEW p \in Procs, CreateProcessor(j, p)
      PROVE  UNCHANGED <<queueVars, dbVars, workerVars>>
  BY <1>2 DEF CreateProcessor
<1>3. ASSUME NEW j \in Jobs, CreateFails(j)
      PROVE  UNCHANGED <<queueVars, dbVars, workerVars>>
  BY <1>3 DEF CreateFails
<1>4. CASE \/ \E u \in Users : CollectStopped(u)
           \/ \E p \in Procs : ExpireToken(p)
           \/ DropStopped \/ Watch
  BY <1>4 DEF CollectStopped, ExpireToken, DropStopped, Watch
<1>5. CASE UNCHANGED pipelineVars
  BY <1>5 DEF pipelineVars
<1>6. QED
  BY <1>1, <1>2, <1>3, <1>4, <1>5 DEF Supervises

LEMMA NextCases ==
    ASSUME [Next]_pipelineVars
    PROVE  \/ \E u \in Users, i \in Ids : Arrive(u, i)
           \/ \E p \in Procs : Run(p) \/ Interrupted(p)
           \/ \E w \in Workers : Work(w) \/ Panic(w)
           \/ Supervises \/ UNCHANGED pipelineVars
           \/ Restart
BY DEF Next, Supervises

-----------------------------------------------------------------------------
(* The ledger.  To label an email a worker must have one that has arrived:  *)
(* whatever a run loop is about to push, the queue holds or a worker has    *)
(* is a message of the mailbox of the user it is for.                       *)

Arrived(u, i) == mail[u][i] # "absent"

OnlyArrived ==
    /\ \A p \in Procs : run_pc[p] = "none" => to_push[p] = {}
    /\ \A p \in Procs : \A i \in to_push[p] : Arrived(owner[p], i)
    /\ \A e \in queue : Arrived(e.user_email, e.email_id)
    /\ \A w \in Workers : entry[w] # None => Arrived(entry[w].user_email, entry[w].email_id)

\* A step that finds no email and moves those found along.
LEMMA ArrivedFrame ==
    ASSUME OnlyArrived, UNCHANGED <<mail, owner>>, queue' \subseteq queue,
           \A w \in Workers : entry'[w] = None \/ entry'[w] = entry[w] \/ entry'[w] \in queue,
           \A p \in Procs : /\ to_push'[p] \subseteq to_push[p]
                            /\ run_pc'[p] = "none" => run_pc[p] = "none"
    PROVE  OnlyArrived'
BY DEF OnlyArrived, Arrived

LEMMA StillArrived ==
    ASSUME Inv, OnlyArrived, UNCHANGED <<queue, owner, entry, run_pc, to_push>>,
           \A v \in Users, j \in Ids : Arrived(v, j) => Arrived(v, j)'
    PROVE  OnlyArrived'
<1>1. \A p \in Procs : run_pc[p] # "none" => owner[p] \in Users /\ to_push[p] \subseteq Ids
  BY DEF Inv, Owned, MemoryTypeOK
<1>2. \A e \in queue : e.user_email \in Users /\ e.email_id \in Ids
  BY DEF Inv, QueueInv, QueueTypeOK, PromptQueueEmailEntry
<1>3. \A w \in Workers : entry[w] # None =>
        entry[w].user_email \in Users /\ entry[w].email_id \in Ids
  BY DEF Inv, WorkerTypeOK, PromptQueueEmailEntry
<1>4. \A p \in Procs : \A i \in to_push[p] : Arrived(owner[p], i)'
  BY <1>1 DEF OnlyArrived
<1>5. \A e \in queue : Arrived(e.user_email, e.email_id)'
  BY <1>2 DEF OnlyArrived
<1>6. \A w \in Workers : entry[w] # None => Arrived(entry[w].user_email, entry[w].email_id)'
  BY <1>3 DEF OnlyArrived
<1>7. QED
  BY <1>4, <1>5, <1>6 DEF OnlyArrived, Arrived

LEMMA CreateKeepsArrived ==
    ASSUME Inv, OnlyArrived, NEW j \in Jobs, NEW p \in Procs, CreateProcessor(j, p)
    PROVE  OnlyArrived'
<1>1. /\ run_pc[p] = "none" /\ owner' = [owner EXCEPT ![p] = job[j]]
      /\ run_pc' = [run_pc EXCEPT ![p] = "configure"]
      /\ UNCHANGED <<queue, mail, to_push, entry>>
  BY DEF CreateProcessor, queueVars, dbVars, workerVars
<1>2. \A q \in Procs : q # p => owner'[q] = owner[q] /\ run_pc'[q] = run_pc[q]
  BY <1>1 DEF Inv, MemoryTypeOK
<1>3. to_push[p] = {} /\ run_pc'[p] = "configure"
  BY <1>1 DEF OnlyArrived, Inv, MemoryTypeOK
<1>4. QED
  BY <1>1, <1>2, <1>3 DEF OnlyArrived, Arrived

LEMMA RunKeepsArrived ==
    ASSUME Inv, OnlyArrived, NEW p \in Procs, Run(p) \/ Interrupted(p)
    PROVE  OnlyArrived'
<1>1. UNCHANGED <<mail, owner, entry>>
  BY DEF Run, ConfigureLabels, Tick, ReadProcessed, EndPush, Interrupted, ListMessages, PushNext,
         dbVars, procVars, workerVars
<1>2. \A q \in Procs : run_pc'[q] = "none" => run_pc[q] = "none"
  BY DEF Run, ConfigureLabels, Tick, ReadProcessed, EndPush, Interrupted, ListMessages,
         PushNext, Inv, MemoryTypeOK
<1>3. CASE ConfigureLabels(p) \/ Tick(p) \/ ReadProcessed(p) \/ EndPush(p) \/ Interrupted(p)
  <2>1. UNCHANGED <<queue, to_push>>
    BY <1>3 DEF ConfigureLabels, Tick, ReadProcessed, EndPush, Interrupted, queueVars
  <2>2. QED
    BY <1>1, <1>2, <2>1, ArrivedFrame
<1>4. ASSUME NEW ids \in SUBSET Ids, ListMessages(p, ids)
      PROVE  OnlyArrived'
  <2>1. /\ run_pc[p] = "list" /\ ids \subseteq Listed(owner[p], fetching[p])
        /\ to_push' = [to_push EXCEPT ![p] = ids] /\ UNCHANGED queue
    BY <1>4 DEF ListMessages, queueVars
  <2>2. \A i \in ids : Arrived(owner[p], i)
    BY <2>1 DEF Listed, Arrived
  <2>3. \A q \in Procs : to_push'[q] = IF q = p THEN ids ELSE to_push[q]
    BY <2>1 DEF Inv, MemoryTypeOK
  <2>4. run_pc'[p] # "none"
    BY <1>4 DEF ListMessages, Inv, MemoryTypeOK
  <2>5. QED
    BY <1>1, <1>2, <2>1, <2>2, <2>3, <2>4 DEF OnlyArrived, Arrived
<1>5. ASSUME NEW i \in Ids, PushNext(p, i)
      PROVE  OnlyArrived'
  <2>1. /\ i \in to_push[p] /\ to_push' = [to_push EXCEPT ![p] = @ \ {i}]
        /\ Push(owner[p], i, fetching[p])
    BY <1>5 DEF PushNext
  <2>2. \A q \in Procs : to_push'[q] \subseteq to_push[q]
    BY <2>1 DEF Inv, MemoryTypeOK
  <2>3. \A e \in queue' : e \in queue \/ (e.user_email = owner[p] /\ e.email_id = i)
    BY <2>1 DEF Push, queueVars
  <2>4. Arrived(owner[p], i)
    BY <2>1 DEF OnlyArrived
  <2>5. QED
    BY <1>1, <1>2, <2>2, <2>3, <2>4 DEF OnlyArrived, Arrived
<1>6. QED
  BY <1>3, <1>4, <1>5 DEF Run

\* What a label call leaves behind, for the email of its worker.
LEMMA LabelFacts ==
    ASSUME Inv, OnlyArrived, NEW w \in Workers, NEW state \in MailState, LabelEmail(w, state)
    PROVE  /\ entry[w].user_email \in Users /\ entry[w].email_id \in Ids
           /\ entry[w].email_id \in handed_out
           /\ Arrived(entry[w].user_email, entry[w].email_id)
           /\ state \in {mail[entry[w].user_email][entry[w].email_id]}
                         \cup Labelled(entry[w].user_email, entry[w].email_id)
           /\ mail' = [mail EXCEPT ![entry[w].user_email][entry[w].email_id] = state]
           /\ UNCHANGED <<queueVars, processed_email, owner, entry, run_pc, to_push>>
<1>1. worker_pc[w] = "label"
  BY DEF LabelEmail
<1>2. /\ entry[w] # None /\ entry[w].email_id \in HeldIds
      /\ entry[w].user_email \in Users /\ entry[w].email_id \in Ids
  BY <1>1, HeldFacts DEF Inv
<1>3. entry[w].email_id \in handed_out /\ Arrived(entry[w].user_email, entry[w].email_id)
  BY <1>2 DEF Inv, ClaimedOnce, OnlyArrived
<1>4. QED
  BY <1>2, <1>3 DEF LabelEmail, procVars, runVars

LEMMA WorkKeepsArrived ==
    ASSUME Inv, OnlyArrived, NEW w \in Workers, Work(w) \/ Panic(w)
    PROVE  OnlyArrived'
<1>1. UNCHANGED <<owner, run_pc, to_push>>
  BY DEF Panic, Work, PopEntry, DropEntry, GetProcessor, PromptEmail, LabelEmail, RecordEmail, AddTally,
         InsertTally, SelectTally, StoreTally, Release, runVars, procVars
<1>2. ASSUME NEW state \in MailState, LabelEmail(w, state)
      PROVE  OnlyArrived'
  <2> DEFINE u == entry[w].user_email
             i == entry[w].email_id
  <2>1. /\ u \in Users /\ i \in Ids /\ Arrived(u, i)
        /\ state \in {mail[u][i]} \cup Labelled(u, i)
        /\ mail' = [mail EXCEPT ![u][i] = state] /\ UNCHANGED <<queueVars, entry>>
    BY <1>2, LabelFacts
  <2>2. state # "absent"
    BY <2>1 DEF Labelled, Arrived
  <2> HIDE DEF u, i
  <2>3. \A v \in Users, j \in Ids : Arrived(v, j) => Arrived(v, j)'
    BY <2>1, <2>2 DEF Arrived, Inv, DatabaseTypeOK
  <2>4. QED
    BY <1>1, <2>1, <2>3, StillArrived DEF queueVars
<1>3. CASE ~\E state \in MailState : LabelEmail(w, state)
  <2>1. UNCHANGED mail
    BY <1>3 DEF Panic, Work, PopEntry, DropEntry, GetProcessor, PromptEmail, RecordEmail,
                AddTally, InsertTally, SelectTally, StoreTally, Release, dbVars
  <2>2. queue' \subseteq queue
    BY <1>3 DEF Panic, Work, PopEntry, Pop, DropEntry, GetProcessor, PromptEmail, RecordEmail,
                AddTally, InsertTally, SelectTally, StoreTally, Release, RemoveFromProcessing, queueVars
  <2>3. \A v \in Workers : entry'[v] = None \/ entry'[v] = entry[v] \/ entry'[v] \in queue
    BY <1>3 DEF Panic, Work, PopEntry, DropEntry, GetProcessor, PromptEmail, RecordEmail,
                AddTally, InsertTally, SelectTally, StoreTally, Release, Inv, WorkerTypeOK
  <2>4. QED
    BY <1>1, <2>1, <2>2, <2>3, ArrivedFrame
<1>4. QED
  BY <1>2, <1>3

LEMMA NextArrived == Inv /\ OnlyArrived /\ [Next]_pipelineVars => OnlyArrived'
<1>1. SUFFICES ASSUME Inv, OnlyArrived, [Next]_pipelineVars PROVE OnlyArrived'
  OBVIOUS
<1>2. ASSUME NEW u \in Users, NEW i \in Ids, Arrive(u, i) PROVE OnlyArrived'
  <2>1. /\ mail' = [mail EXCEPT ![u][i] = "unlabelled"]
        /\ UNCHANGED <<queue, owner, entry, run_pc, to_push>>
    BY <1>2 DEF Arrive, queueVars, procVars, workerVars, runVars
  <2>2. \A v \in Users, j \in Ids : Arrived(v, j) => Arrived(v, j)'
    BY <1>1, <2>1 DEF Arrived, Inv, DatabaseTypeOK
  <2>3. QED
    BY <1>1, <2>1, <2>2, StillArrived
<1>3. ASSUME UNCHANGED <<queue, mail, owner, entry, run_pc, to_push>> PROVE OnlyArrived'
  BY <1>1, <1>3, StillArrived DEF Arrived
<1>4. ASSUME NEW j \in Jobs, NEW u \in Users, NEW tokens \in 0..DailyQuota,
             NEW rules_changed \in BOOLEAN, CheckProcessor(j, u, tokens, rules_changed)
      PROVE  OnlyArrived'
  BY <1>3, <1>4 DEF CheckProcessor, queueVars, dbVars, procVars, workerVars, runVars
<1>5. ASSUME NEW j \in Jobs, CreateFails(j) PROVE OnlyArrived'
  BY <1>3, <1>5 DEF CreateFails, queueVars, dbVars, procVars, workerVars, runVars
<1>6. CASE \/ \E u \in Users : CollectStopped(u)
           \/ \E p \in Procs : ExpireToken(p)
           \/ DropStopped \/ Watch \/ UNCHANGED pipelineVars
  BY <1>3, <1>6 DEF CollectStopped, ExpireToken, DropStopped, Watch, pipelineVars, queueVars, dbVars, procVars,
                    workerVars, runVars
<1>7. CASE Restart
  <2>1. /\ queue' = {} /\ to_push' = [p \in Procs |-> {}]
        /\ entry' = [w \in Workers |-> None]
    BY <1>7 DEF Restart, New, MemoryInit
  <2>2. QED
    BY <2>1 DEF OnlyArrived
<1>8. QED
  BY <1>1, <1>2, <1>4, <1>5, <1>6, <1>7, CreateKeepsArrived, RunKeepsArrived, WorkKeepsArrived
     DEF Next

LEMMA ArrivedInvariant == Spec => []OnlyArrived
<1>1. Init => OnlyArrived
  BY DEF Init, QueueInit, MemoryInit, OnlyArrived
<1>2. QED
  BY <1>1, NextArrived, Invariant, PTL DEF Spec

LEMMA PopIsClaim ==
    ASSUME Inv, NEW w \in Workers, NEW e \in queue, PopEntry(w, e)
    PROVE  e.email_id \in Ids /\ Ledger!Claim(e.email_id)
<1>1. e.email_id \in Ids /\ e.email_id \notin handed_out
  BY DEF Inv, QueueInv, QueueTypeOK, PromptQueueEmailEntry, MarkedOnce, QueuedIds
<1>2. QED
  BY <1>1 DEF PopEntry, Pop, Ledger!Claim, dbVars

\* A label call that fails may have left the message as it was.
LEMMA LabelIsLabel ==
    ASSUME Inv, OnlyArrived, NEW w \in Workers, NEW state \in MailState, LabelEmail(w, state)
    PROVE  \/ \E u \in Users, i \in Ids, label \in Ledger!Labels : Ledger!Label(u, i, label)
           \/ UNCHANGED <<mail, processed_email, handed_out>>
<1> DEFINE u == entry[w].user_email
           i == entry[w].email_id
<1>1. /\ u \in Users /\ i \in Ids /\ i \in handed_out /\ Arrived(u, i)
      /\ state \in {mail[u][i]} \cup Labelled(u, i)
      /\ mail' = [mail EXCEPT ![u][i] = state]
      /\ UNCHANGED <<queueVars, processed_email>>
  BY LabelFacts
<1> HIDE DEF u, i
<1>2. CASE state = mail[u][i]
  <2>1. mail' = mail
    BY <1>1, <1>2 DEF Inv, DatabaseTypeOK
  <2>2. QED
    BY <1>1, <2>1 DEF queueVars
<1>3. CASE state \in Labelled(u, i)
  <2>1. state \in Ledger!Labels /\ (mail[u][i] = "hidden" => state = "hidden")
    BY <1>3 DEF Labelled, Ledger!Labels
  <2>2. Ledger!Label(u, i, state)
    BY <1>1, <2>1 DEF Ledger!Label, Arrived, queueVars
  <2>3. QED
    BY <1>1, <2>1, <2>2
<1>4. QED
  BY <1>1, <1>2, <1>3

\* The insert of a row meets either no row of that id or one it leaves alone.
LEMMA RecordIsRecord ==
    ASSUME Inv, NEW w \in Workers, RecordEmail(w)
    PROVE  \/ \E u \in Users, i \in Ids : Ledger!Record(u, i)
           \/ UNCHANGED <<mail, processed_email, handed_out>>
<1> DEFINE u == entry[w].user_email
           i == entry[w].email_id
<1>1. worker_pc[w] = "record" /\ UNCHANGED <<queueVars, mail>>
  BY DEF RecordEmail
<1>2. /\ u \in Users /\ i \in Ids /\ i \in handed_out
      /\ owner[processor[w]] = u /\ mail[u][i] \in Ledger!Labels
  <2>1. /\ u \in Users /\ i \in Ids /\ i \in HeldIds
        /\ processor[w] # None
    BY <1>1, HeldFacts DEF Inv
  <2>2. QED
    BY <1>1, <2>1 DEF Inv, ClaimedOnce, Owned, RecordingIsLabelled, HasLabel, Ledger!Labels
<1>3. \/ processed_email' = processed_email
      \/ processed_email' = [processed_email EXCEPT ![i] = IF @ = None THEN u ELSE @]
  BY <1>2 DEF RecordEmail
<1> HIDE DEF u, i
<1>4. CASE processed_email[i] # None
  <2>1. processed_email' = processed_email
    BY <1>2, <1>3, <1>4 DEF Inv, DatabaseTypeOK
  <2>2. QED
    BY <1>1, <2>1 DEF queueVars
<1>5. CASE processed_email[i] = None
  <2>1. \/ processed_email' = processed_email
        \/ processed_email' = [processed_email EXCEPT ![i] = u]
    BY <1>3, <1>5
  <2>2. QED
    BY <1>1, <1>2, <1>5, <2>1 DEF Ledger!Record, queueVars
<1>6. QED
  BY <1>4, <1>5

LEMMA ReleaseIsRelease ==
    ASSUME Inv, NEW w \in Workers, Release(w)
    PROVE  entry[w].email_id \in Ids /\ Ledger!Release(entry[w].email_id)
<1>1. entry[w].email_id \in Ids /\ entry[w].email_id \in handed_out
  BY HeldFacts DEF Release, Inv, ClaimedOnce
<1>2. QED
  BY <1>1 DEF Release, RemoveFromProcessing, Ledger!Release, dbVars

\* What the server promises about a mailbox and the table processed_email: an
\* email that has arrived is labelled and recorded by the worker that claims
\* it, in this order, and no push, cancel, failure or restart takes a row or a
\* label back (processor.rs, run_processor_pipeline).
THEOREM PipelineKeepsLedger == Spec => KeepsLedger
<1> DEFINE Same == UNCHANGED <<mail, processed_email, handed_out>>
<1>1. Init => Ledger!Init
  BY DEF Init, QueueInit, Ledger!Init
<1>2. Inv /\ OnlyArrived /\ [Next]_pipelineVars
        => [Ledger!Next]_<<mail, processed_email, handed_out>>
  <2>1. SUFFICES ASSUME Inv, OnlyArrived, [Next]_pipelineVars
                 PROVE  Ledger!Next \/ Same
    OBVIOUS
  <2>2. ASSUME NEW u \in Users, NEW i \in Ids, Arrive(u, i)
        PROVE  Ledger!Next
    <3>1. Ledger!Arrive(u, i)
      BY <2>2 DEF Arrive, Ledger!Arrive, queueVars
    <3>2. QED
      BY <3>1 DEF Ledger!Next
  <2>3. ASSUME NEW p \in Procs, Run(p) \/ Interrupted(p)
        PROVE  Same
    BY <2>3 DEF Run, Interrupted, ConfigureLabels, Tick, ReadProcessed, EndPush, ListMessages,
                PushNext, Push, queueVars, dbVars
  <2>4. ASSUME NEW w \in Workers, Work(w) \/ Panic(w)
        PROVE  Ledger!Next \/ Same
    <3>1. CASE \E e \in queue : PopEntry(w, e)
      BY <2>1, <3>1, PopIsClaim DEF Ledger!Next
    <3>2. CASE \E state \in MailState : LabelEmail(w, state)
      BY <2>1, <3>2, LabelIsLabel DEF Ledger!Next
    <3>3. CASE RecordEmail(w)
      BY <2>1, <3>3, RecordIsRecord DEF Ledger!Next
    <3>4. CASE Release(w)
      BY <2>1, <3>4, ReleaseIsRelease DEF Ledger!Next
    <3>5. CASE \/ DropEntry(w) \/ GetProcessor(w) \/ PromptEmail(w)
               \/ AddTally(w) \/ InsertTally(w) \/ SelectTally(w) \/ StoreTally(w)
               \/ Panic(w)
      BY <3>5 DEF DropEntry, GetProcessor, PromptEmail, AddTally, InsertTally, SelectTally,
                  StoreTally, Panic, queueVars, dbVars
    <3>6. QED
      BY <2>4, <3>1, <3>2, <3>3, <3>4, <3>5 DEF Work
  <2>5. CASE Restart
    BY <2>5 DEF Restart, New, Ledger!Next, Ledger!Restart, dbVars
  <2>6. CASE Supervises \/ UNCHANGED pipelineVars
    BY <2>6, SupervisionFrame DEF queueVars, dbVars
  <2>7. QED
    BY <2>1, <2>2, <2>3, <2>4, <2>5, <2>6, NextCases
<1>3. QED
  BY <1>1, <1>2, Invariant, ArrivedInvariant, PTL
     DEF Spec, KeepsLedger, Ledger!Spec, Ledger!ledgerVars

-----------------------------------------------------------------------------
(* Lost emails. *)

\* An email that a worker has is not lost, and no other worker has it.
LEMMA ReleaseLosesNone ==
    ASSUME Inv, NEW w \in Workers, Release(w)
    PROVE  Lost' \subseteq Lost
<1> DEFINE i == entry[w].email_id
<1>1. /\ entry' = [entry EXCEPT ![w] = None] /\ handed_out' = handed_out \ {i}
  BY DEF Release, RemoveFromProcessing
<1>2. \A v \in Workers : v # w => entry'[v] = entry[v]
  BY <1>1 DEF Inv, WorkerTypeOK
<1>3. \A j \in HeldIds : j # i => j \in HeldIds'
  BY <1>2 DEF HeldIds
<1>4. QED
  BY <1>1, <1>3 DEF Lost

LEMMA PopLosesNone ==
    ASSUME Inv, NEW w \in Workers, NEW e \in queue, PopEntry(w, e)
    PROVE  Lost' \subseteq Lost
<1>1. /\ worker_pc[w] = "idle" /\ entry' = [entry EXCEPT ![w] = e]
      /\ handed_out' = handed_out \cup {e.email_id}
  BY DEF PopEntry, Pop
<1>2. entry[w] = None /\ e # None
  BY <1>1, NoneFacts DEF Inv, WorkerTypeOK, QueueInv, QueueTypeOK
<1>3. \A v \in Workers : entry'[v] = IF v = w THEN e ELSE entry[v]
  BY <1>1 DEF Inv, WorkerTypeOK
<1>4. HeldIds' = HeldIds \cup {e.email_id}
  BY <1>2, <1>3 DEF HeldIds
<1>5. QED
  BY <1>1, <1>4 DEF Lost

\* A worker that comes to an end with its email and does not release it
\* loses that one.
LEMMA ForgettingLosesOne ==
    ASSUME Inv, NEW w \in Workers, entry' = [entry EXCEPT ![w] = None],
           handed_out' = handed_out, NEW i \in Lost' \ Lost
    PROVE  entry[w] # None /\ entry[w].email_id = i
<1>1. \A v \in Workers : v # w => entry'[v] = entry[v]
  BY DEF Inv, WorkerTypeOK
<1>2. PICK v \in Workers : entry[v] # None /\ entry[v].email_id = i /\ i \notin HeldIds'
  BY DEF Lost, HeldIds
<1>3. v = w
  BY <1>1, <1>2 DEF HeldIds
<1>4. QED
  BY <1>2, <1>3

LEMMA HoldersLoseNone == ASSUME UNCHANGED <<handed_out, entry>> PROVE Lost' \subseteq Lost
  BY DEF Lost, HeldIds

\* An email stays marked with nobody at it in two ways only: its worker found
\* no processor in the map, or panicked with it, and so never came to the call
\* of remove_from_processing (email_processing_task in tasks.rs).
THEOREM OnlyDropsAndPanicsLose == Spec => LostByDropOrPanic
<1> DEFINE Forgotten(i) ==
             \E w \in Workers :
                /\ entry[w] # None /\ entry[w].email_id = i
                /\ \/ worker_pc[w] = "popped" /\ active_processors[entry[w].user_email] = None
                   \/ worker_pc[w] = "prompt" /\ worker_pc'[w] = "panicked"
           Losses == \A i \in Lost' \ Lost : Forgotten(i)
<1>1. Inv /\ [Next]_pipelineVars => [Losses]_pipelineVars
  <2>1. SUFFICES ASSUME Inv, [Next]_pipelineVars PROVE Losses
    OBVIOUS
  <2>2. ASSUME NEW p \in Procs, Run(p) \/ Interrupted(p)
        PROVE  UNCHANGED <<handed_out, entry>>
    BY <2>2 DEF Run, Interrupted, ConfigureLabels, Tick, ReadProcessed, EndPush, ListMessages,
                PushNext, Push, queueVars, workerVars
  <2>3. ASSUME NEW w \in Workers, Work(w)
        PROVE  Losses
    <3>1. CASE \E e \in queue : PopEntry(w, e)
      BY <2>1, <3>1, PopLosesNone
    <3>2. CASE DropEntry(w)
      <4>1. /\ worker_pc[w] = "popped" /\ active_processors[entry[w].user_email] = None
            /\ entry' = [entry EXCEPT ![w] = None] /\ handed_out' = handed_out
        BY <3>2 DEF DropEntry, queueVars
      <4>2. QED
        BY <2>1, <4>1, ForgettingLosesOne
    <3>3. CASE Release(w)
      BY <2>1, <3>3, ReleaseLosesNone
    <3>4. CASE ~DropEntry(w) /\ ~Release(w) /\ ~\E e \in queue : PopEntry(w, e)
      <4>1. UNCHANGED <<handed_out, entry>>
        BY <2>3, <3>4 DEF Work, GetProcessor, PromptEmail, LabelEmail, RecordEmail, AddTally,
                          InsertTally, SelectTally, StoreTally, queueVars
      <4>2. QED
        BY <4>1, HoldersLoseNone
    <3>5. QED
      BY <3>1, <3>2, <3>3, <3>4
  <2>4. ASSUME NEW w \in Workers, Panic(w)
        PROVE  Losses
    <3>1. /\ worker_pc[w] = "prompt" /\ worker_pc' = [worker_pc EXCEPT ![w] = "panicked"]
          /\ entry' = [entry EXCEPT ![w] = None] /\ handed_out' = handed_out
      BY <2>4 DEF Panic, queueVars
    <3>2. worker_pc'[w] = "panicked"
      BY <2>1, <3>1 DEF Inv, WorkerTypeOK
    <3>3. QED
      BY <2>1, <3>1, <3>2, ForgettingLosesOne
  <2>5. CASE Restart
    BY <2>5 DEF Restart, New, Lost
  <2>6. CASE \E u \in Users, i \in Ids : Arrive(u, i)
    BY <2>6, HoldersLoseNone DEF Arrive, queueVars, workerVars
  <2>7. CASE Supervises \/ UNCHANGED pipelineVars
    BY <2>7, SupervisionFrame, HoldersLoseNone DEF queueVars, workerVars
  <2>8. QED
    BY <2>1, <2>2, <2>3, <2>4, <2>5, <2>6, <2>7, HoldersLoseNone, NextCases
<1>2. QED
  BY <1>1, Invariant, PTL DEF Spec, LostByDropOrPanic
=============================================================================
