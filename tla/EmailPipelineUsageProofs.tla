----------------------- MODULE EmailPipelineUsageProofs -----------------------
(***************************************************************************)
(* Proof that the tokens of recorded emails are charged (EmailPipeline,    *)
(* RecordedIsCharged), for every value of the constants.                   *)
(*                                                                         *)
(* RecordedIsCharged is not inductive: it allows a loser of the race for   *)
(* the row without knowing that there was a race.  Before a user has a row *)
(* nobody has lost; once there is one, the workers that are still about to *)
(* insert it are the ones that can lose, and nobody joins them.  Charged   *)
(* keeps the allowance of each of them until it has lost.                  *)
(***************************************************************************)
EXTENDS EmailPipelineProofs

Recorded(u) == {i \in Ids : processed_email[i] = u}
WorksFor(w, u) == owner[processor[w]] = u
Adding(u) == {w \in Workers : worker_pc[w] \in {"tally", "insert"} /\ WorksFor(w, u)}
Inserting(u) == {w \in Workers : worker_pc[w] = "insert" /\ WorksFor(w, u)}
\* Worker w changes its stage and keeps its processor.
MovesTo(w, pc) ==
    worker_pc' = [worker_pc EXCEPT ![w] = pc] /\ UNCHANGED <<owner, processor>>
Excused == failures + restarts * Cardinality(Workers)

\* With k emails in the row of a user: how many may be recorded.
Covered(k, recorded, adding, inserting, lost) ==
    IF k = 0 THEN recorded <= adding + lost
             ELSE recorded + inserting <= k + adding + lost + Cardinality(Workers) - 1

Charged(u) ==
    /\ IsFiniteSet(Recorded(u))
    /\ \E k \in Nat :
          /\ tokens_consumed[u] = TokensPerEmail * k
          /\ Covered(k, Cardinality(Recorded(u)), Cardinality(Adding(u)),
                     Cardinality(Inserting(u)), Excused)

UsageInv ==
    /\ failures \in Nat /\ restarts \in Nat
    /\ \A u \in Users : Charged(u)

-----------------------------------------------------------------------------
(* Counting workers. *)

LEMMA WorkersFinite ==
    /\ IsFiniteSet(Workers)
    /\ Cardinality(Workers) \in Nat /\ Cardinality(Workers) >= 1
BY PipelineAssumption, FS_CardinalityType, FS_EmptySet

LEMMA CountsFinite ==
    ASSUME NEW u
    PROVE  /\ IsFiniteSet(Adding(u)) /\ IsFiniteSet(Inserting(u))
           /\ Cardinality(Adding(u)) \in Nat /\ Cardinality(Inserting(u)) \in Nat
           /\ Cardinality(Adding(u)) <= Cardinality(Workers)
           /\ Cardinality(Inserting(u)) <= Cardinality(Adding(u))
<1>1. Adding(u) \in SUBSET Workers
  BY DEF Adding
<1>2. IsFiniteSet(Adding(u)) /\ Cardinality(Adding(u)) <= Cardinality(Workers)
  BY <1>1, WorkersFinite, FS_Subset
<1>3. Inserting(u) \in SUBSET Adding(u)
  BY DEF Inserting, Adding
<1>4. IsFiniteSet(Inserting(u)) /\ Cardinality(Inserting(u)) <= Cardinality(Adding(u))
  BY <1>2, <1>3, FS_Subset
<1>5. QED
  BY <1>2, <1>4, FS_CardinalityType

LEMMA CountFacts ==
    ASSUME UsageInv, NEW u \in Users
    PROVE  Cardinality(Recorded(u)) \in Nat /\ Excused \in Nat
<1>1. Cardinality(Recorded(u)) \in Nat
  BY FS_CardinalityType DEF UsageInv, Charged
<1>2. Excused \in Nat
  BY WorkersFinite DEF UsageInv, Excused
<1>3. QED
  BY <1>1, <1>2

\* Sets that differ in w at most.
LEMMA SameButOne ==
    ASSUME NEW S, NEW T, NEW w, IsFiniteSet(S), IsFiniteSet(T), S \ {w} = T \ {w}
    PROVE  /\ (w \in S <=> w \in T) => Cardinality(T) = Cardinality(S)
           /\ w \notin S /\ w \in T => Cardinality(T) = Cardinality(S) + 1
           /\ w \in S /\ w \notin T => Cardinality(T) = Cardinality(S) - 1
<1>1. Cardinality(S \ {w}) = IF w \in S THEN Cardinality(S) - 1 ELSE Cardinality(S)
  BY FS_RemoveElement
<1>2. Cardinality(T \ {w}) = IF w \in T THEN Cardinality(T) - 1 ELSE Cardinality(T)
  BY FS_RemoveElement
<1>3. Cardinality(S) \in Nat /\ Cardinality(T) \in Nat
  BY FS_CardinalityType
<1>4. QED
  BY <1>1, <1>2, <1>3

LEMMA AddedAtMostOne ==
    ASSUME NEW S, NEW T, NEW x, IsFiniteSet(S), T \subseteq S \cup {x}
    PROVE  /\ IsFiniteSet(T) /\ Cardinality(T) \in Nat
           /\ Cardinality(T) <= Cardinality(S) + 1
<1>1. /\ IsFiniteSet(S \cup {x}) /\ Cardinality(S) \in Nat
      /\ Cardinality(S \cup {x}) = IF x \in S THEN Cardinality(S) ELSE Cardinality(S) + 1
  BY FS_AddElement, FS_CardinalityType
<1>2. IsFiniteSet(T) /\ Cardinality(T) <= Cardinality(S \cup {x})
  BY <1>1, FS_Subset
<1>3. QED
  BY <1>1, <1>2, FS_CardinalityType

\* A worker that changes its stage counts for its user only.
LEMMA WorkerMoves ==
    ASSUME Inv, NEW w \in Workers, NEW pc, NEW u, MovesTo(w, pc)
    PROVE  /\ w \in Adding(u)' <=> pc \in {"tally", "insert"} /\ WorksFor(w, u)
           /\ w \in Inserting(u)' <=> pc = "insert" /\ WorksFor(w, u)
           /\ Adding(u)' \ {w} = Adding(u) \ {w}
           /\ Inserting(u)' \ {w} = Inserting(u) \ {w}
<1>1. \A v \in Workers : worker_pc'[v] = IF v = w THEN pc ELSE worker_pc[v]
  BY DEF Inv, WorkerTypeOK, MovesTo
<1>2. Adding(u)' =
        {v \in Workers : worker_pc'[v] \in {"tally", "insert"} /\ WorksFor(v, u)}
  BY DEF Adding, WorksFor, MovesTo
<1>3. Inserting(u)' = {v \in Workers : worker_pc'[v] = "insert" /\ WorksFor(v, u)}
  BY DEF Inserting, WorksFor, MovesTo
<1>4. QED
  BY <1>1, <1>2, <1>3 DEF Adding, Inserting

LEMMA OtherCounts ==
    ASSUME Inv, NEW w \in Workers, NEW pc, NEW u, ~WorksFor(w, u), MovesTo(w, pc)
    PROVE  Adding(u)' = Adding(u) /\ Inserting(u)' = Inserting(u)
<1>1. w \notin Adding(u) /\ w \notin Inserting(u)
  BY DEF Adding, Inserting
<1>2. w \notin Adding(u)' /\ w \notin Inserting(u)'
  BY WorkerMoves
<1>3. Adding(u)' \ {w} = Adding(u) \ {w} /\ Inserting(u)' \ {w} = Inserting(u) \ {w}
  BY WorkerMoves
<1>4. QED
  BY <1>1, <1>2, <1>3

\* What a step of w does to the counts of the user of its processor.
LEMMA OwnCounts ==
    ASSUME Inv, NEW w \in Workers, NEW pc, NEW u, WorksFor(w, u), MovesTo(w, pc)
    PROVE  /\ Cardinality(Adding(u))' =
                 Cardinality(Adding(u)) + (IF pc \in {"tally", "insert"} THEN 1 ELSE 0)
                 - (IF worker_pc[w] \in {"tally", "insert"} THEN 1 ELSE 0)
           /\ Cardinality(Inserting(u))' =
                 Cardinality(Inserting(u)) + (IF pc = "insert" THEN 1 ELSE 0)
                 - (IF worker_pc[w] = "insert" THEN 1 ELSE 0)
<1>1. /\ w \in Adding(u) <=> worker_pc[w] \in {"tally", "insert"}
      /\ w \in Inserting(u) <=> worker_pc[w] = "insert"
  BY DEF Adding, Inserting
<1>2. /\ w \in Adding(u)' <=> pc \in {"tally", "insert"}
      /\ w \in Inserting(u)' <=> pc = "insert"
      /\ Adding(u)' \ {w} = Adding(u) \ {w}
      /\ Inserting(u)' \ {w} = Inserting(u) \ {w}
  BY WorkerMoves
<1>3. IsFiniteSet(Adding(u)) /\ IsFiniteSet(Inserting(u))
  BY CountsFinite
<1>4. IsFiniteSet(Adding(u)') /\ IsFiniteSet(Inserting(u)')
  <2>1. Adding(u)' \in SUBSET Workers /\ Inserting(u)' \in SUBSET Workers
    BY DEF Adding, Inserting
  <2>2. QED
    BY <2>1, WorkersFinite, FS_Subset
<1>5. Cardinality(Adding(u)) \in Nat /\ Cardinality(Inserting(u)) \in Nat
  BY CountsFinite
<1>6. Cardinality(Adding(u)') =
        Cardinality(Adding(u)) + (IF pc \in {"tally", "insert"} THEN 1 ELSE 0)
        - (IF worker_pc[w] \in {"tally", "insert"} THEN 1 ELSE 0)
  BY <1>1, <1>2, <1>3, <1>4, <1>5, SameButOne
<1>7. Cardinality(Inserting(u)') =
        Cardinality(Inserting(u)) + (IF pc = "insert" THEN 1 ELSE 0)
        - (IF worker_pc[w] = "insert" THEN 1 ELSE 0)
  BY <1>1, <1>2, <1>3, <1>4, <1>5, SameButOne
<1>8. QED
  BY <1>6, <1>7

-----------------------------------------------------------------------------
(* Steps that neither record nor charge. *)

\* A step after which no more is recorded, no less is charged and as many
\* workers are on the way.
LEMMA CoveredFrame ==
    ASSUME NEW k \in Nat, NEW r \in Nat, NEW a \in Nat, NEW i \in Nat,
           NEW l \in Nat, NEW m \in Nat, l <= m, Covered(k, r, a, i, l)
    PROVE  Covered(k, r, a, i, m)
BY WorkersFinite DEF Covered

LEMMA LostGrows ==
    ASSUME UsageInv, failures' \in {failures, failures + 1}, restarts' = restarts
    PROVE  /\ failures' \in Nat /\ restarts' \in Nat
           /\ Excused' = Excused + (failures' - failures)
           /\ Excused \in Nat /\ Excused' \in Nat /\ Excused <= Excused'
<1>1. failures' \in Nat /\ restarts' \in Nat
  BY DEF UsageInv
<1>2. restarts * Cardinality(Workers) \in Nat
  BY WorkersFinite DEF UsageInv
<1>3. QED
  BY <1>1, <1>2, WorkersFinite DEF Excused, UsageInv

LEMMA ChargedFrame ==
    ASSUME UsageInv, NEW u \in Users, Excused <= Excused', Excused' \in Nat,
           Recorded(u)' = Recorded(u), tokens_consumed'[u] = tokens_consumed[u],
           Cardinality(Adding(u))' = Cardinality(Adding(u)),
           Cardinality(Inserting(u))' = Cardinality(Inserting(u))
    PROVE  Charged(u)'
<1>1. PICK k \in Nat : /\ tokens_consumed[u] = TokensPerEmail * k
                       /\ Covered(k, Cardinality(Recorded(u)), Cardinality(Adding(u)),
                                  Cardinality(Inserting(u)), Excused)
  BY DEF UsageInv, Charged
<1>2. Covered(k, Cardinality(Recorded(u)), Cardinality(Adding(u)),
              Cardinality(Inserting(u)), Excused')
  BY <1>1, CountFacts, CountsFinite, CoveredFrame
<1>3. Covered(k, Cardinality(Recorded(u))', Cardinality(Adding(u))',
              Cardinality(Inserting(u))', Excused')
  BY <1>2
<1>4. IsFiniteSet(Recorded(u)')
  BY DEF UsageInv, Charged
<1>5. QED
  BY <1>1, <1>3, <1>4 DEF Charged, Covered

\* The workers between the record and the row are the same, for the same
\* users.
LEMMA UsageFrame ==
    ASSUME UsageInv, UNCHANGED <<processed_email, tokens_consumed, restarts>>,
           failures' \in {failures, failures + 1},
           \A v \in Workers :
              /\ worker_pc'[v] = "tally" <=> worker_pc[v] = "tally"
              /\ worker_pc'[v] = "insert" <=> worker_pc[v] = "insert"
              /\ worker_pc[v] \in {"tally", "insert"} =>
                    owner'[processor'[v]] = owner[processor[v]]
    PROVE  UsageInv'
<1>1. \A u \in Users : /\ Adding(u)' = Adding(u) /\ Inserting(u)' = Inserting(u)
                        /\ Recorded(u)' = Recorded(u)
  BY DEF Adding, Inserting, WorksFor, Recorded
<1>2. \A u \in Users : Charged(u)'
  BY <1>1, LostGrows, ChargedFrame
<1>3. QED
  BY <1>2, LostGrows DEF UsageInv

LEMMA QuietStepKeepsUsage ==
    ASSUME Inv, UsageInv,
           \/ \E u \in Users, i \in Ids : Arrive(u, i)
           \/ \E j \in Jobs, u \in Users, tokens \in 0..DailyQuota, rules_changed \in BOOLEAN :
                 CheckProcessor(j, u, tokens, rules_changed)
           \/ \E j \in Jobs : CreateFails(j)
           \/ \E p \in Procs : Run(p) \/ Interrupted(p) \/ ExpireToken(p)
           \/ \E u \in Users : CollectStopped(u)
           \/ DropStopped \/ Watch
           \/ UNCHANGED pipelineVars
    PROVE  UsageInv'
<1>1. /\ UNCHANGED <<processed_email, tokens_consumed, restarts, worker_pc, processor, owner>>
      /\ failures' \in {failures, failures + 1}
  BY DEF Arrive, CheckProcessor, CreateFails, Run, ConfigureLabels, Tick, ReadProcessed, EndPush,
         ListMessages, PushNext, Interrupted, ExpireToken, CollectStopped, DropStopped, Watch, pipelineVars,
         dbVars, procVars, workerVars, boundVars, Works, Fails, ClientWorks, ClientFails
<1>2. QED
  BY <1>1, UsageFrame

\* A new processor is one that no worker uses.
LEMMA CreateProcessorKeepsUsage ==
    ASSUME Inv, UsageInv, NEW j \in Jobs, NEW p \in Procs, CreateProcessor(j, p)
    PROVE  UsageInv'
<1>1. /\ run_pc[p] = "none" /\ owner' = [owner EXCEPT ![p] = job[j]]
      /\ UNCHANGED <<processed_email, tokens_consumed, worker_pc, processor, failures, restarts>>
  BY DEF CreateProcessor, dbVars, workerVars, boundVars
<1>2. \A v \in Workers : worker_pc[v] \in {"tally", "insert"} =>
        processor[v] \in Procs /\ processor[v] # p
  BY <1>1 DEF Inv, Owned, WorkerTypeOK
<1>3. \A v \in Workers : worker_pc[v] \in {"tally", "insert"} =>
        owner'[processor'[v]] = owner[processor[v]]
  BY <1>1, <1>2 DEF Inv, MemoryTypeOK
<1>4. QED
  BY <1>1, <1>3, UsageFrame

\* The stages of a worker before the record and after the row.
LEMMA OtherStagesKeepUsage ==
    ASSUME Inv, UsageInv, NEW w \in Workers,
           \/ \E e \in queue : PopEntry(w, e)
           \/ DropEntry(w) \/ GetProcessor(w) \/ PromptEmail(w)
           \/ \E state \in MailState : LabelEmail(w, state)
           \/ SelectTally(w) \/ StoreTally(w) \/ Release(w) \/ Panic(w)
    PROVE  UsageInv'
<1>1. /\ UNCHANGED <<processed_email, tokens_consumed, restarts, owner>>
      /\ failures' \in {failures, failures + 1}
      /\ worker_pc[w] \notin {"tally", "insert"}
  BY DEF PopEntry, DropEntry, GetProcessor, PromptEmail, LabelEmail, SelectTally, StoreTally,
         Release, Panic, dbVars, procVars, boundVars, Works, Fails, ClientWorks, ClientFails
<1>2. \E pc \in WorkerPC \ {"tally", "insert"} : worker_pc' = [worker_pc EXCEPT ![w] = pc]
  BY DEF PopEntry, DropEntry, GetProcessor, PromptEmail, LabelEmail, SelectTally, StoreTally,
         Release, Panic, WorkerPC
<1>3. \A v \in Workers : v # w => processor'[v] = processor[v]
  BY DEF PopEntry, DropEntry, GetProcessor, PromptEmail, LabelEmail, SelectTally, StoreTally,
         Release, Panic, workerVars, Inv, WorkerTypeOK
<1>4. QED
  BY <1>1, <1>2, <1>3, UsageFrame DEF Inv, WorkerTypeOK

-----------------------------------------------------------------------------
(* record_processed_email and add_to_daily_quota. *)

LEMMA TokenFacts ==
    ASSUME NEW k \in Nat
    PROVE  /\ TokensPerEmail \in Nat /\ TokensPerEmail >= 1
           /\ TokensPerEmail * k \in Nat
           /\ TokensPerEmail * k = 0 <=> k = 0
           /\ TokensPerEmail * (k + 1) = TokensPerEmail * k + TokensPerEmail
BY PipelineAssumption

LEMMA TimesMonotone ==
    ASSUME NEW r \in Nat, NEW k \in Nat, NEW e \in Nat, r <= k + e
    PROVE  TokensPerEmail * r <= TokensPerEmail * k + TokensPerEmail * e
<1>1. TokensPerEmail \in Nat
  BY TokenFacts
<1>2. PICK d \in Nat : k + e = r + d
  <2>1. k + e - r \in Nat /\ k + e = r + (k + e - r)
    OBVIOUS
  <2>2. QED
    BY <2>1
<1>3. TokensPerEmail * (k + e) = TokensPerEmail * k + TokensPerEmail * e
  BY <1>1
<1>4. TokensPerEmail * (r + d) = TokensPerEmail * r + TokensPerEmail * d
  BY <1>1, <1>2
<1>5. TokensPerEmail * d \in Nat /\ TokensPerEmail * r \in Nat
  BY <1>1, <1>2
<1>6. QED
  BY <1>2, <1>3, <1>4, <1>5

\* A step of w changes the counts of the user of its processor only.
LEMMA OthersCharged ==
    ASSUME Inv, UsageInv, NEW w \in Workers, NEW pc, NEW u \in Users, ~WorksFor(w, u),
           MovesTo(w, pc), restarts' = restarts, failures' \in {failures, failures + 1},
           tokens_consumed'[u] = tokens_consumed[u], Recorded(u)' = Recorded(u)
    PROVE  Charged(u)'
<1>1. /\ Cardinality(Adding(u))' = Cardinality(Adding(u))
      /\ Cardinality(Inserting(u))' = Cardinality(Inserting(u))
  BY OtherCounts
<1>2. QED
  BY <1>1, LostGrows, ChargedFrame

LEMMA RecordKeepsCharged ==
    ASSUME Inv, UsageInv, NEW w \in Workers, RecordEmail(w), NEW u \in Users, WorksFor(w, u)
    PROVE  Charged(u)'
<1>1. /\ worker_pc[w] = "record" /\ restarts' = restarts /\ tokens_consumed' = tokens_consumed
      /\ \/ /\ MovesTo(w, "tally") /\ failures' = failures
            /\ processed_email' = [processed_email EXCEPT ![entry[w].email_id] =
                                     IF @ = None THEN owner[processor[w]] ELSE @]
         \/ /\ MovesTo(w, "release") /\ failures' = failures + 1
            /\ processed_email' = processed_email
  BY DEF RecordEmail, MovesTo, Works, Fails
<1>2. CASE /\ MovesTo(w, "release") /\ failures' = failures + 1
           /\ processed_email' = processed_email
  <2>1. /\ Cardinality(Adding(u))' = Cardinality(Adding(u))
        /\ Cardinality(Inserting(u))' = Cardinality(Inserting(u))
    BY <1>1, <1>2, OwnCounts, CountsFinite
  <2>2. Recorded(u)' = Recorded(u)
    BY <1>2 DEF Recorded
  <2>3. QED
    BY <1>1, <1>2, <2>1, <2>2, LostGrows, ChargedFrame
<1>3. CASE /\ MovesTo(w, "tally") /\ failures' = failures
           /\ processed_email' = [processed_email EXCEPT ![entry[w].email_id] =
                                    IF @ = None THEN owner[processor[w]] ELSE @]
  <2> DEFINE i == entry[w].email_id
  <2>1. Recorded(u)' \subseteq Recorded(u) \cup {i}
    <3>1. i \in Ids
      BY <1>1, HeldFacts DEF Inv
    <3>2. QED
      BY <1>3, <3>1 DEF Recorded, Inv, DatabaseTypeOK
  <2>2. /\ IsFiniteSet(Recorded(u)')
        /\ Cardinality(Recorded(u)') \in Nat
        /\ Cardinality(Recorded(u)') <= Cardinality(Recorded(u)) + 1
    BY <2>1, AddedAtMostOne DEF UsageInv, Charged
  <2>3. /\ Cardinality(Adding(u))' = Cardinality(Adding(u)) + 1
        /\ Cardinality(Inserting(u))' = Cardinality(Inserting(u))
    BY <1>1, <1>3, OwnCounts, CountsFinite
  <2>4. Excused' = Excused
    BY <1>1, <1>3 DEF Excused
  <2>5. PICK k \in Nat : /\ tokens_consumed[u] = TokensPerEmail * k
                         /\ Covered(k, Cardinality(Recorded(u)), Cardinality(Adding(u)),
                                    Cardinality(Inserting(u)), Excused)
    BY DEF UsageInv, Charged
  <2>6. Covered(k, Cardinality(Recorded(u)'), Cardinality(Adding(u))',
                Cardinality(Inserting(u))', Excused')
    BY <2>2, <2>3, <2>4, <2>5, CountFacts, CountsFinite, WorkersFinite DEF Covered
  <2>7. QED
    BY <1>1, <2>2, <2>5, <2>6 DEF Charged, Covered
<1>4. QED
  BY <1>1, <1>2, <1>3

LEMMA RecordKeepsUsage ==
    ASSUME Inv, UsageInv, NEW w \in Workers, RecordEmail(w)
    PROVE  UsageInv'
<1>1. /\ restarts' = restarts /\ failures' \in {failures, failures + 1}
      /\ tokens_consumed' = tokens_consumed
      /\ MovesTo(w, "tally") \/ MovesTo(w, "release")
  BY DEF RecordEmail, Works, Fails, MovesTo
<1>2. ASSUME NEW u \in Users PROVE Charged(u)'
  <2>1. CASE WorksFor(w, u)
    BY <2>1, RecordKeepsCharged
  <2>2. CASE ~WorksFor(w, u)
    <3>1. Recorded(u)' = Recorded(u)
      BY <2>2, NoneFacts DEF RecordEmail, Recorded, Inv, DatabaseTypeOK, WorksFor
    <3>2. QED
      BY <1>1, <2>2, <3>1, OthersCharged
  <2>3. QED
    BY <2>1, <2>2
<1>3. QED
  BY <1>1, <1>2, LostGrows DEF UsageInv

\* The lookup: without a row the worker goes on to insert one, with a row its
\* tokens are added.
LEMMA AddKeepsCharged ==
    ASSUME Inv, UsageInv, NEW w \in Workers, AddTally(w), NEW u \in Users, WorksFor(w, u)
    PROVE  Charged(u)'
<1>1. /\ worker_pc[w] = "tally" /\ restarts' = restarts /\ Recorded(u)' = Recorded(u)
      /\ \/ /\ MovesTo(w, "insert") /\ failures' = failures
            /\ tokens_consumed[u] = 0 /\ tokens_consumed' = tokens_consumed
         \/ /\ MovesTo(w, "select") /\ failures' = failures
            /\ tokens_consumed[u] # 0
            /\ tokens_consumed' = [tokens_consumed EXCEPT ![u] = @ + TokensPerEmail]
         \/ /\ MovesTo(w, "release") /\ failures' = failures + 1
            /\ tokens_consumed' = tokens_consumed
  BY DEF AddTally, MovesTo, Works, Fails, WorksFor, Recorded, procVars
<1>2. PICK k \in Nat : /\ tokens_consumed[u] = TokensPerEmail * k
                       /\ Covered(k, Cardinality(Recorded(u)), Cardinality(Adding(u)),
                                  Cardinality(Inserting(u)), Excused)
  BY DEF UsageInv, Charged
<1>3. IsFiniteSet(Recorded(u)')
  BY <1>1 DEF UsageInv, Charged
<1>4. ASSUME NEW n \in Nat, tokens_consumed'[u] = TokensPerEmail * n,
             Covered(n, Cardinality(Recorded(u)), Cardinality(Adding(u))',
                     Cardinality(Inserting(u))', Excused')
      PROVE  Charged(u)'
  BY <1>1, <1>3, <1>4 DEF Charged, Covered
<1>5. CASE MovesTo(w, "insert") /\ failures' = failures
           /\ tokens_consumed[u] = 0 /\ tokens_consumed' = tokens_consumed
  <2>1. k = 0
    BY <1>2, <1>5, TokenFacts
  <2>2. Cardinality(Adding(u))' = Cardinality(Adding(u)) /\ Excused' = Excused
    BY <1>1, <1>5, OwnCounts, CountsFinite DEF Excused
  <2>3. Covered(k, Cardinality(Recorded(u)), Cardinality(Adding(u))',
                Cardinality(Inserting(u))', Excused')
    BY <1>2, <2>1, <2>2 DEF Covered
  <2>4. QED
    BY <1>2, <1>4, <1>5, <2>3
<1>6. CASE MovesTo(w, "select") /\ failures' = failures /\ tokens_consumed[u] # 0
           /\ tokens_consumed' = [tokens_consumed EXCEPT ![u] = @ + TokensPerEmail]
  <2>1. k # 0
    BY <1>2, <1>6, TokenFacts
  <2>2. /\ Cardinality(Adding(u))' = Cardinality(Adding(u)) - 1
        /\ Cardinality(Inserting(u))' = Cardinality(Inserting(u))
        /\ Excused' = Excused
    BY <1>1, <1>6, OwnCounts, CountsFinite DEF Excused
  <2>3. tokens_consumed'[u] = TokensPerEmail * (k + 1)
    BY <1>2, <1>6, TokenFacts DEF Inv, DatabaseTypeOK
  <2>4. Covered(k + 1, Cardinality(Recorded(u)), Cardinality(Adding(u))',
                Cardinality(Inserting(u))', Excused')
    BY <1>2, <2>1, <2>2, CountFacts, CountsFinite, WorkersFinite DEF Covered
  <2>5. QED
    BY <1>4, <2>3, <2>4
<1>7. CASE MovesTo(w, "release") /\ failures' = failures + 1
           /\ tokens_consumed' = tokens_consumed
  <2>1. /\ Cardinality(Adding(u))' = Cardinality(Adding(u)) - 1
        /\ Cardinality(Inserting(u))' = Cardinality(Inserting(u))
        /\ Excused' = Excused + 1
    BY <1>1, <1>7, OwnCounts, CountsFinite, LostGrows DEF UsageInv
  <2>2. Covered(k, Cardinality(Recorded(u)), Cardinality(Adding(u))',
                Cardinality(Inserting(u))', Excused')
    BY <1>2, <2>1, CountFacts, CountsFinite, WorkersFinite DEF Covered
  <2>3. QED
    BY <1>2, <1>4, <1>7, <2>2
<1>8. QED
  BY <1>1, <1>5, <1>6, <1>7

\* The race for the row: the winner starts it, and each loser leaves the
\* workers that are about to insert.
LEMMA InsertKeepsCharged ==
    ASSUME Inv, UsageInv, NEW w \in Workers, InsertTally(w), NEW u \in Users, WorksFor(w, u)
    PROVE  Charged(u)'
<1>1. /\ worker_pc[w] = "insert" /\ restarts' = restarts /\ Recorded(u)' = Recorded(u)
      /\ \/ /\ MovesTo(w, "select") /\ failures' = failures /\ tokens_consumed[u] = 0
            /\ tokens_consumed' = [tokens_consumed EXCEPT ![u] = TokensPerEmail]
         \/ /\ MovesTo(w, "release") /\ tokens_consumed' = tokens_consumed
            /\ \/ tokens_consumed[u] # 0 /\ failures' = failures
               \/ failures' = failures + 1
  BY DEF InsertTally, MovesTo, Works, Fails, WorksFor, Recorded, procVars
<1>2. PICK k \in Nat : /\ tokens_consumed[u] = TokensPerEmail * k
                       /\ Covered(k, Cardinality(Recorded(u)), Cardinality(Adding(u)),
                                  Cardinality(Inserting(u)), Excused)
  BY DEF UsageInv, Charged
<1>3. IsFiniteSet(Recorded(u)')
  BY <1>1 DEF UsageInv, Charged
<1>4. ASSUME NEW n \in Nat, tokens_consumed'[u] = TokensPerEmail * n,
             Covered(n, Cardinality(Recorded(u)), Cardinality(Adding(u))',
                     Cardinality(Inserting(u))', Excused')
      PROVE  Charged(u)'
  BY <1>1, <1>3, <1>4 DEF Charged, Covered
<1>5. ASSUME NEW pc \in {"select", "release"}, MovesTo(w, pc)
      PROVE  /\ Cardinality(Adding(u))' = Cardinality(Adding(u)) - 1
             /\ Cardinality(Inserting(u))' = Cardinality(Inserting(u)) - 1
  BY <1>1, <1>5, OwnCounts, CountsFinite
<1>6. CASE /\ MovesTo(w, "select") /\ failures' = failures /\ tokens_consumed[u] = 0
           /\ tokens_consumed' = [tokens_consumed EXCEPT ![u] = TokensPerEmail]
  <2>1. k = 0 /\ Excused' = Excused
    BY <1>1, <1>2, <1>6, TokenFacts DEF Excused
  <2>2. tokens_consumed'[u] = TokensPerEmail * 1
    BY <1>6, TokenFacts DEF Inv, DatabaseTypeOK
  <2>3. Covered(1, Cardinality(Recorded(u)), Cardinality(Adding(u))',
                Cardinality(Inserting(u))', Excused')
    BY <1>2, <1>5, <1>6, <2>1, CountFacts, CountsFinite, WorkersFinite DEF Covered
  <2>4. QED
    BY <1>4, <2>2, <2>3
<1>7. CASE /\ MovesTo(w, "release") /\ tokens_consumed' = tokens_consumed
           /\ tokens_consumed[u] # 0 /\ failures' = failures
  <2>1. k # 0 /\ Excused' = Excused
    BY <1>1, <1>2, <1>7, TokenFacts DEF Excused
  <2>2. Covered(k, Cardinality(Recorded(u)), Cardinality(Adding(u))',
                Cardinality(Inserting(u))', Excused')
    BY <1>2, <1>5, <1>7, <2>1, CountFacts, CountsFinite, WorkersFinite DEF Covered
  <2>3. QED
    BY <1>2, <1>4, <1>7, <2>2
<1>8. CASE MovesTo(w, "release") /\ tokens_consumed' = tokens_consumed /\ failures' = failures + 1
  <2>1. Excused' = Excused + 1
    BY <1>1, <1>8, LostGrows DEF UsageInv
  <2>2. Covered(k, Cardinality(Recorded(u)), Cardinality(Adding(u))',
                Cardinality(Inserting(u))', Excused')
    BY <1>2, <1>5, <1>8, <2>1, CountFacts, CountsFinite, WorkersFinite DEF Covered
  <2>3. QED
    BY <1>2, <1>4, <1>8, <2>2
<1>9. QED
  BY <1>1, <1>6, <1>7, <1>8

LEMMA TallyKeepsUsage ==
    ASSUME Inv, UsageInv, NEW w \in Workers, AddTally(w) \/ InsertTally(w)
    PROVE  UsageInv'
<1>1. /\ restarts' = restarts /\ failures' \in {failures, failures + 1}
      /\ processed_email' = processed_email
      /\ MovesTo(w, "insert") \/ MovesTo(w, "select") \/ MovesTo(w, "release")
  BY DEF AddTally, InsertTally, Works, Fails, MovesTo, procVars
<1>2. ASSUME NEW u \in Users PROVE Charged(u)'
  <2>1. CASE WorksFor(w, u)
    BY <2>1, AddKeepsCharged, InsertKeepsCharged
  <2>2. CASE ~WorksFor(w, u)
    <3>1. tokens_consumed'[u] = tokens_consumed[u]
      BY <2>2 DEF AddTally, InsertTally, Inv, DatabaseTypeOK, WorksFor
    <3>2. Recorded(u)' = Recorded(u)
      BY <1>1 DEF Recorded
    <3>3. QED
      BY <1>1, <2>2, <3>1, <3>2, OthersCharged
  <2>3. QED
    BY <2>1, <2>2
<1>3. QED
  BY <1>1, <1>2, LostGrows DEF UsageInv

-----------------------------------------------------------------------------
(* Restarts, and the invariant. *)

\* A restart ends every worker, and each may have been about to add.
LEMMA RestartKeepsUsage ==
    ASSUME Inv, UsageInv, Restart
    PROVE  UsageInv'
<1>1. /\ restarts' = restarts + 1 /\ failures' = failures
      /\ processed_email' = processed_email /\ tokens_consumed' = tokens_consumed
      /\ worker_pc' = [w \in Workers |-> "idle"]
  BY DEF Restart, MemoryInit, dbVars
<1>2. Excused' = Excused + Cardinality(Workers) /\ Excused \in Nat
  BY <1>1, WorkersFinite DEF Excused, UsageInv
<1>3. ASSUME NEW u \in Users PROVE Charged(u)'
  <2>1. Adding(u)' = {} /\ Inserting(u)' = {}
    BY <1>1 DEF Adding, Inserting
  <2>2. Cardinality(Adding(u))' = 0 /\ Cardinality(Inserting(u))' = 0
    BY <2>1, FS_EmptySet
  <2>3. Recorded(u)' = Recorded(u)
    BY <1>1 DEF Recorded
  <2>4. PICK k \in Nat : /\ tokens_consumed[u] = TokensPerEmail * k
                         /\ Covered(k, Cardinality(Recorded(u)), Cardinality(Adding(u)),
                                    Cardinality(Inserting(u)), Excused)
    BY DEF UsageInv, Charged
  <2>5. Covered(k, Cardinality(Recorded(u)), Cardinality(Adding(u))',
                Cardinality(Inserting(u))', Excused')
    BY <1>2, <2>2, <2>4, CountFacts, CountsFinite, WorkersFinite DEF Covered
  <2>6. IsFiniteSet(Recorded(u)')
    BY <2>3 DEF UsageInv, Charged
  <2>7. QED
    BY <1>1, <2>3, <2>4, <2>5, <2>6 DEF Charged, Covered
<1>4. QED
  BY <1>1, <1>3 DEF UsageInv

LEMMA InitUsage == Init => UsageInv
<1>1. SUFFICES ASSUME Init PROVE UsageInv
  OBVIOUS
<1>2. ASSUME NEW u \in Users PROVE Charged(u)
  <2>1. Recorded(u) = {} /\ Adding(u) = {} /\ Inserting(u) = {}
    BY <1>1, NoneFacts DEF Init, MemoryInit, Recorded, Adding, Inserting
  <2>2. /\ IsFiniteSet(Recorded(u)) /\ Cardinality(Recorded(u)) = 0
        /\ Cardinality(Adding(u)) = 0 /\ Cardinality(Inserting(u)) = 0
    BY <2>1, FS_EmptySet
  <2>3. Excused = 0
    BY <1>1, WorkersFinite DEF Init, Excused
  <2>4. tokens_consumed[u] = TokensPerEmail * 0
    BY <1>1, TokenFacts DEF Init
  <2>5. QED
    BY <2>2, <2>3, <2>4 DEF Charged, Covered
<1>3. QED
  BY <1>1, <1>2 DEF Init, UsageInv

LEMMA NextUsage == Inv /\ UsageInv /\ [Next]_pipelineVars => UsageInv'
<1>1. SUFFICES ASSUME Inv, UsageInv, [Next]_pipelineVars PROVE UsageInv'
  OBVIOUS
<1>2. ASSUME NEW w \in Workers, Work(w) \/ Panic(w) PROVE UsageInv'
  BY <1>1, <1>2, OtherStagesKeepUsage, RecordKeepsUsage, TallyKeepsUsage DEF Work
<1>3. QED
  BY <1>1, <1>2, QuietStepKeepsUsage, CreateProcessorKeepsUsage, RestartKeepsUsage DEF Next

\* The counts of a charged user satisfy the bound of RecordedIsCharged.
LEMMA ChargedBound == UsageInv => RecordedIsCharged
<1>1. SUFFICES ASSUME UsageInv, NEW u \in Users
               PROVE  TokensPerEmail * Cardinality(Recorded(u))
                        <= tokens_consumed[u]
                           + TokensPerEmail * (Cardinality(Adding(u)) + failures
                                               + restarts * Cardinality(Workers)
                                               + (Cardinality(Workers) - 1))
  BY DEF RecordedIsCharged, Recorded, Adding, WorksFor
<1>2. PICK k \in Nat : /\ tokens_consumed[u] = TokensPerEmail * k
                       /\ Covered(k, Cardinality(Recorded(u)), Cardinality(Adding(u)),
                                  Cardinality(Inserting(u)), Excused)
  BY <1>1 DEF UsageInv, Charged
<1> DEFINE excused == Cardinality(Adding(u)) + Excused + (Cardinality(Workers) - 1)
<1>3. excused \in Nat /\ Cardinality(Recorded(u)) \in Nat
  BY <1>1, CountFacts, CountsFinite, WorkersFinite
<1>4. Cardinality(Recorded(u)) <= k + excused
  BY <1>1, <1>2, CountFacts, CountsFinite, WorkersFinite DEF Covered
<1>5. TokensPerEmail * Cardinality(Recorded(u)) <= TokensPerEmail * k + TokensPerEmail * excused
  BY <1>3, <1>4, TimesMonotone
<1>6. excused = Cardinality(Adding(u)) + failures + restarts * Cardinality(Workers)
                + (Cardinality(Workers) - 1)
  BY <1>1, CountsFinite, WorkersFinite DEF Excused, UsageInv
<1>7. QED
  BY <1>2, <1>5, <1>6

\* Whatever the workers of a user interleave, and whichever calls fail and
\* restarts happen between the record of an email and its tally
\* (processor.rs, run_processor_pipeline; user_token_usage.rs,
\* add_to_daily_quota), what is missing from the user's row is at most an
\* email for each of them and for each loser of the race for the row.
THEOREM RecordedEmailsAreCharged == Spec => []RecordedIsCharged
<1>1. Spec => []UsageInv
  BY InitUsage, NextUsage, Invariant, PTL DEF Spec
<1>2. QED
  BY <1>1, ChargedBound, PTL
==============================================================================
