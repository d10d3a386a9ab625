-------------------------- MODULE EmailRulesProofs --------------------------
(***************************************************************************)
(* Proofs about RuleChoice and EmailRules, for any rules, jobs and         *)
(* workers.                                                                *)
(***************************************************************************)
EXTENDS EmailRules, TLAPS

-----------------------------------------------------------------------------
(* The operators of RuleChoice *)

LEMMA DefaultRulesAreRules == DefaultEmailRules \subseteq Rule
<1>1. \A i \in DOMAIN DefaultRules : DefaultRules[i] \in Rule
  BY RulesAssumption
<1> QED BY <1>1 DEF DefaultEmailRules

LEMMA OverriddenType ==
    ASSUME NEW r \in Rule, NEW row \in Override
    PROVE  Overridden(r, row) \in Rule /\ Overridden(r, row).mail_label = r.mail_label
BY DEF Overridden, Rule, Override

LEMMA DefaultLabels ==
    ASSUME NEW r \in DefaultEmailRules PROVE r.mail_label \in Categories
BY DEF DefaultEmailRules, Categories

\* What is built are rules, and a disabled category is not among them.
LEMMA BuiltRules ==
    ASSUME NEW ov \in [Categories -> Override], NEW cu \in SUBSET Rule
    PROVE  /\ BuildCategoryRules(ov, cu) \in RuleData
           /\ BuildCategoryRules(ov, cu).custom = cu
           /\ \A l \in Categories :
                ov[l].is_disabled => l \notin LabelsOf(BuildCategoryRules(ov, cu).default)
<1> DEFINE data == BuildCategoryRules(ov, cu)
<1>1. data.custom = cu /\ data = [custom |-> data.custom, default |-> data.default]
  BY DEF BuildCategoryRules
<1>2. data.default = {Overridden(r, ov[r.mail_label]) :
          r \in {r \in DefaultEmailRules : ~ov[r.mail_label].is_disabled}}
  BY DEF BuildCategoryRules
<1>3. \A r \in DefaultEmailRules :
        /\ Overridden(r, ov[r.mail_label]) \in Rule
        /\ Overridden(r, ov[r.mail_label]).mail_label = r.mail_label
  BY DefaultRulesAreRules, OverriddenType, DefaultLabels
<1>4. data.default \subseteq Rule
  BY <1>2, <1>3
<1>5. ASSUME NEW l \in Categories, ov[l].is_disabled, l \in LabelsOf(data.default)
      PROVE  FALSE
  BY <1>2, <1>3, <1>5 DEF LabelsOf
<1> HIDE DEF data
<1>6. data \in RuleData
  BY <1>1, <1>4 DEF RuleData
<1> QED BY <1>1, <1>5, <1>6 DEF data

\* Whatever is selected comes from the rules of the user, a heuristic or nowhere.
LEMMA SelectedRules ==
    ASSUME NEW data \in RuleData, NEW answer, NEW confident \in BOOLEAN,
           NEW sender \in Senders, NEW r \in Selected(data, answer, confident, sender)
    PROVE  /\ r \in data.custom \cup data.default \cup HeuristicRules \cup {UnknownRule}
           /\ r \in Rule
<1>0. PICK f \in Found(data, answer) : \E h \in AfterHeuristics(f, sender) :
        r = AfterConfidence(h, answer, confident)
  BY DEF Selected
<1>1. PICK h \in AfterHeuristics(f, sender) : r = AfterConfidence(h, answer, confident)
  BY <1>0
<1>2. f \in data.custom \cup data.default \cup {UnknownRule}
  BY <1>1 DEF Found, Answering
<1>3. HeuristicOf[sender] \subseteq HeuristicRules
  BY RulesAssumption
<1>4. h \in data.custom \cup data.default \cup HeuristicRules \cup {UnknownRule}
  BY <1>1, <1>2, <1>3 DEF AfterHeuristics
<1>5. r \in data.custom \cup data.default \cup HeuristicRules \cup {UnknownRule}
  BY <1>1, <1>4 DEF AfterConfidence
<1> QED BY <1>5, RulesAssumption DEF RuleData

\* Every rule an email may be filed under has a label that is asked for.
LEMMA SelectedIsRequired ==
    ASSUME NEW data \in RuleData, NEW answer, NEW confident \in BOOLEAN,
           NEW sender \in Senders, NEW r \in Selected(data, answer, confident, sender)
    PROVE  r.mail_label \in RequiredLabels(data)
<1>1. r \in data.custom \cup data.default \cup HeuristicRules \cup {UnknownRule}
  BY SelectedRules
<1> QED BY <1>1 DEF RequiredLabels, ConfiguredLabels, CustomLabels, LabelsOf

-----------------------------------------------------------------------------
(* Types *)

LEMMA IdleTypes == IdleJob \in Job /\ IdleWorker \in Worker /\ NoProcessor \in Processor
<1>1. NoOverride \in Override /\ NoRules \in RuleData
  BY DEF NoOverride, Override, NoRules, RuleData
<1>2. IdleJob \in Job
  BY <1>1 DEF IdleJob, Job, JobPC
<1>3. (CHOOSE s \in Senders : TRUE) \in Senders /\ UnknownRule.prompt_content \in Answers
  BY RulesAssumption DEF Rule
<1>4. IdleWorker \in Worker
  BY <1>1, <1>3, RulesAssumption DEF IdleWorker, Worker, WorkerPC
<1>5. NoProcessor \in Processor
  BY <1>1 DEF NoProcessor, Processor
<1> QED BY <1>2, <1>4, <1>5

LEMMA RowsAreRows ==
    /\ \A l \in Categories : OverrideRow(l) \in Rows
    /\ \A r \in CustomRules : CustomRow(r) \in Rows
BY DEF Rows, OverrideRow, CustomRow

\* A write or a deletion touches the times and the ghosts of the jobs.
LEMMA EditTypes ==
    ASSUME TypeOK, NEW row \in Rows, Write(row) \/ Delete(row)
    PROVE  /\ updated_at' \in [Rows -> Nat] /\ now' \in Nat /\ failures' \in Nat
           /\ processor' \in Processor /\ worker' \in [Workers -> Worker]
           /\ job' \in [Jobs -> Job]
           /\ \A j \in Jobs : job'[j].pc # "create" => job'[j].read = {} /\ ~job'[j].blind
<1>1. updated_at \in [Rows -> Nat] /\ now \in Nat /\ now' = now + 1
  BY DEF TypeOK, Write, Delete
<1>2. updated_at' \in [Rows -> Nat]
  BY <1>1 DEF Write, Delete
<1>3. job' = [j \in Jobs |-> [job[j] EXCEPT !.blind = @ \/ row.table \in job[j].read]]
  BY DEF Write, Delete
<1>4. ASSUME NEW j \in Jobs
      PROVE  /\ job'[j] \in Job
             /\ job'[j].pc # "create" => job'[j].read = {} /\ ~job'[j].blind
  <2>1. job[j] \in Job /\ (job[j].pc # "create" => job[j].read = {} /\ ~job[j].blind)
    BY DEF TypeOK
  <2>2. job'[j] = [job[j] EXCEPT !.blind = job[j].blind \/ row.table \in job[j].read]
    BY <1>3
  <2>3. (job[j].blind \/ row.table \in job[j].read) \in BOOLEAN
    BY <2>1
  <2>4. job'[j] \in Job
    BY <2>1, <2>2, <2>3 DEF Job
  <2> QED BY <2>1, <2>2, <2>4 DEF Job
<1>5. processor' \in Processor
  <2>1. CASE Write(row)
    BY <2>1 DEF Write, TypeOK
  <2>2. CASE Delete(row)
    BY <2>2 DEF Delete, TypeOK, Processor
  <2> QED BY <2>1, <2>2
<1>6. worker' \in [Workers -> Worker] /\ failures' \in Nat
  BY DEF Write, Delete, TypeOK
<1>7. job' \in [Jobs -> Job]
  BY <1>3, <1>4
<1> QED BY <1>1, <1>2, <1>4, <1>5, <1>6, <1>7

\* One job or one worker gets another state.
LEMMA JobStored ==
    ASSUME job \in [Jobs -> Job], NEW j \in Jobs, NEW new \in Job,
           \A i \in Jobs : job[i].pc # "create" => job[i].read = {} /\ ~job[i].blind,
           new.pc # "create" => new.read = {} /\ ~new.blind,
           job' = [job EXCEPT ![j] = new]
    PROVE  /\ job' \in [Jobs -> Job]
           /\ \A i \in Jobs : job'[i].pc # "create" => job'[i].read = {} /\ ~job'[i].blind
OBVIOUS

LEMMA WorkerStored ==
    ASSUME worker \in [Workers -> Worker], NEW w \in Workers, NEW new \in Worker,
           worker' = [worker EXCEPT ![w] = new]
    PROVE  worker' \in [Workers -> Worker]
OBVIOUS

\* The variables have the types of rows and structs, for any rules, jobs and
\* workers, and a job holds what it has read only while it makes a processor.
THEOREM RulesTyping == Spec => []TypeOK
<1> USE RulesAssumption, EmailRulesAssumption
<1>1. Init => TypeOK
  <2> SUFFICES ASSUME Init PROVE TypeOK
    OBVIOUS
  <2>1. NoOverride \in Override
    BY DEF NoOverride, Override
  <2>2. job \in [Jobs -> Job] /\ worker \in [Workers -> Worker] /\ processor \in Processor
    BY IdleTypes DEF Init
  <2>3. \A j \in Jobs : job[j].read = {} /\ ~job[j].blind
    BY DEF Init, IdleJob
  <2> QED BY <2>1, <2>2, <2>3 DEF Init, TypeOK
<1>2. TypeOK /\ [Next]_vars => TypeOK'
  <2> SUFFICES ASSUME TypeOK, [Next]_vars PROVE TypeOK'
    OBVIOUS
  <2>0. /\ overrides \in [Categories -> Override] /\ custom \subseteq CustomRules
        /\ processor \in Processor /\ job \in [Jobs -> Job] /\ now \in Nat
        /\ worker \in [Workers -> Worker] /\ updated_at \in [Rows -> Nat] /\ failures \in Nat
        /\ \A j \in Jobs : job[j].pc # "create" => job[j].read = {} /\ ~job[j].blind
    BY DEF TypeOK
  <2>1. ASSUME NEW l \in Categories, NEW o \in Overrides, WriteOverride(l, o) PROVE TypeOK'
    <3>1. overrides' \in [Categories -> Override] /\ custom' = custom /\ Write(OverrideRow(l))
      BY <2>0, <2>1 DEF WriteOverride
    <3> QED BY <3>1, <2>0, EditTypes, RowsAreRows DEF TypeOK
  <2>2. ASSUME NEW l \in Categories, DeleteOverride(l) PROVE TypeOK'
    <3>1. overrides' \in [Categories -> Override] /\ custom' = custom /\ Delete(OverrideRow(l))
      BY <2>0, <2>2 DEF DeleteOverride, NoOverride, Override
    <3> QED BY <3>1, <2>0, EditTypes, RowsAreRows DEF TypeOK
  <2>3. ASSUME NEW r \in CustomRules, AddCustomRule(r) PROVE TypeOK'
    <3>1. overrides' = overrides /\ custom' \subseteq CustomRules /\ Write(CustomRow(r))
      BY <2>0, <2>3 DEF AddCustomRule
    <3> QED BY <3>1, <2>0, EditTypes, RowsAreRows DEF TypeOK
  <2>4. ASSUME NEW r \in CustomRules, DeleteCustomRule(r) PROVE TypeOK'
    <3>1. overrides' = overrides /\ custom' \subseteq CustomRules /\ Delete(CustomRow(r))
      BY <2>0, <2>4 DEF DeleteCustomRule
    <3> QED BY <3>1, <2>0, EditTypes, RowsAreRows DEF TypeOK
  <2>5. ASSUME NEW j \in Jobs, ReadUsers(j) PROVE TypeOK'
    <3>1. /\ job' = [job EXCEPT ![j] = [job[j] EXCEPT !.pc = "check", !.updates = RuleUpdates]]
          /\ job[j].pc = "idle"
      BY <2>5, <2>0 DEF ReadUsers
    <3>2. RuleUpdates \subseteq Nat
      BY <2>0 DEF RuleUpdates
    <3> DEFINE new == [job[j] EXCEPT !.pc = "check", !.updates = RuleUpdates]
    <3>3. new \in Job /\ new.read = {} /\ ~new.blind
      <4>1. job[j] \in Job /\ job[j].read = {} /\ ~job[j].blind
        BY <2>0, <3>1
      <4> QED BY <4>1, <3>2 DEF Job, JobPC
    <3> HIDE DEF new
    <3>4. /\ job' \in [Jobs -> Job]
          /\ \A i \in Jobs : job'[i].pc # "create" => job'[i].read = {} /\ ~job'[i].blind
      <4>1. job' = [job EXCEPT ![j] = new]
        BY <3>1 DEF new
      <4> QED BY <4>1, <3>3, <2>0, JobStored
    <3> QED BY <2>5, <2>0, <3>4 DEF ReadUsers, TypeOK, tables
  <2>6. ASSUME NEW j \in Jobs, NEW ended \in BOOLEAN, CheckProcessor(j, ended) PROVE TypeOK'
    <3>1. /\ \/ job' = [job EXCEPT ![j] = [job[j] EXCEPT !.pc = "create", !.updates = {}]]
             \/ job' = [job EXCEPT ![j] = IdleJob]
      BY <2>6, <2>0 DEF CheckProcessor
    <3>2. IdleJob \in Job /\ IdleJob.read = {} /\ ~IdleJob.blind
      BY IdleTypes DEF IdleJob
    <3> DEFINE new == [job[j] EXCEPT !.pc = "create", !.updates = {}]
    <3>3. new \in Job /\ new.pc = "create"
      <4>1. job[j] \in Job
        BY <2>0
      <4> QED BY <4>1 DEF Job, JobPC
    <3>4. job' = [job EXCEPT ![j] = new] \/ job' = [job EXCEPT ![j] = IdleJob]
      BY <3>1
    <3> HIDE DEF new
    <3>5. /\ job' \in [Jobs -> Job]
          /\ \A i \in Jobs : job'[i].pc # "create" => job'[i].read = {} /\ ~job'[i].blind
      BY <3>2, <3>3, <3>4, <2>0, JobStored
    <3> QED BY <2>6, <2>0, <3>5 DEF CheckProcessor, TypeOK, tables
  <2>7. ASSUME NEW j \in Jobs, ReadOverrides(j) \/ ReadCustomRules(j) PROVE TypeOK'
    <3> DEFINE new1 == [job[j] EXCEPT !.read = job[j].read \cup {"override"},
                                      !.overrides = overrides]
               new2 == [job[j] EXCEPT !.read = job[j].read \cup {"custom"}, !.custom = custom]
    <3>1. job' = [job EXCEPT ![j] = new1] \/ job' = [job EXCEPT ![j] = new2]
      BY <2>7, <2>0 DEF ReadOverrides, ReadCustomRules
    <3>2. custom \subseteq Rule /\ job[j] \in Job /\ job[j].pc = "create"
      BY <2>0, <2>7 DEF ReadOverrides, ReadCustomRules
    <3>3. new1 \in Job /\ new1.pc = "create"
      BY <3>2, <2>0 DEF Job, JobPC
    <3>4. new2 \in Job /\ new2.pc = "create"
      BY <3>2 DEF Job, JobPC
    <3> HIDE DEF new1, new2
    <3>5. /\ job' \in [Jobs -> Job]
          /\ \A i \in Jobs : job'[i].pc # "create" => job'[i].read = {} /\ ~job'[i].blind
      <4>1. CASE job' = [job EXCEPT ![j] = new1]
        BY <4>1, <3>3, <2>0, JobStored
      <4>2. CASE job' = [job EXCEPT ![j] = new2]
        BY <4>2, <3>4, <2>0, JobStored
      <4> QED BY <3>1, <4>1, <4>2
    <3> QED BY <2>7, <2>0, <3>5 DEF ReadOverrides, ReadCustomRules, TypeOK, tables
  <2>8. ASSUME NEW j \in Jobs, CreateProcessor(j) \/ CreateFails(j) PROVE TypeOK'
    <3>1. job' = [job EXCEPT ![j] = IdleJob]
      BY <2>8 DEF CreateProcessor, CreateFails
    <3>2. IdleJob \in Job /\ IdleJob.read = {} /\ ~IdleJob.blind
      BY IdleTypes DEF IdleJob
    <3>3. /\ job' \in [Jobs -> Job]
          /\ \A i \in Jobs : job'[i].pc # "create" => job'[i].read = {} /\ ~job'[i].blind
      BY <2>0, <3>1, <3>2
    <3>4. processor' \in Processor /\ failures' \in Nat
      <4>1. CASE CreateProcessor(j)
        <5>1. job[j].overrides \in [Categories -> Override] /\ job[j].custom \subseteq Rule
              /\ job[j].blind \in BOOLEAN
          BY <2>0 DEF Job
        <5>2. BuildCategoryRules(job[j].overrides, job[j].custom) \in RuleData
          BY <5>1, BuiltRules
        <5> QED BY <4>1, <2>0, <5>1, <5>2 DEF CreateProcessor, Processor
      <4>2. CASE CreateFails(j)
        BY <4>2, <2>0 DEF CreateFails, Fails
      <4> QED BY <4>1, <4>2, <2>8
    <3> QED BY <2>8, <2>0, <3>3, <3>4 DEF CreateProcessor, CreateFails, TypeOK, tables
  <2>9. CASE DropProcessor
    BY <2>9, <2>0, IdleTypes DEF DropProcessor, Fails, TypeOK, tables
  <2>10. ASSUME NEW w \in Workers, GetProcessor(w) \/ Finish(w) PROVE TypeOK'
    <3>1. worker' \in [Workers -> Worker]
      <4>1. CASE GetProcessor(w)
        <5> DEFINE new == [worker[w] EXCEPT
                  !.pc = "prompt", !.data = processor.data,
                  !.created_at = processor.created_at, !.blind = processor.blind]
        <5>1. worker' = [worker EXCEPT ![w] = new]
          BY <4>1, <2>0 DEF GetProcessor
        <5>2. new \in Worker
          <6>1. worker[w] \in Worker /\ processor \in Processor
            BY <2>0
          <6> QED BY <6>1 DEF Worker, WorkerPC, Processor
        <5> HIDE DEF new
        <5> QED BY <5>1, <5>2, <2>0, WorkerStored
      <4>2. CASE Finish(w)
        BY <4>2, <2>0, IdleTypes DEF Finish
      <4> QED BY <4>1, <4>2, <2>10
    <3> QED BY <2>10, <2>0, <3>1 DEF GetProcessor, Finish, TypeOK, tables
  <2>11. ASSUME NEW w \in Workers, NEW answer \in Answers, NEW confident \in BOOLEAN,
                NEW sender \in Senders, ChooseRule(w, answer, confident, sender)
         PROVE  TypeOK'
    <3>1. worker[w].data \in RuleData
      BY <2>0 DEF Worker
    <3>2. PICK r \in Selected(worker[w].data, answer, confident, sender) :
            worker' = [worker EXCEPT ![w] = [worker[w] EXCEPT
                !.pc = "file", !.answer = answer, !.rule = r,
                !.confident = confident, !.sender = sender]]
      BY <2>11, <2>0 DEF ChooseRule
    <3>3. r \in Rule
      BY <3>1, SelectedRules
    <3> DEFINE new == [worker[w] EXCEPT
                !.pc = "file", !.answer = answer, !.rule = r,
                !.confident = confident, !.sender = sender]
    <3>4. worker' \in [Workers -> Worker]
      <4>1. worker' = [worker EXCEPT ![w] = new]
        BY <3>2
      <4>2. new \in Worker
        <5>1. worker[w] \in Worker
          BY <2>0
        <5> QED BY <5>1, <3>3 DEF Worker, WorkerPC
      <4> HIDE DEF new
      <4> QED BY <4>1, <4>2, <2>0, WorkerStored
    <3> QED BY <2>11, <2>0, <3>4 DEF ChooseRule, TypeOK, tables
  <2>12. CASE UNCHANGED vars
    BY <2>12 DEF vars, tables, TypeOK
  <2> QED BY <2>1, <2>2, <2>3, <2>4, <2>5, <2>6, <2>7, <2>8, <2>9, <2>10, <2>11, <2>12
          DEF Next, Edit, JobStep
<1> QED BY <1>1, <1>2, PTL DEF Spec

-----------------------------------------------------------------------------
(* What a job has read, and what a processor made of it misses *)

\* The processor is not made in the future, and what a job has read is what the
\* tables still hold unless one of them was written since.
Read ==
    /\ processor.exists => processor.created_at <= now
    /\ \A j \in Jobs : ~job[j].blind =>
         /\ "override" \in job[j].read => job[j].overrides = overrides
         /\ "custom" \in job[j].read => job[j].custom = custom

Seen == Read /\ StaleIsSeen

\* A write gives one row a time after every processor's, a deletion makes the
\* processor blind; both blind the jobs that have read the table.
LEMMA EditSeen ==
    ASSUME TypeOK, Seen, NEW row \in Rows, Write(row) \/ Delete(row),
           row.table # "override" => overrides' = overrides,
           row.table # "custom" => custom' = custom
    PROVE  Seen'
<1>1. processor \in Processor /\ updated_at \in [Rows -> Nat] /\ now \in Nat /\ now' = now + 1
  BY DEF TypeOK, Write, Delete
<1>2. ASSUME NEW j \in Jobs, ~job'[j].blind
      PROVE  /\ "override" \in job'[j].read => job'[j].overrides = overrides'
             /\ "custom" \in job'[j].read => job'[j].custom = custom'
  <2>1. job[j] \in Job
    BY DEF TypeOK
  <2>2. job'[j] = [job[j] EXCEPT !.blind = job[j].blind \/ row.table \in job[j].read]
    BY DEF Write, Delete
  <2>3. /\ job'[j].read = job[j].read /\ job'[j].overrides = job[j].overrides
        /\ job'[j].custom = job[j].custom
        /\ ~job[j].blind /\ row.table \notin job[j].read
    BY <2>1, <2>2, <1>2 DEF Job
  <2> QED BY <2>3 DEF Seen, Read
<1>3. CASE Write(row)
  <2>1. processor' = processor /\ updated_at' = [updated_at EXCEPT ![row] = now + 1]
    BY <1>3 DEF Write
  <2>2. now + 1 \in RuleUpdates'
    BY <2>1, <1>1 DEF RuleUpdates
  <2>3. processor.exists => processor.created_at <= now' /\ processor.created_at < now + 1
    BY <1>1 DEF Seen, Read, Processor
  <2> QED BY <1>2, <2>1, <2>2, <2>3 DEF Seen, Read, StaleIsSeen
<1>4. CASE Delete(row)
  <2>1. processor' = [processor EXCEPT !.blind = processor.exists]
    BY <1>4 DEF Delete
  <2>2. /\ processor'.exists = processor.exists /\ processor'.blind = processor.exists
        /\ processor'.created_at = processor.created_at
    BY <2>1, <1>1 DEF Processor
  <2>3. processor.exists => processor.created_at <= now'
    BY <1>1 DEF Seen, Read, Processor
  <2> QED BY <1>2, <2>2, <2>3 DEF Seen, Read, StaleIsSeen
<1> QED BY <1>3, <1>4

LEMMA SeenInvariant == Spec => []Seen
<1>1. Init => Seen
  BY DEF Init, Seen, Read, StaleIsSeen, NoProcessor, IdleJob
<1>2. TypeOK /\ TypeOK' /\ Seen /\ [Next]_vars => Seen'
  <2> SUFFICES ASSUME TypeOK, TypeOK', Seen, [Next]_vars PROVE Seen'
    OBVIOUS
  <2>0. /\ processor \in Processor /\ job \in [Jobs -> Job] /\ now \in Nat
        /\ \A j \in Jobs : job[j].pc # "create" => job[j].read = {} /\ ~job[j].blind
    BY DEF TypeOK
  <2>1. ASSUME NEW l \in Categories, NEW o \in Overrides, WriteOverride(l, o) PROVE Seen'
    BY <2>1, EditSeen, RowsAreRows DEF WriteOverride, OverrideRow
  <2>2. ASSUME NEW l \in Categories, DeleteOverride(l) PROVE Seen'
    BY <2>2, EditSeen, RowsAreRows DEF DeleteOverride, OverrideRow
  <2>3. ASSUME NEW r \in CustomRules, AddCustomRule(r) PROVE Seen'
    BY <2>3, EditSeen, RowsAreRows DEF AddCustomRule, CustomRow
  <2>4. ASSUME NEW r \in CustomRules, DeleteCustomRule(r) PROVE Seen'
    BY <2>4, EditSeen, RowsAreRows DEF DeleteCustomRule, CustomRow
  <2>5. ASSUME UNCHANGED <<tables, processor>>, Read' PROVE Seen'
    BY <2>5 DEF Seen, tables, StaleIsSeen, RuleUpdates, CurrentRules
  <2>6. ASSUME NEW j \in Jobs, NEW new, UNCHANGED <<tables, processor>>,
               job' = [job EXCEPT ![j] = new],
               ~new.blind => /\ "override" \in new.read => new.overrides = overrides
                             /\ "custom" \in new.read => new.custom = custom
        PROVE  Seen'
    <3>1. \A i \in Jobs : job'[i] = IF i = j THEN new ELSE job[i]
      BY <2>0, <2>6
    <3>2. Read'
      BY <2>6, <3>1 DEF Seen, Read, tables
    <3> QED BY <2>5, <2>6, <3>2
  <2>7. IdleJob.read = {}
    BY DEF IdleJob
  <2>8. ASSUME NEW j \in Jobs, ReadUsers(j) PROVE Seen'
    <3> DEFINE new == [job[j] EXCEPT !.pc = "check", !.updates = RuleUpdates]
    <3>1. job' = [job EXCEPT ![j] = new] /\ new.read = {} /\ UNCHANGED <<tables, processor>>
      BY <2>8, <2>0 DEF ReadUsers, Job
    <3> HIDE DEF new
    <3> QED BY <3>1, <2>6
  <2>9. ASSUME NEW j \in Jobs, NEW ended \in BOOLEAN, CheckProcessor(j, ended) PROVE Seen'
    <3> DEFINE new == [job[j] EXCEPT !.pc = "create", !.updates = {}]
    <3>1. /\ job' = [job EXCEPT ![j] = new] \/ job' = [job EXCEPT ![j] = IdleJob]
          /\ new.read = {} /\ UNCHANGED <<tables, processor>>
      BY <2>9, <2>0 DEF CheckProcessor, Job
    <3> HIDE DEF new
    <3> QED BY <3>1, <2>6, <2>7
  <2>10. ASSUME NEW j \in Jobs, ReadOverrides(j) PROVE Seen'
    <3> DEFINE new == [job[j] EXCEPT !.read = job[j].read \cup {"override"},
                                     !.overrides = overrides]
    <3>1. job' = [job EXCEPT ![j] = new] /\ UNCHANGED <<tables, processor>>
      BY <2>10, <2>0 DEF ReadOverrides
    <3>2. /\ new.blind = job[j].blind /\ new.overrides = overrides
          /\ new.custom = job[j].custom /\ new.read = job[j].read \cup {"override"}
      BY <2>0 DEF Job
    <3>3. ~new.blind => ("custom" \in new.read => new.custom = custom)
      BY <3>2 DEF Seen, Read
    <3> HIDE DEF new
    <3> QED BY <3>1, <3>2, <3>3, <2>6
  <2>11. ASSUME NEW j \in Jobs, ReadCustomRules(j) PROVE Seen'
    <3> DEFINE new == [job[j] EXCEPT !.read = job[j].read \cup {"custom"}, !.custom = custom]
    <3>1. job' = [job EXCEPT ![j] = new] /\ UNCHANGED <<tables, processor>>
      BY <2>11, <2>0 DEF ReadCustomRules
    <3>2. /\ new.blind = job[j].blind /\ new.custom = custom
          /\ new.overrides = job[j].overrides /\ new.read = job[j].read \cup {"custom"}
      BY <2>0 DEF Job
    <3>3. ~new.blind => ("override" \in new.read => new.overrides = overrides)
      BY <3>2 DEF Seen, Read
    <3> HIDE DEF new
    <3> QED BY <3>1, <3>2, <3>3, <2>6
  <2>12. ASSUME NEW j \in Jobs, CreateFails(j) PROVE Seen'
    BY <2>12, <2>6, <2>7 DEF CreateFails
  <2>13. ASSUME NEW j \in Jobs, CreateProcessor(j) PROVE Seen'
    <3>1. \A i \in Jobs : job'[i] = IF i = j THEN IdleJob ELSE job[i]
      BY <2>0, <2>13 DEF CreateProcessor
    <3>2. /\ processor'.created_at = now /\ processor'.blind = job[j].blind
          /\ processor'.data = BuildCategoryRules(job[j].overrides, job[j].custom)
          /\ UNCHANGED tables
      BY <2>13 DEF CreateProcessor
    <3>3. Read'
      BY <3>1, <3>2, <2>0, <2>7 DEF Seen, Read, tables
    <3>4. ~job[j].blind => job[j].overrides = overrides /\ job[j].custom = custom
      BY <2>13 DEF CreateProcessor, Seen, Read
    <3>5. StaleIsSeen'
      BY <3>2, <3>4 DEF StaleIsSeen, CurrentRules, tables
    <3> QED BY <3>3, <3>5 DEF Seen
  <2>14. CASE DropProcessor
    BY <2>14 DEF DropProcessor, NoProcessor, Seen, Read, StaleIsSeen, tables
  <2>15. ASSUME UNCHANGED <<tables, processor, job>> PROVE Seen'
    BY <2>15, <2>5 DEF Seen, Read, tables
  <2>16. ASSUME NEW w \in Workers, GetProcessor(w) \/ Finish(w) PROVE Seen'
    BY <2>15, <2>16 DEF GetProcessor, Finish
  <2>17. ASSUME NEW w \in Workers, NEW answer \in Answers, NEW confident \in BOOLEAN,
                NEW sender \in Senders, ChooseRule(w, answer, confident, sender)
         PROVE  Seen'
    BY <2>15, <2>17 DEF ChooseRule
  <2>18. CASE UNCHANGED vars
    BY <2>15, <2>18 DEF vars
  <2> QED BY <2>1, <2>2, <2>3, <2>4, <2>8, <2>9, <2>10, <2>11, <2>12, <2>13, <2>14,
             <2>16, <2>17, <2>18 DEF Next, Edit, JobStep
<1> QED BY <1>1, <1>2, RulesTyping, PTL DEF Spec

\* The comparison of insert_processor misses no change it can see, however many
\* jobs overlap and whenever the rules are edited.
THEOREM ChangesAreSeen == Spec => []StaleIsSeen
<1>1. Seen => StaleIsSeen
  BY DEF Seen
<1> QED BY <1>1, SeenInvariant, PTL

-----------------------------------------------------------------------------
(* What an email is filed under *)

\* What FiledAsAnswered says of a rule.
Follows(data, answer, confident, sender, r) ==
    LET own == Answering(data.custom, answer)
        answering == own \cup Answering(data.default, answer)
        heuristics == HeuristicOf[sender]
    IN /\ answer \in Exempt \/ heuristics = {} =>
            /\ confident /\ answering # {} => r \in answering
            /\ confident /\ own # {} => r \in own
       /\ r \in answering \cup heuristics \cup {UnknownRule}
       /\ ~confident => r = UnknownRule \/ r.prompt_content # answer

LEMMA SelectedAnswers ==
    ASSUME NEW data, NEW answer, NEW confident \in BOOLEAN, NEW sender \in Senders,
           NEW r \in Selected(data, answer, confident, sender)
    PROVE  Follows(data, answer, confident, sender, r)
<1> DEFINE own == Answering(data.custom, answer)
           answering == own \cup Answering(data.default, answer)
           heuristics == HeuristicOf[sender]
<1>1. PICK f \in Found(data, answer) : \E h \in AfterHeuristics(f, sender) :
        r = AfterConfidence(h, answer, confident)
  BY DEF Selected
<1>2. PICK h \in AfterHeuristics(f, sender) : r = AfterConfidence(h, answer, confident)
  BY <1>1
<1>3. /\ own # {} => f \in own
      /\ answering # {} => f \in answering
      /\ f \in answering \cup {UnknownRule}
  BY DEF Found
<1>4. \A q \in answering : q.prompt_content = answer
  BY DEF Answering
<1>5. h = f \/ h \in heuristics
  BY DEF AfterHeuristics
<1>6. answer \in Exempt \/ heuristics = {} => (f \in answering => h = f)
  BY <1>4 DEF AfterHeuristics
<1>7. r = h \/ r = UnknownRule
  BY <1>2 DEF AfterConfidence
<1>8. confident => r = h
  BY <1>2 DEF AfterConfidence
<1>9. ~confident => r = UnknownRule \/ r.prompt_content # answer
  BY <1>2 DEF AfterConfidence
<1> HIDE DEF own, answering, heuristics
<1>10. answer \in Exempt \/ heuristics = {} =>
         /\ confident /\ answering # {} => r \in answering
         /\ confident /\ own # {} => r \in own
  BY <1>3, <1>6, <1>8 DEF answering
<1>11. r \in answering \cup heuristics \cup {UnknownRule}
  BY <1>3, <1>5, <1>7
<1> QED BY <1>9, <1>10, <1>11 DEF own, answering, heuristics, Follows

\* A worker that has an answer has a rule for it.
Chosen == \A w \in Workers : worker[w].pc = "file" =>
    worker[w].rule \in Selected(worker[w].data, worker[w].answer,
                                worker[w].confident, worker[w].sender)

LEMMA ChosenInvariant == Spec => []Chosen
<1>1. Init => Chosen
  BY DEF Init, Chosen, IdleWorker
<1>2. TypeOK /\ Chosen /\ [Next]_vars => Chosen'
  <2> SUFFICES ASSUME TypeOK, Chosen, [Next]_vars PROVE Chosen'
    OBVIOUS
  <2>0. worker \in [Workers -> Worker]
    BY DEF TypeOK
  <2>1. CASE UNCHANGED worker
    BY <2>1 DEF Chosen
  <2>2. ASSUME NEW w \in Workers, GetProcessor(w) \/ Finish(w) PROVE Chosen'
    <3>1. worker'[w].pc # "file" /\ \A v \in Workers \ {w} : worker'[v] = worker[v]
      <4>1. CASE GetProcessor(w)
        <5>1. worker[w] \in Worker
          BY <2>0
        <5> DEFINE new == [worker[w] EXCEPT
                  !.pc = "prompt", !.data = processor.data,
                  !.created_at = processor.created_at, !.blind = processor.blind]
        <5>2. new.pc = "prompt"
          BY <5>1 DEF Worker
        <5>3. worker' = [worker EXCEPT ![w] = new]
          BY <4>1, <2>0 DEF GetProcessor
        <5> HIDE DEF new
        <5> QED BY <5>2, <5>3, <2>0
      <4>2. CASE Finish(w)
        BY <4>2, <2>0 DEF Finish, IdleWorker
      <4> QED BY <2>2, <4>1, <4>2
    <3> QED BY <3>1 DEF Chosen
  <2>3. ASSUME NEW w \in Workers, NEW answer \in Answers, NEW confident \in BOOLEAN,
               NEW sender \in Senders, ChooseRule(w, answer, confident, sender)
        PROVE  Chosen'
    <3>1. PICK r \in Selected(worker[w].data, answer, confident, sender) :
            worker' = [worker EXCEPT ![w] = [worker[w] EXCEPT
                !.pc = "file", !.answer = answer, !.rule = r,
                !.confident = confident, !.sender = sender]]
      BY <2>3, <2>0 DEF ChooseRule
    <3>2. /\ worker'[w].data = worker[w].data /\ worker'[w].answer = answer
          /\ worker'[w].confident = confident /\ worker'[w].sender = sender
          /\ worker'[w].rule = r
      BY <2>0, <3>1 DEF Worker
    <3>3. \A v \in Workers \ {w} : worker'[v] = worker[v]
      BY <2>0, <3>1
    <3> QED BY <3>1, <3>2, <3>3 DEF Chosen
  <2> QED BY <2>1, <2>2, <2>3 DEF Next, Edit, JobStep, vars, WriteOverride, DeleteOverride,
             AddCustomRule, DeleteCustomRule, Write, Delete, ReadUsers, CheckProcessor,
             ReadOverrides, ReadCustomRules, CreateFails, CreateProcessor, DropProcessor
<1> QED BY <1>1, <1>2, RulesTyping, PTL DEF Spec

\* An email is filed as answered, whatever the rules, the heuristics and the answer.
THEOREM AnswersAreFollowed == Spec => []FiledAsAnswered
<1>1. TypeOK /\ Chosen => FiledAsAnswered
  <2> SUFFICES ASSUME TypeOK, Chosen, NEW w \in Workers, worker[w].pc = "file"
               PROVE  Follows(worker[w].data, worker[w].answer, worker[w].confident,
                              worker[w].sender, worker[w].rule)
    BY DEF FiledAsAnswered, Follows
  <2>1. worker[w].confident \in BOOLEAN /\ worker[w].sender \in Senders
    BY DEF TypeOK, Worker
  <2>2. worker[w].rule \in Selected(worker[w].data, worker[w].answer,
                                    worker[w].confident, worker[w].sender)
    BY DEF Chosen
  <2> QED BY <2>1, <2>2, SelectedAnswers
<1> QED BY <1>1, ChosenInvariant, RulesTyping, PTL

-----------------------------------------------------------------------------
(* Disabled categories *)

\* The processor, or the copy a worker has, was made before now, and leaves out
\* what was disabled before it was made.
Excludes(x) ==
    /\ x.created_at <= now
    /\ \A l \in Categories :
         \/ ~overrides[l].is_disabled \/ x.created_at < updated_at[OverrideRow(l)]
         \/ x.blind \/ l \notin LabelsOf(x.data.default)

Excluded ==
    /\ processor.exists => Excludes(processor)
    /\ \A w \in Workers : worker[w].pc # "idle" => Excludes(worker[w])

\* What an edit does to the overrides and their times.
Edited ==
    /\ now' = now + 1 /\ UNCHANGED worker
    /\ \A l \in Categories :
         \/ /\ overrides'[l] = overrides[l]
            /\ updated_at'[OverrideRow(l)] = updated_at[OverrideRow(l)]
         \/ ~overrides'[l].is_disabled
         \/ updated_at'[OverrideRow(l)] = now + 1

LEMMA EditOverrides == TypeOK /\ Edit => Edited
<1> SUFFICES ASSUME TypeOK, Edit PROVE Edited
  OBVIOUS
<1>1. updated_at \in [Rows -> Nat] /\ overrides \in [Categories -> Override]
  BY DEF TypeOK
<1>2. /\ \A l, k \in Categories : OverrideRow(l) = OverrideRow(k) => l = k
      /\ \A l \in Categories, r \in CustomRules : OverrideRow(l) # CustomRow(r)
  BY DEF OverrideRow, CustomRow
<1>3. ASSUME NEW k \in Categories, NEW o \in Overrides, WriteOverride(k, o) PROVE Edited
  <2>1. /\ now' = now + 1 /\ UNCHANGED worker
        /\ overrides' = [overrides EXCEPT ![k] = o]
        /\ updated_at' = [updated_at EXCEPT ![OverrideRow(k)] = now + 1]
    BY <1>3 DEF WriteOverride, Write
  <2> QED BY <2>1, <1>1, <1>2, RowsAreRows DEF Edited
<1>4. ASSUME NEW k \in Categories, DeleteOverride(k) PROVE Edited
  <2>1. /\ now' = now + 1 /\ UNCHANGED worker
        /\ overrides' = [overrides EXCEPT ![k] = NoOverride]
        /\ updated_at' = [updated_at EXCEPT ![OverrideRow(k)] = 0]
        /\ ~NoOverride.is_disabled
    BY <1>4 DEF DeleteOverride, Delete, NoOverride
  <2> QED BY <2>1, <1>1, <1>2, RowsAreRows DEF Edited
<1>5. ASSUME NEW r \in CustomRules, AddCustomRule(r) \/ DeleteCustomRule(r) PROVE Edited
  <2>1. /\ now' = now + 1 /\ UNCHANGED <<worker, overrides>>
        /\ \E u \in Nat : updated_at' = [updated_at EXCEPT ![CustomRow(r)] = u]
    <3>1. now + 1 \in Nat
      BY DEF TypeOK
    <3> QED BY <1>5, <3>1 DEF AddCustomRule, DeleteCustomRule, Write, Delete
  <2> QED BY <2>1, <1>1, <1>2, RowsAreRows DEF Edited
<1> QED BY <1>3, <1>4, <1>5 DEF Edit

LEMMA ExcludesAfterEdit ==
    ASSUME TypeOK, NEW x, x.created_at \in Nat, Excludes(x), Edited
    PROVE  /\ x.created_at <= now'
           /\ \A l \in Categories :
                \/ ~overrides'[l].is_disabled \/ x.created_at < updated_at'[OverrideRow(l)]
                \/ x.blind \/ l \notin LabelsOf(x.data.default)
<1>1. now \in Nat
  BY DEF TypeOK
<1> QED BY <1>1 DEF Edited, Excludes

LEMMA ExcludedInvariant == Spec => []Excluded
<1>1. Init => Excluded
  BY DEF Init, Excluded, NoProcessor, IdleWorker
<1>2. TypeOK /\ Seen /\ Excluded /\ [Next]_vars => Excluded'
  <2> SUFFICES ASSUME TypeOK, Seen, Excluded, [Next]_vars PROVE Excluded'
    OBVIOUS
  <2>0. /\ worker \in [Workers -> Worker] /\ processor \in Processor /\ now \in Nat
        /\ job \in [Jobs -> Job] /\ overrides \in [Categories -> Override]
    BY DEF TypeOK
  <2>1. CASE Edit
    <3>1. Edited /\ processor.created_at \in Nat
      BY <2>0, <2>1, EditOverrides DEF Processor
    <3>2. ASSUME NEW w \in Workers, worker'[w].pc # "idle" PROVE Excludes(worker[w])'
      <4>1. worker' = worker /\ Excludes(worker[w]) /\ worker[w].created_at \in Nat
        BY <2>0, <3>1, <3>2 DEF Edited, Excluded, Worker
      <4> QED BY <4>1, <3>1, ExcludesAfterEdit DEF Excludes
    <3>3. ASSUME processor'.exists PROVE Excludes(processor)'
      <4>1. /\ processor'.exists = processor.exists /\ processor'.data = processor.data
            /\ processor'.created_at = processor.created_at
            /\ processor.blind => processor'.blind
        <5>1. processor' = processor \/ processor' = [processor EXCEPT !.blind = processor.exists]
          BY <2>1 DEF Edit, WriteOverride, DeleteOverride, AddCustomRule, DeleteCustomRule,
                      Write, Delete
        <5>2. CASE processor' = processor
          BY <5>2
        <5>3. CASE processor' = [processor EXCEPT !.blind = processor.exists]
          BY <5>3, <3>3, <2>0 DEF Processor
        <5> QED BY <5>1, <5>2, <5>3
      <4>2. Excludes(processor)
        BY <4>1, <3>3 DEF Excluded
      <4> QED BY <4>1, <4>2, <3>1, ExcludesAfterEdit DEF Excludes
    <3> QED BY <3>2, <3>3 DEF Excluded
  <2>2. CASE UNCHANGED <<tables, processor, worker>>
    BY <2>2 DEF Excluded, Excludes, tables
  <2>3. CASE DropProcessor
    BY <2>3 DEF DropProcessor, NoProcessor, Excluded, Excludes, tables
  <2>4. ASSUME NEW j \in Jobs, CreateProcessor(j) PROVE Excluded'
    <3>1. /\ processor'.created_at = now /\ processor'.blind = job[j].blind
          /\ processor'.data = BuildCategoryRules(job[j].overrides, job[j].custom)
          /\ UNCHANGED <<tables, worker>>
      BY <2>4 DEF CreateProcessor
    <3>2. ~job[j].blind => job[j].overrides = overrides
      BY <2>4 DEF CreateProcessor, Seen, Read
    <3>3. job[j].custom \in SUBSET Rule
      BY <2>0 DEF Job
    <3>4. \A l \in Categories : \/ ~overrides[l].is_disabled \/ job[j].blind
                                \/ l \notin LabelsOf(processor'.data.default)
      BY <3>1, <3>2, <3>3, <2>0, BuiltRules
    <3>5. Excludes(processor)'
      BY <3>1, <3>4, <2>0 DEF Excludes, tables
    <3> QED BY <3>1, <3>5 DEF Excluded, Excludes, tables
  <2>5. ASSUME NEW w \in Workers, UNCHANGED <<tables, processor>>,
               \A v \in Workers \ {w} : worker'[v] = worker[v],
               worker'[w].pc # "idle" => Excludes(worker[w])'
        PROVE  Excluded'
    BY <2>5 DEF Excluded, Excludes, tables
  <2>6. ASSUME NEW w \in Workers, GetProcessor(w) PROVE Excluded'
    <3> DEFINE new == [worker[w] EXCEPT
              !.pc = "prompt", !.data = processor.data,
              !.created_at = processor.created_at, !.blind = processor.blind]
    <3>1. worker' = [worker EXCEPT ![w] = new] /\ UNCHANGED <<tables, processor>>
      BY <2>6, <2>0 DEF GetProcessor
    <3>2. /\ new.data = processor.data /\ new.created_at = processor.created_at
          /\ new.blind = processor.blind
      BY <2>0 DEF Worker
    <3>3. Excludes(processor)
      BY <2>6 DEF GetProcessor, Excluded
    <3> HIDE DEF new
    <3>4. worker'[w] = new /\ \A v \in Workers \ {w} : worker'[v] = worker[v]
      BY <2>0, <3>1
    <3>5. Excludes(worker[w])'
      BY <3>1, <3>2, <3>3, <3>4 DEF Excludes, tables
    <3> QED BY <3>1, <3>4, <3>5, <2>5
  <2>7. ASSUME NEW w \in Workers, Finish(w) PROVE Excluded'
    <3>1. /\ worker'[w].pc = "idle" /\ UNCHANGED <<tables, processor>>
          /\ \A v \in Workers \ {w} : worker'[v] = worker[v]
      BY <2>7, <2>0 DEF Finish, IdleWorker
    <3> QED BY <3>1, <2>5
  <2>8. ASSUME NEW w \in Workers, NEW answer \in Answers, NEW confident \in BOOLEAN,
               NEW sender \in Senders, ChooseRule(w, answer, confident, sender)
        PROVE  Excluded'
    <3>1. PICK r \in Selected(worker[w].data, answer, confident, sender) :
            worker' = [worker EXCEPT ![w] = [worker[w] EXCEPT
                !.pc = "file", !.answer = answer, !.rule = r,
                !.confident = confident, !.sender = sender]]
      BY <2>8, <2>0 DEF ChooseRule
    <3> DEFINE new == [worker[w] EXCEPT
                !.pc = "file", !.answer = answer, !.rule = r,
                !.confident = confident, !.sender = sender]
    <3>2. /\ new.data = worker[w].data /\ new.created_at = worker[w].created_at
          /\ new.blind = worker[w].blind
      BY <2>0 DEF Worker
    <3>3. Excludes(worker[w]) /\ UNCHANGED <<tables, processor>>
      BY <2>8 DEF ChooseRule, Excluded
    <3>4. worker'[w] = new /\ \A v \in Workers \ {w} : worker'[v] = worker[v]
      BY <2>0, <3>1
    <3> HIDE DEF new
    <3>5. Excludes(worker[w])'
      BY <3>2, <3>3, <3>4 DEF Excludes, tables
    <3> QED BY <3>3, <3>4, <3>5, <2>5
  <2> QED BY <2>1, <2>2, <2>3, <2>4, <2>6, <2>7, <2>8 DEF Next, JobStep, vars, ReadUsers,
             CheckProcessor, ReadOverrides, ReadCustomRules, CreateFails
<1> QED BY <1>1, <1>2, RulesTyping, SeenInvariant, PTL DEF Spec

\* A category disabled before a processor was made is not what it files an email
\* under, but for another rule or a heuristic of its label.
THEOREM DisabledStaysUnused == Spec => []DisabledIsUnused
<1>1. TypeOK /\ Chosen /\ Excluded => DisabledIsUnused
  <2> SUFFICES ASSUME TypeOK, Chosen, Excluded, NEW w \in Workers, worker[w].pc = "file",
                      NEW l, l = worker[w].rule.mail_label, l \in Categories
               PROVE  \/ ~overrides[l].is_disabled
                      \/ worker[w].created_at < updated_at[OverrideRow(l)] \/ worker[w].blind
                      \/ l \in LabelsOf(worker[w].data.custom \cup HeuristicRules \cup {UnknownRule})
    BY DEF DisabledIsUnused
  <2>1. /\ worker[w].data \in RuleData /\ worker[w].confident \in BOOLEAN
        /\ worker[w].sender \in Senders
    BY DEF TypeOK, Worker
  <2>2. worker[w].rule \in Selected(worker[w].data, worker[w].answer,
                                    worker[w].confident, worker[w].sender)
    BY DEF Chosen
  <2>3. worker[w].rule \in worker[w].data.custom \cup worker[w].data.default
                             \cup HeuristicRules \cup {UnknownRule}
    BY <2>1, <2>2, SelectedRules
  <2>4. CASE worker[w].rule \in worker[w].data.default
    <3>1. l \in LabelsOf(worker[w].data.default)
      BY <2>4 DEF LabelsOf
    <3> QED BY <3>1 DEF Excluded, Excludes
  <2>5. CASE worker[w].rule \in worker[w].data.custom \cup HeuristicRules \cup {UnknownRule}
    BY <2>5 DEF LabelsOf
  <2> QED BY <2>3, <2>4, <2>5
<1> QED BY <1>1, ChosenInvariant, ExcludedInvariant, RulesTyping, PTL
=============================================================================
