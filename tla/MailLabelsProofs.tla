--------------------------- MODULE MailLabelsProofs ---------------------------
(***************************************************************************)
(* Proofs about MailLabels, for any rules, labels, processors and workers. *)
(***************************************************************************)
EXTENDS MailLabels, FiniteSetTheorems, TLAPS

-----------------------------------------------------------------------------
(* Types *)

\* A call or a worker that is busy is so for a processor.
ConfigOK(c) == c \in Config /\ (c.pc # "idle" => c.proc \in Procs)
ThreadOK(x) == x \in Thread /\ (x.pc # "idle" => x.proc \in Procs)

Working(c) == c.pc \in {"list", "parent", "create"}

GmailOK ==
    /\ labels \in [Names -> Nat]
    /\ categories \in [Emails -> SUBSET ClientCategories]
    /\ labelled \subseteq Emails /\ moved \subseteq Emails /\ edits \in Nat

MapOK == current \in 0..NProcs /\ failed \subseteq Procs /\ replaced \in Nat

CallsOK ==
    /\ config = [a \in Actors |-> config[a]] /\ \A a \in Actors : ConfigOK(config[a])
    /\ thread = [t \in Threads |-> thread[t]] /\ \A t \in Threads : ThreadOK(thread[t])
    /\ \A t \in Threads : (thread[t].pc = "config") <=> Working(config[t])

Typed == GmailOK /\ MapOK /\ CallsOK /\ failures \in Nat

LEMMA TypedIsTypeOK == Typed => TypeOK
<1> SUFFICES ASSUME Typed PROVE TypeOK
  OBVIOUS
<1>1. config \in [Actors -> Config] /\ thread \in [Threads -> Thread]
  BY DEF Typed, CallsOK, ConfigOK, ThreadOK
<1> QED BY <1>1 DEF Typed, GmailOK, MapOK, CallsOK, Working, TypeOK

LEMMA IdleIsOK == ConfigOK(NoConfig) /\ ThreadOK(IdleThread)
<1>1. 0 \in 0..NProcs
  BY LabelsAssumption
<1>2. UnknownRule \in Rule
  BY RulesAssumption
<1> QED BY <1>1, <1>2 DEF ConfigOK, NoConfig, Config, ThreadOK, IdleThread, Thread

LEMMA NewConfigIsOK == \A p \in Procs : ConfigOK(NewConfig(p)) /\ Working(NewConfig(p))
<1> SUFFICES ASSUME NEW p \in Procs PROVE ConfigOK(NewConfig(p)) /\ Working(NewConfig(p))
  OBVIOUS
<1>1. p \in 0..NProcs
  BY LabelsAssumption DEF Procs
<1> QED BY <1>1 DEF NewConfig, NoConfig, ConfigOK, Config, Working

\* Whatever may be chosen is a rule, and its label is one of those asked for,
\* all of which are names.
LEMMA RequiredAreNames ==
    ASSUME NEW p \in Procs
    PROVE  /\ Choosable(p) \subseteq Rule
           /\ \A r \in Choosable(p) : r.mail_label \in RequiredLabels(RulesOf[p])
           /\ RequiredLabels(RulesOf[p]) \subseteq Names
<1>1. RulesOf[p] \in RuleData
  BY LabelsAssumption
<1>2. \A i \in DOMAIN DefaultRules : DefaultRules[i] \in Rule
  BY RulesAssumption
<1>3. Categories \subseteq LabelNames
  BY <1>2 DEF Categories, Rule
<1>4. \A S \in SUBSET Rule : LabelsOf(S) \subseteq LabelNames
  BY DEF LabelsOf, Rule
<1>5. /\ HeuristicRules \subseteq Rule /\ UnknownRule \in Rule /\ Keep \in LabelNames
      /\ RulesOf[p].custom \subseteq Rule /\ RulesOf[p].default \subseteq Rule
  BY <1>1, RulesAssumption DEF RuleData
<1>6. UnknownRule.mail_label \in LabelNames
  BY <1>5 DEF Rule
<1>7. RequiredLabels(RulesOf[p]) \subseteq Names
  BY <1>3, <1>4, <1>5, <1>6 DEF RequiredLabels, ConfiguredLabels, CustomLabels, Names
<1>8. Choosable(p) \subseteq Rule
  BY <1>5 DEF Choosable
<1>9. \A r \in Choosable(p) : r.mail_label \in RequiredLabels(RulesOf[p])
  BY DEF Choosable, RequiredLabels, ConfiguredLabels, CustomLabels, LabelsOf
<1> QED BY <1>7, <1>8, <1>9

LEMMA CreatedType ==
    ASSUME GmailOK, NEW n \in Names
    PROVE  /\ Created(n) \in [Names -> Nat] /\ Created(n)[n] # 0
           /\ \A k \in Names : labels[k] # 0 => Created(n)[k] # 0
BY DEF GmailOK, Created

\* One call gets another state, which works if and only if the old one did, or
\* belongs to a processor.
LEMMA ConfigStored ==
    ASSUME CallsOK, NEW a \in Actors, NEW new, ConfigOK(new), UNCHANGED thread,
           config' = [config EXCEPT ![a] = new],
           a \in Procs \/ (Working(new) <=> Working(config[a]))
    PROVE  CallsOK'
<1>1. /\ config' = [b \in Actors |-> config'[b]]
      /\ \A b \in Actors : config'[b] = IF b = a THEN new ELSE config[b]
  BY DEF CallsOK
<1>2. \A b \in Actors : ConfigOK(config'[b])
  BY <1>1 DEF CallsOK
<1>3. \A t \in Threads : Working(config'[t]) <=> Working(config[t])
  BY <1>1, LabelsAssumption DEF Actors
<1> QED BY <1>1, <1>2, <1>3 DEF CallsOK, ConfigOK, ThreadOK, Working

\* One worker gets another state; its call is as it was.
LEMMA ThreadStored ==
    ASSUME CallsOK, NEW t \in Threads, NEW new, ThreadOK(new), UNCHANGED config,
           thread' = [thread EXCEPT ![t] = new],
           thread[t].pc # "config", new.pc # "config"
    PROVE  CallsOK'
<1>1. /\ thread' = [u \in Threads |-> thread'[u]]
      /\ \A u \in Threads : thread'[u] = IF u = t THEN new ELSE thread[u]
  BY DEF CallsOK
<1>2. \A u \in Threads : ThreadOK(thread'[u])
  BY <1>1 DEF CallsOK
<1> QED BY <1>1, <1>2 DEF CallsOK, ConfigOK, ThreadOK, Working

\* A worker and its call change together.
LEMMA BothStored ==
    ASSUME CallsOK, NEW t \in Threads, NEW x, NEW c, ThreadOK(x), ConfigOK(c),
           thread' = [thread EXCEPT ![t] = x], config' = [config EXCEPT ![t] = c],
           (x.pc = "config") <=> Working(c)
    PROVE  CallsOK'
<1>1. /\ thread' = [u \in Threads |-> thread'[u]]
      /\ \A u \in Threads : thread'[u] = IF u = t THEN x ELSE thread[u]
  BY DEF CallsOK
<1>2. /\ config' = [b \in Actors |-> config'[b]]
      /\ \A b \in Actors : config'[b] = IF b = t THEN c ELSE config[b]
  BY DEF CallsOK, Actors
<1>3. \A u \in Threads : ThreadOK(thread'[u])
  BY <1>1 DEF CallsOK
<1>4. \A b \in Actors : ConfigOK(config'[b])
  BY <1>2 DEF CallsOK
<1>5. \A u \in Threads : (thread'[u].pc = "config") <=> Working(config'[u])
  BY <1>1, <1>2 DEF CallsOK, Actors
<1> QED BY <1>1, <1>2, <1>3, <1>4, <1>5 DEF CallsOK, ConfigOK, ThreadOK, Working

\* A worker starts to repair the labels.
LEMMA RepairStored ==
    ASSUME CallsOK, NEW t \in Threads, thread[t].pc # "idle", Repair(t)
    PROVE  CallsOK'
<1> DEFINE x == [thread[t] EXCEPT !.pc = "config"]
<1>1. ThreadOK(thread[t]) /\ thread[t].proc \in Procs
  BY DEF CallsOK, ThreadOK
<1>2. ThreadOK(x) /\ x.pc = "config"
  BY <1>1 DEF ThreadOK, Thread
<1>3. thread' = [thread EXCEPT ![t] = x]
  BY DEF Repair
<1>4. config' = [config EXCEPT ![t] = NewConfig(thread[t].proc)]
  BY DEF Repair
<1> HIDE DEF x
<1> QED BY <1>1, <1>2, <1>3, <1>4, NewConfigIsOK, BothStored

LEMMA DeletedCalls ==
    ASSUME CallsOK, NEW n \in Names, config' = Gone(n), UNCHANGED thread
    PROVE  /\ CallsOK'
           /\ \A a \in Actors :
                /\ config'[a].pc = config[a].pc /\ config'[a].proc = config[a].proc
                /\ config'[a].todo = config[a].todo /\ config'[a].erred = config[a].erred
                /\ config[a].pc # "idle" => config'[a].gone = config[a].gone \cup {n}
<1>1. /\ config' = [a \in Actors |-> config'[a]]
      /\ \A a \in Actors : config'[a] = IF config[a].pc = "idle" THEN config[a]
                                        ELSE [config[a] EXCEPT !.gone = config[a].gone \cup {n}]
  BY DEF Gone
<1>2. ASSUME NEW a \in Actors
      PROVE  /\ ConfigOK(config'[a])
             /\ config'[a].pc = config[a].pc /\ config'[a].proc = config[a].proc
             /\ config'[a].todo = config[a].todo /\ config'[a].erred = config[a].erred
             /\ config[a].pc # "idle" => config'[a].gone = config[a].gone \cup {n}
  <2>1. ConfigOK(config[a])
    BY DEF CallsOK
  <2>2. CASE config[a].pc = "idle"
    BY <1>1, <2>1, <2>2
  <2>3. CASE config[a].pc # "idle"
    <3>1. config'[a] = [config[a] EXCEPT !.gone = config[a].gone \cup {n}]
      BY <1>1, <2>3
    <3> QED BY <3>1, <2>1 DEF ConfigOK, Config
  <2> QED BY <2>2, <2>3
<1>3. CallsOK'
  BY <1>1, <1>2 DEF CallsOK, ConfigOK, ThreadOK, Working, Actors
<1> QED BY <1>2, <1>3

\* A step of configure_labels_if_needed.
LEMMA ConfigureTypes ==
    ASSUME Typed, NEW a \in Actors,
           Configures(a) \/ ConfigureStopped(a)
             \/ \E n \in Names, applied \in BOOLEAN : CreateLabelFails(a, n, applied)
    PROVE  Typed'
<1>0. ConfigOK(config[a]) /\ config = [b \in Actors |-> config[b]] /\ CallsOK
  BY DEF Typed, CallsOK
<1>1. CASE ListLabels(a)
  <2> DEFINE missing == {n \in RequiredLabels(RulesOf[config[a].proc]) : labels[n] = 0}
             new == [config[a] EXCEPT
                       !.pc = IF labels[Parent] = 0 THEN "parent" ELSE "create",
                       !.todo = missing, !.gone = {}]
  <2>1. config[a].pc = "list" /\ config' = [config EXCEPT ![a] = new]
        /\ UNCHANGED <<gmail, map, thread, failures>>
    BY <1>1, <1>0 DEF ListLabels
  <2>2. config[a].proc \in Procs
    BY <1>0, <2>1 DEF ConfigOK
  <2>3. missing \subseteq Names
    BY <2>2, RequiredAreNames
  <2> HIDE DEF missing
  <2>4. ConfigOK(new) /\ Working(new) /\ Working(config[a])
    BY <1>0, <2>1, <2>2, <2>3 DEF ConfigOK, Config, Working
  <2> HIDE DEF new
  <2> QED BY <2>1, <2>4, <1>0, ConfigStored DEF Typed, GmailOK, MapOK, gmail, map
<1>2. CASE CreateParent(a)
  <2> DEFINE new == [config[a] EXCEPT !.pc = "create"]
  <2>1. config[a].pc = "parent" /\ config' = [config EXCEPT ![a] = new]
        /\ labels' = Created(Parent)
        /\ UNCHANGED <<categories, labelled, moved, edits, map, thread, failures>>
    BY <1>2, <1>0 DEF CreateParent
  <2>2. ConfigOK(new) /\ Working(new) /\ Working(config[a])
    BY <1>0, <2>1 DEF ConfigOK, Config, Working
  <2>3. labels' \in [Names -> Nat]
    BY <2>1, CreatedType DEF Typed, Names
  <2> HIDE DEF new
  <2> QED BY <2>1, <2>2, <2>3, <1>0, ConfigStored DEF Typed, GmailOK, MapOK, map
<1>3. ASSUME NEW n \in Names, CreateLabel(a, n) PROVE Typed'
  <2> DEFINE new == [config[a] EXCEPT !.todo = config[a].todo \ {n}]
  <2>1. config[a].pc = "create" /\ config' = [config EXCEPT ![a] = new]
        /\ labels' = Created(n)
        /\ UNCHANGED <<categories, labelled, moved, edits, map, thread, failures>>
    BY <1>3, <1>0 DEF CreateLabel
  <2>2. ConfigOK(new) /\ Working(new) /\ Working(config[a])
    BY <1>0, <2>1 DEF ConfigOK, Config, Working
  <2>3. labels' \in [Names -> Nat]
    BY <2>1, CreatedType DEF Typed
  <2> HIDE DEF new
  <2> QED BY <2>1, <2>2, <2>3, <1>0, ConfigStored DEF Typed, GmailOK, MapOK, map
<1>4. ASSUME NEW n \in Names, NEW applied \in BOOLEAN, CreateLabelFails(a, n, applied)
      PROVE  Typed'
  <2> DEFINE new == [config[a] EXCEPT !.todo = config[a].todo \ {n}, !.erred = TRUE]
  <2>1. config[a].pc = "create" /\ config' = [config EXCEPT ![a] = new]
        /\ labels' \in {Created(n), labels}
        /\ UNCHANGED <<categories, labelled, moved, edits, map, thread>>
    BY <1>4, <1>0 DEF CreateLabelFails
  <2>2. ConfigOK(new) /\ Working(new) /\ Working(config[a])
    BY <1>0, <2>1 DEF ConfigOK, Config, Working
  <2>3. labels' \in [Names -> Nat]
    BY <2>1, CreatedType DEF Typed, GmailOK
  <2>4. failures' \in Nat
    BY <1>4 DEF CreateLabelFails, Fails, Typed
  <2> HIDE DEF new
  <2> QED BY <2>1, <2>2, <2>3, <2>4, <1>0, ConfigStored DEF Typed, GmailOK, MapOK, map
<1>5. CASE ConfigureStopped(a)
  <2> DEFINE new == [config[a] EXCEPT !.pc = "create", !.todo = {}, !.erred = TRUE]
  <2>1. config[a].pc \in {"list", "parent"} /\ config' = [config EXCEPT ![a] = new]
        /\ UNCHANGED <<gmail, map, thread>>
    BY <1>5, <1>0 DEF ConfigureStopped
  <2>2. ConfigOK(new) /\ Working(new) /\ Working(config[a])
    BY <1>0, <2>1 DEF ConfigOK, Config, Working
  <2>3. failures' \in Nat
    BY <1>5 DEF ConfigureStopped, Fails, Typed
  <2> HIDE DEF new
  <2> QED BY <2>1, <2>2, <2>3, <1>0, ConfigStored DEF Typed, GmailOK, MapOK, gmail, map
<1>6. ASSUME NEW new, ConfigOK(new), ~Working(new), config' = [config EXCEPT ![a] = new],
             thread' = Released(a)
      PROVE  CallsOK'
  <2>1. CASE a \in Threads
    <3>1. thread' = [thread EXCEPT ![a] = IdleThread] /\ IdleThread.pc # "config"
      BY <1>6, <2>1 DEF Released, IdleThread
    <3> QED BY <3>1, <2>1, <1>0, <1>6, IdleIsOK, BothStored
  <2>2. CASE a \notin Threads
    <3>1. a \in Procs /\ UNCHANGED thread
      BY <1>6, <2>2 DEF Released, Actors
    <3> QED BY <3>1, <1>0, <1>6, ConfigStored
  <2> QED BY <2>1, <2>2
<1>7. CASE Configured(a)
  <2> DEFINE new == [config[a] EXCEPT !.pc = "ok"]
  <2>1. config[a].pc = "create" /\ config' = [config EXCEPT ![a] = new]
        /\ thread' = Released(a) /\ UNCHANGED <<gmail, map, failures>>
    BY <1>7, <1>0 DEF Configured
  <2>2. ConfigOK(new) /\ ~Working(new)
    BY <1>0, <2>1 DEF ConfigOK, Config, Working
  <2> HIDE DEF new
  <2>3. CallsOK'
    BY <2>1, <2>2, <1>6
  <2> QED BY <2>1, <2>3 DEF Typed, GmailOK, MapOK, gmail, map
<1>8. CASE ConfigureFailed(a)
  <2>1. config[a].proc \in Procs /\ ~Working(NoConfig)
    BY <1>0, <1>8 DEF ConfigureFailed, ConfigOK, NoConfig, Working
  <2>2. CallsOK'
    BY <2>1, <1>6, <1>8, IdleIsOK DEF ConfigureFailed
  <2> QED BY <1>8, <2>1, <2>2 DEF ConfigureFailed, Typed, GmailOK, MapOK, gmail
<1> QED BY <1>1, <1>2, <1>3, <1>4, <1>5, <1>7, <1>8 DEF Configures

\* A step of a worker.
LEMMA WorkerTypes ==
    ASSUME Typed, NEW t \in Threads,
           \/ Labels(t) \/ FetchFails(t) \/ GetLabelsFails(t)
           \/ \E e \in Emails : ModifyFails(t, e)
    PROVE  Typed'
<1>0. /\ ThreadOK(thread[t]) /\ thread = [u \in Threads |-> thread[u]] /\ CallsOK
      /\ GmailOK /\ MapOK
  BY DEF Typed, CallsOK
<1>1. ASSUME NEW new, ThreadOK(new), new.pc # "config", thread[t].pc # "config",
             thread' = [thread EXCEPT ![t] = new], UNCHANGED config
      PROVE  CallsOK'
  BY <1>0, <1>1, ThreadStored
<1>2. ASSUME thread[t].pc \in {"labels", "modify"}, Repair(t) PROVE CallsOK'
  BY <1>0, <1>2, RepairStored
<1>3. ASSUME NEW e \in Emails, TakeEmail(t, e) PROVE Typed'
  <2> DEFINE new == [IdleThread EXCEPT !.pc = "fetch", !.email = {e}, !.proc = current]
  <2>1. /\ thread' = [thread EXCEPT ![t] = new] /\ thread[t].pc = "idle"
        /\ UNCHANGED <<gmail, map, config, failures>> /\ current \in 0..NProcs /\ current # 0
    BY <1>3, <1>0 DEF TakeEmail, MapOK
  <2>2. ThreadOK(new) /\ new.pc = "fetch"
    <3>1. current \in Procs
      BY <2>1, LabelsAssumption DEF Procs
    <3> QED BY <3>1, <2>1, IdleIsOK DEF ThreadOK, Thread
  <2> HIDE DEF new
  <2>3. CallsOK'
    BY <2>1, <2>2, <1>1
  <2> QED BY <2>1, <2>3 DEF Typed, GmailOK, MapOK, gmail, map
<1>4. ASSUME NEW e \in Emails, FetchEmail(t, e) PROVE Typed'
  <2>1. PICK r \in Choosable(thread[t].proc) :
          thread' = [thread EXCEPT ![t] = [thread[t] EXCEPT
                       !.pc = "labels", !.held = categories[e], !.rule = r]]
    BY <1>4, <1>0 DEF FetchEmail
  <2> DEFINE new == [thread[t] EXCEPT !.pc = "labels", !.held = categories[e], !.rule = r]
  <2>2. thread[t].pc = "fetch" /\ UNCHANGED <<labels, categories, labelled, edits, map, config, failures>>
    BY <1>4 DEF FetchEmail
  <2>3. r \in Rule /\ categories[e] \in SUBSET ClientCategories
    BY <1>0, <2>2, RequiredAreNames DEF ThreadOK, GmailOK
  <2>4. ThreadOK(new) /\ new.pc = "labels"
    BY <1>0, <2>2, <2>3 DEF ThreadOK, Thread
  <2>5. thread' = [thread EXCEPT ![t] = new]
    BY <2>1
  <2> HIDE DEF new
  <2>6. CallsOK'
    BY <2>2, <2>4, <2>5, <1>1
  <2>7. moved' \subseteq Emails
    BY <1>4, <1>0 DEF FetchEmail, GmailOK
  <2> QED BY <2>2, <2>6, <2>7 DEF Typed, GmailOK, MapOK, map
<1>5. CASE FetchFails(t)
  <2>1. CallsOK'
    BY <1>0, <1>1, <1>5, IdleIsOK DEF FetchFails, IdleThread
  <2>2. failures' \in Nat /\ UNCHANGED <<gmail, map>>
    BY <1>5 DEF FetchFails, Fails, Typed
  <2> QED BY <2>1, <2>2 DEF Typed, GmailOK, MapOK, gmail, map
<1>6. CASE GetLabels(t)
  <2>1. CallsOK'
    <3> DEFINE id == labels[thread[t].rule.mail_label]
               new == [thread[t] EXCEPT !.pc = "modify", !.id = id]
    <3>1. thread[t].pc = "labels"
          /\ (Repair(t) \/ (thread' = [thread EXCEPT ![t] = new] /\ UNCHANGED config))
      BY <1>6, <1>0 DEF GetLabels
    <3>2. id \in Nat
      <4>1. thread[t].rule \in Rule
        BY <1>0 DEF ThreadOK, Thread
      <4>2. thread[t].rule.mail_label \in Names
        BY <4>1 DEF Rule, Names
      <4> QED BY <4>2, <1>0 DEF GmailOK
    <3> HIDE DEF id
    <3>3. ThreadOK(new) /\ new.pc = "modify"
      BY <3>1, <3>2, <1>0 DEF ThreadOK, Thread
    <3> HIDE DEF new
    <3> QED BY <3>1, <3>3, <1>1, <1>2
  <2> QED BY <1>6, <2>1 DEF GetLabels, Typed, GmailOK, MapOK, gmail, map
<1>7. CASE GetLabelsFails(t)
  <2>1. CallsOK'
    BY <1>7, <1>2 DEF GetLabelsFails
  <2>2. failures' \in Nat
    BY <1>7 DEF GetLabelsFails, Fails, Typed
  <2> QED BY <1>7, <2>1, <2>2 DEF GetLabelsFails, Typed, GmailOK, MapOK, gmail, map
<1>8. ASSUME NEW e \in Emails, Modified(t, e), thread[t].pc = "modify"
      PROVE  categories' \in [Emails -> SUBSET ClientCategories]
  <2>1. thread[t].rule \in Rule
    BY <1>0 DEF ThreadOK, Thread
  <2>2. ASSUME NEW cats \in SUBSET ClientCategories
        PROVE  Recategorized(cats, thread[t].held, thread[t].rule) \in SUBSET ClientCategories
    BY <2>1 DEF Recategorized, Rule
  <2>3. categories' = [categories EXCEPT ![e] =
            Recategorized(categories[e], thread[t].held, thread[t].rule)]
    BY <1>8, <1>0 DEF Modified, GmailOK
  <2> QED BY <2>2, <2>3, <1>0 DEF GmailOK
<1>9. ASSUME NEW e \in Emails, ModifyEmail(t, e) PROVE Typed'
  <2>1. thread[t].pc = "modify" /\ UNCHANGED <<labels, moved, edits, map, failures>>
    BY <1>9 DEF ModifyEmail
  <2>2. CASE Repair(t) /\ UNCHANGED <<categories, labelled>>
    <3>1. CallsOK'
      BY <1>2, <2>1, <2>2
    <3> QED BY <2>1, <2>2, <3>1 DEF Typed, GmailOK, MapOK, map
  <2>3. CASE /\ Modified(t, e) /\ labelled' = labelled \cup {e}
             /\ thread' = [thread EXCEPT ![t] = IdleThread] /\ UNCHANGED config
    <3>1. CallsOK'
      BY <1>1, <2>1, <2>3, IdleIsOK DEF IdleThread
    <3>2. categories' \in [Emails -> SUBSET ClientCategories]
      BY <1>8, <2>1, <2>3
    <3> QED BY <2>1, <2>3, <3>1, <3>2 DEF Typed, GmailOK, MapOK, map
  <2> QED BY <1>9, <2>2, <2>3 DEF ModifyEmail
<1>10. ASSUME NEW e \in Emails, ModifyFails(t, e) PROVE Typed'
  <2>1. thread[t].pc = "modify" /\ Repair(t) /\ UNCHANGED <<labels, moved, edits, map>>
    BY <1>10 DEF ModifyFails
  <2>2. CallsOK'
    BY <1>2, <2>1
  <2>3. failures' \in Nat
    BY <1>10 DEF ModifyFails, Fails, Typed
  <2>4. categories' \in [Emails -> SUBSET ClientCategories] /\ labelled' \subseteq Emails
    <3>1. \/ Modified(t, e) /\ labelled' \subseteq labelled \cup {e}
          \/ UNCHANGED <<categories, labelled>>
      BY <1>10 DEF ModifyFails
    <3>2. CASE Modified(t, e) /\ labelled' \subseteq labelled \cup {e}
      BY <3>2, <1>8, <2>1, <1>0 DEF GmailOK
    <3>3. CASE UNCHANGED <<categories, labelled>>
      BY <3>3, <1>0 DEF GmailOK
    <3> QED BY <3>1, <3>2, <3>3
  <2> QED BY <2>1, <2>2, <2>3, <2>4 DEF Typed, GmailOK, MapOK, map
<1> QED BY <1>3, <1>4, <1>5, <1>6, <1>7, <1>9, <1>10 DEF Labels

LEMMA TypedInvariant == Spec => []Typed
<1>1. Init => Typed
  <2> SUFFICES ASSUME Init PROVE Typed
    OBVIOUS
  <2>1. CallsOK
    BY IdleIsOK DEF Init, CallsOK, NoConfig, IdleThread, Working, Actors
  <2>2. categories \in [Emails -> SUBSET ClientCategories]
    BY DEF Init
  <2>3. 0 \in 0..NProcs
    BY LabelsAssumption
  <2> QED BY <2>1, <2>2, <2>3 DEF Init, Typed, GmailOK, MapOK
<1>2. Typed /\ [Next]_vars => Typed'
  <2> SUFFICES ASSUME Typed, [Next]_vars PROVE Typed'
    OBVIOUS
  <2>1. ASSUME NEW n \in Names, DeleteLabel(n) PROVE Typed'
    BY <2>1, DeletedCalls DEF DeleteLabel, Typed, GmailOK, MapOK, map
  <2>2. ASSUME NEW e \in Emails, NEW c \in ClientCategories, Arrive(e, c) \/ MoveEmail(e, c)
        PROVE  Typed'
    <3>1. UNCHANGED <<config, thread>>
      BY <2>2 DEF Arrive, MoveEmail
    <3>2. CallsOK'
      BY <3>1 DEF Typed, CallsOK, ConfigOK, ThreadOK, Working
    <3>3. categories' \in [Emails -> SUBSET ClientCategories]
      BY <2>2 DEF Arrive, MoveEmail, Typed, GmailOK
    <3>4. moved' \subseteq Emails /\ labelled' \subseteq Emails /\ edits' \in Nat
      BY <2>2 DEF Arrive, MoveEmail, Typed, GmailOK
    <3> QED BY <2>2, <3>2, <3>3, <3>4 DEF Arrive, MoveEmail, Typed, GmailOK, MapOK, map
  <2>3. ASSUME NEW p \in Procs, StartProcessor(p) PROVE Typed'
    <3>1. CallsOK'
      BY <2>3, NewConfigIsOK, ConfigStored DEF StartProcessor, Typed, Actors
    <3>2. current' \in 0..NProcs /\ replaced' \in Nat
      BY <2>3, LabelsAssumption DEF StartProcessor, Procs, Typed, MapOK
    <3> QED BY <2>3, <3>1, <3>2 DEF StartProcessor, Typed, GmailOK, MapOK, gmail
  <2>4. CASE UNCHANGED vars
    BY <2>4 DEF vars, gmail, map, Typed, GmailOK, MapOK, CallsOK, ConfigOK, ThreadOK, Working
  <2> QED BY <2>1, <2>2, <2>3, <2>4, ConfigureTypes, WorkerTypes DEF Next
<1> QED BY <1>1, <1>2, PTL DEF Spec

\* The variables keep their types, for any rules, labels, processors and workers.
THEOREM LabelsTyping == Spec => []TypeOK
BY TypedInvariant, TypedIsTypeOK, PTL

-----------------------------------------------------------------------------
(* Configured labels *)

\* A call without an error has, or is still to create, or has seen the user
\* delete, every label required; one that has ended well has none left to create.
Covers(a) ==
    config[a].pc \in {"parent", "create", "ok"} =>
        /\ ~config[a].erred =>
             \A n \in RequiredLabels(RulesOf[config[a].proc]) :
                labels[n] # 0 \/ n \in config[a].todo \/ n \in config[a].gone
        /\ config[a].pc = "ok" => config[a].todo = {} /\ ~config[a].erred

Covering == \A a \in Actors : Covers(a)

LEMMA CoveringInvariant == Spec => []Covering
<1>1. Init => Covering
  BY DEF Init, Covering, Covers, NoConfig
<1>2. Typed /\ Covering /\ [Next]_vars => Covering'
  <2> SUFFICES ASSUME Typed, Covering, [Next]_vars PROVE Covering'
    OBVIOUS
  <2>0. /\ config = [a \in Actors |-> config[a]] /\ GmailOK
        /\ \A a \in Actors : ConfigOK(config[a])
        /\ \A a \in Actors : config[a].pc # "idle" =>
             RequiredLabels(RulesOf[config[a].proc]) \subseteq Names
    BY RequiredAreNames DEF Typed, CallsOK, ConfigOK
  <2>1. ASSUME UNCHANGED <<labels, config>> PROVE Covering'
    BY <2>1 DEF Covering, Covers
  \* No label goes, and one call has a new state.
  <2>2. ASSUME NEW a \in Actors, NEW new, config' = [config EXCEPT ![a] = new],
               \A n \in Names : labels[n] # 0 => labels'[n] # 0,
               new.pc \in {"parent", "create", "ok"} =>
                 /\ ~new.erred =>
                      \A n \in RequiredLabels(RulesOf[new.proc]) :
                         labels'[n] # 0 \/ n \in new.todo \/ n \in new.gone
                 /\ new.pc = "ok" => new.todo = {} /\ ~new.erred
        PROVE  Covering'
    <3>1. \A b \in Actors : config'[b] = IF b = a THEN new ELSE config[b]
      BY <2>0, <2>2
    <3>2. ASSUME NEW b \in Actors, b # a PROVE Covers(b)'
      BY <3>1, <3>2, <2>0, <2>2 DEF Covering, Covers
    <3>3. Covers(a)'
      BY <3>1, <2>2 DEF Covers
    <3> QED BY <3>2, <3>3 DEF Covering
  <2>3. ASSUME NEW n \in Names, DeleteLabel(n) PROVE Covering'
    <3>1. /\ labels' = [labels EXCEPT ![n] = 0] /\ labels \in [Names -> Nat]
          /\ config' = Gone(n) /\ UNCHANGED thread
      BY <2>3, <2>0 DEF DeleteLabel, GmailOK
    <3>2. ASSUME NEW a \in Actors PROVE Covers(a)'
      <4>1. /\ config'[a].pc = config[a].pc /\ config'[a].proc = config[a].proc
            /\ config'[a].todo = config[a].todo /\ config'[a].erred = config[a].erred
            /\ config[a].pc # "idle" => config'[a].gone = config[a].gone \cup {n}
        BY <3>1, DeletedCalls DEF Typed
      <4>2. Covers(a)
        BY DEF Covering
      <4>3. \A k \in Names : labels'[k] = IF k = n THEN 0 ELSE labels[k]
        BY <3>1
      <4> QED BY <4>1, <4>2, <4>3, <2>0 DEF Covers
    <3> QED BY <3>2 DEF Covering
  <2>4. ASSUME NEW a \in Actors, NEW p \in Procs, config' = [config EXCEPT ![a] = NewConfig(p)],
               UNCHANGED labels
        PROVE  Covering'
    <3>1. NewConfig(p).pc = "list"
      BY DEF NewConfig, NoConfig
    <3> QED BY <2>2, <2>4, <3>1
  <2>5. ASSUME NEW p \in Procs, StartProcessor(p) PROVE Covering'
    BY <2>5, <2>4 DEF StartProcessor, Actors, gmail
  <2>6. ASSUME NEW a \in Actors, ListLabels(a) PROVE Covering'
    <3> DEFINE missing == {n \in RequiredLabels(RulesOf[config[a].proc]) : labels[n] = 0}
               new == [config[a] EXCEPT
                         !.pc = IF labels[Parent] = 0 THEN "parent" ELSE "create",
                         !.todo = missing, !.gone = {}]
    <3>1. config' = [config EXCEPT ![a] = new] /\ UNCHANGED labels
      BY <2>6, <2>0 DEF ListLabels, gmail
    <3>2. new.proc = config[a].proc /\ new.todo = missing /\ new.pc # "ok"
      BY <2>0 DEF ConfigOK, Config
    <3>3. \A n \in RequiredLabels(RulesOf[new.proc]) : labels[n] # 0 \/ n \in new.todo
      BY <3>2
    <3> HIDE DEF new
    <3> QED BY <3>1, <3>2, <3>3, <2>2
  <2>7. ASSUME NEW a \in Actors, CreateParent(a) PROVE Covering'
    <3> DEFINE new == [config[a] EXCEPT !.pc = "create"]
    <3>1. config' = [config EXCEPT ![a] = new] /\ config[a].pc = "parent"
      BY <2>7, <2>0 DEF CreateParent
    <3>2. \A n \in Names : labels[n] # 0 => labels'[n] # 0
      BY <2>7, <2>0, CreatedType DEF CreateParent, Names
    <3>3. /\ new.pc = "create" /\ new.proc = config[a].proc /\ new.todo = config[a].todo
          /\ new.gone = config[a].gone /\ new.erred = config[a].erred
      BY <2>0 DEF ConfigOK, Config
    <3>4. Covers(a)
      BY DEF Covering
    <3> HIDE DEF new
    <3>5. ~new.erred => \A n \in RequiredLabels(RulesOf[new.proc]) :
                           labels'[n] # 0 \/ n \in new.todo \/ n \in new.gone
      BY <3>1, <3>2, <3>3, <3>4, <2>0 DEF Covers
    <3> QED BY <3>1, <3>2, <3>3, <3>5, <2>2
  <2>8. ASSUME NEW a \in Actors, NEW n \in Names, CreateLabel(a, n) PROVE Covering'
    <3> DEFINE new == [config[a] EXCEPT !.todo = config[a].todo \ {n}]
    <3>1. config' = [config EXCEPT ![a] = new] /\ config[a].pc = "create"
      BY <2>8, <2>0 DEF CreateLabel
    <3>2. labels'[n] # 0 /\ \A k \in Names : labels[k] # 0 => labels'[k] # 0
      BY <2>8, <2>0, CreatedType DEF CreateLabel
    <3>3. /\ new.pc = "create" /\ new.proc = config[a].proc /\ new.todo = config[a].todo \ {n}
          /\ new.gone = config[a].gone /\ new.erred = config[a].erred
      BY <3>1, <2>0 DEF ConfigOK, Config
    <3>4. Covers(a)
      BY DEF Covering
    <3> HIDE DEF new
    <3>5. ~new.erred => \A k \in RequiredLabels(RulesOf[new.proc]) :
                           labels'[k] # 0 \/ k \in new.todo \/ k \in new.gone
      BY <3>1, <3>2, <3>3, <3>4, <2>0 DEF Covers
    <3> QED BY <3>1, <3>2, <3>3, <3>5, <2>2
  <2>9. ASSUME NEW a \in Actors, NEW n \in Names, NEW applied \in BOOLEAN,
               CreateLabelFails(a, n, applied)
        PROVE  Covering'
    <3> DEFINE new == [config[a] EXCEPT !.todo = config[a].todo \ {n}, !.erred = TRUE]
    <3>1. config' = [config EXCEPT ![a] = new] /\ config[a].pc = "create"
      BY <2>9, <2>0 DEF CreateLabelFails
    <3>2. \A k \in Names : labels[k] # 0 => labels'[k] # 0
      BY <2>9, <2>0, CreatedType DEF CreateLabelFails
    <3>3. new.pc = "create" /\ new.erred
      BY <3>1, <2>0 DEF ConfigOK, Config
    <3> HIDE DEF new
    <3> QED BY <3>1, <3>2, <3>3, <2>2
  <2>10. ASSUME NEW a \in Actors, ConfigureStopped(a) PROVE Covering'
    <3> DEFINE new == [config[a] EXCEPT !.pc = "create", !.todo = {}, !.erred = TRUE]
    <3>1. config' = [config EXCEPT ![a] = new] /\ UNCHANGED labels
      BY <2>10, <2>0 DEF ConfigureStopped, gmail
    <3>2. new.pc = "create" /\ new.erred
      BY <2>0 DEF ConfigOK, Config
    <3> HIDE DEF new
    <3> QED BY <3>1, <3>2, <2>2
  <2>11. ASSUME NEW a \in Actors, Configured(a) PROVE Covering'
    <3> DEFINE new == [config[a] EXCEPT !.pc = "ok"]
    <3>1. /\ config' = [config EXCEPT ![a] = new] /\ UNCHANGED labels
          /\ config[a].pc = "create" /\ config[a].todo = {} /\ ~config[a].erred
      BY <2>11, <2>0 DEF Configured, gmail
    <3>2. /\ new.proc = config[a].proc /\ new.todo = {} /\ ~new.erred
          /\ new.gone = config[a].gone
      BY <3>1, <2>0 DEF ConfigOK, Config
    <3>3. Covers(a)
      BY DEF Covering
    <3> HIDE DEF new
    <3>4. \A n \in RequiredLabels(RulesOf[new.proc]) : labels'[n] # 0 \/ n \in new.gone
      BY <3>1, <3>2, <3>3 DEF Covers
    <3> QED BY <3>1, <3>2, <3>4, <2>2
  <2>12. ASSUME NEW a \in Actors, ConfigureFailed(a) PROVE Covering'
    <3>1. NoConfig.pc = "idle"
      BY DEF NoConfig
    <3> QED BY <3>1, <2>2, <2>12 DEF ConfigureFailed, gmail
  <2>13. ASSUME NEW t \in Threads, Repair(t), thread[t].pc # "idle", UNCHANGED labels
         PROVE  Covering'
    <3>1. thread[t].proc \in Procs
      BY <2>13 DEF Typed, CallsOK, ThreadOK
    <3> QED BY <3>1, <2>4, <2>13 DEF Repair, Actors
  <2>14. ASSUME NEW t \in Threads,
                \/ GetLabels(t) \/ GetLabelsFails(t) \/ FetchFails(t)
                \/ \E e \in Emails : \/ TakeEmail(t, e) \/ FetchEmail(t, e)
                                     \/ ModifyEmail(t, e) \/ ModifyFails(t, e)
         PROVE  Covering'
    <3>1. UNCHANGED labels /\ (UNCHANGED config \/ (Repair(t) /\ thread[t].pc # "idle"))
      BY <2>14 DEF GetLabels, GetLabelsFails, FetchFails, TakeEmail, FetchEmail, ModifyEmail,
                   ModifyFails, gmail
    <3> QED BY <3>1, <2>1, <2>13
  <2>15. ASSUME NEW e \in Emails, NEW c \in ClientCategories, Arrive(e, c) \/ MoveEmail(e, c)
         PROVE  Covering'
    BY <2>1, <2>15 DEF Arrive, MoveEmail
  <2>16. CASE UNCHANGED vars
    BY <2>1, <2>16 DEF vars, gmail
  <2> QED BY <2>3, <2>5, <2>6, <2>7, <2>8, <2>9, <2>10, <2>11, <2>12, <2>14, <2>15, <2>16
          DEF Next, Configures, Labels
<1> QED BY <1>1, <1>2, TypedInvariant, PTL DEF Spec

\* Once a call has succeeded, every rule an email may be filed under has its
\* label, unless the user has deleted it since: for any number of processors and
\* workers that create labels at the same time.
THEOREM LabelsConfigured == Spec => []ConfiguredIsComplete
<1>1. Typed /\ Covering => ConfiguredIsComplete
  <2> SUFFICES ASSUME Typed, Covering, NEW a \in Actors, config[a].pc = "ok",
                      NEW r \in Choosable(config[a].proc)
               PROVE  labels[r.mail_label] # 0 \/ r.mail_label \in config[a].gone
    BY DEF ConfiguredIsComplete
  <2>1. config[a].proc \in Procs
    BY DEF Typed, CallsOK, ConfigOK
  <2>2. r.mail_label \in RequiredLabels(RulesOf[config[a].proc])
    BY <2>1, RequiredAreNames
  <2> QED BY <2>2 DEF Covering, Covers
<1> QED BY <1>1, TypedInvariant, CoveringInvariant, PTL

-----------------------------------------------------------------------------
(* Failed processors *)

\* Processors that failed or have a call that is about to fail them.
Tainted == failed \cup {config[a].proc : a \in {b \in Actors : config[b].erred}}

Accounted == Cardinality(Tainted) <= failures

LEMMA TaintedIsFinite == Typed => IsFiniteSet(Tainted)
<1> SUFFICES ASSUME Typed PROVE IsFiniteSet(Tainted)
  OBVIOUS
<1>1. Procs \subseteq 0..NProcs
  BY LabelsAssumption DEF Procs
<1>2. failed \subseteq 0..NProcs
  BY <1>1 DEF Typed, MapOK
<1>3. \A a \in Actors : config[a].proc \in 0..NProcs
  BY DEF Typed, CallsOK, ConfigOK, Config
<1>4. Tainted \subseteq 0..NProcs
  BY <1>2, <1>3 DEF Tainted
<1>5. 0 \in Int /\ NProcs \in Int
  BY LabelsAssumption
<1>6. IsFiniteSet(0..NProcs)
  BY <1>5, FS_Interval
<1> QED BY <1>4, <1>6, FS_Subset

\* An error of a call is a failure counted; nothing else adds to the tainted.
LEMMA AccountedInvariant == Spec => []Accounted
<1>1. Init => Accounted
  <2> SUFFICES ASSUME Init PROVE Accounted
    OBVIOUS
  <2>1. Tainted = {}
    BY DEF Init, Tainted, NoConfig
  <2> QED BY <2>1, FS_EmptySet DEF Init, Accounted
<1>2. Typed /\ Typed' /\ Accounted /\ [Next]_vars => Accounted'
  <2> SUFFICES ASSUME Typed, Typed', Accounted, [Next]_vars PROVE Accounted'
    OBVIOUS
  <2>0. /\ config = [a \in Actors |-> config[a]]
        /\ \A a \in Actors : ConfigOK(config[a])
        /\ failures \in Nat /\ failures' \in Nat
    BY DEF Typed, CallsOK
  <2>2. IsFiniteSet(Tainted) /\ Cardinality(Tainted) \in Nat
    BY TaintedIsFinite, FS_CardinalityType
  <2>3. ASSUME Tainted' \subseteq Tainted, failures' \in {failures, failures + 1}
        PROVE  Accounted'
    <3>1. Cardinality(Tainted') <= Cardinality(Tainted) /\ Cardinality(Tainted') \in Nat
      BY <2>2, <2>3, FS_Subset, FS_CardinalityType
    <3> QED BY <3>1, <2>0, <2>2, <2>3 DEF Accounted
  <2>4. ASSUME NEW p, Tainted' \subseteq Tainted \cup {p}, failures' = failures + 1
        PROVE  Accounted'
    <3>1. /\ IsFiniteSet(Tainted \cup {p}) /\ Cardinality(Tainted \cup {p}) \in Nat
          /\ Cardinality(Tainted \cup {p}) <= Cardinality(Tainted) + 1
      BY <2>2, FS_AddElement, FS_CardinalityType
    <3>2. Cardinality(Tainted') <= Cardinality(Tainted \cup {p}) /\ Cardinality(Tainted') \in Nat
      BY <3>1, <2>4, FS_Subset, FS_CardinalityType
    <3> QED BY <3>1, <3>2, <2>0, <2>2, <2>4 DEF Accounted
  \* A call that is as erroneous as it was, and for the same processor.
  <2>5. ASSUME NEW a \in Actors, NEW new, config' = [config EXCEPT ![a] = new],
               new.erred => config[a].erred /\ new.proc = config[a].proc,
               failed' \subseteq Tainted, failures' \in {failures, failures + 1}
        PROVE  Accounted'
    <3>1. \A b \in Actors : config'[b] = IF b = a THEN new ELSE config[b]
      BY <2>0, <2>5
    <3>2. Tainted' \subseteq Tainted
      BY <3>1, <2>5 DEF Tainted
    <3> QED BY <3>2, <2>3, <2>5
  <2>6. ASSUME NEW a \in Actors, NEW new, config' = [config EXCEPT ![a] = new],
               UNCHANGED failed, Fails
        PROVE  Accounted'
    <3>1. \A b \in Actors : config'[b] = IF b = a THEN new ELSE config[b]
      BY <2>0, <2>6
    <3>2. Tainted' \subseteq Tainted \cup {new.proc}
      BY <3>1, <2>6 DEF Tainted
    <3> QED BY <3>2, <2>4, <2>6 DEF Fails
  <2>7. ASSUME UNCHANGED <<config, failed>>, failures' \in {failures, failures + 1}
        PROVE  Accounted'
    BY <2>3, <2>7 DEF Tainted
  <2>8. ASSUME NEW n \in Names, DeleteLabel(n) PROVE Accounted'
    <3>1. /\ \A a \in Actors : config'[a].proc = config[a].proc
                               /\ config'[a].erred = config[a].erred
          /\ UNCHANGED <<failed, failures>>
      BY <2>8, DeletedCalls DEF DeleteLabel, Typed, map
    <3>2. Tainted' \subseteq Tainted
      BY <3>1 DEF Tainted
    <3> QED BY <3>1, <3>2, <2>3
  <2>9. ASSUME NEW p \in Procs, StartProcessor(p) PROVE Accounted'
    <3>1. ~NewConfig(p).erred
      BY DEF NewConfig, NoConfig
    <3> QED BY <3>1, <2>5, <2>9 DEF StartProcessor, Actors, Tainted
  <2>10. ASSUME NEW a \in Actors, ListLabels(a) PROVE Accounted'
    <3> DEFINE new == [config[a] EXCEPT
                         !.pc = IF labels[Parent] = 0 THEN "parent" ELSE "create",
                         !.todo = {n \in RequiredLabels(RulesOf[config[a].proc]) : labels[n] = 0},
                         !.gone = {}]
    <3>1. config' = [config EXCEPT ![a] = new] /\ UNCHANGED <<failed, failures>>
      BY <2>10, <2>0 DEF ListLabels, map
    <3>2. new.erred = config[a].erred /\ new.proc = config[a].proc
      BY <2>0 DEF ConfigOK, Config
    <3> HIDE DEF new
    <3> QED BY <3>1, <3>2, <2>5 DEF Tainted
  <2>11. ASSUME NEW a \in Actors, CreateParent(a) PROVE Accounted'
    <3> DEFINE new == [config[a] EXCEPT !.pc = "create"]
    <3>1. config' = [config EXCEPT ![a] = new] /\ UNCHANGED <<failed, failures>>
      BY <2>11, <2>0 DEF CreateParent, map
    <3>2. new.erred = config[a].erred /\ new.proc = config[a].proc
      BY <2>0 DEF ConfigOK, Config
    <3> HIDE DEF new
    <3> QED BY <3>1, <3>2, <2>5 DEF Tainted
  <2>12. ASSUME NEW a \in Actors, NEW n \in Names, CreateLabel(a, n) PROVE Accounted'
    <3> DEFINE new == [config[a] EXCEPT !.todo = config[a].todo \ {n}]
    <3>1. config' = [config EXCEPT ![a] = new] /\ UNCHANGED <<failed, failures>>
      BY <2>12, <2>0 DEF CreateLabel, map
    <3>2. new.erred = config[a].erred /\ new.proc = config[a].proc
      BY <2>0 DEF ConfigOK, Config
    <3> HIDE DEF new
    <3> QED BY <3>1, <3>2, <2>5 DEF Tainted
  <2>13. ASSUME NEW a \in Actors, Configured(a) PROVE Accounted'
    <3> DEFINE new == [config[a] EXCEPT !.pc = "ok"]
    <3>1. config' = [config EXCEPT ![a] = new] /\ UNCHANGED <<failed, failures>>
      BY <2>13, <2>0 DEF Configured, map
    <3>2. new.erred = config[a].erred /\ new.proc = config[a].proc
      BY <2>0 DEF ConfigOK, Config
    <3> HIDE DEF new
    <3> QED BY <3>1, <3>2, <2>5 DEF Tainted
  <2>14. ASSUME NEW a \in Actors, NEW n \in Names, NEW applied \in BOOLEAN,
                CreateLabelFails(a, n, applied)
         PROVE  Accounted'
    BY <2>6, <2>0, <2>14 DEF CreateLabelFails, map
  <2>15. ASSUME NEW a \in Actors, ConfigureStopped(a) PROVE Accounted'
    BY <2>6, <2>0, <2>15 DEF ConfigureStopped, map
  <2>16. ASSUME NEW a \in Actors, ConfigureFailed(a) PROVE Accounted'
    <3>1. failed' \subseteq Tainted
      BY <2>16 DEF ConfigureFailed, Tainted
    <3>2. ~NoConfig.erred
      BY DEF NoConfig
    <3> QED BY <3>1, <3>2, <2>5, <2>16 DEF ConfigureFailed
  <2>17. ASSUME NEW t \in Threads,
                \/ GetLabels(t) \/ GetLabelsFails(t) \/ FetchFails(t)
                \/ \E e \in Emails : \/ TakeEmail(t, e) \/ FetchEmail(t, e)
                                     \/ ModifyEmail(t, e) \/ ModifyFails(t, e)
         PROVE  Accounted'
    <3>1. /\ UNCHANGED failed /\ failures' \in {failures, failures + 1}
          /\ \/ UNCHANGED config
             \/ config' = [config EXCEPT ![t] = NewConfig(thread[t].proc)]
      BY <2>17 DEF GetLabels, GetLabelsFails, FetchFails, TakeEmail, FetchEmail, ModifyEmail,
                   ModifyFails, Repair, Fails, map
    <3>2. ~NewConfig(thread[t].proc).erred
      BY DEF NewConfig, NoConfig
    <3> QED BY <3>1, <3>2, <2>5, <2>7 DEF Actors, Tainted
  <2>18. ASSUME NEW e \in Emails, NEW c \in ClientCategories, Arrive(e, c) \/ MoveEmail(e, c)
         PROVE  Accounted'
    BY <2>7, <2>18 DEF Arrive, MoveEmail, map
  <2>19. CASE UNCHANGED vars
    BY <2>7, <2>19 DEF vars, map
  <2> QED BY <2>8, <2>9, <2>10, <2>11, <2>12, <2>13, <2>14, <2>15, <2>16, <2>17, <2>18, <2>19
          DEF Next, Configures, Labels
<1> QED BY <1>1, <1>2, TypedInvariant, PTL DEF Spec

\* Processors and workers that configure the same labels at the same time do each
\* other no harm: a processor fails only by a failure of a call, one for each.
THEOREM ProcessorsFailOnErrors == Spec => []FailsOnlyOnError
<1>1. Typed /\ Accounted => FailsOnlyOnError
  <2> SUFFICES ASSUME Typed, Accounted PROVE FailsOnlyOnError
    OBVIOUS
  <2>3. IsFiniteSet(Tainted)
    BY TaintedIsFinite
  <2>4. failed \subseteq Tainted
    BY DEF Tainted
  <2>5. /\ Cardinality(failed) <= Cardinality(Tainted)
        /\ Cardinality(failed) \in Nat /\ Cardinality(Tainted) \in Nat
    BY <2>3, <2>4, FS_Subset, FS_CardinalityType
  <2> QED BY <2>5 DEF Typed, Accounted, FailsOnlyOnError
<1> QED BY <1>1, AccountedInvariant, TypedInvariant, PTL

-----------------------------------------------------------------------------
(* Categories *)

\* An email has one worker, a worker one email, and what the worker has fetched
\* is at least what the email is in, unless it was moved since.
Known ==
    /\ \A t, u \in Threads : t # u => thread[t].email \cap thread[u].email = {}
    /\ \A t \in Threads : \A d, e \in thread[t].email : d = e
    /\ \A t \in Threads, e \in Emails :
         Holds(t, e) => categories[e] \subseteq thread[t].held \/ e \in moved
    /\ OneCategory

LEMMA OneIsSingle == \A c : Cardinality({c}) <= 1
<1> TAKE c
<1>1. Cardinality({c}) = 1
  BY FS_Singleton
<1> QED BY <1>1

LEMMA KnownInvariant == Spec => []Known
<1>1. Init => Known
  <2> SUFFICES ASSUME Init PROVE Known
    OBVIOUS
  <2>1. \A e \in Emails : Cardinality(categories[e]) <= 1
    <3> SUFFICES ASSUME NEW e \in Emails PROVE Cardinality(categories[e]) <= 1
      OBVIOUS
    <3>1. PICK c \in ClientCategories : categories[e] = {c}
      BY DEF Init
    <3> QED BY <3>1, OneIsSingle
  <2> QED BY <2>1 DEF Init, Known, Holds, OneCategory, IdleThread
<1>2. Typed /\ Known /\ [Next]_vars => Known'
  <2> SUFFICES ASSUME Typed, Known, [Next]_vars PROVE Known'
    OBVIOUS
  <2>0. /\ thread = [t \in Threads |-> thread[t]]
        /\ \A t \in Threads : ThreadOK(thread[t])
        /\ categories \in [Emails -> SUBSET ClientCategories]
    BY DEF Typed, CallsOK, GmailOK
  <2>1. ASSUME UNCHANGED <<categories, moved, thread>> PROVE Known'
    BY <2>1 DEF Known, Holds, OneCategory
  \* A worker lets its email go or keeps it without holding its categories.
  <2>2. ASSUME NEW t \in Threads, NEW new, thread' = [thread EXCEPT ![t] = new],
               new.email \subseteq thread[t].email,
               new.pc \notin {"labels", "modify"} \/ new.held = thread[t].held,
               new.pc \in {"labels", "modify"} => thread[t].pc \in {"labels", "modify"},
               UNCHANGED <<categories, moved>>
        PROVE  Known'
    <3>1. \A u \in Threads : thread'[u] = IF u = t THEN new ELSE thread[u]
      BY <2>0, <2>2
    <3> QED BY <3>1, <2>2 DEF Known, Holds, OneCategory
  <2>3. IdleThread.email = {} /\ IdleThread.pc = "idle"
    BY DEF IdleThread
  <2>4. ASSUME NEW a \in Actors, thread' = Released(a), UNCHANGED <<categories, moved>>
        PROVE  Known'
    BY <2>1, <2>2, <2>3, <2>4 DEF Released
  <2>5. ASSUME NEW t \in Threads, Repair(t), UNCHANGED <<categories, moved>> PROVE Known'
    <3> DEFINE new == [thread[t] EXCEPT !.pc = "config"]
    <3>1. thread' = [thread EXCEPT ![t] = new]
      BY <2>5 DEF Repair
    <3>2. new.pc = "config" /\ new.email = thread[t].email
      BY <2>0 DEF ThreadOK, Thread
    <3> HIDE DEF new
    <3> QED BY <3>1, <3>2, <2>2, <2>5
  \* An email that was in one category is labelled.
  <2>6. ASSUME NEW t \in Threads, NEW e \in Emails, e \in thread[t].email,
               thread[t].pc = "modify", Modified(t, e), UNCHANGED moved,
               NEW new, thread' = [thread EXCEPT ![t] = new],
               new.email \subseteq thread[t].email, new.pc \notin {"labels", "modify"}
        PROVE  Known'
    <3>1. \A u \in Threads : thread'[u] = IF u = t THEN new ELSE thread[u]
      BY <2>0, <2>6
    <3>2. \A d \in Emails \ {e} : categories'[d] = categories[d]
      BY <2>0, <2>6 DEF Modified
    <3>3. \A u \in Threads : ~Holds(u, e)'
      BY <3>1, <2>6 DEF Known, Holds
    <3>4. Cardinality(categories'[e]) <= 1 \/ e \in moved
      <4> DEFINE cat == thread[t].rule.category
      <4>1. categories[e] \subseteq thread[t].held \/ e \in moved
        BY <2>6 DEF Known, Holds
      <4>2. categories'[e] = Recategorized(categories[e], thread[t].held, thread[t].rule)
        BY <2>0, <2>6 DEF Modified
      <4>3. CASE cat = NoCategory
        BY <4>2, <4>3 DEF Recategorized, Known, OneCategory
      <4>4. CASE cat # NoCategory /\ categories[e] \subseteq thread[t].held
        <5>1. categories'[e] = {cat}
          BY <4>2, <4>4 DEF Recategorized
        <5> QED BY <5>1, OneIsSingle
      <4> QED BY <4>1, <4>3, <4>4
    <3>5. /\ \A v, u \in Threads : v # u => thread'[v].email \cap thread'[u].email = {}
          /\ \A u \in Threads : \A c, d \in thread'[u].email : c = d
      BY <3>1, <2>6 DEF Known
    <3>6. \A u \in Threads, d \in Emails :
            Holds(u, d)' => categories'[d] \subseteq thread'[u].held \/ d \in moved'
      BY <3>1, <3>2, <3>3, <2>6 DEF Known, Holds
    <3> QED BY <3>2, <3>4, <3>5, <3>6, <2>6 DEF Known, OneCategory
  <2>7. ASSUME NEW e \in Emails, NEW c \in ClientCategories, Arrive(e, c) PROVE Known'
    <3>1. /\ UNCHANGED thread /\ \A t \in Threads : e \notin thread[t].email
          /\ categories'[e] = {c} /\ moved' = moved \ {e}
          /\ \A d \in Emails \ {e} : categories'[d] = categories[d]
      BY <2>7, <2>0 DEF Arrive
    <3>2. Cardinality(categories'[e]) <= 1
      BY <3>1, OneIsSingle
    <3>3. OneCategory'
      BY <3>1, <3>2 DEF Known, OneCategory
    <3>4. \A t \in Threads, d \in Emails :
            Holds(t, d)' => categories'[d] \subseteq thread'[t].held \/ d \in moved'
      BY <3>1 DEF Known, Holds
    <3>5. /\ \A t, u \in Threads : t # u => thread'[t].email \cap thread'[u].email = {}
          /\ \A t \in Threads : \A d, f \in thread'[t].email : d = f
      BY <3>1 DEF Known
    <3> QED BY <3>3, <3>4, <3>5 DEF Known
  <2>8. ASSUME NEW e \in Emails, NEW c \in ClientCategories, MoveEmail(e, c) PROVE Known'
    <3>1. /\ UNCHANGED thread /\ categories'[e] = {c}
          /\ \A t \in Threads : Holds(t, e) => e \in moved'
          /\ \A d \in Emails \ {e} : /\ categories'[d] = categories[d]
                                     /\ d \in moved' <=> d \in moved
      BY <2>8, <2>0 DEF MoveEmail
    <3>2. Cardinality(categories'[e]) <= 1
      BY <3>1, OneIsSingle
    <3>3. OneCategory'
      BY <3>1, <3>2 DEF Known, OneCategory
    <3>4. \A t \in Threads, d \in Emails :
            Holds(t, d)' => categories'[d] \subseteq thread'[t].held \/ d \in moved'
      BY <3>1 DEF Known, Holds
    <3>5. /\ \A t, u \in Threads : t # u => thread'[t].email \cap thread'[u].email = {}
          /\ \A t \in Threads : \A d, f \in thread'[t].email : d = f
      BY <3>1 DEF Known
    <3> QED BY <3>3, <3>4, <3>5 DEF Known
  <2>9. ASSUME NEW t \in Threads, NEW e \in Emails, TakeEmail(t, e) PROVE Known'
    <3> DEFINE new == [IdleThread EXCEPT !.pc = "fetch", !.email = {e}, !.proc = current]
    <3>1. /\ thread' = [thread EXCEPT ![t] = new] /\ UNCHANGED <<categories, moved>>
          /\ \A u \in Threads : e \notin thread[u].email
      BY <2>9 DEF TakeEmail, gmail
    <3>2. new.pc = "fetch" /\ new.email = {e}
      BY DEF IdleThread
    <3> HIDE DEF new
    <3>3. \A u \in Threads : thread'[u] = IF u = t THEN new ELSE thread[u]
      BY <2>0, <3>1
    <3> QED BY <3>1, <3>2, <3>3 DEF Known, Holds, OneCategory
  <2>10. ASSUME NEW t \in Threads, NEW e \in Emails, FetchEmail(t, e) PROVE Known'
    <3>1. PICK r \in Choosable(thread[t].proc) :
            thread' = [thread EXCEPT ![t] = [thread[t] EXCEPT
                         !.pc = "labels", !.held = categories[e], !.rule = r]]
      BY <2>10, <2>0 DEF FetchEmail
    <3> DEFINE new == [thread[t] EXCEPT !.pc = "labels", !.held = categories[e], !.rule = r]
    <3>2. new.held = categories[e] /\ new.email = thread[t].email
      BY <2>0 DEF ThreadOK, Thread
    <3>3. /\ thread[t].pc = "fetch" /\ e \in thread[t].email /\ UNCHANGED categories
          /\ moved' = IF Cardinality(categories[e]) <= 1 THEN moved \ {e} ELSE moved
      BY <2>10 DEF FetchEmail
    <3>4. \A u \in Threads : thread'[u] = IF u = t THEN new ELSE thread[u]
      BY <2>0, <3>1
    <3> HIDE DEF new
    <3>5. \A d \in thread[t].email : d = e
      BY <3>3 DEF Known
    <3>6. \A u \in Threads \ {t} : e \notin thread[u].email
      BY <3>3 DEF Known
    <3>7. \A u \in Threads, d \in Emails :
            Holds(u, d)' => categories'[d] \subseteq thread'[u].held \/ d \in moved'
      BY <3>2, <3>3, <3>4, <3>5, <3>6 DEF Known, Holds
    <3>8. OneCategory'
      BY <3>3 DEF Known, OneCategory
    <3>9. /\ \A v, u \in Threads : v # u => thread'[v].email \cap thread'[u].email = {}
          /\ \A u \in Threads : \A c, d \in thread'[u].email : c = d
      BY <3>2, <3>4 DEF Known
    <3> QED BY <3>7, <3>8, <3>9 DEF Known
  <2>11. ASSUME NEW t \in Threads, FetchFails(t) PROVE Known'
    BY <2>2, <2>3, <2>11 DEF FetchFails, gmail
  <2>12. ASSUME NEW t \in Threads, GetLabels(t) PROVE Known'
    <3> DEFINE new == [thread[t] EXCEPT !.pc = "modify",
                                        !.id = labels[thread[t].rule.mail_label]]
    <3>1. /\ thread[t].pc = "labels" /\ UNCHANGED <<categories, moved>>
          /\ Repair(t) \/ thread' = [thread EXCEPT ![t] = new]
      BY <2>0, <2>12 DEF GetLabels, gmail
    <3>2. /\ new.pc = "modify" /\ new.email = thread[t].email
          /\ new.held = thread[t].held
      BY <2>0 DEF ThreadOK, Thread
    <3> HIDE DEF new
    <3> QED BY <3>1, <3>2, <2>2, <2>5
  <2>13. ASSUME NEW t \in Threads, GetLabelsFails(t) PROVE Known'
    BY <2>5, <2>13 DEF GetLabelsFails, gmail
  <2>14. ASSUME NEW t \in Threads, NEW e \in Emails, ModifyEmail(t, e) \/ ModifyFails(t, e)
         PROVE  Known'
    <3>1. thread[t].pc = "modify" /\ e \in thread[t].email /\ UNCHANGED moved
      BY <2>14 DEF ModifyEmail, ModifyFails
    <3> DEFINE new == [thread[t] EXCEPT !.pc = "config"]
    <3>2. \/ Repair(t) /\ UNCHANGED categories
          \/ Modified(t, e) /\ thread' = [thread EXCEPT ![t] = IdleThread]
          \/ Modified(t, e) /\ thread' = [thread EXCEPT ![t] = new]
      BY <2>14 DEF ModifyEmail, ModifyFails, Repair
    <3>3. new.pc = "config" /\ new.email = thread[t].email
      BY <2>0 DEF ThreadOK, Thread
    <3> HIDE DEF new
    <3> QED BY <3>1, <3>2, <3>3, <2>3, <2>5, <2>6
  <2>15. ASSUME NEW a \in Actors, Configures(a) \/ ConfigureStopped(a)
                  \/ \E n \in Names, applied \in BOOLEAN : CreateLabelFails(a, n, applied)
         PROVE  Known'
    <3>1. /\ UNCHANGED <<categories, moved>>
          /\ UNCHANGED thread \/ thread' = Released(a)
      BY <2>15 DEF Configures, ListLabels, CreateParent, CreateLabel, Configured,
                   ConfigureFailed, ConfigureStopped, CreateLabelFails, gmail
    <3> QED BY <3>1, <2>1, <2>4
  <2>16. ASSUME NEW n \in Names, DeleteLabel(n) PROVE Known'
    BY <2>1, <2>16 DEF DeleteLabel
  <2>17. ASSUME NEW p \in Procs, StartProcessor(p) PROVE Known'
    BY <2>1, <2>17 DEF StartProcessor, gmail
  <2>18. CASE UNCHANGED vars
    BY <2>1, <2>18 DEF vars, gmail
  <2> QED BY <2>7, <2>8, <2>9, <2>10, <2>11, <2>12, <2>13, <2>14, <2>15, <2>16, <2>17, <2>18
          DEF Next, Labels
<1> QED BY <1>1, <1>2, TypedInvariant, PTL DEF Spec

\* An email that was in one category is in one after it is labelled, unless it was
\* moved after its message was fetched.
THEOREM CategoriesStaySingle == Spec => []OneCategory
<1>1. Known => OneCategory
  BY DEF Known
<1> QED BY <1>1, KnownInvariant, PTL
=============================================================================
