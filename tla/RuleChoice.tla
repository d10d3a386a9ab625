----------------------------- MODULE RuleChoice -----------------------------
(***************************************************************************)
(* Which rule an email is filed under: the rules of a user                 *)
(* (email/rules.rs) and the choice among them for an answer of the         *)
(* language model (parse_and_prompt_email in email/processor.rs).          *)
(*                                                                         *)
(* Where the code takes the first match of a list whose order is that of a *)
(* hash map or of an unordered query, the operators give all it may take.  *)
(***************************************************************************)
EXTENDS Naturals, Sequences

CONSTANTS
    Answers,            \* what the model may answer, prompt contents included
    LabelNames,         \* mail labels, without their prefix Mailclerk/
    ClientCategories,   \* the categories of Gmail's tabs
    NoCategory,         \* a rule without one
    DefaultRules,       \* the configured categories, in their order
    HeuristicRules,     \* the configured heuristics; their answer is an address
    Senders,            \* whom emails may be from
    HeuristicOf,        \* sender -> the rule of the first heuristic that matches, if any
    Exempt,             \* "Terms of Service Update", "Verification Code", "Security Alert"
    UnknownRule,        \* the rule of what no rule is found for
    Keep                \* the utility label that is no rule's

Rule == [prompt_content : Answers, mail_label : LabelNames,
         category : ClientCategories \cup {NoCategory}]

ASSUME RulesAssumption ==
    /\ NoCategory \notin ClientCategories
    /\ DefaultRules \in Seq(Rule)
    /\ HeuristicRules \subseteq Rule
    /\ Senders # {}
    /\ HeuristicOf \in [Senders -> SUBSET HeuristicRules]
    /\ \A s \in Senders : \A r, q \in HeuristicOf[s] : r = q
    /\ UnknownRule \in Rule
    /\ Keep \in LabelNames

-----------------------------------------------------------------------------
(* The rules of a user *)

\* A processor's rules; the list it keeps has the custom ones first.
RuleData == [custom : SUBSET Rule, default : SUBSET Rule]

Categories == {DefaultRules[i].mail_label : i \in DOMAIN DefaultRules}

\* The map by label has one rule for each, the last of those configured.
DefaultEmailRules ==
    {DefaultRules[i] : i \in {i \in DOMAIN DefaultRules :
        \A k \in DOMAIN DefaultRules :
            k > i => DefaultRules[k].mail_label # DefaultRules[i].mail_label}}

\* A row of default_email_rule_override for a label, or its absence: a row that
\* does not exist disables nothing.
Override == [exists : BOOLEAN, is_disabled : BOOLEAN,
             category : ClientCategories \cup {NoCategory}]

Overridden(rule, row) == IF row.exists THEN [rule EXCEPT !.category = row.category] ELSE rule

\* Mutant: the disabled ones stay.
BuildIgnoringDisabled(overrides, custom) ==
    [custom |-> custom,
     default |-> {Overridden(r, overrides[r.mail_label]) : r \in DefaultEmailRules}]

\* build_category_rules: an override takes a default rule out or changes its
\* category.
BuildCategoryRules(overrides, custom) ==
    LET enabled == {r \in DefaultEmailRules : ~overrides[r.mail_label].is_disabled}
    IN [custom |-> custom,
        default |-> {Overridden(r, overrides[r.mail_label]) : r \in enabled}]

LabelsOf(rules) == {r.mail_label : r \in rules}

\* get_custom_labels: the labels of all rules, not only of the custom ones.
CustomLabels(data) == LabelsOf(data.custom) \cup LabelsOf(data.default)

-----------------------------------------------------------------------------
(* parse_and_prompt_email *)

Answering(rules, answer) == {r \in rules : r.prompt_content = answer}

\* Mutant: the default rules are looked through first.
FoundDefaultFirst(data, answer) ==
    IF Answering(data.default, answer) # {} THEN Answering(data.default, answer)
    ELSE IF Answering(data.custom, answer) # {} THEN Answering(data.custom, answer)
    ELSE {UnknownRule}

\* The first rule with that content.
Found(data, answer) ==
    IF Answering(data.custom, answer) # {} THEN Answering(data.custom, answer)
    ELSE IF Answering(data.default, answer) # {} THEN Answering(data.default, answer)
    ELSE {UnknownRule}

\* A heuristic of the sender replaces the rule found, but for the exempt ones.
AfterHeuristics(rule, sender) ==
    IF rule.prompt_content \notin Exempt /\ HeuristicOf[sender] # {}
    THEN HeuristicOf[sender] ELSE {rule}

\* heuristics_used: what the code takes for the heuristic's doing is any rule
\* with another content than the answer.
AfterConfidence(rule, answer, confident) ==
    IF ~confident /\ rule.prompt_content = answer THEN UnknownRule ELSE rule

Selected(data, answer, confident, sender) ==
    {AfterConfidence(r, answer, confident) :
        r \in UNION {AfterHeuristics(f, sender) : f \in Found(data, answer)}}

-----------------------------------------------------------------------------
(* Labels *)

\* get_required_labels, and what default_mailclerk_label_filter hides from lists.
ConfiguredLabels ==
    Categories \cup LabelsOf(HeuristicRules) \cup {UnknownRule.mail_label, Keep}

\* Mutant: the heuristics' labels are forgotten.
RequiredWithoutHeuristics(data) ==
    Categories \cup {UnknownRule.mail_label, Keep} \cup CustomLabels(data)

\* What configure_labels_if_needed asks for.
RequiredLabels(data) == ConfiguredLabels \cup CustomLabels(data)
=============================================================================
