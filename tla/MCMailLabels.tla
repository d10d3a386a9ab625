---------------------------- MODULE MCMailLabels ----------------------------
(***************************************************************************)
(* Labels for TLC: one default category, which the user has disabled, one  *)
(* heuristic, and a custom rule that the second processor knows and the    *)
(* first does not.                                                         *)
(***************************************************************************)
EXTENDS MailLabels

Filed(answer, label, category) ==
    [prompt_content |-> answer, mail_label |-> label, category |-> category]

MCAnswers == {"offer", "from", "unknown", "mine"}
MCLabelNames == {"ads", "orders", "mine", "uncategorized", "keep"}
MCDefaultRules == <<Filed("offer", "ads", "promotions")>>
MCUnknownRule == Filed("unknown", "uncategorized", "none")
MCHeuristicRules == {Filed("from", "orders", "updates")}
MCHeuristicOf == [s \in {"shop"} |-> MCHeuristicRules]
MCRulesOf == [p \in 1..NProcs |->
    [custom |-> IF p = 2 THEN {Filed("mine", "mine", "promotions")} ELSE {},
     default |-> {}]]
=============================================================================
