---------------------------- MODULE MCEmailRules ----------------------------
(***************************************************************************)
(* Rules for TLC: two categories, one of them exempt from the heuristics,  *)
(* custom rules that take over an answer or a label of theirs, and one     *)
(* sender a heuristic matches.                                             *)
(***************************************************************************)
EXTENDS EmailRules

Filed(answer, label, category) ==
    [prompt_content |-> answer, mail_label |-> label, category |-> category]

MCAnswers == {"alert", "offer", "from", "unknown"}
MCLabelNames == {"alerts", "ads", "mine", "orders", "uncategorized", "keep"}
MCDefaultRules == <<Filed("alert", "alerts", "updates"), Filed("offer", "ads", "promotions")>>
MCUnknownRule == Filed("unknown", "uncategorized", "none")
MCHeuristicRules == {Filed("from", "orders", "updates")}
MCHeuristicOf == [s \in {"friend", "shop"} |-> IF s = "shop" THEN MCHeuristicRules ELSE {}]
MCCustomRules == {Filed("offer", "mine", "none")}
MCOverrides == {[exists |-> TRUE, is_disabled |-> TRUE, category |-> "none"],
                [exists |-> TRUE, is_disabled |-> FALSE, category |-> "updates"]}
=============================================================================
