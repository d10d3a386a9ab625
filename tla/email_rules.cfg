CONSTANTS
    Answers <- MCAnswers
    LabelNames <- MCLabelNames
    ClientCategories = {"updates", "promotions"}
    NoCategory = "none"
    DefaultRules <- MCDefaultRules
    HeuristicRules <- MCHeuristicRules
    Senders = {"friend", "shop"}
    HeuristicOf <- MCHeuristicOf
    Exempt = {"alert"}
    UnknownRule <- MCUnknownRule
    Keep = "keep"
    CustomRules <- MCCustomRules
    Overrides <- MCOverrides
    Jobs = {j1}
    Workers = {w1}
    MaxEdits = 2
    MaxFailures = 1
SPECIFICATION FairSpec
INVARIANTS
    TypeOK
    StaleIsSeen
    FiledAsAnswered
    DisabledIsUnused
PROPERTY
    RulesFollowed
