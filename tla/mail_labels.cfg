CONSTANTS
    Answers <- MCAnswers
    LabelNames <- MCLabelNames
    ClientCategories = {"updates", "promotions"}
    NoCategory = "none"
    DefaultRules <- MCDefaultRules
    HeuristicRules <- MCHeuristicRules
    Senders = {"shop"}
    HeuristicOf <- MCHeuristicOf
    Exempt = {}
    UnknownRule <- MCUnknownRule
    Keep = "keep"
    NProcs = 2
    RulesOf <- MCRulesOf
    Threads = {t1}
    Emails = {e1}
    Parent = "Mailclerk"
    Present = {"ads", "uncategorized", "keep"}
    Deletable = {"orders"}
    MaxEdits = 1
    MaxFailures = 1
    MaxReplaced = 1
SPECIFICATION FairSpec
INVARIANTS
    TypeOK
    ConfiguredIsComplete
    FailsOnlyOnError
    OneCategory
PROPERTY
    EveryEmailLabelled
