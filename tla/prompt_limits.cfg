CONSTANTS
    Threads = {t1, t2, t3}
    MaxTokens = 2
    Refill = 1
    Backoff = 2
    MaxPanics = 1
SPECIFICATION FairSpec
INVARIANTS
    TypeOK
    RateKept
    FewPromptsInBackoff
PROPERTIES
    BackoffEnds
    EveryPromptIsSent
