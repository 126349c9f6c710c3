SPECIFICATION FairBatching
CONSTANTS
    Msgs = 3
    Events = 3
    PageLimit = 100
INVARIANTS
    StoredOnce
    AnswersKnowTheChat
PROPERTIES
    NobodyIgnored
