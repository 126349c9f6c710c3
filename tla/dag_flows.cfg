SPECIFICATION FairWorkflowSpec
CONSTANTS
    NoBranch = NoBranch
    MaxSupersteps = 3
    Workflows <- AllFlows
    Ids = {1, 2, 3, 4, 5, 6}
INVARIANTS
    ValidatesExactly
    RunsWhenDue
    RunsOnce
    VerdictHonest
PROPERTIES
    FailedStays
    RunEnds
