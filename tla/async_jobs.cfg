SPECIFICATION FairSpec
CONSTANTS
    j1 = j1
    j2 = j2
    Job <- MCJob
    MaxPolls = 2
    MaxStops = 1
INVARIANTS
    OneHonestMessage
    MessageFollows
PROPERTIES
    PollingEnds
