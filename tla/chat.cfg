SPECIFICATION FairSpec
CONSTANTS
    c1 = c1
    c2 = c2
    k1 = k1
    k2 = k2
    NoCall = NoCall
    Call = {c1, c2}
    Key = {k1, k2}
    Req = {r1, r2}
    KeyOf <- OwnKeys
    Sites <- Everywhere
INVARIANTS
    GateNeedsApproval
    RefusalHonest
    RecordTellsOutcome
PROPERTIES
    AckResumes
    ImplementsGate
