SPECIFICATION FairSpec
CONSTANTS
    e1 = e1
    e2 = e2
    e3 = e3
    n1 = n1
    n2 = n2
    r1 = r1
    r2 = r2
    NoExec = NoExec
    Exec <- MCExec
    Req <- MCReq
    Node <- TwoNodes
    NodeOf <- JoinedAndAlone
    AutoApprove <- AutoSecond
INVARIANTS
    GateNeedsVote
    AtMostOneAck
    RecordTellsVerdict
PROPERTIES
    AckResumes
    ImplementsGate
