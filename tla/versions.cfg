SPECIFICATION Spec
CONSTANTS
    Configs = {a, b}
    Contracts = {k}
    NoConfig = gone
    NoContract = none
    Clients = {c, d}
    MaxVersions = 3
INVARIANTS
    InvocationKeepsItsVersion
PROPERTIES
    ChangesCanBeUndone
    PublishedWasLive
SYMMETRY Symmetry
CHECK_DEADLOCK FALSE
