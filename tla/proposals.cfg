SPECIFICATION Spec
CONSTANTS
    Proposals = {p, q}
    Names = {m, n}
    Keys = {k, l}
    Nobody = nobody
    MaxTools = 2
INVARIANTS
    OnlyApprovedTools
    HeardTheVerdict
SYMMETRY Alike
CHECK_DEADLOCK FALSE
