SPECIFICATION Spec
CONSTANTS
    Requests = {p, q}
    Texts = {x, y}
    Blank = blank
    Docs = {}
    MaxKbs = 2
    MaxStored = 3
INVARIANTS
    IndexFollowsRow
    KeysAreUnique
    DeletedLeavesNothing
SYMMETRY Alike
CHECK_DEADLOCK FALSE
