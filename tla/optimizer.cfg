SPECIFICATION Spec
CONSTANTS
    Runs = {r}
    Users = {u}
INVARIANTS
    ReviewIsComplete
PROPERTIES
    ReviewStands
    RunsSettle
CHECK_DEADLOCK FALSE
