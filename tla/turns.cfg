SPECIFICATION TurnsSpec
CONSTANTS
    Turns = {t1, t2}
    Team <- MCTeam
    WithMcp <- MCWithMcp
    Keep = 1
    MaxRounds = 2
    Past = 2
INVARIANTS
    NothingForgotten
    OneReply
PROPERTIES
    EveryTurnEnds
CHECK_DEADLOCK FALSE
