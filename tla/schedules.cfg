SPECIFICATION FairSchedules
CONSTANTS
    Schedules = {s1}
    Users = {u1}
    Crons = {daily, hourly}
    BadCron = odd
    NoJob = nojob
    Steps = 2
    MaxRounds = 1
    Changes = 3
INVARIANTS
    StoryFits
    JobsFollow
PROPERTIES
    RunsSettle
CHECK_DEADLOCK FALSE
