SPECIFICATION EnginesSpec
CONSTANTS
    Profiles <- UserProfiles
    Callers = {"web", "job", "chat"}
    UseLocal = TRUE
    MaxVisits = 32
    MaxSteps = 2
    MaxRounds = 2
    MaxRetries = 1
    Calls = {"activate", "schedule"}
    Activating = {"activate"}
    Gated = {"schedule"}
    SkillGate = TRUE
    MaxNudges = 2
INVARIANTS
    OneLateBatch
    AnswersItsRun
    ValidProfileRuns
    StallIsTold
    StaleIdIsGone
PROPERTIES
    SkillBeforeUse
    NoCallAfterEnd
    RunReturns
CHECK_DEADLOCK FALSE
