SPECIFICATION Spec
CONSTANTS
    Law = {1, 2}
    None = None
    World <- MCWorld
    DtBinders <- MCDtBinders
    Ctors = 2
    Measure = TRUE
    Capped = FALSE
    AbortLemmaFree = FALSE
    LastRound = 7
    MaxAborts = 1
CHECK_DEADLOCK FALSE
INVARIANTS RecordedIsEarned GatingIsHarmless
PROPERTY NoEnvironmentalDemotion
