SPECIFICATION Spec
CONSTANTS
    Defs <- MCDefs
    selfTyVars = 0
    maxEvalDepth = 40
    propFuel = 40
    Ample = 1000
    GenInts <- MCGenInts
    GenSizes = {2}
    SmtInts <- MCSmtInts
    Programs <- MCPrograms
    MaxWaivers = 1
CHECK_DEADLOCK FALSE
INVARIANTS WellTypedRuns TotalEnds ConfinedKeepsNothing TranslationFaithful VerdictsAreHonest
