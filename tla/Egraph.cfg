SPECIFICATION Spec
CHECK_DEADLOCK FALSE
CONSTANTS
    Defs <- MCDefs
    HashNum <- MCHashNum
    Base = 4
    FirstWindow = 2
    selfTyVars = 0
    maxEvalDepth = 40
    propFuel = 200
    Ample = 200
    GenInts <- MCSampleInts
    GenSizes = {1}
    Bodies <- MCBodies
    egNodes = 40
    egIters = 4
    egMaxTermNodes = 16
    SampleInts <- MCSampleInts
INVARIANTS EquivalenceSound ShortcutsHarmless FormsMeet
