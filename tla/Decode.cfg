SPECIFICATION Spec
CHECK_DEADLOCK FALSE
CONSTANTS
    Defs <- MCDefs
    HashNum <- MCHashNum
    Base = 4
    FirstWindow = 2
    Inputs <- MCInputs
    maxCanonicalNodes = 18
    maxCount = 30
    admit <- admitBuilt
INVARIANTS OneToOne PaidBeforeMade
