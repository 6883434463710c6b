SPECIFICATION Spec
CONSTANTS
    Defs <- MCDefs
    selfTyVars = 1
    Programs <- MCPrograms
CHECK_DEADLOCK FALSE
INVARIANTS MachineAgrees ElaborationStable
