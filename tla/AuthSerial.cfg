\* One handler: what the folds promise when decision and append do not interleave.
SPECIFICATION Spec
CONSTANTS
    Hash = {h1}
    Name <- MCName
    None = None
    Key = {A, B}
    Namespace <- MCNamespace
    Policy <- MCPolicy
    Handler = {s1}
    MaxHeld = 1
    Scope <- MCScope
    Reclaim = FALSE
    MaxSigned = 3
    MaxStated = 4
    MaxJournal = 5
CONSTRAINT FifthRepublishes
ACTION_CONSTRAINT BetweenRequests
SYMMETRY KeySymmetry
CHECK_DEADLOCK FALSE
INVARIANTS RevocationRecovers DelegationIsHistory FirstComeWithinLimit CensusPredicts
