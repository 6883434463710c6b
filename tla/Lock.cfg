\* Three callers, one of which may die with the lock file in place.
SPECIFICATION FairSpec
CONSTANTS
    Proc = {p1, p2, p3}
    None = None
    TTL = 2
    Timeout = 3
    MaxCrash = 1
    MayOverrun = FALSE
PROPERTIES ImplementsMutex EveryCallReturns CrashedLockIsBroken
