SPECIFICATION FairSpec
CONSTANTS
    Def = {"a", "b", "c"}
    None = None
    Listing = Listing
    Outages <- MCOutages
    Deps <- MCDeps
    Solver <- MCSolver
    Config = {1, 2}
    MaxEvents = 3
    MaxFaults = 1
CHECK_DEADLOCK FALSE
INVARIANT SettledIsFixpoint
PROPERTIES EverythingProvableProves ScansComeToRest
