SPECIFICATION Spec
CONSTANTS
    Files <- MCFiles
    Stores <- MCStores
    Published <- MCPublished
    Namespaces = {"", "n"}
    NameOrder <- MCNameOrder
    Reserved <- MCReserved
    Builtins <- MCBuiltins
    MaxForms = 3
    MaxMoves = 1
    MaxFaults = 1
INVARIANTS
    SignedIsAuthored
    PutAcceptedIsPublishable
    NeverAheadOfDependency
    ReplacesOnlyWhatWasShown
