\* Handlers and a worker run concurrently, never two on the same name or definition.
SPECIFICATION Spec
CONSTANTS
    Hash = {h1, h2}
    Name = {n1, n2}
    None = None
    Serve = {s1, s2}
    Worker = {w1}
    IllTyped = {}
    Falsified = {h2}
    Data = {}
    NoProps = {}
    Provable = {h1}
    Gated = {n1}
    MayBlock = {}
    Backend = "fs"
    LockOn = TRUE
    MaxRequests = 4
    Faults = {}
    MaxSigned = 1
    MaxFaults = 0
SYMMETRY Interchangeable
CONSTRAINTS DisjointNames DisjointHashes
CHECK_DEADLOCK FALSE
INVARIANTS JournalVerifies IndexIsJournalled NoReplay
PROPERTIES NoLostRepoint ProofSurvives
