\* A put is served over Postgres while two workers compete for its proof job; one thing goes wrong.
SPECIFICATION FairSpec
CONSTANTS
    Hash = {h1, h2, h3, h4, h5}
    Name = {n1, n2}
    None = None
    Serve = {s1}
    Worker = {w1, w2}
    IllTyped = {h4}
    Falsified = {h3}
    Data = {h5}
    NoProps = {h5}
    Provable = {h1}
    Gated = {n1}
    MayBlock = {n2}
    Backend = "pg"
    LockOn = TRUE
    MaxRequests = 1
    Faults = {"crash", "read", "append", "prove"}
    MaxSigned = 0
    MaxFaults = 1
CHECK_DEADLOCK FALSE
INVARIANTS JournalChains GatedIsProven
PROPERTIES PendingIsBound EveryHandlerEnds
