SPECIFICATION Spec
CONSTANTS
    Defs <- MCDefs
    maxEvalDepth = 40
    propFuel = 60
    Ample = 60
    GenInts = {0, 1, 2}
    GenSizes = {1}
    ProbeInts = {0, 1}
    Corpora <- MCCorpora
    Metas <- MCMetas
    Queries <- MCQueries
    NoBody = NoBody
    Unreadable = {}
    Callers = {c1, c2}
    MaxCount = 3
CHECK_DEADLOCK FALSE
INVARIANTS AnswersAreTrue NegativesAreEarned
