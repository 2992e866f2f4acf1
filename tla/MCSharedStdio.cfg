\* Callers that reuse IDs, one of them in the alias space; a table of two.
\* An observed child may stop for good.
SPECIFICATION MCSpec
CONSTANTS
    Commands = {a, b, c}
    Initializes = {}
    Notices = {}
    Modern = {a, b, c}
    IDs = {1, 101}
    NoCommand = NoCommand
    EnsureInitialized = FALSE
    maxRetiredResponseIDs = 2
    StrayResponses = FALSE
    MaxGen = 3
    MaxChatter = 1
    i = i
    j = j
    n = n
    p = p
SYMMETRY Symmetry
INVARIANTS
    AnswerIsOwn
    GuardedUntilReady
    EvidenceIsCurrent
CHECK_DEADLOCK FALSE
