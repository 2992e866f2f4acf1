\* A child that sends a response which answers nothing.
SPECIFICATION Spec
CONSTANTS
    Commands = {a, b}
    Initializes = {}
    Notices = {}
    Modern = {a, b}
    IDs = {1}
    NoCommand = NoCommand
    EnsureInitialized = FALSE
    maxRetiredResponseIDs = 1
    StrayResponses = TRUE
    MaxGen = 3
    MaxChatter = 1
INVARIANTS
    OwnResponse
