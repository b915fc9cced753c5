CONSTANTS
    None = None
    Procs = {a, b}
    Readers = {a}
    Byte = {0, 1}
    MaxPolls = 1
    LateAnswers = FALSE
SPECIFICATION Spec
INVARIANTS
    TypeOK
    BusOwned
    LenInBounds
    CompletionsFresh
    WriteSucceeded
    ReadReturnsOwn
    LockPaired
PROPERTIES
    RegisterWrites
    Implements
