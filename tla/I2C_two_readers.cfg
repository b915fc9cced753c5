CONSTANTS
    None = None
    Procs = {a, b}
    Readers = {a, b}
    Byte = {0, 1}
    MaxPolls = 1
    LateAnswers = FALSE
SPECIFICATION Spec
INVARIANTS
    ReadReturnsOwn
