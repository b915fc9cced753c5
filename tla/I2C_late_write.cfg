CONSTANTS
    None = None
    Procs = {a}
    Readers = {}
    Byte = {0, 1}
    MaxPolls = 1
    LateAnswers = TRUE
SPECIFICATION Spec
INVARIANTS
    WriteSucceeded
