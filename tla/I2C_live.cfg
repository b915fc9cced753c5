CONSTANTS
    None = None
    Procs = {a, b}
    Readers = {a, b}
    Byte = {0}
    MaxPolls = 1
    LateAnswers = FALSE
SPECIFICATION ReadersLiveSpec
PROPERTIES
    ReadIsFresh
    CallReturns
