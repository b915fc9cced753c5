CONSTANTS
    None = None
    Procs = {a, b}
    Readers = {a}
    Ints = {35}
    Units = {"CELSIUS"}
    Samples <- OneSample
    Trim <- SomeTrim
    Faults = TRUE
    Unplugs = TRUE
SPECIFICATION Spec
INVARIANTS
    TypeOK
    ReadingSeen
    OpenChecked
    IoctlDone
PROPERTIES
    InitConfigures
