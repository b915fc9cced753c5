CONSTANTS
    None = None
    Procs = {a}
    Readers = {a}
    Ints = {3}
    Units = {"CELSIUS"}
    Samples <- OneSample
    Trim <- SomeTrim
    Faults = TRUE
    Unplugs = FALSE
SPECIFICATION Spec
PROPERTIES
    InitReturnsZeroIfConfigured
