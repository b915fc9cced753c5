CONSTANTS
    Table <- LkmTable
    Lkms <- All
    Defects <- KnownDefects
    MaxUsers = 2
SPECIFICATION Spec
INVARIANTS
    TypeOK
    NothingLeft
    NeedsHeld
    ReleasedOnce
    LoadedMeansReady
    FileUsable
    HeldAsWritten
