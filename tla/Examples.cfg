CONSTANTS
    Writers = {w1, w2}
    Inputs = {7, 11, 22}
    NoNumber = NoNumber
    Programs = {p, q, r}
    Nobody = Nobody
    MaxFiles = 2
    Pollers = {p, q}
    Clients = {p, q}
    Letters = {"x", "y", "z"}
    Texts <- SomeTexts
    Counts = {1, 2}
    BufferSize = 2
    Blank = Blank
    Nul = Nul
    Idle = Idle
    Users = {p, q}
    Factors <- SomeFactors
    Half = 8
    Unknown = Unknown
    Drivers = {"gpio_driver", "dt_gpio"}
    Echoers = {p, q}
    Orders <- SomeOrders
    Room = 3
    NoText = NoText
SPECIFICATION ExamplesLiveSpec
INVARIANTS
    NoLostWakeup
    ReportsWhatWasWritten
    CodeUnused
    TaskIsThere
    PollinMeansPress
    PressIsKept
    NoPollerLeftAsleep
    EchoWhenAlone
    NoBlankIsRead
    AnswerIsProduct
    LedObeys
PROPERTIES
    ValueIsTaken
    UnloadEnds
    PressIsNoticed
