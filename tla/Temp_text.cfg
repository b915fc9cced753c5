CONSTANTS
    Versions = {"bmp280_driver", "kernel"}
    Words <- BothSigns
    Raws <- MiddleRange
    Stride = 1000
SPECIFICATION Spec
INVARIANTS
    FahrenheitClose
    TextReadsBack
PROPERTIES
    WarmerIsWarmer
