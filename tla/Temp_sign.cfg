CONSTANTS
    Versions = {"bmp280_driver"}
    Words <- BothSigns
    Raws <- MiddleRange
    Stride = 1000
SPECIFICATION Spec
INVARIANTS
    SameTemperature
