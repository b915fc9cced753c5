CONSTANTS
    Programs = {p, q, r}
    Nobody = Nobody
    MaxFiles = 2
SPECIFICATION SignalSpec
PROPERTIES
    RegisteredIsSignalled
