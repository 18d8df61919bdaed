SPECIFICATION Spec
CONSTANTS
    SeqSpace = 32
    WndMax = 2
    Mss = 1
    FromC = 0
    FromS = 2
    Data <- MCData
    MaxRtx = 1
    MaxFaults = 1
    HalfClose = {"c"}
    MaxConn = 2
INVARIANTS StreamIntact OneConnection NothingForgotten
PROPERTIES ClosedGoes DataArrives
CHECK_DEADLOCK FALSE
