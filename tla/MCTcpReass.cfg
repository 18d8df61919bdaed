SPECIFICATION Spec
CONSTANTS
    SeqSpace = 64
    WndMax = 6
    Mss = 4
    StreamLen = 9
    Irs = 60
    MboxSize = 2
INVARIANTS StreamIntact QueueInOrder WindowAccounted PromiseKept
PROPERTIES DataDelivered
CHECK_DEADLOCK FALSE
