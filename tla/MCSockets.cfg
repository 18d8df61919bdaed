SPECIFICATION Spec
CONSTANTS
    Tasks = {"httpd", "other"}
    Conns = {1, 2, 3}
    Owner <- MCOwner
    Listener = 1
    Incoming = {2}
    MboxSize = 2
    Chunks <- MCChunks
    RecvLen = 2
    MaxChunks = 1
    Closing = {2}
    Timed = {"other"}
INVARIANTS EventsCounted SemaphoreClean
PROPERTIES ReadToEnd
CHECK_DEADLOCK FALSE
