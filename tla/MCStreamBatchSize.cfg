CONSTANTS
    Clients = {c1}
    BlockSize = 2
    Requests <- EveryRequest
    Window = 2
    MaxSignals = 1
SPECIFICATION Spec
INVARIANT BatchSizeTokens
CHECK_DEADLOCK FALSE
