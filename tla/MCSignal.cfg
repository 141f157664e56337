CONSTANTS
    Clients = {c1}
    BlockSize = 2
    Requests <- EveryRequest
    Window = 2
    MaxSignals = 1
SPECIFICATION Spec
PROPERTY SignalStops
CHECK_DEADLOCK FALSE
