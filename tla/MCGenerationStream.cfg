CONSTANTS
    Clients = {c1}
    BlockSize = 2
    Requests <- EveryRequest
    Window = 2
    MaxSignals = 2
SPECIFICATION Spec
INVARIANTS TypeOK OneText
PROPERTIES ReceiverEnds HandlerReturns
CHECK_DEADLOCK FALSE
