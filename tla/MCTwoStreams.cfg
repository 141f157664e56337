CONSTANTS
    Clients = {c1, c2}
    BlockSize = 2
    Requests <- TwoRequests
    Window = 1
    MaxSignals = 1
SPECIFICATION Spec
INVARIANT DoneMeansAll
PROPERTY StreamEnds
CHECK_DEADLOCK FALSE
