CONSTANTS
    Bytes = {0, 1}
    NewLine = 0
    End = 2
    ReadSize = 3
    Writes <- SomeWrites
    Reads = {1, 3}
    Offsets <- SomeOffsets
    MaxStored = 6
SPECIFICATION Spec
INVARIANTS TypeOK NothingLost
PROPERTY ImplementsPlainFile
CHECK_DEADLOCK FALSE
