CONSTANTS
    Tokens = {a, b}
    Objects = {m, n}
    B = 2
    MaxText = 4
    MaxParsed = 2
    MaxWeight = 6
SYMMETRY Symmetry
SPECIFICATION Spec
INVARIANTS TypeOK SuffixClosed SamplersVerify DepthIsHeight
CHECK_DEADLOCK FALSE
