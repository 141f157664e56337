CONSTANTS
    Tokens = {a, b}
    Token0 = a
    B = 2
    MaxText = 5
    MaxParsed = 3
SPECIFICATION Spec
INVARIANT TotalIsSum
CHECK_DEADLOCK FALSE
