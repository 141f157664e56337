CONSTANTS
    Chars = {a, b}
    Strings <- SomeStrings
    TokenIds = {0, 1, 2}
    MaxListed = 3
    MaxDefined = 2
    MaxText = 4
SYMMETRY Symmetry
SPECIFICATION Spec
INVARIANTS TypeOK EncodesGreedily RoundTrip
PROPERTY ReloadKeeps
CHECK_DEADLOCK FALSE
