CONSTANTS
    Tokens = {a, b}
    Token0 = a
    B = 2
    MaxText = 5
    MaxParsed = 3
SPECIFICATION Spec
INVARIANTS TypeOK DepthIsBlockSize KnownTokenAnswers CppModelServed
PROPERTIES DumpKeepsModel ImplementsEmpiricalFrequency
CHECK_DEADLOCK FALSE
