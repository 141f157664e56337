CONSTANTS
    Tokens = {a, b}
    Objects = {m, n}
    B = 2
    MaxText = 4
    MaxParsed = 2
    MaxWeight = 12
SYMMETRY Symmetry
SPECIFICATION ProtocolSpec
INVARIANTS DenseAnswers MatchesObserved ConversionsRestore Canonical
PROPERTY ImplementsEmpiricalFrequency
CHECK_DEADLOCK FALSE
