CONSTANTS
    Tokens = {0, 1}
    Objects = {m, n}
    B = 2
    MaxText = 4
    MaxMass = 3
    MaxSize = 0
    MaxDepth = 4
SYMMETRY Symmetry
SPECIFICATION Spec
INVARIANTS TypeOK SeenTokenAnswers ListingsAgree DepthsCoverTrees SetSamplesPart GenerationCompletes
PROPERTY ImplementsEmpiricalFrequency
CHECK_DEADLOCK FALSE
