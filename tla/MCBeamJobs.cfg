CONSTANTS
    Tokens = {0, 1}
    B = 2
    Corpora <- TwoCorpora
    Splits = {2, 3}
    Articles <- TwoArticles
    Foreign = 2
    EndOfText = 3
    NewLine = 4
    Excluded = {0}
    MaxAttempts = 2
    MaxJobs = 3
SPECIFICATION Spec
INVARIANTS TypeOK CountsExact TreesWhole SegmentsExact
PROPERTY JobsEnd
CHECK_DEADLOCK FALSE
