SPECIFICATION FairSpec
CONSTANTS
    MaxJobs = 2
    Stages = {1, 2}
    Percents <- TwoPercents
    Transformers = {"function", "text"}
    MaxLines = 5
    MaxFaults = 1
INVARIANT CursorTypeOK
INVARIANT ProgressHonest
INVARIANT StopHeard
INVARIANT ResultsAreFinal
PROPERTY ProgressGrows
PROPERTY LoopEnds
CHECK_DEADLOCK FALSE
