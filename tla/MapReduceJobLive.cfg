SPECIFICATION FairJobSpec
CONSTANTS
    f1 = f1
    f2 = f2
    Argv <- TwoFiles
    Short <- NoNames
    Garbage = Garbage
    ReduceNum = 2
    MaxRuns = 5
    MapWorkers = {m1, m2}
    ReduceWorkers = {r1, r2}
    NoWorker = NoWorker
    DisabledGets <- FirstHang
    MaxEarly = 1
INVARIANTS
    CountsExactOnTime
PROPERTIES
    JobProgresses
CHECK_DEADLOCK FALSE
