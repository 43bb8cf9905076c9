SPECIFICATION Spec
CONSTANTS
    f1 = f1
    f2 = f2
    f3 = f3
    Argv <- TwoFiles
    Short <- NoNames
    Garbage = Garbage
    ReduceNum = 2
    MaxRuns = 4
INVARIANTS
    TypeOK
    OneTimerPerEntry
    PopFindsTask
    TasksAccounted
