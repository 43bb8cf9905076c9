SPECIFICATION LogsSpec
CONSTANTS
    Peers = 3
    MaxElection = 2
    MaxBeat = 2
    MaxStart = 2
    MaxRestart = 0
    MaxKill = 0
    Overlap = FALSE
    LateThreads = FALSE
INVARIANTS
    CalleeIsAPeer
    CalleesDistinct
    IndicesInLog
    LogMatching
    StateMachineSafety
CHECK_DEADLOCK FALSE
