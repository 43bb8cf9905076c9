SPECIFICATION Spec
CONSTANTS
    Peers = 3
    MaxElection = 2
    MaxBeat = 1
    MaxStart = 0
    MaxRestart = 1
    MaxKill = 1
    Overlap = FALSE
    LateThreads = TRUE
INVARIANTS
    ElectionSafety
    OneVotePerTerm
    ElectionCanEnd
CHECK_DEADLOCK FALSE
