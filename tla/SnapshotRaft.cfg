SPECIFICATION Spec
CONSTANTS
    Peers = 3
    Limit = 2
    MaxTerm = 2
    MaxBeat = 2
    MaxStart = 2
    MaxKill = 1
    Mortal = {2}
    MaxRestart = 1
    Accidents = {}
INVARIANTS
    StateIsCommitted
    NoWildRead
    LogSafety
    OneCallPerPeer
CHECK_DEADLOCK FALSE
