SPECIFICATION Spec
CONSTANTS
    NShards = 2
    Gids = {1, 2}
    Clerks = {admin}
    MaxRequest = 3
    Operations = {}
    Plan <- RoundTrip
    ForeignMove = FALSE
    c1 = c1
    Clients = {c1}
    Script <- OneAppend
    MaxCopies = 1
    MaxTrouble = 1
    Timings = {}
INVARIANTS
    HandedOver
    EveryAppendOnce
CHECK_DEADLOCK FALSE
