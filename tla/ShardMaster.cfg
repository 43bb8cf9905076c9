SPECIFICATION MasterSpec
CONSTANTS
    NShards = 4
    Gids = {1, 2, 3}
    Clerks = {c1}
    MaxRequest = 4
    Operations = {"Join", "Leave", "Move", "Query"}
    ForeignMove = FALSE
INVARIANTS
    ConfigsSound
PROPERTIES
    BalancedAndMinimal
    BalanceEnds
