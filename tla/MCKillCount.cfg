CONSTANTS
    KillAdjs <- MCKillAdjs
    MaxKillsAt <- MCMaxKillsAt
    Queries <- MCQueries
    MAX_DISTINCT_OOM_ADJ = 32
    JunkCounts = {0, 1}
SPECIFICATION Spec
INVARIANTS TypeOK ReplyExact
