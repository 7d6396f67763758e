CONSTANTS
    Users <- MCUsers
    HashKeys <- MCHashKeys
    CacheKeys = {1}
    CacheOwner = "t1"
    TableSize = 2
    MaxAllocs = 5
    Cmds <- MCHashCmds
    ClearWhileAnalyzing = TRUE
SPECIFICATION Spec
INVARIANTS MemorySafe
