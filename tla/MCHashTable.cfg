CONSTANTS
    Users <- MCUsers
    HashKeys <- MCHashKeys
    CacheKeys = {1}
    CacheOwner = "t1"
    TableSize = 2
    MaxAllocs = 4
    Cmds <- MCCmds
    ClearWhileAnalyzing = FALSE
SPECIFICATION Spec
INVARIANTS MemorySafe ProbeWhole
PROPERTIES StopSearchReturns
