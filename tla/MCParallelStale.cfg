CONSTANTS
    Pos <- MCPPos
    Root = "r"
    Moves <- MCPMoves
    Captures = {}
    Eval <- MCPEval
    Material <- MCPMaterial
    InCheck = {}
    Endgame <- MCPPos
    DrawPos = {}
    NullPos <- MCPNullPos
    Key <- MCPKey
    Engines <- MCPEngines
    Top = "main"
    Masters = {"main"}
    Tables = {"tm", "ts1", "ts2"}
    TableOf <- MCPTableOf
    TableSize = 7
    MaxDepth = 2
    FailSoft = FALSE
    OptionWrites = FALSE
    PvsMode = 1
    SlaveList <- MCPSlaves
    MinDepth = 1
    MinMoveRatio = 1
    ParPvsMode = 1
    CanStop = FALSE
SPECIFICATION PSpec
INVARIANTS BestMoveOptimal
