CONSTANTS
    Pos <- MCPPosD
    Root = "r"
    Moves <- MCPMovesD
    Captures = {}
    Eval <- MCPEvalD
    Material <- MCPMaterialD
    InCheck = {}
    Endgame <- MCPPosD
    DrawPos = {"x1"}
    NullPos <- MCPNullPosD
    Key <- MCPKeyD
    Engines <- MCPEngines
    Top = "main"
    Masters = {"main"}
    Tables = {"tm", "ts1", "ts2"}
    TableOf <- MCPTableOf
    TableSize = 7
    MaxDepth = 3
    FailSoft = FALSE
    OptionWrites = FALSE
    PvsMode = 1
    SlaveList <- MCPSlaves
    MinDepth = 2
    MinMoveRatio = 1
    ParPvsMode = 0
    CanStop = TRUE
SPECIFICATION PSpec
INVARIANTS SearchResultSound
