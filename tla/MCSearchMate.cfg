CONSTANTS
    Pos <- MCPosC
    Root = "r"
    Moves <- MCMovesC
    Captures <- MCCapturesC
    Eval <- MCEvalC
    Material <- MCMaterialC
    InCheck <- MCInCheckC
    Endgame <- MCPosC
    DrawPos = {}
    NullPos <- MCNullPosC
    Key <- MCKeyC
    Engines = {"main"}
    Top = "main"
    Masters = {}
    Tables = {"tt"}
    TableOf <- MCTableOf
    TableSize = 6
    MaxDepth = 1
    FailSoft = FALSE
    OptionWrites = FALSE
    PvsMode = 1
SPECIFICATION Spec
INVARIANTS BestMoveOptimal
