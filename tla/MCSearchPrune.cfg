CONSTANTS
    Pos <- MCPosZ
    Root = "r"
    Moves <- MCMovesZ
    Captures <- MCCaptures
    Eval <- MCEvalZ
    Material <- MCMaterialZ
    InCheck = {}
    Endgame <- MCEndgameZ
    DrawPos = {"g"}
    NullPos <- MCNullPosZ
    Key <- MCKeyZ
    Engines = {"main"}
    Top = "main"
    Masters = {}
    Tables = {"tt"}
    TableOf <- MCTableOf
    TableSize = 5
    MaxDepth = 5
    FailSoft = FALSE
    OptionWrites = FALSE
    PvsMode = 1
SPECIFICATION Spec
INVARIANTS FailHardWindow NoFalseMates
