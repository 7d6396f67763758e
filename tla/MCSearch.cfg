CONSTANTS
    Pos <- MCPos
    Root = "r"
    Moves <- MCMoves
    Captures <- MCCaptures
    Eval <- MCEval
    Material <- MCMaterial
    InCheck = {}
    Endgame <- MCPos
    DrawPos = {"g"}
    NullPos <- MCNullPos
    Key <- MCKey
    Engines = {"main"}
    Top = "main"
    Masters = {}
    Tables = {"tt"}
    TableOf <- MCTableOf
    TableSize = 5
    MaxDepth = 5
    FailSoft = FALSE
    OptionWrites = FALSE
    PvsMode = 1
SPECIFICATION Spec
INVARIANTS TypeOK TTSound SearchResultSound BestMoveOptimal
PROPERTIES ImplementsBestMoveSpec
