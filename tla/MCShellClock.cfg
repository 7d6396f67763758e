CONSTANTS
    Boards <- MCBoards
    MoveLabels <- MCMoveLabels
    Side <- MCSide
    Succ <- MCSucc
    Mated = {"p4"}
    Stalemated = {"p3"}
    Rule50 = {}
    MaterialDraw = {}
    Opening = "p0"
    MaxChain = 5
    Cmds <- MCClockCmds
    LevelArgs <- MCLevelArgs
    StSecs = {1}
    TimeCs = {450}
    FenBoards <- MCFenBoards
    PgnFiles <- MCPgnFiles
    EpdFiles <- MCEpdFiles
    ScriptFiles <- MCScriptFiles
    Book <- MCBook
    HumanTimes = {1000}
    Quick = 10
    Overshoot = 50
    ExtendTimes = {5000}
    MinPercentDone = 75
    Script = FALSE
    RedoAnyTime = FALSE
    SourceArgs <- MCNone
    RcFile <- NoScript
    InitCmds <- MCNone
SPECIFICATION Spec
INVARIANTS
    TypeOK
    DrawsAgree
    SolveHonoursInterrupt
PROPERTIES
    EngineKeepsTime
