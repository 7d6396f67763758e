CONSTANTS
    Boards <- MCBoards
    MoveLabels <- MCMoveLabels
    Side <- MCSide
    Succ <- MCSucc
    Mated = {"p4"}
    Stalemated = {"p3"}
    Rule50 = {}
    MaterialDraw = {}
    Opening = "p0"
    MaxChain = 5
    Cmds <- MCGameCmds
    LevelArgs <- MCLevelArgs
    StSecs = {5}
    TimeCs = {600}
    FenBoards <- MCFenBoards
    PgnFiles <- MCPgnFiles
    EpdFiles <- MCEpdFiles
    ScriptFiles <- MCScriptFiles
    Book <- MCBook
    HumanTimes = {1000}
    Quick = 10
    Overshoot = 50
    ExtendTimes = {5000}
    MinPercentDone = 75
    Script = FALSE
    RedoAnyTime = FALSE
    SourceArgs <- MCSourceArgs
    RcFile <- NoScript
    InitCmds <- MCInitCmds
SPECIFICATION Spec
INVARIANTS
    RootIsCurrentBoard
    ClockDiscipline
    SearchExclusive
    
PROPERTIES
    GameFrozenWhileSearching
    EngineAnswers
    ScriptReturns
VIEW GameView
