------------------------------- MODULE Shell -------------------------------
(***************************************************************************)
(* The command shell of shell.cc and shell_cmd.cc playing a game: the     *)
(* main loop, the engine's own moves (engine_move(), searching in the     *)
(* shell thread), the background search thread of pondering and analysis *)
(* (engine_ponder(), engine_analyze(), stop_search()) and the commands    *)
(* that change the game, the modes and the clocks.  The Game and its      *)
(* Clocks are the values of the modules Game and Clock; the search itself *)
(* is abstracted to the time it takes and the legal move it returns.      *)
(***************************************************************************)
EXTENDS Game
LOCAL SX == INSTANCE SequencesExt

CONSTANTS
    Cmds,          \* the commands the user may type
    LevelArgs,     \* valid arguments <<moves, secs, inc>> of "level"
    StSecs,        \* arguments of "st"
    TimeCs,        \* arguments of "time" and "otim" (centiseconds)
    FenBoards,     \* positions "setboard" may give (NoBoard: a bad FEN)
    PgnFiles,      \* games "loadgame" may read: [opening, moves]
    EpdFiles,      \* test suites "solve" may read: [opens, entries], an
                   \* entry [board, bm] with its set of best moves
    ScriptFiles,   \* files "source" may read: [opens, lines], the lines
                   \* being commands
    Book,          \* the opening book file: a function from positions to a move
    HumanTimes,    \* milliseconds the user's clock may run for a move
    Quick,         \* milliseconds of a search that ends before its limit
    Overshoot,     \* how far a search may run past its limit before its
                   \* next check_time() (search_timecheck_interval_csecs_max)
    ExtendTimes,   \* milliseconds extend_time_iteration() may ask for
    MinPercentDone,\* search_extend_time_iteration_min_percent_done
    Script,        \* TRUE: the commands come from a script or a pipe
                   \* (source.fp != stdin || !isatty(0)), as under xboard
    RedoAnyTime,   \* FALSE: "redo" is typed only to take back an undo of
                   \* the game on the board
    SourceArgs,    \* the files of --source, in command-line order
    RcFile,        \* the first hoichess.rc found (NoScript: none, or --norc)
    InitCmds       \* the commands of --initcmd (builtin_initcmds is empty)

\* cmd_solve() runs its whole loop inside exec_command(); the model runs
\* it from the shell's loop only, so no --initcmd is "solve".
ASSUME \A i \in 1..Len(InitCmds) : InitCmds[i].name # "solve"

NoSide == "none"   \* NO_COLOR
NoPgn == [opening |-> "missing", moves |-> <<>>]  \* a file loadgame cannot open
NoEpd == [opens |-> FALSE, entries |-> <<>>]       \* a file solve cannot open
NoScript == [opens |-> FALSE, lines |-> <<>>]      \* a file source cannot open

VARIABLES
    game,      \* Shell::game
    myside,    \* the engine's side
    force,     \* flag_force
    playboth,  \* flag_playboth
    ponder,    \* flag_ponder
    analyze,   \* flag_analyze
    quit,      \* Shell::quit
    spc,       \* the shell thread: "startup" (main.cc before Shell::main()), "loop", "input", "search" (inside
               \* engine_move()), "exited", "trapped" (killed by SIGFPE)
    thread,    \* the background search thread: "none", "init" (started,
               \* Search::main() has not read the game yet), "search"
               \* (searching, or returned and not yet joined)
    stopiter,  \* Search::stop_iteration of engine_move()'s search
    book,      \* Shell::book is open (not NULL)
    shstop,    \* Shell::stop, set by interrupt()
    solve,     \* the entries of cmd_solve()'s file still to be read
    late,      \* history: searches of positions with a move that solve
               \* started while Shell::stop was set
    initcmds,  \* the --initcmd commands run_shell() has still to run
    sources    \* the files being read, innermost last: Shell::source
               \* and the stack Shell::sources above stdin, each as the
               \* lines still to be read

flags == <<myside, force, playboth, ponder, analyze, quit>>
sol == <<solve, late>>
vars == <<game, flags, spc, thread, stopiter, book, shstop, sol, sources, initcmds>>

Args(n) ==
    CASE n = "level" -> LevelArgs
      [] n = "st" -> StSecs
      [] n \in {"time", "otim"} -> TimeCs
      [] n = "setboard" -> FenBoards
      [] n = "usermove" -> MoveLabels
      [] n \in {"undo", "redo"} -> {"one", "all"}
      [] n = "book" -> {"off", "open", "bad"}   \* "bad": a file that fails
      [] n = "loadgame" -> PgnFiles \cup {NoPgn}
      [] n = "savegame" -> {"ok", "readonly"}  \* a file fopen() can or cannot write
      [] n = "solve" -> EpdFiles \cup {NoEpd}
      [] n = "source" -> ScriptFiles \cup {NoScript}
      [] OTHER -> {"none"}
Commands == UNION {{[name |-> n, arg |-> a] : a \in Args(n)} : n \in Cmds}

\* The commands whose handler begins with stop_search().  "quit" only
\* ends the loop; main() stops the search after it.
\* Mutant: cmd_undo() without stop_search().
NeedsStop_undo_unstopped(n) ==
    n \in {"new", "force", "go", "usermove", "setboard", "remove",
           "easy", "analyze", "exit", "playboth", "redo", "loadgame",
           "solve"}
\* Mutant: cmd_go() without stop_search().
NeedsStop_go_unstopped(n) ==
    n \in {"new", "force", "usermove", "setboard", "undo", "remove",
           "easy", "analyze", "exit", "playboth", "redo", "loadgame",
           "solve"}
NeedsStop(n) ==
    n \in {"new", "force", "go", "usermove", "setboard", "undo", "remove",
           "easy", "analyze", "exit", "playboth", "redo", "loadgame",
           "solve"}

\* Shell::input_move() refuses a move, before it stops the search, when
\* the game is over, when it is the engine's turn, or when
\* Board::parse_move() finds no legal move.
Refuses(m) ==
    \/ IsOver(game)
    \/ SideToMove(game) = myside
    \/ m \notin Legal(game.board)
MoveRefused(c) == c.name = "usermove" /\ Refuses(c.arg)
\* The commands that return before their stop_search(): a refused move and
\* a PGN file that cannot be opened.
FailsEarly(c) ==
    \/ MoveRefused(c)
    \/ c.name = "loadgame" /\ c.arg = NoPgn

\* The commands that return SHELL_CMD_FAIL: a refused move, "st" with a
\* time that is not positive, "setboard" with a FEN that does not parse
\* (after it has stopped the search and cleared the game), and "loadgame",
\* "savegame", "solve" (after its stop_search()) or "source" with a file
\* that cannot be opened.
Fails(c) ==
    \/ FailsEarly(c)
    \/ c.name = "st" /\ c.arg <= 0
    \/ c.name = "setboard" /\ c.arg = NoBoard
    \/ c.name = "savegame" /\ c.arg = "readonly"
    \/ c.name = "solve" /\ ~c.arg.opens
    \/ c.name = "source" /\ ~c.arg.opens

\* What the user types: unless RedoAnyTime, "redo" only takes back an undo
\* of the game on the board.
Typed(c) ==
    c.name = "redo" /\ CanRedo(game) /\ ~RedoAnyTime
        => /\ Replay(game.initial, game.entries) = game.board
           /\ Apply(game.board, Head(game.undone).move) = Head(game.undone).board

RECURSIVE UndoAll(_)
UndoAll(g) == IF CanUndo(g) THEN UndoAll(UndoMove(g)) ELSE UndoMove(g)
RECURSIVE RedoAll(_)
RedoAll(g) == IF CanRedo(g) THEN RedoAll(RedoMove(g)) ELSE g

\* The command handlers of shell_cmd.cc, after their stop_search().
NewGame ==
    /\ game' = SetBoardFen(game, Opening)
    /\ IF ~analyze THEN force' = FALSE /\ myside' = "black"
       ELSE UNCHANGED <<force, myside>>
CmdNew ==
    /\ NewGame
    /\ UNCHANGED <<playboth, ponder, analyze, quit>>

CmdQuit ==
    /\ quit' = TRUE
    /\ UNCHANGED <<game, myside, force, playboth, ponder, analyze>>

CmdForce ==
    /\ force' = TRUE /\ playboth' = FALSE /\ myside' = NoSide
    /\ UNCHANGED <<game, ponder, analyze, quit>>

CmdGo ==
    /\ force' = FALSE /\ playboth' = FALSE
    /\ myside' = SideToMove(game)
    /\ game' = TurnBackClock(game)
    /\ UNCHANGED <<ponder, analyze, quit>>

CmdLevel(a) ==
    /\ game' = SetClocks(game, ClockLevel(a[1], a[2], a[3]))
    /\ UNCHANGED flags

CmdSt(secs) ==
    /\ game' = IF secs > 0 THEN SetClocks(game, ClockExact(secs)) ELSE game
    /\ UNCHANGED flags

\* cmd_time() and cmd_otim(): side is myside or XSIDE(myside).
CmdTime(side, cs) ==
    /\ game' = IF myside = NoSide THEN game ELSE GameSetRemainingTime(game, side, cs)
    /\ UNCHANGED flags

\* cmd_usermove() -> input_move() -> user_move() -> Game::make_move()
\* e is the time the user's clock ran.
CmdUsermove(m, e) ==
    /\ game' = IF Refuses(m) THEN game ELSE MakeMove(game, m, {}, e)
    /\ UNCHANGED flags

CmdSetboard(b) ==
    /\ game' = SetBoardFen(game, b)
    /\ UNCHANGED flags

CmdUndo(a) ==
    /\ game' = IF a = "all" THEN UndoAll(game) ELSE UndoMove(game)
    /\ UNCHANGED flags

CmdRemove ==
    /\ game' = UndoMove(UndoMove(game))
    /\ UNCHANGED flags

CmdRedo(a) ==
    /\ game' = CASE ~CanRedo(game) -> game
                 [] a = "all" -> RedoAll(game)
                 [] OTHER -> RedoMove(game)
    /\ UNCHANGED flags

CmdHard ==
    /\ ponder' = TRUE
    /\ UNCHANGED <<game, myside, force, playboth, analyze, quit>>

CmdEasy ==
    /\ ponder' = FALSE
    /\ UNCHANGED <<game, myside, force, playboth, analyze, quit>>

\* cmd_analyze() calls cmd_force().
CmdAnalyze ==
    /\ force' = TRUE /\ playboth' = FALSE /\ myside' = NoSide
    /\ analyze' = TRUE
    /\ UNCHANGED <<game, ponder, quit>>

CmdExit ==
    /\ analyze' = FALSE
    /\ UNCHANGED <<game, myside, force, playboth, ponder, quit>>

CmdPlayboth ==
    /\ playboth' = TRUE /\ force' = FALSE
    /\ UNCHANGED <<game, myside, ponder, analyze, quit>>

\* cmd_loadgame(): the game read from the file, with clocks Clock() (no
\* time control), replaces the game after stop_search().
CmdLoadgame(p) ==
    /\ game' = IF p = NoPgn THEN game ELSE GameFromPgn(p, ClockNone, ClockNone)
    /\ UNCHANGED flags

\* cmd_savegame(): writes the game's PGN, or fails when the file cannot be
\* opened; the game and the search are left alone.
CmdSavegame == UNCHANGED <<game, flags>>

\* Shell::set_book(file): the old book is deleted; the new one is NULL when
\* the file fails to open.
SetBook(a) == book' = (a = "open")

\* cmd_book(): "close"/"off" delete the book, "open" calls set_book();
\* neither stops the search (the book is read by engine_move() only).
CmdBook(a) ==
    /\ IF a = "off" THEN book' = FALSE ELSE SetBook(a)
    /\ UNCHANGED <<game, flags>>

\* cmd_solve() up to its loop: the file's entries are read one by one
\* (SolveNext, SolveDone); the game is not touched, as each position is
\* searched in a Game of its own.
CmdSolve(f) ==
    /\ solve' = f.entries
    /\ late' = 0
    /\ UNCHANGED <<game, flags>>

\* cmd_source(): source_file() saves the current source and makes the
\* opened file the one get_line() reads (the push is part of Input, which
\* knows the source the command came from); it does not stop the search.
CmdSource == UNCHANGED <<game, flags>>
SourceFile(st, f) == Append(st, f.lines)

\* exec_command(): the handler of the command's name.
Do(c) ==
    CASE c.name = "new" -> CmdNew
      [] c.name = "quit" -> CmdQuit
      [] c.name = "force" -> CmdForce
      [] c.name = "go" -> CmdGo
      [] c.name = "level" -> CmdLevel(c.arg)
      [] c.name = "st" -> CmdSt(c.arg)
      [] c.name = "time" -> CmdTime(myside, c.arg)
      [] c.name = "otim" -> CmdTime(Other(myside), c.arg)
      [] c.name = "usermove" -> \E e \in HumanTimes : CmdUsermove(c.arg, e)
      [] c.name = "setboard" -> CmdSetboard(c.arg)
      [] c.name = "undo" -> CmdUndo(c.arg)
      [] c.name = "remove" -> CmdRemove
      [] c.name = "redo" -> CmdRedo(c.arg)
      [] c.name = "hard" -> CmdHard
      [] c.name = "easy" -> CmdEasy
      [] c.name = "analyze" -> CmdAnalyze
      [] c.name = "exit" -> CmdExit
      [] c.name = "playboth" -> CmdPlayboth
      [] c.name = "book" -> CmdBook(c.arg)
      [] c.name = "loadgame" -> CmdLoadgame(c.arg)
      [] c.name = "savegame" -> CmdSavegame
      [] c.name = "solve" -> CmdSolve(c.arg)
      [] c.name = "source" -> CmdSource
-----------------------------------------------------------------------------
(* The shell thread.                                                        *)

\* Search::start_thread(): a thread is started unless one exists (also
\* one that has returned but was not joined: the model does not tell it
\* from a running one, as neither start_thread() nor stop_thread() does).
StartThread ==
    IF thread = "none" THEN thread' = "init" ELSE UNCHANGED thread

\* The branch Shell::main() takes at the top of its loop (shell.cc 95-115).
\* Mutant: the pondering branch tested before the engine's turn.
LoopBranch_ponder_first ==
    CASE quit -> "quit"
      [] IsOver(game) -> "idle"
      [] playboth -> "playboth"
      [] ponder /\ ~force /\ game.running -> "ponder"
      [] ~force /\ SideToMove(game) = myside -> "engine"
      [] analyze -> "analyze"
      [] OTHER -> "idle"
LoopBranch ==
    CASE quit -> "quit"
      [] IsOver(game) -> "idle"
      [] playboth -> "playboth"
      [] ~force /\ SideToMove(game) = myside -> "engine"
      [] ponder /\ ~force /\ game.running -> "ponder"
      [] analyze -> "analyze"
      [] OTHER -> "idle"

\* Shell::engine_move() up to the search: Game::start(), then a book move,
\* the only legal move, or Search::start() in MOVE mode, whose
\* Search::main() allocates the time of the engine's clock.
EngineMove(g) ==
    LET g1 == GameStart(g)
        b == g.board
        s == SideToMove(g)
    IN IF book /\ b \in DOMAIN Book
       THEN /\ game' = MakeMove(g1, Book[b], {"computer", "book"}, Quick)
            /\ spc' = "loop"
            /\ UNCHANGED stopiter
       ELSE IF Cardinality(Legal(b)) = 1
       THEN /\ \E m \in Legal(b) : game' = MakeMove(g1, m, {"computer"}, Quick)
            /\ spc' = "loop"
            /\ UNCHANGED stopiter
       ELSE /\ game' = [g1 EXCEPT !.cur[s] = AllocateTime(@)]
            /\ stopiter' = FALSE
            /\ spc' = "search"

LoopEngine ==
    /\ spc = "loop"
    /\ LoopBranch \in {"playboth", "engine"}
    /\ myside' = IF LoopBranch = "playboth" THEN SideToMove(game) ELSE myside
    /\ EngineMove(game)
    /\ shstop' = FALSE
    /\ UNCHANGED <<force, playboth, ponder, analyze, quit, thread>>

\* engine_ponder() and engine_analyze() start the background search, then
\* input() reads a command.
LoopBackground ==
    /\ spc = "loop"
    /\ LoopBranch \in {"ponder", "analyze"}
    /\ StartThread
    /\ spc' = "input"
    /\ shstop' = FALSE
    /\ UNCHANGED <<game, flags, stopiter>>

LoopIdle ==
    /\ spc = "loop"
    /\ LoopBranch = "idle"
    /\ spc' = "input"
    /\ shstop' = FALSE
    /\ UNCHANGED <<game, flags, thread, stopiter>>

LoopQuit ==
    /\ spc = "loop"
    /\ LoopBranch = "quit"
    /\ spc' = "exited"
    /\ thread' = "none"
    /\ UNCHANGED <<game, flags, stopiter, shstop>>

\* extend_time_iteration() extrapolates only once enough of the root
\* moves of the iteration are done (integer percentage, search.cc 1300).
ExtendDue(done, total) == (100 * done) \div total >= MinPercentDone

\* extend_time_iteration(), reached from check_time() in MOVE mode when
\* the clock is not exact, with done of the total root moves searched:
\* the average time per done move is elapsed / done, an integer division
\* that traps (SIGFPE) when done = 0.  When the iteration is not expected
\* to finish in time, allocate_more_time(); once it succeeds,
\* stop_iteration is set.  The times are abstracted to the extension t.
EngineExtend ==
    /\ spc = "search"
    /\ ~stopiter
    /\ LET s == SideToMove(game)
           total == Cardinality(Legal(game.board))
       IN /\ game.cur[s].mode # "EXACT"
          /\ \E done \in 0..total :
                /\ ExtendDue(done, total)
                /\ IF done = 0
                   THEN spc' = "trapped" /\ UNCHANGED <<game, stopiter>>
                   ELSE /\ CanAllocateMore(game.cur[s])
                        /\ \E t \in ExtendTimes :
                              game' = [game EXCEPT !.cur[s] = AllocateMoreTime(@, t)]
                        /\ stopiter' = TRUE
                        /\ UNCHANGED spc
    /\ UNCHANGED <<flags, thread, shstop>>

\* The search returns: it ended early (a mate, the depth limit or an
\* interrupt), or check_time() found Clock::timeout() at most Overshoot
\* after the limit.  engine_move() then plays the move.
SearchTime(c) ==
    IF c.mode = "NONE" THEN {Quick}
    ELSE {IF Quick < c.limit THEN Quick ELSE c.limit, c.limit + Overshoot}

EngineDone ==
    /\ spc = "search"
    /\ \E m \in Legal(game.board), e \in SearchTime(game.cur[SideToMove(game)]) :
          game' = MakeMove(game, m, {"computer"}, e)
    /\ spc' = "loop"
    /\ UNCHANGED <<flags, thread, stopiter, shstop>>

\* The loop of cmd_solve(), in the shell thread, for the next entry: at
\* the end of the file it returns; an entry without best moves is
\* skipped; otherwise Search::start(board, clock, MOVE, maxdepth) searches
\* it (after clearing the tables and restarting a copy of the game's clock,
\* which the model leaves out).  Search::start() clears Search::stop, so
\* an interrupt that came before it does not shorten this search.
SolveNext ==
    /\ spc = "solve"
    /\ IF solve = <<>>
       THEN spc' = "loop" /\ UNCHANGED sol
       ELSE IF Head(solve).bm = {}
       THEN /\ solve' = Tail(solve) /\ UNCHANGED <<spc, late>>
       ELSE /\ spc' = "solving"
            /\ late' = IF shstop /\ Legal(Head(solve).board) # {}
                        THEN late + 1 ELSE late
            /\ UNCHANGED solve
    /\ UNCHANGED <<game, flags, thread, stopiter, shstop>>

\* The search of a solve entry returns; NO_MOVE (a position without legal
\* moves) excludes the entry and goes on without looking at Shell::stop;
\* otherwise the move is scored, and the loop breaks if Shell::stop is set.
\* Mutant: the loop does not break on Shell::stop.
SolveDone_no_break ==
    /\ spc = "solving"
    /\ solve' = Tail(solve)
    /\ spc' = "solve"
    /\ UNCHANGED <<game, flags, thread, stopiter, shstop, late>>
SolveDone ==
    /\ spc = "solving"
    /\ IF Legal(Head(solve).board) # {} /\ shstop
       THEN spc' = "loop" /\ solve' = <<>>
       ELSE spc' = "solve" /\ solve' = Tail(solve)
    /\ UNCHANGED <<game, flags, thread, stopiter, shstop, late>>

\* Shell::get_line(): at the end of a sourced file (fgets() returns NULL
\* while sources is not empty) the file is closed and the source saved
\* under it is read again, until a line is found or stdin is current.
RECURSIVE GetLine(_)
GetLine(st) ==
    IF st # <<>> /\ SX!Last(st) = <<>> THEN GetLine(SX!Front(st)) ELSE st

\* get_line_fgets(): fgets() takes the next line of the file being read,
\* which the next call no longer sees (stdin is the user's, not modelled).
\* Mutant: the stream is not advanced, so every call reads the same line.
Consume_stays(st) == st
Consume(st) == IF st = <<>> THEN st ELSE [st EXCEPT ![Len(st)] = Tail(@)]

\* get_line() returns NULL when stdin ends (the user may end it at any
\* prompt), or when the file it reads is at its end and is not closed.
AtEnd(st) == st # <<>> => SX!Last(st) = <<>>

\* input() and exec_command(): a command that begins with stop_search()
\* interrupts the background search and waits for its thread
\* (Search::stop_thread()) before it touches the game.  The wait is one
\* step with the command: nothing else happens while the shell waits.
\* A refused move, and a file loadgame cannot open, return before the
\* search is stopped.  A line from stdin is any command the user types; a
\* line from a sourced file is the file's next line.  When a command of a
\* script (a sourced file, or stdin that is not a terminal) fails, input()
\* returns SHELL_CMD_FAIL and main() returns EXIT_FAILURE at once
\* (shell.cc 117-118).
Input ==
    /\ spc = "input"
    /\ LET st == GetLine(sources)
           rest == Consume(st)
           script == Script \/ st # <<>>
       IN /\ st # <<>> => SX!Last(st) # <<>>
          /\ \E c \in IF st = <<>> THEN Commands ELSE {Head(SX!Last(st))} :
                /\ st = <<>> => Typed(c)
                /\ thread' = IF NeedsStop(c.name) /\ ~FailsEarly(c) THEN "none"
                             ELSE thread
                /\ Do(c)
                /\ c.name # "book" => UNCHANGED book
                /\ c.name # "solve" => UNCHANGED sol
                /\ sources' = IF c.name = "source" /\ c.arg.opens
                              THEN SourceFile(rest, c.arg) ELSE rest
                /\ spc' = CASE script /\ Fails(c) -> "exited"
                             [] c.name = "solve" /\ c.arg.opens -> "solve"
                             [] OTHER -> "loop"
    /\ UNCHANGED <<stopiter, shstop, initcmds>>

\* input(): get_line() returned NULL (end of stdin): quit is set, and
\* main() leaves its loop.
InputEof ==
    /\ spc = "input"
    /\ AtEnd(GetLine(sources))
    /\ sources' = GetLine(sources)
    /\ quit' = TRUE
    /\ spc' = "loop"
    /\ UNCHANGED <<game, myside, force, playboth, ponder, analyze, thread,
                   stopiter, book, shstop, sol, initcmds>>

-----------------------------------------------------------------------------
(* The background search thread and the SIGINT handler.                     *)

\* Search::thread_main() -> Search::main() turns the game's history into
\* the root node (search.cc 335-349).
ThreadMain ==
    /\ thread = "init"
    /\ thread' = "search"
    /\ UNCHANGED <<game, flags, spc, stopiter, book, shstop, sol, sources, initcmds>>

\* Shell::interrupt(), called by the SIGINT handler of main.cc: besides
\* setting Search::stop, which the model leaves out (a search may end at
\* any of its steps, see EngineDone and SolveDone), it sets Shell::stop
\* and ends playboth.  main() ignores SIGINT once run_shell() returns.
Interrupt ==
    /\ spc # "exited"
    /\ playboth' = FALSE
    /\ shstop' = TRUE
    /\ UNCHANGED <<game, myside, force, ponder, analyze, quit, spc, thread,
                   stopiter, book, sol, sources, initcmds>>

-----------------------------------------------------------------------------
(* main.cc: setup_shell(), run_shell() and the start of Shell::main().      *)

\* setup_shell() opens the --source files last to first and hands each to
\* source_file(), which pushes it over the source being read, then the
\* rc file: the rc file is read first, then the --source files in
\* command-line order.  A --source file that cannot be opened ends the
\* program (exit(EXIT_FAILURE)) before the shell runs.
SetupSources ==
    LET st == [i \in 1..Len(SourceArgs) |-> SourceArgs[Len(SourceArgs) + 1 - i].lines]
    IN IF RcFile.opens THEN Append(st, RcFile.lines) ELSE st
SourcesOpen == \A i \in 1..Len(SourceArgs) : SourceArgs[i].opens

\* run_shell(): exec_command() of the next --initcmd, before Shell::main();
\* no background thread exists yet.  A command that does not return
\* SHELL_CMD_OK makes run_shell() return EXIT_FAILURE.  "source" pushes its
\* file over the ones setup_shell() pushed, so that file is read first.
RunInitCmd ==
    /\ spc = "startup"
    /\ initcmds # <<>>
    /\ LET c == Head(initcmds) IN
          /\ Do(c)
          /\ c.name # "book" => UNCHANGED book
          /\ sources' = IF c.name = "source" /\ c.arg.opens
                        THEN SourceFile(sources, c.arg) ELSE sources
          /\ spc' = IF Fails(c) THEN "exited" ELSE "startup"
    /\ initcmds' = Tail(initcmds)
    /\ UNCHANGED <<thread, stopiter, shstop, sol>>

\* Shell::main() begins with cmd_new() (its stop_search() finds no thread)
\* and sets quit = false before its loop: whatever an --initcmd did to the
\* board, flag_force, myside or quit is undone, unless analyze is set.
MainStart ==
    /\ spc = "startup"
    /\ initcmds = <<>>
    /\ NewGame
    /\ quit' = FALSE
    /\ spc' = "loop"
    /\ UNCHANGED <<playboth, ponder, analyze, thread, stopiter, book, shstop,
                   sol, sources, initcmds>>

\* Shell::Shell() with Clock(5) and every flag false, after setup_shell().
\* The constructor never writes myside: until cmd_new(), a read of it gets
\* whatever the allocation held.
Init ==
    /\ game = Construct(Opening, ClockExact(5), ClockExact(5))
    /\ myside \in Colors \cup {NoSide}
    /\ force = FALSE /\ playboth = FALSE
    /\ ponder = FALSE /\ analyze = FALSE /\ quit = FALSE
    /\ spc = IF SourcesOpen THEN "startup" ELSE "exited"
    /\ thread = "none" /\ stopiter = FALSE
    /\ book = FALSE
    /\ shstop = FALSE /\ solve = <<>> /\ late = 0
    /\ sources = IF SourcesOpen THEN SetupSources ELSE <<>>
    /\ initcmds = InitCmds

ShellStep == /\ \/ /\ \/ LoopEngine \/ LoopBackground \/ LoopIdle \/ LoopQuit
                      \/ EngineExtend \/ EngineDone
                   /\ UNCHANGED sol
                \/ SolveNext \/ SolveDone
             /\ UNCHANGED <<book, sources, initcmds>>

\* main() has returned.
Exited == spc = "exited" /\ UNCHANGED vars

Startup == RunInitCmd \/ MainStart

Next == Startup \/ ShellStep \/ ThreadMain \/ Input \/ InputEof
        \/ Interrupt \/ Exited

\* Reading a sourced file does not wait for the user.
ReadScript == GetLine(sources) # <<>> /\ (Input \/ InputEof)

\* The shell thread (main.cc's startup, then Shell::main()) and the search
\* thread run, and so does input() while it reads a file; the user and
\* SIGINT need not act.
Spec == Init /\ [][Next]_vars /\ WF_vars(Startup) /\ WF_vars(ShellStep)
            /\ WF_vars(ThreadMain)
            /\ WF_vars(ReadScript)
-----------------------------------------------------------------------------
(* Properties.                                                              *)

ClockType ==
    [mode : Modes, running : BOOLEAN, limit : Nat, hard : Nat, rem : Int,
     rmoves : Nat, base : Nat, bmoves : Nat, inc : Nat, over : Nat, lost : Nat]

TypeOK ==
    /\ game.board \in Boards \cup {NoBoard}
    /\ game.result \in Results
    /\ game.cur \in [Colors -> ClockType] /\ game.old \in [Colors -> ClockType]
    /\ myside \in Colors \cup {NoSide}
    /\ {force, playboth, ponder, analyze, quit, stopiter, book} \subseteq BOOLEAN
    /\ spc \in {"startup", "loop", "input", "search", "solve", "solving", "exited", "trapped"}
    /\ shstop \in BOOLEAN /\ late \in Nat
    /\ solve \in Seq([board : Boards, bm : SUBSET MoveLabels])
    /\ thread \in {"none", "init", "search"}
    /\ sources \in Seq(Seq(Commands))
    /\ \E k \in 0..Len(InitCmds) : initcmds = SubSeq(InitCmds, k + 1, Len(InitCmds))

\* Search::main() plays the moves of the game's history from its opening
\* and ASSERTs that it reaches the game's current board (search.cc 349):
\* whenever a search starts, in engine_move() or in the background thread,
\* the history replays to the board on the screen.
RootIsCurrentBoard ==
    (spc = "search" \/ thread = "init")
        => Replay(game.initial, game.entries) = game.board

\* The clock ASSERTs of Game::make_move(): once the mover's clock is
\* stopped no clock runs, so the clocks kept in the history and as
\* old_clock are stopped, and only the current clock of the side to move
\* can run, whatever sequence of moves, undos, redos, new games and
\* clock commands led here.
ClockDiscipline ==
    /\ \A s \in Colors : ~game.old[s].running
    /\ \A s \in Colors : game.cur[s].running => s = SideToMove(game)
    /\ \A i \in 1..Len(game.entries) :
          \A s \in Colors : ~game.entries[i].clk[s].running

\* Search::start() ASSERTs that no background thread exists (search.cc 92):
\* engine_move() is only reached after every command that could hand the
\* move to the engine has stopped pondering or analysis, and cmd_solve()
\* searches only after its own stop_search().
SearchExclusive == spc \in {"search", "solving"} => thread = "none"

\* The background search reads the Game through a pointer: until its
\* thread is joined, no command changes the position or the history, as
\* every command that does calls stop_search() first.
history == <<game.initial, game.entries, game.board>>
GameFrozenWhileSearching ==
    [][(thread # "none" /\ thread' # "none") => history' = history]_vars

\* allocate_time() keeps a reserve of one second and
\* allocate_more_time() never passes the hard limit: a move the engine
\* searched on a timed clock that had time left does not exhaust it.
EngineKeepsTime ==
    [][LET s == SideToMove(game)
           c == game.cur[s]
       IN  (/\ spc = "search" /\ spc' = "loop"
            /\ c.mode \in {"CONV", "INCR", "SUDDENDEATH"}
            /\ c.rem - 2 * c.lost - FromS(1) > 0)
           => game'.old[s].rem > 0]_vars

EngineAnswers ==
    (/\ spc = "loop" /\ ~quit /\ ~force /\ ~IsOver(game)
     /\ SideToMove(game) = myside)
        ~> (SideToMove(game) # myside \/ IsOver(game))
\* Search::is_draw() scores as a draw every position that
\* Game::check_result() would end the game in by the 50-move rule,
\* insufficient material or a third occurrence, and is_repetition()
\* reports a repetition only of a board the history holds
\* (Game::repetitions()): on every chain of up to MaxChain nodes, and,
\* while a search of the game runs, on the chain Search::main() built
\* from the game the shell holds.
DrawsAgree ==
    /\ ChainsAgree
    /\ spc = "search" \/ thread = "search" =>
          \A ch \in GameChains(game) : DrawAgreesOn(ch)

\* After a SIGINT, cmd_solve() starts at most one more search of a
\* position that has a move, and returns after it: Search::start() clears
\* the stop the interrupt set for the search, so that search runs its full
\* time, and the loop looks at Shell::stop only after a search that found
\* a move, whatever entries without best moves or without legal moves
\* come between.
SolveHonoursInterrupt == late <= 1

\* A sourced file gives the terminal back: when cmd_source() has pushed a
\* file whose commands neither fail nor quit, the shell does not stay in
\* it; through the engine's moves and searches the file's commands start,
\* it comes again and again to a state with no line of a file left to read
\* (get_line() closes every file at its end), unless a search traps.
ScriptReturns == []<>(GetLine(sources) = <<>> \/ spc = "trapped")
=============================================================================
