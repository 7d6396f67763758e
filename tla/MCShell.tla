------------------------------ MODULE MCShell ------------------------------
(***************************************************************************)
(* A small game for the shell: the opening p0, where white has two moves  *)
(* and the book knows one; p1, where black has two moves (the engine      *)
(* searches); p2, where black has one (the engine plays it without a      *)
(* search); and the ends p3 (stalemate) and p4 (white is mated).          *)
(***************************************************************************)
EXTENDS Shell

MCBoards == {"p0", "p1", "p2", "p3", "p4"}
MCMoveLabels == {"e", "d", "c"}
MCSide == [b \in MCBoards |-> IF b \in {"p1", "p2"} THEN "black" ELSE "white"]
MCSucc == [b \in MCBoards |->
             CASE b = "p0" -> [m \in {"e", "d"} |-> IF m = "e" THEN "p1" ELSE "p2"]
               [] b = "p1" -> [m \in {"e", "c"} |-> IF m = "e" THEN "p3" ELSE "p4"]
               [] b = "p2" -> [m \in {"c"} |-> "p4"]
               [] OTHER -> [m \in {} |-> b]]
MCBook == [b \in {"p0"} |-> "d"]

\* The commands of the game run: moves, take-backs, new games, positions,
\* loaded and saved games, the opening book, pondering and analysis, with
\* fixed-time clocks ("st").
MCGameCmds == {"new", "force", "go", "usermove", "setboard", "undo", "book",
               "loadgame", "savegame", "remove", "redo", "st", "hard",
               "easy", "analyze", "exit", "playboth", "quit", "source"}
\* The commands of the clock run: moves and take-backs under the three
\* time controls of "level" and the reports of "time", and the test-suite
\* runner "solve".
MCClockCmds == {"new", "go", "usermove", "undo", "level", "time", "playboth",
                "solve"}
\* sudden death 5 s, 2 moves in 3 s, 2 s + 1 s a move
MCLevelArgs == {<<0, 5, 0>>, <<2, 3, 0>>, <<0, 2, 1>>}
MCFenBoards == {"p1", NoBoard}
\* A PGN of the game 1. e (to p1), where black, to move, has two replies.
MCPgnFiles == {[opening |-> "p0", moves |-> <<"e">>]}
\* A test suite: p1 (searched), p0 without a best move (skipped), the
\* stalemate p3 (the search returns NO_MOVE) and p2 (searched).
MCEpdFiles == {[opens |-> TRUE,
                entries |-> <<[board |-> "p1", bm |-> {"e"}],
                              [board |-> "p0", bm |-> {}],
                              [board |-> "p3", bm |-> {"c"}],
                              [board |-> "p2", bm |-> {"c"}]>>]}
\* A script that hands the move to the engine.
MCScriptFiles == {[opens |-> TRUE, lines |-> <<[name |-> "go", arg |-> "none"]>>]}
\* The game run starts with --source of that script and an --initcmd
\* "force", which the cmd_new() of Shell::main() undoes.
MCSourceArgs == <<[opens |-> TRUE, lines |-> <<[name |-> "go", arg |-> "none"]>>]>>
MCInitCmds == <<[name |-> "force", arg |-> "none"]>>
\* The other runs start the way hoichess starts without options.
MCNone == <<>>
\* The game run has no "solve", the only reader of Shell::stop: states
\* that differ only in Shell::stop and the solve history behave alike.
\* The sources are only read through get_line(), so a file at its end
\* that the next get_line() closes is as good as closed.
GameView == <<game, flags, spc, thread, stopiter, book, solve, GetLine(sources), initcmds>>
=============================================================================
