------------------------------- MODULE Game -------------------------------
(***************************************************************************)
(* The game record of game.cc as values.  A Game object is a record with  *)
(* the fields of class Game; every method that changes it is an operator  *)
(* from the old record to the new one.  Boards are positions of a small   *)
(* game graph given by the constants; a move is a label that Succ maps to *)
(* the position it leads to, and Apply gives what Board::make_move() does *)
(* with a move that is not legal in the position (a board that is no      *)
(* position of the game).                                                 *)
(***************************************************************************)
EXTENDS Clock, Sequences, FiniteSets
LOCAL SE == INSTANCE SequencesExt

CONSTANTS
    Boards,        \* positions
    MoveLabels,    \* moves
    Side,          \* Side[b]: "white" or "black", the side to move
    Succ,          \* Succ[b]: the legal moves of b, a function to positions
    Mated,         \* positions where the side to move is checkmated
    Stalemated,    \* positions where the side to move is stalemated
    Rule50,        \* positions whose 50-move counter is 100
    MaterialDraw,  \* positions with insufficient material
    Opening,       \* the standard opening position (opening_fen())
    MaxChain       \* the longest node chain the draw test is checked on

Colors == {"white", "black"}
Other(s) == IF s = "white" THEN "black" ELSE "white"   \* XSIDE
NoBoard == "corrupt"   \* a board no position of the game equals

Legal(b) == IF b \in Boards THEN DOMAIN Succ[b] ELSE {}
Apply(b, m) == IF m \in Legal(b) THEN Succ[b][m] ELSE NoBoard

Results == {"OPEN", "WHITEMATES", "BLACKMATES", "STALEMATE", "RULE50",
            "REPS3", "MATERIAL", "ILLEGAL"}

\* GameEntry: a past position, the move played in it, the clocks at its
\* beginning and the flags FLAG_COMPUTER / FLAG_BOOKMOVE.
Entry(b, m, clk, fl) == [board |-> b, move |-> m, clk |-> clk, flags |-> fl]

\* Game::construct()
Construct(b, wc, bc) ==
    [initial |-> b, board |-> b,
     initclk |-> [s \in Colors |-> IF s = "white" THEN wc ELSE bc],
     cur |-> [s \in Colors |-> IF s = "white" THEN wc ELSE bc],
     old |-> [s \in Colors |-> IF s = "white" THEN wc ELSE bc],
     entries |-> <<>>, undone |-> <<>>, running |-> FALSE, result |-> "OPEN"]

SideToMove(g) == Side[g.board]        \* Game::get_side()
IsOver(g) == g.result # "OPEN"         \* Game::is_over()

\* Game::repetitions(board): how often board occurs in the history.
Repetitions(g, b) ==
    Cardinality({i \in 1..Len(g.entries) : g.entries[i].board = b})

\* Game::check_result()
CheckResult(g) ==
    LET b == g.board IN
    [g EXCEPT !.result =
        CASE b \in Mated -> IF Side[b] = "white" THEN "BLACKMATES"
                                                ELSE "WHITEMATES"
          [] b \in Stalemated -> "STALEMATE"
          [] b \in Rule50 -> "RULE50"
          [] Repetitions(g, b) >= 2 -> "REPS3"
          [] b \in MaterialDraw -> "MATERIAL"
          [] OTHER -> "OPEN"]

\* The side to move's clock is started and the game runs, unless the
\* game is over (the tail of make_move() and redo_move()).
StartIfOpen(g) ==
    IF g.result = "OPEN"
    THEN [g EXCEPT !.cur[SideToMove(g)] = Start(@), !.running = TRUE]
    ELSE [g EXCEPT !.running = FALSE]

\* Game::start()
GameStart(g) == [g EXCEPT !.cur[SideToMove(g)] = Start(@), !.running = TRUE]

\* Mutant: the mover's clock is not stopped before the clocks are saved.
MakeMove_no_stop(g, m, fl, e) ==
    LET g2 == [g EXCEPT
                 !.entries = Append(@, Entry(g.board, m, g.old, fl)),
                 !.board = Apply(g.board, m),
                 !.old = g.cur]
    IN [StartIfOpen(CheckResult(g2)) EXCEPT !.undone = <<>>]
\* Game::make_move(mov, flags); e is the time the mover's clock ran.
MakeMove(g, m, fl, e) ==
    LET g1 == [g EXCEPT !.cur[SideToMove(g)] = Stop(@, e)]
        g2 == [g1 EXCEPT
                 !.entries = Append(@, Entry(g.board, m, g.old, fl)),
                 !.board = Apply(g.board, m),
                 !.old = g1.cur]
    IN [StartIfOpen(CheckResult(g2)) EXCEPT !.undone = <<>>]

\* Game::undo_move(); CanUndo is its return value.
CanUndo(g) == g.entries # <<>>
UndoMove(g) ==
    IF ~CanUndo(g) THEN [g EXCEPT !.running = FALSE]
    ELSE LET last == g.entries[Len(g.entries)]
             oldc == [s \in Colors |-> Stop(g.old[s], 0)]
             b == last.board
         IN [g EXCEPT
               !.entries = SubSeq(@, 1, Len(@) - 1),
               !.undone = <<Entry(g.board, last.move, oldc, last.flags)>> \o @,
               !.board = b,
               !.old = last.clk,
               !.cur = [last.clk EXCEPT ![Side[b]] = Start(@)],
               !.running = TRUE,
               !.result = "OPEN"]

\* Game::redo_move().  The stop of the mover's current clock is not kept:
\* the clocks are then replaced by the undone entry's clocks.
CanRedo(g) == g.undone # <<>>
RedoMove(g) ==
    LET u == Head(g.undone)
        oldc == [s \in Colors |-> Stop(g.old[s], 0)]
        g1 == [g EXCEPT
                 !.undone = Tail(@),
                 !.entries = Append(@, Entry(g.board, u.move, oldc, u.flags)),
                 !.board = u.board,
                 !.cur = u.clk,
                 !.old = u.clk]
    IN StartIfOpen(CheckResult(g1))

\* Mutant: initial_board is not replaced.
SetBoard_keep_initial(g, b) ==
    CheckResult([g EXCEPT !.board = b, !.old = g.initclk,
                          !.cur = g.initclk, !.entries = <<>>,
                          !.running = FALSE])
\* Game::set_board(board): a new game from board with the clocks of the
\* beginning of the old game.
SetBoard(g, b) ==
    CheckResult([g EXCEPT !.initial = b, !.board = b, !.old = g.initclk,
                          !.cur = g.initclk, !.entries = <<>>,
                          !.running = FALSE])

\* Game::set_board(fen): a FEN that does not parse (b = NoBoard) leaves
\* the board and marks the game ILLEGAL.
SetBoardFen(g, b) ==
    IF b = NoBoard
    THEN [g EXCEPT !.entries = <<>>, !.running = FALSE, !.result = "ILLEGAL"]
    ELSE SetBoard(g, b)

\* Game::set_clocks(c, c)
SetClocks(g, c) ==
    LET both == [s \in Colors |-> c] IN
    [g EXCEPT !.initclk = both, !.old = both,
              !.cur = IF g.running THEN [both EXCEPT ![SideToMove(g)] = Start(c)]
                      ELSE both]

\* Game::turn_back_clock()
TurnBackClock(g) == [g EXCEPT !.cur[SideToMove(g)] = TurnBack(@)]

\* Game::set_remaining_time(side, csecs)
GameSetRemainingTime(g, s, cs) ==
    [g EXCEPT !.cur[s] = SetRemainingTime(@, FromCs(cs))]

\* Game::Game(pgn, wclock, bclock): construct() on the PGN's opening, then
\* make_move() of every move of the PGN with no flags; the clocks run for
\* no time between the moves.
RECURSIVE PlayMoves(_, _)
PlayMoves(g, ms) ==
    IF ms = <<>> THEN g ELSE PlayMoves(MakeMove(g, Head(ms), {}, 0), Tail(ms))
GameFromPgn(p, wc, bc) == PlayMoves(Construct(p.opening, wc, bc), p.moves)

\* The position Search::main() reaches by playing the moves of the
\* history from the opening (search.cc 335-346).
RECURSIVE Replay(_, _)
Replay(b, ms) == IF ms = <<>> THEN b ELSE Replay(Apply(b, Head(ms).move), Tail(ms))
-----------------------------------------------------------------------------
(***************************************************************************)
(* The draw test of the search.  Search::main() turns the history into a  *)
(* chain of nodes from the opening to the root, and search() extends it   *)
(* by one node per ply.  A node is its board and whether the move that    *)
(* produced it (Node::get_played_move(), NO_MOVE for the opening node) is  *)
(* irreversible; boards are compared by their hash key, taken here as     *)
(* equal exactly when the boards are.                                      *)
(***************************************************************************)
ChainNode == [board : Boards, irr : BOOLEAN]

\* The loop of Search::is_repetition(node), at the i-th node of the chain:
\* it stops at a node reached by an irreversible move before it compares
\* that node's board, and at the first earlier node with the board of the
\* current one.
RECURSIVE RepetitionFrom_self(_, _)
\* Mutant: the current node is compared with itself.
RepetitionFrom_self(ch, i) ==
    CASE i = 0 -> FALSE
      [] ch[i].irr -> FALSE
      [] ch[i].board = ch[Len(ch)].board -> TRUE
      [] OTHER -> RepetitionFrom_self(ch, i - 1)
RECURSIVE RepetitionFrom(_, _)
RepetitionFrom(ch, i) ==
    CASE i = 0 -> FALSE
      [] ch[i].irr -> FALSE
      [] i # Len(ch) /\ ch[i].board = ch[Len(ch)].board -> TRUE
      [] OTHER -> RepetitionFrom(ch, i - 1)
IsRepetition(ch) == RepetitionFrom(ch, Len(ch))

\* Search::is_draw(node): the 50-move rule, insufficient material, or a
\* repetition.
IsDraw(ch) ==
    LET b == ch[Len(ch)].board
    IN b \in Rule50 \/ b \in MaterialDraw \/ IsRepetition(ch)

\* The chains a game can produce, up to n nodes: a board reached by an
\* irreversible move (a capture, a pawn move, a lost castling right)
\* differs from every board before that move.
IsChain(ch) ==
    /\ ch # <<>>
    /\ \A i \in 1..Len(ch) : ch[i].irr =>
          \A j \in 1..i-1, k \in i..Len(ch) : ch[j].board # ch[k].board
Chains(n) == {ch \in SE!BoundedSeq(ChainNode, n) : IsChain(ch)}

\* The chains Search::main() builds from the history of g: the opening
\* node, one node per entry, the root last.  The Game does not record
\* whether a move was irreversible, so every flagging a game allows.
GameChains(g) ==
    LET n == Len(g.entries) + 1
        bd(i) == IF i < n THEN g.entries[i].board ELSE g.board
    IN {ch \in {[i \in 1..n |-> [board |-> bd(i), irr |-> f[i]]] :
                    f \in [1..n -> BOOLEAN]} : IsChain(ch)}

\* The game whose history is the chain: its entries are the nodes before
\* the last, and its board is the last node's.
ChainGame(ch) ==
    [entries |-> SubSeq(ch, 1, Len(ch) - 1), board |-> ch[Len(ch)].board,
     result |-> "OPEN"]

\* Search::is_draw() agrees with Game::check_result() on the chain ch.
DrawAgreesOn(ch) ==
    LET g == ChainGame(ch) IN
    /\ CheckResult(g).result \in {"RULE50", "REPS3", "MATERIAL"} => IsDraw(ch)
    /\ IsRepetition(ch) => Repetitions(g, g.board) >= 1
\* The check on every chain of up to MaxChain nodes, computed once.
ChainsAgree == \A ch \in Chains(MaxChain) : DrawAgreesOn(ch)
====
