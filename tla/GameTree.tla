------------------------------ MODULE GameTree ------------------------------
(***************************************************************************)
(* The game the engine searches, seen through the interface the search     *)
(* core uses (spec section 6): the move generator, the evaluator and the   *)
(* few board flags search.cc reads.  Board representation, move           *)
(* generation and evaluation themselves are not part of the core; a        *)
(* position is a value of Pos and a move is named by the position it       *)
(* leads to.  The module also defines the reference value of a position    *)
(* at a given depth: the score the search procedure of search.cc must     *)
(* produce when none of its heuristic prunings applies.                    *)
(***************************************************************************)
EXTENDS Integers, Sequences, SequencesExt, FiniteSets

CONSTANTS
    Pos,       \* positions; each stands for a board and its Hashkey
    Root,      \* the position the game is in when the search starts
    Moves,     \* Moves[p]: the legal moves of p, in generator order
    Captures,  \* set of pairs <<p, q>>: the move from p to q captures
    Eval,      \* Eval[p]: Evaluator::eval(), from the side to move
    Material,  \* Material[p]: Node::material_balance()
    InCheck,   \* positions in which the side to move is in check
    Endgame,   \* positions whose Evaluator::get_phase() is ENDGAME
    DrawPos,   \* positions that Search::is_draw() reports as a draw
    NullPos,   \* NullPos[p]: the position after Move::null() in p
    Key        \* Key[p]: Board::get_hashkey(), a natural number

ASSUME /\ Root \in Pos
       /\ Moves \in [Pos -> Seq(Pos)]
       /\ Captures \subseteq Pos \X Pos
       /\ Eval \in [Pos -> Int] /\ Material \in [Pos -> Int]
       /\ InCheck \subseteq Pos /\ Endgame \subseteq Pos /\ DrawPos \subseteq Pos
       /\ NullPos \in [Pos -> Pos] /\ Key \in [Pos -> Nat]

\* Score constants of chess/eval.h and the C int range of the build.
INFTY == 100000
MATE == 90000
DRAW == 0
INT_MIN == -2147483647 - 1
INT_MAX == 2147483647
Int32 == INT_MIN..INT_MAX

\* No move (NO_MOVE); positions are never equal to it.
NoMove == "nomove"

\* The moves Node::first() generates for a QUIESCE node: all escapes when
\* in check, otherwise the captures (en passant and promotions count as
\* captures here).
QMoves(p) ==
    IF p \in InCheck THEN Moves[p]
    ELSE SelectSeq(Moves[p], LAMBDA q : <<p, q>> \in Captures)

\* Unary minus of a C int: -INT_MIN overflows, and the two's complement
\* build wraps it back to INT_MIN.
Neg(x) == IF x = INT_MIN THEN INT_MIN ELSE -x

-----------------------------------------------------------------------------
(***************************************************************************)
(* Reference values.  QVal is the value quiescence_search() computes when  *)
(* the window is (-INFTY, INFTY): the stand-pat score or a better capture, *)
(* mate when in check without escapes.  Val is the negamax value of       *)
(* search() at depth d: draw by rule, mate or stalemate without moves,    *)
(* quiescence at the horizon.  ply only enters through the mate score.    *)
(***************************************************************************)
\* The plies at which a position occurs below Root (the trees checked are
\* layered, so a reachable position has exactly one).
RECURSIVE Layer(_)
Layer(k) == IF k = 0 THEN {Root} ELSE UNION {ToSet(Moves[p]) : p \in Layer(k - 1)}
PlyOf(p) == IF \E k \in 0..Cardinality(Pos) : p \in Layer(k)
            THEN CHOOSE k \in 0..Cardinality(Pos) : p \in Layer(k)
            ELSE 0

MaxOf(S) == CHOOSE x \in S : \A y \in S : y <= x

RECURSIVE QVal(_, _)
QVal(p, ply) ==
    IF QMoves(p) = <<>> /\ p \in InCheck THEN -INFTY + ply
    ELSE MaxOf({Eval[p]} \cup {-QVal(q, ply + 1) : q \in ToSet(QMoves(p))})

RECURSIVE Val(_, _, _)
Val(p, d, ply) ==
    IF d <= 0 THEN QVal(p, ply)
    ELSE IF p \in DrawPos THEN DRAW
    ELSE IF Moves[p] = <<>> THEN (IF p \in InCheck THEN -INFTY + ply ELSE DRAW)
    ELSE MaxOf({-Val(q, d - 1, ply + 1) : q \in ToSet(Moves[p])})

\* What a score r returned for the window (a, b) says about the true value
\* v: a fail-low bounds v from above, a fail-high from below, and a score
\* strictly inside the window is exact.  Fail-hard returns a or b as the
\* bound, fail-soft a tighter one; both must satisfy this.
Contract(r, a, b, v) ==
    /\ r <= a => v <= r
    /\ r >= b => v >= r
    /\ (a < r /\ r < b) => v = r
=============================================================================
