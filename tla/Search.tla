------------------------------- MODULE Search -------------------------------
(***************************************************************************)
(* The sequential search engine of common/search.cc: iterate() (iterative *)
(* deepening with aspiration windows), search_root(), search() and        *)
(* quiescence_search(), with the transposition-table probe and store of   *)
(* probe_hashtable()/store_hashtable() and the move ordering of           *)
(* Node::first()/next()/pick() (common/node.cc).                           *)
(*                                                                         *)
(* Every engine runs its recursion on a stack of frames: one frame per     *)
(* active call, holding the call's locals (alpha, bestscore, moves, ...)   *)
(* and the Node the call works on (move list, best line, hash move, PV).   *)
(* The stack is the node arena of NodeAllocator: a call allocates its      *)
(* child on top and frees it before the next one.  A frame's pc names the *)
(* point of the C function the call has reached; each action below runs   *)
(* the code from one such point to the next call or return.  A call that  *)
(* returns hands its value and its node's state to the caller (ret, rn).   *)
(*                                                                         *)
(* Engines are indexed so that ParallelSearch can add slave engines and    *)
(* master frames; Masters is empty for the sequential engine.             *)
(***************************************************************************)
EXTENDS GameTree, FiniteSets

CONSTANTS
    Engines,     \* search engine instances (Search objects)
    Top,         \* the engine whose iterate() the shell runs
    Masters,     \* engines that are a ParallelSearch master
    Tables,      \* hash tables
    TableOf,     \* TableOf[e]: the HashTable engine e probes and stores into
    TableSize,   \* number of entries of a table
    MaxDepth,    \* the depth argument of iterate()
    FailSoft,    \* option search_failsoft
    PvsMode,     \* option search_pvs_mode: 0, 1 or 2
    OptionWrites \* the shell may write search_failsoft during the search

ASSUME /\ Top \in Engines /\ Masters \subseteq Engines
       /\ TableOf \in [Engines -> Tables]
       /\ TableSize \in Nat \ {0} /\ MaxDepth \in Nat \ {0}
       /\ FailSoft \in BOOLEAN /\ PvsMode \in {0, 1, 2} /\ OptionWrites \in BOOLEAN

VARIABLES
    stack,     \* stack[e]: the frames of engine e's active calls, innermost last
    result,    \* result[e]: the value the outermost call of e returned, and
               \* the state it left its node in
    tt,        \* tt[t][i]: entry i of hash table t
    stop,      \* stop[e]: the engine's stop flag
    stopIter,  \* Top's stop_iteration flag
    rootnode,  \* the root Node of Top: move list with scores, best line
    p1pv,      \* ply1_pvline_map: root move -> its child's best line
    it         \* the locals of Top's iterate()

vars == <<stack, result, tt, stop, stopIter, rootnode, p1pv, it>>

-----------------------------------------------------------------------------
(* Hash table entries (hash.h HashEntry) and the table index of a key.    *)
HashTypes == {"NONE", "EXACT", "ALPHA", "BETA"}
EmptyEntry == [key |-> NoMove, type |-> "NONE", depth |-> 0, score |-> 0,
               move |-> NoMove]
Slot(p) == Key[p] % TableSize

\* bound_score()
bound_score(s, a, b) == IF s > b THEN b ELSE IF s < a THEN a ELSE s

\* The values a read of the option search_failsoft (the failsoft macro,
\* shell->get_option_search_failsoft()) can see.  cmd_option() writes the
\* option from the shell thread without stop_search(), and xboard, told of
\* every option by protover, may send "option" at any time: with
\* OptionWrites each read may see either value.
FailSoftReads == IF OptionWrites THEN BOOLEAN ELSE {FailSoft}

\* if (failsoft) x = s; else x = bound_score(s, alpha, beta);
FailScore(fs, s, a, b) == IF fs THEN s ELSE bound_score(s, a, b)

\* The unsigned short depth field of HashEntry, and the comparison
\* entry.get_depth() >= (unsigned) depth of probe_hashtable(): a negative
\* depth cast to unsigned exceeds every stored depth.
UShort(d) == d % 65536
DepthCovers(stored, d) == d >= 0 /\ stored >= d

\* probe_hashtable(): hit is a probe that finds the position (the node then
\* takes the entry's move as hash move), cut a hit that can be returned.
probe_hashtable(e, p, depth, alpha, beta) ==
    LET t == tt[TableOf[e]][Slot(p)]
        hit == t.type # "NONE" /\ t.key = p
    IN [hit |-> hit,
        mv |-> t.move,
        cut |-> /\ hit
                /\ DepthCovers(t.depth, depth)
                /\ \/ t.type = "EXACT"
                   \/ t.type = "ALPHA" /\ t.score <= alpha
                   \/ t.type = "BETA" /\ t.score >= beta,
        score |-> [fs \in BOOLEAN |-> FailScore(fs, t.score, alpha, beta)]]

\* store_hashtable() followed by HashTable::put(): classify the score
\* against the window (mate scores clamped to +-MATE) and overwrite the slot.
\* Mutant: a fail-high equal to beta is not recognised as a bound.
StoreType_beta_strict(score, alpha, beta) ==
    IF score >= MATE THEN "BETA" ELSE IF score <= -MATE THEN "ALPHA"
    ELSE IF score > beta THEN "BETA" ELSE IF score <= alpha THEN "ALPHA"
    ELSE "EXACT"
StoreType(score, alpha, beta) ==
    IF score >= MATE THEN "BETA" ELSE IF score <= -MATE THEN "ALPHA"
    ELSE IF score >= beta THEN "BETA" ELSE IF score <= alpha THEN "ALPHA"
    ELSE "EXACT"
StoreScore(score) ==
    IF score >= MATE THEN MATE ELSE IF score <= -MATE THEN -MATE ELSE score
store_hashtable(e, p, depth, alpha, beta, score, bmove) ==
    tt' = [tt EXCEPT ![TableOf[e]][Slot(p)] =
              [key |-> p, type |-> StoreType(score, alpha, beta),
               depth |-> UShort(depth), score |-> StoreScore(score),
               move |-> bmove]]

-----------------------------------------------------------------------------
(* Move lists: a sequence of [m, s] (move and ordering score).  cur is the *)
(* number of moves already picked (current_move_no + 1).                   *)
Gen(seq) == [i \in 1..Len(seq) |-> [m |-> seq[i], s |-> 0]]

\* Node::score_moves() with killers and history left out: PV move, hash
\* move, captures, the rest.
MoveScore(f, m) ==
    IF f.pv # <<>> /\ m = f.pv[1] THEN 1000000
    ELSE IF m = f.hashmv THEN 900000
    ELSE IF <<f.pos, m>> \in Captures THEN 500000
    ELSE 0
score_moves(f, ml) == [i \in 1..Len(ml) |-> [m |-> ml[i].m, s |-> MoveScore(f, ml[i].m)]]

\* Mutant: current_move_no advanced before the test for an exhausted list.
pick_advance_always(ml, cur) ==
    LET idx == {i \in cur + 1..Len(ml) : ml[i].s > -INFTY}
        IsBest(i) == \A j \in idx : ml[j].s <= ml[i].s /\ (j < i => ml[j].s < ml[i].s)
    IN IF idx = {} THEN [ml |-> ml, cur |-> cur + 1, mv |-> NoMove]
       ELSE LET b == CHOOSE i \in idx : IsBest(i)
                sw == [ml EXCEPT ![cur + 1] = ml[b], ![b] = ml[cur + 1]]
            IN [ml |-> sw, cur |-> cur + 1, mv |-> sw[cur + 1].m]

\* Node::pick(): the first of the highest-scored unpicked moves whose score
\* exceeds -INFTY is swapped into the next position.
pick(ml, cur) ==
    LET idx == {i \in cur + 1..Len(ml) : ml[i].s > -INFTY}
        IsBest(i) == \A j \in idx : ml[j].s <= ml[i].s /\ (j < i => ml[j].s < ml[i].s)
    IN IF idx = {} THEN [ml |-> ml, cur |-> cur, mv |-> NoMove]
       ELSE LET b == CHOOSE i \in idx : IsBest(i)
                sw == [ml EXCEPT ![cur + 1] = ml[b], ![b] = ml[cur + 1]]
            IN [ml |-> sw, cur |-> cur + 1, mv |-> sw[cur + 1].m]

\* The first move of a best line (Node::get_best_move()).
BestMove(line) == IF line = <<>> THEN NoMove ELSE line[1]

\* Node::make_move(): the child inherits the tail of the parent's PV line if
\* the move played is the PV move.
ChildPv(f, m) == IF Len(f.pv) > 1 /\ f.pv[1] = m THEN Tail(f.pv) ELSE <<>>

\* A frame for a new call on a fresh node.  pnull is whether the node's
\* parent was itself reached by a null move (get_parent()->get_played_move()).
SearchFn(e) == IF e \in Masters THEN "par" ELSE "full"
NewFrame(fn, p, ply, depth, a, b, pv, nullmv, pnull) ==
    [fn |-> fn, pc |-> IF fn = "qs" THEN "qenter" ELSE "enter",
     pos |-> p, ply |-> ply, depth |-> depth, alpha |-> a, beta |-> b, sid |-> 0,
     salpha |-> a, best |-> -INFTY, moves |-> 0, first |-> TRUE,
     fprune |-> FALSE, nw |-> FALSE, cm |-> NoMove, ret |-> 0,
     rn |-> [ml |-> <<>>, bl |-> <<>>, hashmv |-> NoMove],
     ml |-> <<>>, cur |-> 0, bl |-> <<>>, hashmv |-> NoMove, pv |-> pv,
     nullmv |-> nullmv, pnull |-> pnull]

-----------------------------------------------------------------------------
(* The recursion.  Cur(e) is the innermost frame of engine e.             *)
Cur(e) == stack[e][Len(stack[e])]
At(e, fn, pc) == stack[e] # <<>> /\ Cur(e).fn = fn /\ Cur(e).pc = pc

\* ParallelSearch::parallel_search() ("ps" frames) repeats the draw test,
\* probe, null move and IID of search() line for line; those steps serve
\* both kinds of frame.
WidthFns == {"full", "ps"}
AtWidth(e, pc) == stack[e] # <<>> /\ Cur(e).fn \in WidthFns /\ Cur(e).pc = pc

\* Continue the innermost call with frame f.
SetTop(e, f) ==
    /\ stack' = [stack EXCEPT ![e][Len(stack[e])] = f]
    /\ UNCHANGED result

\* The innermost call, now in state f, calls c (Node::make_move() allocates
\* the child on top of the arena).
Call(e, f, c) ==
    /\ stack' = [stack EXCEPT ![e] = Append([@ EXCEPT ![Len(@)] = f], c)]
    /\ UNCHANGED result

\* The innermost call, in state f, returns v: the caller receives v and the
\* state of the node it passed (child->free() releases it afterwards).
NodeState(f) == [ml |-> f.ml, bl |-> f.bl, hashmv |-> f.hashmv]
Deliver(caller, f, v) == [caller EXCEPT !.ret = v, !.rn = NodeState(f)]
Return(e, f, v) ==
    LET s == stack[e]
        n == Len(s)
    IN IF n = 1
       THEN /\ stack' = [stack EXCEPT ![e] = <<>>]
            /\ result' = [result EXCEPT ![e] = [v |-> v, rn |-> NodeState(f)]]
       ELSE /\ stack' = [stack EXCEPT ![e] = Append(SubSeq(s, 1, n - 2), Deliver(s[n - 1], f, v))]
            /\ UNCHANGED result

\* Node::next() in a loop whose head is at pc.
NextMove(e, f, pc) ==
    LET pk == pick(f.ml, f.cur)
    IN SetTop(e, [f EXCEPT !.ml = pk.ml, !.cur = pk.cur, !.cm = pk.mv, !.pc = pc])

\* The PVS choice of search_root() and search(): a null window for every
\* move but the first (mode 1), or once alpha has been raised (mode 2).
NullWin(f) == \/ PvsMode = 1 /\ ~f.first
              \/ PvsMode = 2 /\ f.alpha > f.salpha

\* The second, full-window search of the same child node after a null-window
\* search failed high inside the window: the child keeps its move list, best
\* line and hash move from the first search.
ReSearch(e, f, pv) ==
    [NewFrame(SearchFn(e), f.cm, f.ply + 1, f.depth - 1, -f.beta, -f.alpha,
              pv, FALSE, f.nullmv)
        EXCEPT !.ml = f.rn.ml, !.bl = f.rn.bl, !.hashmv = f.rn.hashmv]

\* Mutant: the fail-hard branch returns and stores bestscore.
Conclude_bestscore(e, f, depth, nomoves, matescore) ==
    LET v == IF nomoves THEN matescore ELSE f.best
    IN /\ store_hashtable(e, f.pos, depth, f.salpha, f.beta, v, BestMove(f.bl))
       /\ Return(e, f, v)

\* The end of search() and quiescence_search(): score a node without moves
\* (mate, or for search() stalemate), store the result, return it.  The
\* option is read three times: by the mate test, by the store and by the
\* return.
Conclude(e, f, depth, nomoves, matescore) ==
    \E fsmate, fsstore, fsret \in FailSoftReads :
    LET bestscore == IF nomoves /\ fsmate THEN matescore ELSE f.best
        alpha == IF nomoves /\ ~fsmate THEN bound_score(matescore, f.alpha, f.beta)
                 ELSE f.alpha
    IN /\ store_hashtable(e, f.pos, depth, f.salpha, f.beta,
                          IF fsstore THEN bestscore ELSE alpha, BestMove(f.bl))
       /\ Return(e, f, IF fsret THEN bestscore ELSE alpha)

Frozen == <<stop, stopIter, rootnode, p1pv, it>>

-----------------------------------------------------------------------------
(***************************************************************************)
(* Search::search() (search.cc 646-844).                                   *)
(***************************************************************************)
\* depth <= 0: the call becomes quiescence_search() on the same node.
SearchHorizon(e) ==
    /\ At(e, "full", "enter")
    /\ Cur(e).depth <= 0
    /\ SetTop(e, [Cur(e) EXCEPT !.fn = "qs", !.pc = "qenter"])
    /\ UNCHANGED <<tt, Frozen>>

\* is_draw(): return the draw score.
SearchDraw(e) ==
    LET f == Cur(e) IN
    /\ AtWidth(e, "enter")
    /\ f.depth > 0 /\ f.pos \in DrawPos
    /\ \E fs \in FailSoftReads : Return(e, f, FailScore(fs, DRAW, f.alpha, f.beta))
    /\ UNCHANGED <<tt, Frozen>>

\* probe_hashtable(): return a usable entry, otherwise keep its move.
SearchProbe(e) ==
    LET f == Cur(e)
        pr == probe_hashtable(e, f.pos, f.depth, f.alpha, f.beta)
        f1 == IF pr.hit THEN [f EXCEPT !.hashmv = pr.mv] ELSE f
    IN /\ AtWidth(e, "enter")
       /\ f.depth > 0 /\ f.pos \notin DrawPos
       /\ IF pr.cut THEN \E fs \in FailSoftReads : Return(e, f1, pr.score[fs])
          ELSE SetTop(e, [f1 EXCEPT !.pc = "null"])
       /\ UNCHANGED <<tt, Frozen>>

\* Null-move pruning: unless in check, in the endgame, or the parent was
\* reached by a null move, search the null move at depth-3 with the window
\* (-beta, -beta+1).
SearchNullMove(e) ==
    LET f == Cur(e) IN
    /\ AtWidth(e, "null")
    /\ IF f.pos \notin InCheck /\ ~f.pnull /\ f.pos \notin Endgame
       THEN Call(e, [f EXCEPT !.pc = "nullret"],
                 NewFrame(SearchFn(e), NullPos[f.pos], f.ply + 1, f.depth - 3,
                          -f.beta, -f.beta + 1, <<>>, TRUE, f.nullmv))
       ELSE SetTop(e, [f EXCEPT !.pc = "iid"])
    /\ UNCHANGED <<tt, Frozen>>

SearchNullMoveDone(e) ==
    LET f == Cur(e)
        score == Neg(f.ret)
    IN /\ AtWidth(e, "nullret")
       /\ IF score >= f.beta THEN \E fs \in FailSoftReads : Return(e, f, IF fs THEN score ELSE f.beta)
          ELSE SetTop(e, [f EXCEPT !.pc = "iid"])
       /\ UNCHANGED <<tt, Frozen>>

\* Internal iterative deepening: without PV or hash move and at depth > 2,
\* search the same node at depth-2 first.
SearchIID(e) ==
    LET f == Cur(e) IN
    /\ AtWidth(e, "iid")
    /\ IF f.pv = <<>> /\ f.hashmv = NoMove /\ f.depth > 2
       THEN Call(e, [f EXCEPT !.pc = "iidret"],
                 [NewFrame(SearchFn(e), f.pos, f.ply, f.depth - 2, f.alpha, f.beta,
                           f.pv, f.nullmv, f.pnull)
                     EXCEPT !.ml = f.ml, !.bl = f.bl, !.hashmv = f.hashmv])
       ELSE SetTop(e, [f EXCEPT !.pc = "prune"])
    /\ UNCHANGED <<tt, Frozen>>

\* After IID the node keeps what the shallow search left in it and takes
\* its best move as hash move.
SearchIIDDone(e) ==
    LET f == Cur(e) IN
    /\ AtWidth(e, "iidret")
    /\ SetTop(e, [f EXCEPT !.ml = f.rn.ml, !.bl = f.rn.bl,
                           !.hashmv = BestMove(f.rn.bl), !.pc = "prune"])
    /\ UNCHANGED <<tt, Frozen>>

\* Razoring, futility and extended futility pruning, then Node::first():
\* keep moves already generated (by IID or an earlier search of the node),
\* otherwise generate them; score and pick.
SearchPrune(e) ==
    LET f == Cur(e)
        mat == Material[f.pos]
        d1 == IF f.depth = 3 /\ mat + 900 <= f.alpha THEN 2 ELSE f.depth
        futile == d1 = 1 /\ mat + 300 <= f.alpha
        xfutile == d1 = 2 /\ mat + 500 <= f.alpha
        f1 == [f EXCEPT !.depth = IF xfutile THEN 1 ELSE d1,
                        !.fprune = futile \/ xfutile]
        gen == IF f.ml # <<>> THEN f.ml ELSE Gen(Moves[f.pos])
        pk == pick(score_moves(f1, gen), 0)
    IN /\ At(e, "full", "prune")
       /\ SetTop(e, [f1 EXCEPT !.ml = pk.ml, !.cur = pk.cur, !.cm = pk.mv, !.pc = "move"])
       /\ UNCHANGED <<tt, Frozen>>

\* The move loop is over: mate or stalemate test, store, return.
SearchNoMoreMoves(e) ==
    LET f == Cur(e) IN
    /\ At(e, "full", "move")
    /\ f.cm = NoMove
    /\ Conclude(e, f, f.depth, f.moves = 0,
                IF f.pos \in InCheck THEN -INFTY + f.ply ELSE DRAW)
    /\ UNCHANGED Frozen

\* A move the futility condition skips: quiet, neither side in check.
Futile(f, m) ==
    /\ f.fprune
    /\ f.pos \notin InCheck /\ m \notin InCheck
    /\ <<f.pos, m>> \notin Captures

SearchFutile(e) ==
    LET f == Cur(e) IN
    /\ At(e, "full", "move")
    /\ f.cm # NoMove /\ Futile(f, f.cm)
    /\ NextMove(e, [f EXCEPT !.moves = @ + 1], "move")
    /\ UNCHANGED <<tt, Frozen>>

\* Make the move and search it (null window under PVS).
SearchChild(e) ==
    LET f == Cur(e)
        nw == NullWin(f)
    IN /\ At(e, "full", "move")
       /\ f.cm # NoMove /\ ~Futile(f, f.cm)
       /\ Call(e, [f EXCEPT !.moves = @ + 1, !.nw = nw, !.pc = "ret1"],
               NewFrame(SearchFn(e), f.cm, f.ply + 1, f.depth - 1,
                        IF nw THEN -f.alpha - 1 ELSE -f.beta, -f.alpha,
                        ChildPv(f, f.cm), FALSE, f.nullmv))
       /\ UNCHANGED <<tt, Frozen>>

\* After the child's search: the stop test, the best line, alpha, the cutoff.
AfterChild(e, f, score, loop) ==
    IF stop[e]
    THEN Return(e, f, INT_MIN) /\ UNCHANGED tt
    ELSE LET f1 == IF score > f.best
                   THEN [f EXCEPT !.best = score, !.bl = <<f.cm>> \o f.rn.bl]
                   ELSE f
             f2 == [f1 EXCEPT !.alpha = IF score > f.alpha THEN score ELSE @,
                              !.first = FALSE]
         IN IF score >= f.beta
            THEN Conclude(e, f2, f2.depth, FALSE, 0)
            ELSE NextMove(e, f2, loop) /\ UNCHANGED tt

\* Mutant: the PVS re-search after a null-window fail-high is omitted.
SearchChildDone_no_research(e) ==
    LET f == Cur(e) IN
    /\ At(e, "full", "ret1")
    /\ AfterChild(e, f, Neg(f.ret), "move")
    /\ UNCHANGED Frozen

\* The null-window search returned: re-search with the full window if it
\* failed high inside (alpha, beta).
SearchChildDone(e) ==
    LET f == Cur(e)
        score == Neg(f.ret)
    IN /\ At(e, "full", "ret1")
       /\ IF f.nw /\ score > f.alpha /\ score < f.beta
          THEN Call(e, [f EXCEPT !.pc = "ret2"], ReSearch(e, f, ChildPv(f, f.cm)))
               /\ UNCHANGED tt
          ELSE AfterChild(e, f, score, "move")
       /\ UNCHANGED Frozen

SearchReSearchDone(e) ==
    /\ At(e, "full", "ret2")
    /\ AfterChild(e, Cur(e), Neg(Cur(e).ret), "move")
    /\ UNCHANGED Frozen

-----------------------------------------------------------------------------
(***************************************************************************)
(* Search::quiescence_search() (search.cc 846-965).  The MAXPLY ceiling    *)
(* is not reached by the trees checked and is left out.                   *)
(***************************************************************************)
QuiesceProbe(e) == probe_hashtable(e, Cur(e).pos, 0, Cur(e).alpha, Cur(e).beta)
QuiesceHashmv(e) ==
    IF QuiesceProbe(e).hit THEN [Cur(e) EXCEPT !.hashmv = QuiesceProbe(e).mv] ELSE Cur(e)

\* A usable table entry is returned.
QuiesceCut(e) ==
    /\ At(e, "qs", "qenter")
    /\ QuiesceProbe(e).cut
    /\ \E fs \in FailSoftReads : Return(e, QuiesceHashmv(e), QuiesceProbe(e).score[fs])
    /\ UNCHANGED <<tt, Frozen>>

\* Mutant: the stand-pat cutoff returns the evaluation in fail-hard mode.
QuiesceStandPat_unclamped(e) ==
    LET f == Cur(e) IN
    /\ At(e, "qs", "qenter")
    /\ ~QuiesceProbe(e).cut
    /\ Eval[f.pos] >= f.beta
    /\ Return(e, QuiesceHashmv(e), Eval[f.pos])
    /\ UNCHANGED <<tt, Frozen>>

\* The stand-pat evaluation fails high.
QuiesceStandPat(e) ==
    LET f == Cur(e) IN
    /\ At(e, "qs", "qenter")
    /\ ~QuiesceProbe(e).cut
    /\ Eval[f.pos] >= f.beta
    /\ \E fs \in FailSoftReads : Return(e, QuiesceHashmv(e), IF fs THEN Eval[f.pos] ELSE f.beta)
    /\ UNCHANGED <<tt, Frozen>>

\* The stand-pat score raises alpha; generate escapes or captures.
QuiesceExpand(e) ==
    \E fs \in FailSoftReads :
    LET f == QuiesceHashmv(e)
        stand == Eval[f.pos]
        f1 == [f EXCEPT !.alpha = IF stand > f.alpha THEN stand ELSE @,
                        !.best = IF fs THEN stand ELSE @]
        pk == pick(score_moves(f1, Gen(QMoves(f.pos))), 0)
    IN /\ At(e, "qs", "qenter")
       /\ ~QuiesceProbe(e).cut
       /\ stand < f.beta
       /\ SetTop(e, [f1 EXCEPT !.ml = pk.ml, !.cur = pk.cur, !.cm = pk.mv, !.pc = "qmove"])
       /\ UNCHANGED <<tt, Frozen>>

QuiesceNoMoreMoves(e) ==
    LET f == Cur(e) IN
    /\ At(e, "qs", "qmove")
    /\ f.cm = NoMove
    /\ Conclude(e, f, 0, f.moves = 0 /\ f.pos \in InCheck, -INFTY + f.ply)
    /\ UNCHANGED Frozen

QuiesceChild(e) ==
    LET f == Cur(e) IN
    /\ At(e, "qs", "qmove")
    /\ f.cm # NoMove
    /\ Call(e, [f EXCEPT !.moves = @ + 1, !.pc = "qret"],
            NewFrame("qs", f.cm, f.ply + 1, 0, -f.beta, -f.alpha,
                     ChildPv(f, f.cm), FALSE, f.nullmv))
    /\ UNCHANGED <<tt, Frozen>>

QuiesceChildDone(e) ==
    LET f == Cur(e)
        score == Neg(f.ret)
    IN /\ At(e, "qs", "qret")
       /\ IF stop[e]
          THEN Return(e, f, INT_MIN) /\ UNCHANGED tt
          ELSE LET f1 == IF score > f.best
                         THEN [f EXCEPT !.best = score, !.bl = <<f.cm>> \o f.rn.bl]
                         ELSE f
                   f2 == [f1 EXCEPT !.alpha = IF score > f.alpha THEN score ELSE @]
               IN IF score >= f.beta
                  THEN Conclude(e, f2, 0, FALSE, 0)
                  ELSE NextMove(e, f2, "qmove") /\ UNCHANGED tt
       /\ UNCHANGED Frozen

-----------------------------------------------------------------------------
(***************************************************************************)
(* Search::search_root() (search.cc 545-644), run by Top on rootnode.      *)
(* The root keeps its move list between iterations: set_current_score()   *)
(* orders the next iteration, ply1_pvline_map seeds each child's PV.       *)
(***************************************************************************)
RootFrame(d, a, b, mv) ==
    [NewFrame("root", Root, 0, d, a, b, <<>>, FALSE, FALSE)
        EXCEPT !.pc = "rmove", !.cm = mv]

RootDone ==
    LET f == Cur(Top) IN
    /\ At(Top, "root", "rmove")
    /\ f.cm = NoMove
    /\ \E fs \in FailSoftReads : Return(Top, f, IF fs THEN f.best ELSE f.alpha)
    /\ UNCHANGED <<tt, Frozen>>

RootChild ==
    LET f == Cur(Top)
        nw == NullWin(f)
    IN /\ At(Top, "root", "rmove")
       /\ f.cm # NoMove
       /\ Call(Top, [f EXCEPT !.moves = @ + 1, !.nw = nw, !.pc = "rret1"],
               NewFrame(SearchFn(Top), f.cm, 1, f.depth - 1,
                        IF nw THEN -f.alpha - 1 ELSE -f.beta, -f.alpha,
                        p1pv[f.cm], FALSE, FALSE))
       /\ UNCHANGED <<tt, Frozen>>

\* Mutant: a move scoring equal to the best so far replaces the best line.
RootAfterChild_ties(f, score) ==
    /\ p1pv' = [p1pv EXCEPT ![f.cm] = f.rn.bl]
    /\ IF stop[Top]
       THEN Return(Top, f, INT_MIN) /\ UNCHANGED rootnode
       ELSE LET rn1 == [rootnode EXCEPT
                          !.ml[rootnode.cur].s = score,
                          !.bl = IF score >= f.best THEN <<f.cm>> \o f.rn.bl ELSE @]
                f2 == [f EXCEPT !.best = IF score > f.best THEN score ELSE @,
                                !.alpha = IF score > f.alpha THEN score ELSE @,
                                !.first = FALSE]
                pk == pick(rn1.ml, rn1.cur)
            IN IF score >= f.beta
               THEN /\ \E fs \in FailSoftReads : Return(Top, f2, IF fs THEN f2.best ELSE f2.alpha)
                    /\ rootnode' = rn1
               ELSE /\ rootnode' = [rn1 EXCEPT !.ml = pk.ml, !.cur = pk.cur]
                    /\ SetTop(Top, [f2 EXCEPT !.cm = pk.mv, !.pc = "rmove"])
    /\ UNCHANGED <<tt, stop, stopIter, it>>

\* Record the child's best line for the next iteration; then the stop
\* test, the move's ordering score, the best line, alpha and the cutoff.
RootAfterChild(f, score) ==
    /\ p1pv' = [p1pv EXCEPT ![f.cm] = f.rn.bl]
    /\ IF stop[Top]
       THEN Return(Top, f, INT_MIN) /\ UNCHANGED rootnode
       ELSE LET rn1 == [rootnode EXCEPT
                          !.ml[rootnode.cur].s = score,
                          !.bl = IF score > f.best THEN <<f.cm>> \o f.rn.bl ELSE @]
                f2 == [f EXCEPT !.best = IF score > f.best THEN score ELSE @,
                                !.alpha = IF score > f.alpha THEN score ELSE @,
                                !.first = FALSE]
                pk == pick(rn1.ml, rn1.cur)
            IN IF score >= f.beta
               THEN /\ \E fs \in FailSoftReads : Return(Top, f2, IF fs THEN f2.best ELSE f2.alpha)
                    /\ rootnode' = rn1
               ELSE /\ rootnode' = [rn1 EXCEPT !.ml = pk.ml, !.cur = pk.cur]
                    /\ SetTop(Top, [f2 EXCEPT !.cm = pk.mv, !.pc = "rmove"])
    /\ UNCHANGED <<tt, stop, stopIter, it>>

RootChildDone ==
    LET f == Cur(Top)
        score == Neg(f.ret)
    IN /\ At(Top, "root", "rret1")
       /\ IF f.nw /\ score > f.alpha /\ score < f.beta
          THEN /\ Call(Top, [f EXCEPT !.pc = "rret2"], ReSearch(Top, f, p1pv[f.cm]))
               /\ UNCHANGED <<tt, Frozen>>
          ELSE RootAfterChild(f, score)

RootReSearchDone ==
    /\ At(Top, "root", "rret2")
    /\ RootAfterChild(Cur(Top), Neg(Cur(Top).ret))

-----------------------------------------------------------------------------
(***************************************************************************)
(* Search::iterate() (search.cc 450-543): it.rd is rootdepth, it.alpha     *)
(* and it.beta the aspiration window, it.best the move it will return,     *)
(* it.last the depth of the last iteration that set it.                   *)
(***************************************************************************)
WINDOW == 50

IterSearch ==
    LET pk == pick(rootnode.ml, 0) IN
    /\ it.pc = "search"
    /\ rootnode' = [rootnode EXCEPT !.ml = pk.ml, !.cur = pk.cur]
    /\ stack' = [stack EXCEPT ![Top] = <<RootFrame(it.rd, it.alpha, it.beta, pk.mv)>>]
    /\ it' = [it EXCEPT !.pc = "wait"]
    /\ UNCHANGED <<result, tt, stop, stopIter, p1pv>>

\* search_root() has returned; check_time() may still have set stop.
Returned == it.pc = "wait" /\ stack[Top] = <<>>
Score == result[Top].v
FailLow == Score <= it.alpha /\ Score > -MATE
FailHigh == ~FailLow /\ Score >= it.beta /\ Score < MATE

IterAborted ==
    /\ Returned /\ stop[Top]
    /\ it' = [it EXCEPT !.pc = "done"]
    /\ UNCHANGED <<stack, result, tt, stop, stopIter, rootnode, p1pv>>

\* Mutant: a fail-low re-searches without widening the window.
IterFailLow_same_window ==
    /\ Returned /\ ~stop[Top] /\ FailLow
    /\ it' = IF stopIter THEN [it EXCEPT !.pc = "done"]
             ELSE [it EXCEPT !.pc = "search"]
    /\ UNCHANGED <<stack, result, tt, stop, stopIter, rootnode, p1pv>>

\* Fail-low: re-search with alpha = -INFTY unless stop_iteration is set.
IterFailLow ==
    /\ Returned /\ ~stop[Top] /\ FailLow
    /\ it' = IF stopIter THEN [it EXCEPT !.pc = "done"]
             ELSE [it EXCEPT !.alpha = -INFTY, !.pc = "search"]
    /\ UNCHANGED <<stack, result, tt, stop, stopIter, rootnode, p1pv>>

IterFailHigh ==
    /\ Returned /\ ~stop[Top] /\ FailHigh
    /\ it' = IF stopIter THEN [it EXCEPT !.pc = "done"]
             ELSE [it EXCEPT !.beta = INFTY, !.pc = "search"]
    /\ UNCHANGED <<stack, result, tt, stop, stopIter, rootnode, p1pv>>

\* A completed iteration: take the root's best move; stop on
\* stop_iteration or a mate score; otherwise centre the window on the score
\* and go one ply deeper if time_for_new_iteration() allows it.
IterDepth ==
    LET mv == BestMove(rootnode.bl)
        it1 == [it EXCEPT !.best = IF mv # NoMove THEN mv ELSE @, !.last = it.rd]
    IN /\ Returned /\ ~stop[Top] /\ ~FailLow /\ ~FailHigh
       /\ \E more \in BOOLEAN :
             it' = IF stopIter \/ Score >= MATE \/ Score <= -MATE
                      \/ ~more \/ it.rd = MaxDepth
                   THEN [it1 EXCEPT !.pc = "done"]
                   ELSE [it1 EXCEPT !.alpha = Score - WINDOW, !.beta = Score + WINDOW,
                                    !.rd = it.rd + 1, !.pc = "search"]
       /\ UNCHANGED <<stack, result, tt, stop, stopIter, rootnode, p1pv>>

\* iterate() has returned its move; nothing of the search runs any more.
Terminated == it.pc = "done" /\ UNCHANGED vars

-----------------------------------------------------------------------------
(* The environment: check_time() sets stop on a timeout, the shell's       *)
(* interrupt() sets it directly; extend_time_iteration() sets             *)
(* stop_iteration when it allocates more time in MOVE mode.                *)
Searching(e) == stack[e] # <<>> \/ (e = Top /\ it.pc = "wait")

Interrupt(e) ==
    /\ Searching(e) /\ ~stop[e]
    /\ stop' = [stop EXCEPT ![e] = TRUE]
    /\ UNCHANGED <<stack, result, tt, stopIter, rootnode, p1pv, it>>

ExtendTime ==
    /\ it.pc = "wait" /\ ~stopIter
    /\ stopIter' = TRUE
    /\ UNCHANGED <<stack, result, tt, stop, rootnode, p1pv, it>>

-----------------------------------------------------------------------------
\* main() has run Node::init_root() (the first generated move is the
\* fallback best move) and iterate() has initialised its locals; the hash
\* table is empty as after "new".
Init ==
    /\ stack = [e \in Engines |-> <<>>]
    /\ result = [e \in Engines |-> [v |-> 0, rn |-> [ml |-> <<>>, bl |-> <<>>, hashmv |-> NoMove]]]
    /\ tt = [t \in Tables |-> [i \in 0..TableSize - 1 |-> EmptyEntry]]
    /\ stop = [e \in Engines |-> FALSE]
    /\ stopIter = FALSE
    /\ rootnode = [ml |-> Gen(Moves[Root]), cur |-> 0, bl |-> <<Moves[Root][1]>>]
    /\ p1pv = [m \in ToSet(Moves[Root]) |-> <<>>]
    /\ it = [pc |-> "search", rd |-> 1, alpha |-> -INFTY, beta |-> INFTY,
             best |-> Moves[Root][1], last |-> 0]

SearchStep(e) ==
    \/ SearchHorizon(e) \/ SearchDraw(e) \/ SearchProbe(e)
    \/ SearchNullMove(e) \/ SearchNullMoveDone(e)
    \/ SearchIID(e) \/ SearchIIDDone(e) \/ SearchPrune(e)
    \/ SearchNoMoreMoves(e) \/ SearchFutile(e) \/ SearchChild(e)
    \/ SearchChildDone(e) \/ SearchReSearchDone(e)
    \/ QuiesceCut(e) \/ QuiesceStandPat(e) \/ QuiesceExpand(e)
    \/ QuiesceNoMoreMoves(e) \/ QuiesceChild(e) \/ QuiesceChildDone(e)

RootStep == RootDone \/ RootChild \/ RootChildDone \/ RootReSearchDone

IterStep == IterSearch \/ IterAborted \/ IterFailLow \/ IterFailHigh \/ IterDepth

EngineStep == (\E e \in Engines : SearchStep(e)) \/ RootStep \/ IterStep

Next ==
    \/ EngineStep
    \/ \E e \in Engines : Interrupt(e)
    \/ ExtendTime
    \/ Terminated

\* The search thread runs until iterate() returns; time-outs, interrupts and
\* extensions may or may not come.
Spec == Init /\ [][Next]_vars /\ WF_vars(EngineStep)

-----------------------------------------------------------------------------
(***************************************************************************)
(* Properties.  VT[p, d] is the reference value of p searched at depth d. *)
(* A search that uses the hash table may answer a call at depth d with an *)
(* entry stored at a greater depth, and IID searches a node shallower than *)
(* its siblings, so a value computed inside an IID search may mix depths.  *)
(* Lo(p, d) and Hi(p, d) bound every value such a mixture can produce:     *)
(* each node is valued at its own depth or at any greater depth its ply    *)
(* can be searched at in iterate() (Horizon).                              *)
(***************************************************************************)
VT == [p \in Pos, d \in -3..MaxDepth |-> Val(p, d, PlyOf(p))]

Horizon(p) == MaxDepth - PlyOf(p)
Depths(p, d) == LET d0 == IF d < 0 THEN 0 ELSE d IN d0..(IF Horizon(p) > d0 THEN Horizon(p) ELSE d0)
MinOf(S) == CHOOSE x \in S : \A y \in S : x <= y

RECURSIVE Lo(_, _), Hi(_, _), NodeLo(_, _), NodeHi(_, _)
NodeLo(p, x) ==
    IF x = 0
    THEN IF QMoves(p) = <<>> /\ p \in InCheck THEN -INFTY + PlyOf(p)
         ELSE MaxOf({Eval[p]} \cup {-Hi(q, 0) : q \in ToSet(QMoves(p))})
    ELSE IF p \in DrawPos THEN DRAW
    ELSE IF Moves[p] = <<>> THEN (IF p \in InCheck THEN -INFTY + PlyOf(p) ELSE DRAW)
    ELSE MaxOf({-Hi(q, x - 1) : q \in ToSet(Moves[p])})
NodeHi(p, x) ==
    IF x = 0
    THEN IF QMoves(p) = <<>> /\ p \in InCheck THEN -INFTY + PlyOf(p)
         ELSE MaxOf({Eval[p]} \cup {-Lo(q, 0) : q \in ToSet(QMoves(p))})
    ELSE IF p \in DrawPos THEN DRAW
    ELSE IF Moves[p] = <<>> THEN (IF p \in InCheck THEN -INFTY + PlyOf(p) ELSE DRAW)
    ELSE MaxOf({-Lo(q, x - 1) : q \in ToSet(Moves[p])})
Lo(p, d) == MinOf({NodeLo(p, x) : x \in Depths(p, d)})
Hi(p, d) == MaxOf({NodeHi(p, x) : x \in Depths(p, d)})

LoT == [p \in Pos, d \in -3..MaxDepth |-> Lo(p, d)]
HiT == [p \in Pos, d \in -3..MaxDepth |-> Hi(p, d)]

\* r, returned for the window (a, b), is consistent with some mixture of
\* depths at or above d for p.
Consistent(r, a, b, p, d) ==
    /\ r <= a => LoT[p, d] <= r
    /\ r >= b => HiT[p, d] >= r
    /\ (a < r /\ r < b) => LoT[p, d] <= r /\ r <= HiT[p, d]

EntryType == [key : Pos \cup {NoMove}, type : HashTypes, depth : 0..65535,
              score : -MATE..MATE, move : Pos \cup {NoMove}]
MoveList == Seq([m : Pos, s : Int32])
FrameOK(f) ==
    /\ f.fn \in {"root", "full", "par", "np", "ps", "qs"}
    /\ f.pos \in Pos /\ f.cm \in Pos \cup {NoMove} /\ f.hashmv \in Pos \cup {NoMove}
    /\ {f.alpha, f.beta, f.salpha, f.best, f.ret} \subseteq Int32
    /\ f.ml \in MoveList /\ f.cur \in 0..Len(f.ml)
    /\ f.moves \in 0..Len(IF f.fn = "root" THEN rootnode.ml ELSE f.ml)
    /\ {f.bl, f.pv, f.rn.bl} \subseteq Seq(Pos)

\* Every variable holds values of the C types it models; a move list index
\* never runs past the list, the root's included.
TypeOK ==
    /\ \A e \in Engines : \A i \in 1..Len(stack[e]) : FrameOK(stack[e][i])
    /\ \A e \in Engines : result[e].v \in Int32
    /\ tt \in [Tables -> [0..TableSize - 1 -> EntryType]]
    /\ stop \in [Engines -> BOOLEAN] /\ stopIter \in BOOLEAN
    /\ rootnode.ml \in MoveList /\ rootnode.cur \in 0..Len(rootnode.ml)
    /\ it.best \in ToSet(Moves[Root]) /\ it.last \in 0..MaxDepth

\* Every entry of a hash table is a true statement about its position: an
\* ALPHA score bounds the position's value at the entry's depth from above,
\* a BETA score from below, an EXACT score is a value of it
\* (store_hashtable() classifies the score search() or quiescence_search()
\* returned against the window of that call, mate scores clamped).
\* An entry stored deeper than any iteration reaches (a negative depth
\* wrapped by the unsigned short field) answers every probe of its position,
\* so it must hold at the deepest depth the position is searched at.
EntryDepth(x) ==
    IF x.depth <= MaxDepth THEN x.depth
    ELSE IF Horizon(x.key) > 0 THEN Horizon(x.key) ELSE 0
EntrySound(x) ==
    x.type # "NONE" =>
        /\ x.type \in {"EXACT", "ALPHA"} => LoT[x.key, EntryDepth(x)] <= x.score
        /\ x.type \in {"EXACT", "BETA"} => HiT[x.key, EntryDepth(x)] >= x.score
TTSound == \A t \in Tables : \A i \in 0..TableSize - 1 : EntrySound(tt[t][i])

\* The call whose value the innermost frame f has just received.
CalledBy(f) ==
    CASE f.pc \in {"ret1", "rret1"} ->
            [pos |-> f.cm, depth |-> f.depth - 1,
             a |-> IF f.nw THEN -f.alpha - 1 ELSE -f.beta, b |-> -f.alpha]
      [] f.pc \in {"ret2", "rret2"} ->
            [pos |-> f.cm, depth |-> f.depth - 1, a |-> -f.beta, b |-> -f.alpha]
      [] f.pc = "qret" ->
            [pos |-> f.cm, depth |-> 0, a |-> -f.beta, b |-> -f.alpha]
      [] f.pc = "nullret" ->
            [pos |-> NullPos[f.pos], depth |-> f.depth - 3, a |-> -f.beta, b |-> -f.beta + 1]
      [] f.pc = "iidret" ->
            [pos |-> f.pos, depth |-> f.depth - 2, a |-> f.alpha, b |-> f.beta]
ReturnPcs == {"ret1", "rret1", "ret2", "rret2", "qret", "nullret", "iidret"}

\* Unless the search was stopped, every value a call of search(),
\* quiescence_search() or search_root() returns keeps the alpha-beta
\* contract for the window it was called with: a fail-low bounds the value
\* of the position from above, a fail-high from below, a score inside the
\* window is a value of it.  This is what PVS re-search, fail-hard clamping
\* and hash-table cutoffs together must preserve.  The root's result is
\* held to the exact reference value: no entry deeper than the iteration's
\* own depths can exist at the plies search_root() reaches.
SearchResultSound ==
    /\ \A e \in Engines :
          (stack[e] # <<>> /\ ~stop[e] /\ Cur(e).pc \in ReturnPcs) =>
             LET c == CalledBy(Cur(e)) IN
             Consistent(Cur(e).ret, c.a, c.b, c.pos, c.depth)
    /\ (Returned /\ ~stop[Top]) => Contract(Score, it.alpha, it.beta, VT[Root, it.rd])

\* In a game where no side is ever in check no line ends in mate, so no
\* result may claim one: no value a call returns unstopped for the window
\* (a, b), no table entry and no iteration score may say that a value is
\* at most -MATE or at least MATE.  A fail-hard bound at a window edge
\* near -INFTY (a null-move window under beta = INFTY) claims nothing.  A
\* node whose moves are all futility-pruned keeps bestscore = -INFTY, and
\* in fail-soft mode returns and stores it.
MateClaim(r, a, b) == (r <= -MATE /\ r < b) \/ (r >= MATE /\ r > a)
EntryMateClaim(x) ==
    \/ x.type \in {"EXACT", "ALPHA"} /\ x.score <= -MATE
    \/ x.type \in {"EXACT", "BETA"} /\ x.score >= MATE
NoFalseMates ==
    InCheck = {} =>
        /\ \A e \in Engines :
              (stack[e] # <<>> /\ ~stop[e] /\ Cur(e).pc \in ReturnPcs) =>
                 LET c == CalledBy(Cur(e)) IN ~MateClaim(Cur(e).ret, c.a, c.b)
        /\ \A t \in Tables : \A i \in 0..TableSize - 1 : ~EntryMateClaim(tt[t][i])
        /\ (Returned /\ ~stop[Top]) => ~MateClaim(Score, it.alpha, it.beta)

\* The move iterate() will return is the fallback move of init_root() until
\* an iteration completes, and afterwards a best move of the root at the
\* depth of the last completed iteration, however the search was interrupted
\* or its windows failed.
BestMoveOptimal ==
    /\ it.last = 0 => it.best = Moves[Root][1]
    /\ it.last > 0 => -VT[it.best, it.last - 1] = VT[Root, it.last]

\* In fail-hard mode every value a call returns lies inside the window it
\* was called with, so the "fail hard condition violated" diagnostics of
\* search(), quiescence_search(), search_root() and iterate() never fire:
\* the probe, stand-pat, null-move, draw and mate returns all clamp.
FailHardWindow ==
    ~FailSoft =>
        /\ \A e \in Engines :
              (stack[e] # <<>> /\ ~stop[e] /\ Cur(e).pc \in ReturnPcs) =>
                 LET c == CalledBy(Cur(e)) IN c.a <= Cur(e).ret /\ Cur(e).ret <= c.b
        /\ (Returned /\ ~stop[Top]) => it.alpha <= Score /\ Score <= it.beta

\* Refinement: iterate() implements BestMoveSpec.  The move it would return
\* is it.best, the deepest completed depth it.last, and the request is
\* answered when iterate() returns.  Every step of the engine, the shell and
\* the clock either completes exactly the next depth with a best move at
\* that depth, answers, or leaves all three alone; and iterate() returns.
Abstract == INSTANCE BestMoveSpec WITH best <- it.best, last <- it.last,
                                       done <- (it.pc = "done")
ImplementsBestMoveSpec == Abstract!BSpec
=============================================================================
