----------------------------- MODULE MCParallel -----------------------------
(***************************************************************************)
(* A tree for the parallel engine with a master and two slaves.  The root  *)
(* has two moves; "a" has three, so after the master has searched the     *)
(* first one both slaves get a move, and "b" has one, so ParallelSearch::  *)
(* search() falls back to Search::search() there.  With MaxDepth 2 and    *)
(* search_parallel_min_depth 1, iteration 1 hands each root move to a     *)
(* slave (nonparallel_search() at depth 0) and iteration 2 searches "a" in *)
(* parallel.  The evaluations make the first move of "a" its worst, so    *)
(* null windows fail high and PVS re-searches start on the slaves; "x2" is *)
(* the best reply of "a" and the root's best move is "b".                 *)
(***************************************************************************)
EXTENDS ParallelSearch

MCPPos == {"r", "a", "b", "x1", "x2", "x3", "b1"}

MCPMoves ==
    [p \in MCPPos |->
        CASE p = "r" -> <<"a", "b">>
          [] p = "a" -> <<"x1", "x2", "x3">>
          [] p = "b" -> <<"b1">>
          [] OTHER -> <<>>]

MCPEval ==
    [p \in MCPPos |->
        CASE p = "a" -> 30 [] p = "b" -> 35 [] p = "x1" -> 0
          [] p = "x2" -> -40 [] p = "x3" -> -20 [] p = "b1" -> -30
          [] OTHER -> 0]

MCPKey ==
    [p \in MCPPos |->
        CASE p = "r" -> 0 [] p = "a" -> 1 [] p = "b" -> 2 [] p = "x1" -> 3
          [] p = "x2" -> 4 [] p = "x3" -> 5 [] OTHER -> 6]

MCPMaterial == [p \in MCPPos |-> 0]
MCPNullPos == [p \in MCPPos |-> p]
MCPEngines == {"main", "s1", "s2"}
MCPSlaves == <<"s1", "s2">>
MCPTableOf == [e \in MCPEngines |-> IF e = "main" THEN "tm" ELSE "t" \o e]

\* The deeper tree (D): "a" is the root's best move, so from depth 2
\* on the root searches it first with its full window; with MaxDepth 3 and
\* search_parallel_min_depth 2, parallel_search() at "a" (depth 2) runs
\* "x1" itself (a draw, caught by nonparallel_search()) and hands "x2" and
\* "x3" to the slaves, whose one reply each ("y2", "y3") makes their
\* depth-1 values differ from the stalemate score.
MCPPosD == MCPPos \cup {"y2", "y3"}
MCPMovesD == [p \in MCPPosD |->
                CASE p = "x2" -> <<"y2">> [] p = "x3" -> <<"y3">>
                  [] p \in MCPPos -> MCPMoves[p] [] OTHER -> <<>>]
MCPEvalD == [p \in MCPPosD |->
                CASE p = "x1" -> 10 [] p = "x2" -> 20 [] p = "x3" -> 30
                  [] p = "y2" -> 15 [] p = "y3" -> 25 [] OTHER -> MCPEval[p]]
MCPKeyD == [p \in MCPPosD |-> IF p \in MCPPos THEN MCPKey[p] ELSE 6]
MCPMaterialD == [p \in MCPPosD |-> 0]
MCPNullPosD == [p \in MCPPosD |-> p]
=============================================================================
