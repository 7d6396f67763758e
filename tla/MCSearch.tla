------------------------------ MODULE MCSearch ------------------------------
(***************************************************************************)
(* A layered game tree for the sequential engine.  Positions at ply k are  *)
(* reached only at ply k, several of them through transpositions, so the   *)
(* hash table is shared between subtrees; six plies below the root let     *)
(* iterate() run to depth 5, where interior nodes at ply 2 are searched at *)
(* depth 3 and internal iterative deepening can fire.  The static          *)
(* evaluation swings by more than WINDOW between depths, so aspiration     *)
(* windows fail low and high, and PVS null windows fail high.             *)
(***************************************************************************)
EXTENDS Search

MCPos == {"r", "a", "b", "c", "d", "e", "f", "g", "h", "i", "j", "k", "l", "m", "n"}

MCMoves ==
    [p \in MCPos |->
        CASE p = "r" -> <<"a", "b", "c">>
          [] p = "a" -> <<"d", "e">>
          [] p = "b" -> <<"e", "f">>
          [] p = "c" -> <<"g", "f">>
          [] p = "d" -> <<"h", "i">>
          [] p = "e" -> <<"h", "j">>
          [] p = "f" -> <<"i", "j">>
          [] p = "g" -> <<"j">>
          [] p = "h" -> <<"k", "l">>
          [] p = "i" -> <<"k">>
          [] p = "j" -> <<"l">>
          [] p = "k" -> <<"m", "n">>
          [] p = "l" -> <<"n">>
          [] OTHER -> <<>>]

MCCaptures == {<<"a", "e">>, <<"d", "h">>, <<"e", "j">>, <<"h", "k">>,
               <<"i", "k">>, <<"j", "l">>, <<"k", "m">>, <<"l", "n">>}

MCEval ==
    [p \in MCPos |->
        CASE p = "r" -> 0   [] p = "a" -> 10  [] p = "b" -> -20 [] p = "c" -> 30
          [] p = "d" -> -40 [] p = "e" -> 60  [] p = "f" -> -5  [] p = "g" -> 80
          [] p = "h" -> 15  [] p = "i" -> -70 [] p = "j" -> 40  [] p = "k" -> -30
          [] p = "l" -> 90  [] p = "m" -> 25  [] OTHER -> 50]

MCKey ==
    [p \in MCPos |->
        CASE p = "r" -> 0  [] p = "a" -> 1  [] p = "b" -> 2  [] p = "c" -> 3
          [] p = "d" -> 4  [] p = "e" -> 5  [] p = "f" -> 6  [] p = "g" -> 7
          [] p = "h" -> 8  [] p = "i" -> 9  [] p = "j" -> 10 [] p = "k" -> 11
          [] p = "l" -> 12 [] p = "m" -> 13 [] OTHER -> 14]

\* No heuristic pruning can apply: material never reaches the razoring or
\* futility margins and every position is an endgame (no null move).
MCMaterial == [p \in MCPos |-> 0]
MCNullPos == [p \in MCPos |-> p]
MCTableOf == [e \in {"main"} |-> "tt"]

(***************************************************************************)
(* The same tree with the forward prunings active.  "z" stands for the    *)
(* positions after a null move; only the positions in MCEndgame forbid    *)
(* the null move.  Low material at d, e, f, h, j and l brings razoring at *)
(* depth 3 and (extended) futility pruning at depths 2 and 1 within reach *)
(* of the scores the tree produces; "f" has only quiet moves, so all of   *)
(* them can be pruned.                                                     *)
(***************************************************************************)
MCPosZ == MCPos \cup {"z"}
MCMovesZ == [p \in MCPosZ |-> IF p = "z" THEN <<"k">> ELSE MCMoves[p]]
MCEvalZ == [p \in MCPosZ |-> IF p = "z" THEN -90 ELSE MCEval[p]]
MCKeyZ == [p \in MCPosZ |-> IF p = "z" THEN 15 ELSE MCKey[p]]
MCMaterialZ ==
    [p \in MCPosZ |->
        CASE p \in {"d", "e"} -> -1000
          [] p \in {"f", "h", "j", "l"} -> -400
          [] OTHER -> 0]
MCNullPosZ == [p \in MCPosZ |-> "z"]
MCEndgameZ == {"a", "f", "i", "k", "m", "n"}

(***************************************************************************)
(* A tree with mates at the horizon.  The root's first move "a" mates: in  *)
(* "a" the side to move is in check without escape.  "b" lets the         *)
(* opponent capture into "x", where the root's side is mated; "c" gives a  *)
(* choice between "x" and a capture into "y".  With                      *)
(* MaxDepth 1 both root moves are valued by quiescence_search(), so only  *)
(* its checkmate test finds the mates.                                     *)
(***************************************************************************)
MCPosC == {"r", "a", "b", "c", "x", "y"}
MCMovesC ==
    [p \in MCPosC |->
        CASE p = "r" -> <<"a", "b", "c">> [] p = "b" -> <<"x">> [] p = "c" -> <<"y", "x">>
          [] OTHER -> <<>>]
MCCapturesC == {<<"b", "x">>, <<"c", "y">>}
MCInCheckC == {"a", "x"}
MCEvalC ==
    [p \in MCPosC |->
        CASE p = "a" -> 100 [] p = "b" -> 0 [] p = "c" -> 20 [] p = "x" -> -50
          [] p = "y" -> -10 [] OTHER -> 0]
MCKeyC ==
    [p \in MCPosC |->
        CASE p = "r" -> 0 [] p = "a" -> 1 [] p = "b" -> 2 [] p = "c" -> 3 [] p = "x" -> 4
          [] OTHER -> 5]
MCMaterialC == [p \in MCPosC |-> 0]
MCNullPosC == [p \in MCPosC |-> p]
=============================================================================
