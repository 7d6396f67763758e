---------------------------- MODULE BestMoveSpec ----------------------------
(***************************************************************************)
(* What a search request promises.  Spec 4.3: iterative deepening        *)
(* searches depths 1, 2, 3, ...; spec 7: an interrupted search falls back *)
(* to the last fully completed iteration's result.  The engine completes  *)
(* depths one at a time; when depth d is complete it holds a move that is *)
(* best for the root at depth d; until depth 1 is complete it holds the   *)
(* first generated move; it may stop at any moment (interrupt, timeout,   *)
(* stop_iteration, MaxDepth, a mate score) and it eventually does.  The   *)
(* engines of Search and ParallelSearch implement this specification      *)
(* under the mapping Search!Abstract.                                      *)
(***************************************************************************)
EXTENDS GameTree

CONSTANT MaxDepth

VARIABLES
    best,  \* the move the request would answer with now
    last,  \* the deepest completed depth (0: none)
    done   \* the request has been answered

bvars == <<best, last, done>>

\* The root moves that are best at depth d.
BestAt == [d \in 1..MaxDepth |->
             {m \in ToSet(Moves[Root]) : -Val(m, d - 1, 1) = Val(Root, d, 0)}]

BInit ==
    /\ best = Moves[Root][1]
    /\ last = 0
    /\ done = FALSE

\* Depth last + 1 is complete; the request may be answered in the same step.
Complete ==
    /\ ~done /\ last < MaxDepth
    /\ last' = last + 1
    /\ best' \in BestAt[last + 1]
    /\ done' \in BOOLEAN

Answer ==
    /\ ~done
    /\ done' = TRUE
    /\ UNCHANGED <<best, last>>

BNext == Complete \/ Answer

BSpec == BInit /\ [][BNext]_bvars /\ WF_bvars(Answer)
=============================================================================
