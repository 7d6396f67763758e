--------------------------- MODULE ParallelSearch ---------------------------
(***************************************************************************)
(* The young-brothers-wait parallel search of common/parallelsearch.cc.    *)
(* Top is the ParallelSearch master; every call of search() it makes goes  *)
(* through ParallelSearch::search() ("par" frames), which either hands the *)
(* whole node to one slave (nonparallel_search(), "np" frames), falls back *)
(* to Search::search() ("full" frames), or searches the first move itself  *)
(* and the remaining moves on the slaves (parallel_search(), "ps" frames). *)
(*                                                                         *)
(* A slave is a Search engine of its own (SlaveList[i]) with its own hash  *)
(* table, running Search::search() on its thread (slave_main()); the       *)
(* master's slaves[] array is free/sargs/spvs, the slave's Thread object   *)
(* is thread[i], and ready_queue is rq.  A slave thread that finishes     *)
(* puts its index in rq (slave_ready()) and ends; stop_slave_thread()      *)
(* joins it and takes the score.                                           *)
(***************************************************************************)
EXTENDS Search

CONSTANTS
    SlaveList,     \* the slaves vector: SlaveList[i] is the engine of slave i
    MinDepth,      \* option search_parallel_min_depth
    MinMoveRatio,  \* option search_parallel_min_move_ratio
    ParPvsMode,    \* option search_parallel_pvs_mode: 0, 1 or 2
    CanStop        \* whether a time limit or the shell may stop the search

NSlaves == Len(SlaveList)
SlaveIds == 1..NSlaves
SE(i) == SlaveList[i]

ASSUME /\ Masters = {Top} /\ NSlaves > 0
       /\ \A i \in SlaveIds : SE(i) \in Engines \ {Top}
       /\ MinDepth \in Nat \ {0} /\ MinMoveRatio \in Nat \ {0}
       /\ ParPvsMode \in {0, 1, 2} /\ CanStop \in BOOLEAN

VARIABLES
    free,    \* slaves[i].free
    sargs,   \* the search arguments slave i was last started with
    spvs,    \* slaves[i].pvs_nullwin
    thread,  \* the slave's Thread: "none" (NULL), "running", "exited"
    rq,      \* ready_queue: indices of slaves that have finished
    expired  \* clock->timeout() holds, or the shell has interrupted

parvars == <<free, sargs, spvs, thread, rq, expired>>
pvars == <<vars, parvars>>

\* find_free_slave(): the lowest free index, or 0 (-1 in the code).
FirstFree == IF \E i \in SlaveIds : free[i]
             THEN CHOOSE i \in SlaveIds : free[i] /\ \A j \in 1..i - 1 : ~free[j]
             ELSE 0
AllFree == \A i \in SlaveIds : free[i]

\* check_time(true, false) of the master: a forced check sees the timeout
\* every slave may already have seen (they share the master's Clock), so
\* the step after it runs with the master's stop set.
ForcedCheck == expired => stop[Top]

\* Search::start_slave_thread() with Thread::start(): the slave's stop flag
\* is cleared and slave_main() begins search() on the node.  The node is
\* the frame c, carrying the move list, best line and hash move it has.
StartSlave(i, c) ==
    /\ thread' = [thread EXCEPT ![i] = "running"]
    /\ sargs' = [sargs EXCEPT ![i] = [pos |-> c.pos, depth |-> c.depth,
                                     a |-> c.alpha, b |-> c.beta]]

\* Search::stop_slave_thread() on slave i: interrupt() the slave, wait for
\* its thread (it has put itself in ready_queue and ended) and reset the
\* thread pointer; the caller reads the score from the slave's result.
StopSlaveThread(i) ==
    /\ thread[i] = "exited"
    /\ thread' = [thread EXCEPT ![i] = "none"]
    /\ stop' = [stop EXCEPT ![SE(i)] = TRUE]

\* The slave's frame for a search of pos at ply/depth in (a, b).
SlaveFrame(pos, ply, depth, a, b, pv, pnull, ns) ==
    [NewFrame("full", pos, ply, depth, a, b, pv, FALSE, pnull)
        EXCEPT !.ml = ns.ml, !.bl = ns.bl, !.hashmv = ns.hashmv]

-----------------------------------------------------------------------------
(***************************************************************************)
(* ParallelSearch::search() (parallelsearch.cc 185-221).                   *)
(***************************************************************************)
ParEnter ==
    LET f == Cur(Top)
        ml == Gen(Moves[f.pos])
    IN /\ At(Top, "par", "enter")
       /\ SetTop(Top, IF f.depth < MinDepth THEN [f EXCEPT !.fn = "np"]
                      ELSE IF Len(ml) < MinMoveRatio * NSlaves
                      THEN [f EXCEPT !.fn = "full", !.ml = ml, !.cur = 0]
                      ELSE [f EXCEPT !.fn = "ps", !.ml = ml, !.cur = 0])
       /\ UNCHANGED <<tt, Frozen, parvars>>

-----------------------------------------------------------------------------
(***************************************************************************)
(* nonparallel_search() (parallelsearch.cc 507-575): the draw test and the *)
(* probe (only at depth > 0), then one slave searches the very node.       *)
(***************************************************************************)
NpDraw ==
    LET f == Cur(Top) IN
    /\ At(Top, "np", "enter")
    /\ f.depth > 0 /\ f.pos \in DrawPos
    /\ \E fs \in FailSoftReads : Return(Top, f, FailScore(fs, DRAW, f.alpha, f.beta))
    /\ UNCHANGED <<tt, Frozen, parvars>>

\* Mutant: the slave searches the node one ply shallower.
NpNode_depth_minus_one(f, ns) ==
    SlaveFrame(f.pos, f.ply, f.depth - 1, f.alpha, f.beta, f.pv, f.pnull, ns)

\* The slave's search_args: the master's own node, ply, depth and window.
NpNode(f, ns) == SlaveFrame(f.pos, f.ply, f.depth, f.alpha, f.beta, f.pv, f.pnull, ns)

NpStart ==
    LET f == Cur(Top)
        pr == probe_hashtable(Top, f.pos, f.depth, f.alpha, f.beta)
        f1 == IF f.depth > 0 /\ pr.hit THEN [f EXCEPT !.hashmv = pr.mv] ELSE f
        id == FirstFree
        c == NpNode(f, NodeState(f1))
    IN /\ At(Top, "np", "enter")
       /\ ~(f.depth > 0 /\ f.pos \in DrawPos)
       /\ IF f.depth > 0 /\ pr.cut
          THEN (\E fs \in FailSoftReads : Return(Top, f1, pr.score[fs])) /\ UNCHANGED <<stop, parvars>>
          ELSE /\ id # 0
               /\ stack' = [stack EXCEPT ![Top][Len(stack[Top])] =
                                             [f1 EXCEPT !.sid = id, !.pc = "npwait"],
                                         ![SE(id)] = <<c>>]
               /\ stop' = [stop EXCEPT ![SE(id)] = FALSE]
               /\ free' = [free EXCEPT ![id] = FALSE]
               /\ StartSlave(id, c)
               /\ UNCHANGED <<result, spvs, rq, expired>>
       /\ UNCHANGED <<tt, stopIter, rootnode, p1pv, it>>

\* Mutant: the slave is joined but not marked free.
NpDone_no_free ==
    LET f == Cur(Top)
        r == result[SE(f.sid)]
    IN /\ At(Top, "np", "npwait")
       /\ ForcedCheck
       /\ rq # <<>> /\ StopSlaveThread(f.sid)
       /\ rq' = Tail(rq)
       /\ store_hashtable(Top, f.pos, f.depth, f.alpha, f.beta, r.v, BestMove(r.rn.bl))
       /\ Return(Top, [f EXCEPT !.ml = r.rn.ml, !.bl = r.rn.bl, !.hashmv = r.rn.hashmv], r.v)
       /\ UNCHANGED <<stopIter, rootnode, p1pv, it, free, sargs, spvs, expired>>

\* wait_slave_ready(), stop_slave_thread() (interrupt and join), free the
\* slave, store the slave's score for the node, return it.
NpDone ==
    LET f == Cur(Top)
        r == result[SE(f.sid)]
        f1 == [f EXCEPT !.ml = r.rn.ml, !.bl = r.rn.bl, !.hashmv = r.rn.hashmv]
    IN /\ At(Top, "np", "npwait")
       /\ ForcedCheck
       /\ rq # <<>> /\ StopSlaveThread(f.sid)
       /\ rq' = Tail(rq)
       /\ free' = [free EXCEPT ![f.sid] = TRUE]
       /\ store_hashtable(Top, f.pos, f.depth, f.alpha, f.beta, r.v, BestMove(r.rn.bl))
       /\ Return(Top, f1, r.v)
       /\ UNCHANGED <<stopIter, rootnode, p1pv, it, sargs, spvs, expired>>

-----------------------------------------------------------------------------
(***************************************************************************)
(* parallel_search() (parallelsearch.cc 223-505).  Draw test, probe, null  *)
(* move and IID are the steps of search() (AtWidth in Search); then the    *)
(* master searches the first move itself.                                  *)
(***************************************************************************)
ParFirst ==
    LET f == Cur(Top)
        pk == pick(score_moves(f, f.ml), 0)
    IN /\ At(Top, "ps", "prune")
       /\ Call(Top, [f EXCEPT !.ml = pk.ml, !.cur = pk.cur, !.cm = pk.mv,
                              !.moves = 1, !.pc = "pret"],
               NewFrame(SearchFn(Top), pk.mv, f.ply + 1, f.depth - 1, -f.beta, -f.alpha,
                        ChildPv(f, pk.mv), FALSE, f.nullmv))
       /\ UNCHANGED <<tt, Frozen, parvars>>

\* The first move's result: stop test, best line, alpha, cutoff; otherwise
\* Node::next() and on to the slaves.
ParFirstDone ==
    /\ At(Top, "ps", "pret")
    /\ ForcedCheck
    /\ AfterChild(Top, Cur(Top), Neg(Cur(Top).ret), "dispatch")
    /\ UNCHANGED <<Frozen, parvars>>

\* The PVS choice of the dispatch loop: the first move is never dispatched.
ParNullWin(f) == ParPvsMode = 1 \/ (ParPvsMode = 2 /\ f.alpha > f.salpha)

\* One turn of the dispatch loop: the next move goes to the first free
\* slave, its node taking the hash move the master's table has for it.
ParDispatch ==
    LET f == Cur(Top)
        id == FirstFree
        pr == probe_hashtable(Top, f.cm, f.depth - 1, -f.beta, -f.alpha)
        nw == ParNullWin(f)
        c == SlaveFrame(f.cm, f.ply + 1, f.depth - 1,
                        IF nw THEN -f.alpha - 1 ELSE -f.beta, -f.alpha,
                        ChildPv(f, f.cm), f.nullmv,
                        [ml |-> <<>>, bl |-> <<>>, hashmv |-> IF pr.hit THEN pr.mv ELSE NoMove])
        pk == pick(f.ml, f.cur)
    IN /\ At(Top, "ps", "dispatch")
       /\ f.cm # NoMove /\ id # 0
       /\ stack' = [stack EXCEPT ![Top][Len(stack[Top])] =
                                     [f EXCEPT !.moves = @ + 1, !.ml = pk.ml,
                                               !.cur = pk.cur, !.cm = pk.mv],
                                 ![SE(id)] = <<c>>]
       /\ stop' = [stop EXCEPT ![SE(id)] = FALSE]
       /\ free' = [free EXCEPT ![id] = FALSE]
       /\ spvs' = [spvs EXCEPT ![id] = nw]
       /\ StartSlave(id, c)
       /\ UNCHANGED <<result, tt, stopIter, rootnode, p1pv, it, rq, expired>>

\* parallel_search()'s done: block: the master has counted its first move,
\* so the mate test never applies; store_hashtable() and return, as at the
\* end of search().
ParConclude(f) == Conclude(Top, f, f.depth, FALSE, 0)

\* Mutant: the loop ends once no move is left, slaves still running.
ParCheck_done_when_no_moves ==
    LET f == Cur(Top) IN
    /\ At(Top, "ps", "dispatch")
    /\ f.cm = NoMove \/ FirstFree = 0
    /\ ~AllFree => ForcedCheck
    /\ IF AllFree \/ f.cm = NoMove THEN ParConclude(f)
       ELSE SetTop(Top, [f EXCEPT !.pc = IF stop[Top] THEN "abort" ELSE "wait"])
                /\ UNCHANGED tt
    /\ UNCHANGED <<Frozen, parvars>>

\* No move left or no slave free: done when every slave is free, abort
\* on stop, otherwise wait for a slave.
ParCheck ==
    LET f == Cur(Top) IN
    /\ At(Top, "ps", "dispatch")
    /\ f.cm = NoMove \/ FirstFree = 0
    /\ ~AllFree => ForcedCheck
    /\ IF AllFree THEN ParConclude(f)
       ELSE SetTop(Top, [f EXCEPT !.pc = IF stop[Top] THEN "abort" ELSE "wait"])
                /\ UNCHANGED tt
    /\ UNCHANGED <<Frozen, parvars>>

\* Queue<T> (queue.h) as a sequence.  put(), get() and clear() each run
\* under the queue's mutex (or critical section), so each is one step:
\* put() appends and signals, get() waits while the queue is empty and
\* then pops the front, clear() erases every element.
QueuePut(q, x) == Append(q, x)
QueueGet(q) == <<Head(q), Tail(q)>>   \* the element and the queue after
QueueClear(q) == <<>>

\* wait_slave_ready() and stop_slave_thread(): take the next finished
\* slave, interrupt and join it.  A null-window result inside the current
\* window restarts the same slave on the same node with the full window;
\* any other result updates the best line, is stored for the slave's node
\* in the master's table and frees the slave; a cutoff aborts the others.
\* Mutant: the slave's score is taken without the negation.
SlaveScore_unnegated(r) == r.v
SlaveScore(r) == Neg(r.v)

\* Mutant: a slave's result never raises alpha.
ParAccept_keep_alpha(f, mv, score, r) ==
    LET f1 == IF score > f.best THEN [f EXCEPT !.best = score, !.bl = <<mv>> \o r.rn.bl]
              ELSE f
    IN [f1 EXCEPT !.pc = IF score >= f.beta THEN "cutabort" ELSE "dispatch"]

\* A slave's final result: set_best(), alpha, and the cutoff test.
ParAccept(f, mv, score, r) ==
    LET f1 == IF score > f.best THEN [f EXCEPT !.best = score, !.bl = <<mv>> \o r.rn.bl]
              ELSE f
    IN [f1 EXCEPT !.alpha = IF score > f.alpha THEN score ELSE @,
                  !.pc = IF score >= f.beta THEN "cutabort" ELSE "dispatch"]

ParWait ==
    LET f == Cur(Top)
        id == QueueGet(rq)[1]
        r == result[SE(id)]
        score == SlaveScore(r)
        mv == sargs[id].pos
    IN /\ At(Top, "ps", "wait")
       /\ rq # <<>> /\ thread[id] = "exited"
       /\ rq' = QueueGet(rq)[2]
       /\ IF spvs[id] /\ score > f.alpha /\ score < f.beta
          THEN LET c == SlaveFrame(mv, f.ply + 1, f.depth - 1, -f.beta, -f.alpha,
                                   ChildPv(f, mv), f.nullmv, r.rn)
               IN /\ stack' = [stack EXCEPT ![Top][Len(stack[Top])] = [f EXCEPT !.pc = "dispatch"],
                                            ![SE(id)] = <<c>>]
                  /\ spvs' = [spvs EXCEPT ![id] = FALSE]
                  /\ stop' = [stop EXCEPT ![SE(id)] = FALSE]
                  /\ StartSlave(id, c)
                  /\ UNCHANGED <<tt, free>>
          ELSE /\ SetTop(Top, ParAccept(f, mv, score, r))
               /\ store_hashtable(Top, mv, f.depth - 1, -f.beta, -f.salpha, score,
                                  BestMove(r.rn.bl))
               /\ StopSlaveThread(id)
               /\ free' = [free EXCEPT ![id] = TRUE]
               /\ UNCHANGED <<sargs, spvs>>
       /\ UNCHANGED <<result, stopIter, rootnode, p1pv, it, expired>>

\* abort_all_slaves(): in index order, interrupt every busy slave and join
\* it, then clear ready_queue.  After a stop the call returns INT_MIN
\* ("abort"), after a cutoff it goes on to the mate test and store
\* ("cutabort").
Aborting == At(Top, "ps", "abort") \/ At(Top, "ps", "cutabort")
NextBusy == CHOOSE i \in SlaveIds : ~free[i] /\ \A j \in 1..i - 1 : free[j]

AbortInterrupt ==
    /\ Aborting /\ ~AllFree /\ ~stop[SE(NextBusy)]
    /\ stop' = [stop EXCEPT ![SE(NextBusy)] = TRUE]
    /\ UNCHANGED <<stack, result, tt, stopIter, rootnode, p1pv, it, parvars>>

AbortJoin ==
    /\ Aborting /\ ~AllFree /\ stop[SE(NextBusy)]
    /\ thread[NextBusy] = "exited"
    /\ thread' = [thread EXCEPT ![NextBusy] = "none"]
    /\ free' = [free EXCEPT ![NextBusy] = TRUE]
    /\ UNCHANGED <<vars, sargs, spvs, rq, expired>>

\* Mutant: ready_queue is not cleared.
AbortDone_no_clear ==
    LET f == Cur(Top) IN
    /\ Aborting /\ AllFree
    /\ UNCHANGED rq
    /\ IF f.pc = "abort" THEN Return(Top, f, INT_MIN) /\ UNCHANGED tt
       ELSE ParConclude(f)
    /\ UNCHANGED <<Frozen, free, sargs, spvs, thread, expired>>

AbortDone ==
    LET f == Cur(Top) IN
    /\ Aborting /\ AllFree
    /\ rq' = QueueClear(rq)
    /\ IF f.pc = "abort" THEN Return(Top, f, INT_MIN) /\ UNCHANGED tt
       ELSE ParConclude(f)
    /\ UNCHANGED <<Frozen, free, sargs, spvs, thread, expired>>

-----------------------------------------------------------------------------
(***************************************************************************)
(* The slave threads: Search::slave_thread_main() returns from            *)
(* slave_main() (search() on the node) and calls slave_ready(), which puts *)
(* the slave's index in ready_queue; then the thread ends.                 *)
(***************************************************************************)
\* Mutant: slave_ready() puts the index counted from 0.
SlaveReady_zero_based(i) ==
    /\ thread[i] = "running" /\ stack[SE(i)] = <<>>
    /\ thread' = [thread EXCEPT ![i] = "exited"]
    /\ rq' = Append(rq, i - 1)
    /\ UNCHANGED <<vars, free, sargs, spvs, expired>>

\* Mutant: slave_ready() does not find the slave and puts nothing.
SlaveReady_no_put(i) ==
    /\ thread[i] = "running" /\ stack[SE(i)] = <<>>
    /\ thread' = [thread EXCEPT ![i] = "exited"]
    /\ UNCHANGED <<vars, free, sargs, spvs, rq, expired>>

SlaveReady(i) ==
    /\ thread[i] = "running" /\ stack[SE(i)] = <<>>
    /\ thread' = [thread EXCEPT ![i] = "exited"]
    /\ rq' = QueuePut(rq, i)
    /\ UNCHANGED <<vars, free, sargs, spvs, expired>>

\* The forced check_time() itself, at the three points that make it:
\* after nonparallel_search()'s slave, after the first move of
\* parallel_search(), and before the dispatch loop waits.
Polling ==
    \/ At(Top, "np", "npwait") \/ At(Top, "ps", "pret")
    \/ At(Top, "ps", "dispatch") /\ ~AllFree /\ (Cur(Top).cm = NoMove \/ FirstFree = 0)

PollClock ==
    /\ Polling /\ expired /\ ~stop[Top]
    /\ stop' = [stop EXCEPT ![Top] = TRUE]
    /\ UNCHANGED <<stack, result, tt, stopIter, rootnode, p1pv, it, parvars>>

-----------------------------------------------------------------------------
PInit ==
    /\ Init
    /\ free = [i \in SlaveIds |-> TRUE]
    /\ sargs = [i \in SlaveIds |-> [pos |-> Root, depth |-> 0, a |-> 0, b |-> 0]]
    /\ spvs = [i \in SlaveIds |-> FALSE]
    /\ thread = [i \in SlaveIds |-> "none"]
    /\ rq = <<>>
    /\ expired = FALSE

MasterStep ==
    \/ (SearchStep(Top) \/ RootStep \/ IterStep) /\ UNCHANGED parvars
    \/ ParEnter \/ NpDraw \/ NpStart \/ NpDone
    \/ ParFirst \/ ParFirstDone \/ ParDispatch \/ ParCheck \/ ParWait
    \/ AbortInterrupt \/ AbortJoin \/ AbortDone \/ PollClock

SlaveStep(i) == (SearchStep(SE(i)) /\ UNCHANGED parvars) \/ SlaveReady(i)

\* The time runs out, or the shell calls ParallelSearch::interrupt(); from
\* then on each engine's stop flag is set when its check_time() polls the
\* clock, or the shell's loop reaches it, in any order.  Time extensions
\* of the master's iterate().
Expire ==
    /\ CanStop /\ ~expired /\ Searching(Top)
    /\ expired' = TRUE
    /\ UNCHANGED <<vars, free, sargs, spvs, thread, rq>>

PEnv ==
    \/ Expire
    \/ expired /\ \E e \in Engines : Interrupt(e) /\ UNCHANGED parvars
    \/ ExtendTime /\ UNCHANGED parvars

PNext ==
    \/ MasterStep
    \/ \E i \in SlaveIds : SlaveStep(i)
    \/ PEnv
    \/ Terminated /\ UNCHANGED parvars

\* The master thread and every slave thread run until they return.
PSpec == PInit /\ [][PNext]_pvars /\ WF_pvars(MasterStep)
                                   /\ \A i \in SlaveIds : WF_pvars(SlaveStep(i))

-----------------------------------------------------------------------------
(* Properties.                                                             *)

\* The master's variables hold values of their C types.
PTypeOK ==
    /\ TypeOK
    /\ free \in [SlaveIds -> BOOLEAN] /\ spvs \in [SlaveIds -> BOOLEAN]
    /\ thread \in [SlaveIds -> {"none", "running", "exited"}]
    /\ rq \in Seq(SlaveIds) /\ expired \in BOOLEAN
    /\ \A i \in SlaveIds : sargs[i].pos \in Pos

Busy == {i \in SlaveIds : ~free[i]}
Finished == {i \in Busy : thread[i] = "exited"}
Dispatching == stack[Top] # <<>> /\ Cur(Top).fn = "ps"
               /\ Cur(Top).pc \in {"dispatch", "wait", "abort", "cutabort"}
NpWaiting == At(Top, "np", "npwait")

\* Slaves only ever work for the master's innermost call: while a call of
\* parallel_search() is in its dispatch loop they are its own, while
\* nonparallel_search() waits exactly its one slave is busy, and at every
\* other point all slaves are free and ready_queue is empty.  So a call the
\* master makes always finds a free slave (ASSERT(id >= 0) of
\* nonparallel_search()), never takes another call's slave from
\* ready_queue (ASSERT(id1 == id)), and no slave node outlives the call
\* that allocated it in the slave's one-node NodeAllocator.
SlavesBelongToInnermostCall ==
    /\ NpWaiting => Busy = {Cur(Top).sid} /\ (rq # <<>> => Head(rq) = Cur(Top).sid)
    /\ ~Dispatching /\ ~NpWaiting => AllFree /\ rq = <<>>

\* ready_queue holds each finished, not yet joined slave exactly once, and
\* nothing else, except while abort_all_slaves() runs (it joins slaves
\* whose index is still queued, then clears the queue): wait_slave_ready()
\* never returns a slave that is free or still running, and no finished
\* slave is lost.  A free slave's thread has always been joined, so
\* start_slave_thread() never finds a thread it would silently keep.
ReadyQueueExact ==
    /\ IsInjective(rq)
    /\ ~Aborting => ToSet(rq) = Finished
    /\ \A i \in SlaveIds : free[i] => thread[i] = "none"

\* Every table the slaves store into holds only true entries: a slave's
\* search is Search::search() on its own table, and a stopped slave stores
\* nothing.
SlaveTTSound ==
    \A i \in SlaveIds : \A k \in 0..TableSize - 1 : EntrySound(tt[TableOf[SE(i)]][k])

\* Every slave the master starts is eventually joined and freed: slaves
\* run to completion and the master waits for each one.
SlavesJoined == \A i \in SlaveIds : thread[i] = "running" ~> free[i]

=============================================================================
