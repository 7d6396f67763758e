------------------------------ MODULE HashTable ------------------------------
(***************************************************************************)
(* The transposition table shared between the shell thread and the search *)
(* threads (hash.cc, hash.h), and the evaluator's pawn hash table and      *)
(* evaluation cache (pawnhash.cc, evalcache.cc, eval.cc), with the shell   *)
(* commands that replace them (shell_cmd.cc Shell::cmd_hash, cmd_pawnhash, *)
(* cmd_evalcache) while the shell's main loop keeps a background search    *)
(* running in analyze mode (shell.cc).  The caches have the transposition *)
(* table's shape (an array of entries indexed by hashkey % size, put and   *)
(* probe copying an entry in two steps) but no locks: every Search has its *)
(* own Evaluator, used by its thread alone.                                *)
(*                                                                         *)
(* A search thread puts and probes entries; each call locks the spinlock   *)
(* of its domain (key % HASHTABLE_LOCK_DOMAINS) and copies a HashEntry,    *)
(* a struct of several words, in two steps: the hashkey word and the rest *)
(* (score, move, depth, type).  The table array is an allocation: `table`  *)
(* is the array the HashTable points to, `live` the allocations not yet    *)
(* deleted, and a thread's `ptr` the array it is accessing.  Users are     *)
(* the threads using one table: the background search, or the slaves of a *)
(* parallel search with search_parallel_shared_hash.  Statistics and the   *)
(* PV table are left out: they are counters and an unused extension.  An *)
(* entry's contents (score, move, depth, type) are those of its position: *)
(* a put() of hashkey k writes the contents Contents(k).                   *)
(***************************************************************************)
EXTENDS Naturals, FiniteSets

CONSTANTS
    Users,      \* the search threads using the transposition table
    CacheOwner, \* the thread whose Evaluator owns the pawn hash table and
                \* the evaluation cache (every Search has its own)
    HashKeys,   \* hashkeys of the positions the threads search (naturals)
    CacheKeys,  \* the hashkeys the owner probes and puts in its caches
    TableSize,  \* table_size, cache_size
    MaxAllocs,  \* bound on the arrays new[] can allocate
    Cmds,       \* the commands typed: <<table, "clear" | "size" | "off">>
                \* (hash, pawnhash, evalcache ...) and <<"shell",
                \* "analyze" | "exit">>
    ClearWhileAnalyzing  \* "... clear" may be typed while analyze runs

\* The transposition table (hash.cc), the pawn hash table (pawnhash.cc) and
\* the evaluation cache (evalcache.cc).
Tabs == {"hash", "pawnhash", "evalcache"}
Params == {"clear", "size", "off"}

Commands == (Tabs \X Params) \cup ({"shell"} \X {"analyze", "exit"})
ASSUME /\ Cmds \subseteq Commands
       /\ CacheOwner \in Users /\ CacheKeys \subseteq HashKeys
       /\ ClearWhileAnalyzing \in BOOLEAN /\ 0 \notin HashKeys

HASHTABLE_LOCK_DOMAINS == 64
None == "none"
\* HashEntry() leaves the hashkey uninitialized and sets type NONE, which
\* probe() tests first; any value outside HashKeys stands for it.  The
\* pawn hash marks an empty slot by phase -1, the evaluation cache by
\* score INT_MIN (EvaluationCache::EvaluationCache(), clear()).
NoKey == 0
NONE == 0           \* the contents of an empty entry
Contents(k) == k
Slots == 0..TableSize - 1
Allocs == 1..MaxAllocs
Miss == <<NoKey, NONE>>   \* probe() returned false
EmptyArray == [i \in Slots |-> [key |-> NoKey, val |-> NONE]]
\* The tables a thread accesses: every search thread probes and stores
\* the transposition table; only the owner evaluates with the caches.
TabsOf(u) == IF u = CacheOwner THEN Tabs ELSE {"hash"}

VARIABLES
    table,    \* the array each table points to; 0: the table is NULL
    live,     \* allocations not deleted
    nalloc,   \* allocations made so far
    mem,      \* the contents of every allocation, deleted ones included
    spin,     \* the holder of each domain's spinlock
    pc,       \* each thread's place in a put() or probe()
    op,       \* the call a thread is in: table, kind and hashkey
    ptr,      \* the array a thread is accessing (0: none)
    res,      \* the entry the last probe() copied out, or Miss
    thread,   \* the background search thread exists (Search::thread)
    stop,     \* Search::stop
    spc,      \* the shell thread's place
    cmd,      \* the command the shell is executing
    analyze   \* Shell::flag_analyze

svars == <<thread, stop, spc, cmd, analyze>>
vars == <<table, live, nalloc, mem, spin, pc, op, ptr, res, svars>>
uvars == <<spin, pc, op, ptr, res>>

\* HashTable::put()/probe(), PawnHashTable::put()/probe(),
\* EvaluationCache::put()/probe(): the index, and lock()/unlock()'s domain.
Slot(k) == k % TableSize
\* Mutant: the domain taken from the hashkey instead of the index.
Domain_of_hashkey(k) == k % HASHTABLE_LOCK_DOMAINS
Domain(k) == Slot(k) % HASHTABLE_LOCK_DOMAINS

\* The shell has made the three tables (Search::set_hash_size(),
\* Evaluator::set_pawnhash_size(), set_evalcache_size() with sizes > 0):
\* allocations 1, 2 and 3.
\* The arguments of a thread that is in no call.
NoOp == [tab |-> "hash", kind |-> "probe", key |-> CHOOSE k \in HashKeys : TRUE]
TabIds == [t \in Tabs |-> CASE t = "hash" -> 1 [] t = "pawnhash" -> 2
                                [] OTHER -> 3]
Init ==
    /\ nalloc = 3 /\ table = TabIds /\ live = {1, 2, 3}
    /\ mem = [a \in Allocs |-> EmptyArray]
    /\ spin = [d \in 0..HASHTABLE_LOCK_DOMAINS - 1 |-> None]
    /\ pc = [u \in Users |-> "exited"]
    /\ op = [u \in Users |-> NoOp]
    /\ ptr = [u \in Users |-> 0]
    /\ res = [u \in Users |-> Miss]
    /\ thread = FALSE /\ stop = FALSE
    /\ spc = "loop" /\ cmd = <<"shell", "exit">> /\ analyze = FALSE

-----------------------------------------------------------------------------
(* A search thread: Search::probe_hashtable()/store_hashtable() return     *)
(* at once while hashtable is NULL; otherwise HashTable::probe()/put().    *)

\* The first step of a call on table t: the transposition table locks its
\* domain; the caches take no lock.
FirstStep(t, kind) ==
    CASE t = "hash" -> "lock" [] kind = "put" -> "w1" [] OTHER -> "r1"
\* The calls the search makes: put() or probe() of the transposition
\* table and the pawn hash; Evaluator::eval() begins with a probe() of
\* the evaluation cache.
Kinds(t) == IF t = "evalcache" THEN {"probe"} ELSE {"put", "probe"}
KeysOf(t) == IF t = "hash" THEN HashKeys ELSE CacheKeys

\* Mutant: the search does not poll stop before its next access.
Begin_ignores_stop(u) ==
    /\ pc[u] = "idle"
    /\ \E t \in TabsOf(u) : \E kind \in Kinds(t), k \in KeysOf(t) :
          /\ table[t] # 0
          /\ op' = [op EXCEPT ![u] = [tab |-> t, kind |-> kind, key |-> k]]
          /\ pc' = [pc EXCEPT ![u] = FirstStep(t, kind)]
    /\ UNCHANGED <<spin, ptr, res>>

Begin(u) ==
    /\ pc[u] = "idle" /\ ~stop
    /\ \E t \in TabsOf(u) : \E kind \in Kinds(t), k \in KeysOf(t) :
          /\ table[t] # 0
          /\ op' = [op EXCEPT ![u] = [tab |-> t, kind |-> kind, key |-> k]]
          /\ pc' = [pc EXCEPT ![u] = FirstStep(t, kind)]
    /\ UNCHANGED <<spin, ptr, res>>

Lock(u) ==
    LET d == Domain(op[u].key) IN
    /\ pc[u] = "lock" /\ spin[d] = None
    /\ spin' = [spin EXCEPT ![d] = u]
    /\ pc' = [pc EXCEPT ![u] = IF op[u].kind = "put" THEN "w1" ELSE "r1"]
    /\ UNCHANGED <<op, ptr, res>>

\* The array a step of u reads or writes.  The transposition table and the
\* pawn hash bind table[key] once; EvaluationCache::put()/probe() write
\* cache[key].field, which loads the cache pointer again for every field.
\* The load is a data race with clear(): the compiler may reuse the value
\* it loaded before or load the current one.
Arrays(u) == IF op[u].tab = "evalcache" THEN {ptr[u], table["evalcache"]}
             ELSE {ptr[u]}

\* table[key] = entry, cache[key].hashkey = ...: the hashkey word, then
\* the rest.
Write1(u) ==
    LET a == table[op[u].tab] IN
    /\ pc[u] = "w1"
    /\ ptr' = [ptr EXCEPT ![u] = a]
    /\ mem' = [mem EXCEPT ![a][Slot(op[u].key)].key = op[u].key]
    /\ pc' = [pc EXCEPT ![u] = "w2"]
    /\ UNCHANGED <<spin, op, res>>

Write2(u) ==
    /\ pc[u] = "w2"
    /\ \E a \in Arrays(u) :
          /\ ptr' = [ptr EXCEPT ![u] = a]
          /\ mem' = [mem EXCEPT ![a][Slot(op[u].key)].val = Contents(op[u].key)]
    /\ pc' = [pc EXCEPT ![u] = "unlock"]
    /\ UNCHANGED <<spin, op, res>>

\* const HashEntry & e = table[key]; the type (phase, score) and hashkey
\* test.  After a miss of the evaluation cache eval() evaluates the
\* position and put()s the score.
Read1(u) ==
    LET a == table[op[u].tab]
        e == mem[a][Slot(op[u].key)]
    IN
    /\ pc[u] = "r1"
    /\ ptr' = [ptr EXCEPT ![u] = a]
    /\ IF e.val = NONE \/ e.key # op[u].key
       THEN /\ res' = [res EXCEPT ![u] = Miss]
            /\ IF op[u].tab = "evalcache"
               THEN /\ pc' = [pc EXCEPT ![u] = "w1"]
                    /\ op' = [op EXCEPT ![u].kind = "put"]
               ELSE pc' = [pc EXCEPT ![u] = "unlock"] /\ UNCHANGED op
       ELSE pc' = [pc EXCEPT ![u] = "r2"] /\ UNCHANGED <<res, op>>
    /\ UNCHANGED spin

\* *entry = e through the reference taken in Read1; *score = cache[key].score.
Read2(u) ==
    /\ pc[u] = "r2"
    /\ \E a \in Arrays(u) :
          LET e == mem[a][Slot(op[u].key)] IN
          /\ ptr' = [ptr EXCEPT ![u] = a]
          /\ res' = [res EXCEPT ![u] = <<op[u].key, e.val>>]
    /\ pc' = [pc EXCEPT ![u] = "unlock"]
    /\ UNCHANGED <<spin, op>>

\* HashTable::unlock() and the return; the caches' calls just return.
\* The call's arguments and result go out of scope.
Unlock(u) ==
    /\ pc[u] = "unlock"
    /\ spin' = IF op[u].tab = "hash"
               THEN [spin EXCEPT ![Domain(op[u].key)] = None] ELSE spin
    /\ ptr' = [ptr EXCEPT ![u] = 0]
    /\ pc' = [pc EXCEPT ![u] = "idle"]
    /\ op' = [op EXCEPT ![u] = NoOp]
    /\ res' = [res EXCEPT ![u] = Miss]

\* The search polls stop between nodes and returns.
Exit(u) ==
    /\ pc[u] = "idle" /\ stop
    /\ pc' = [pc EXCEPT ![u] = "exited"]
    /\ UNCHANGED <<spin, op, ptr, res>>

\* One step of search thread u.
UserStep(u) ==
    /\ \/ Begin(u) /\ UNCHANGED mem
       \/ Lock(u) /\ UNCHANGED mem
       \/ Write1(u) \/ Write2(u)
       \/ Read1(u) /\ UNCHANGED mem
       \/ Read2(u) /\ UNCHANGED mem
       \/ Unlock(u) /\ UNCHANGED mem
       \/ Exit(u) /\ UNCHANGED mem
    /\ UNCHANGED <<table, live, nalloc, svars>>

-----------------------------------------------------------------------------
(* The shell thread.                                                        *)

\* Thread::start() creates the search thread(s), which begin to search;
\* Thread::wait() joins a thread: it returns once the thread has returned.
ThreadStart == [u \in Users |-> "idle"]
ThreadJoined == \A u \in Users : pc[u] = "exited"

\* The main loop (shell.cc 95-119): in analyze mode engine_analyze() calls
\* Search::start_thread(), which starts the search unless its thread
\* exists; then input() reads and executes a command.
ShellLoop ==
    /\ spc = "loop"
    /\ IF analyze /\ ~thread
       THEN /\ thread' = TRUE /\ stop' = FALSE
            /\ pc' = ThreadStart
       ELSE UNCHANGED <<thread, stop, pc>>
    /\ spc' = "input"
    /\ UNCHANGED <<table, live, nalloc, mem, cmd, analyze, spin, op, ptr, res>>

\* Shell::cmd_hash(), cmd_pawnhash(), cmd_evalcache(): "clear" calls
\* Search::clear_hash(), clear_pawnhash(), clear_evalcache() at once, which
\* clear the table unless it is NULL; "size" and "off", like cmd_analyze()
\* and cmd_exit(), first call stop_search(), whose Search::stop_thread()
\* interrupts a running thread and waits for it.
Clears(t) == table[t] # 0
Typed(c) ==
    /\ cmd' = c
    /\ IF c[2] = "clear"
       THEN spc' = (IF Clears(c[1]) THEN "delete" ELSE "loop") /\ UNCHANGED stop
       ELSE spc' = "join" /\ stop' = (stop \/ thread)

\* Reading a command; every new array counts against MaxAllocs.
Input ==
    /\ spc = "input"
    /\ \E c \in Cmds :
          /\ c[2] \in {"clear", "size"} => nalloc < MaxAllocs
          /\ c[2] = "clear" /\ analyze => ClearWhileAnalyzing
          /\ Typed(c)
    /\ UNCHANGED <<table, live, nalloc, mem, thread, analyze, uvars>>

\* HashTable::clear(), PawnHashTable::clear(), EvaluationCache::clear():
\* delete[] the array, then new[] one (and mark its slots empty); no
\* spinlock is taken.
ClearDelete ==
    /\ spc = "delete"
    /\ live' = live \ {table[cmd[1]]}
    /\ spc' = "new"
    /\ UNCHANGED <<table, nalloc, mem, thread, stop, cmd, analyze, uvars>>

ClearNew ==
    /\ spc = "new"
    /\ nalloc' = nalloc + 1 /\ table' = [table EXCEPT ![cmd[1]] = nalloc + 1]
    /\ live' = live \cup {nalloc + 1}
    /\ spc' = "loop"
    /\ UNCHANGED <<mem, thread, stop, cmd, analyze, uvars>>

\* Search::set_hash_size(), Evaluator::set_pawnhash_size() and
\* set_evalcache_size(): delete the table and make a new one (bytes > 0)
\* or none.
SetSize(t, bytes) ==
    IF bytes > 0
    THEN /\ nalloc' = nalloc + 1
         /\ table' = [table EXCEPT ![t] = nalloc + 1]
         /\ live' = (live \ {table[t]}) \cup {nalloc + 1}
    ELSE /\ table' = [table EXCEPT ![t] = 0]
         /\ live' = live \ {table[t]}
         /\ UNCHANGED nalloc

\* The command once stop_search() has returned: "size" and "off" call
\* Shell::set_hash_size(), set_pawnhash_size(), set_evalcache_size(),
\* which stop the search (again) and set the size (a size is a positive
\* number of bytes here); cmd_analyze() and cmd_exit() set flag_analyze.
Command ==
    IF cmd[2] \in {"size", "off"}
    THEN SetSize(cmd[1], IF cmd[2] = "size" THEN 1 ELSE 0) /\ UNCHANGED analyze
    ELSE analyze' = (cmd[2] = "analyze") /\ UNCHANGED <<table, live, nalloc>>

\* Thread::wait() returns once the search thread has returned.
\* Mutant: stop_thread() interrupts but does not wait for the thread.
Join_no_wait ==
    /\ spc = "join"
    /\ thread' = FALSE
    /\ Command
    /\ spc' = "loop"
    /\ UNCHANGED <<mem, stop, cmd, uvars>>

Join ==
    /\ spc = "join"
    /\ thread => ThreadJoined
    /\ thread' = FALSE
    /\ Command
    /\ spc' = "loop"
    /\ UNCHANGED <<mem, stop, cmd, uvars>>

\* The shell thread's own steps, after the command has been typed.
ShellRun == ShellLoop \/ ClearDelete \/ ClearNew \/ Join

Next == Input \/ ShellRun \/ \E u \in Users : UserStep(u)

\* Threads run; nothing forces the user to type a command.
Spec == Init /\ [][Next]_vars /\ WF_vars(ShellRun)
                              /\ \A u \in Users : WF_vars(UserStep(u))

-----------------------------------------------------------------------------
(* Properties.                                                              *)

TypeOK ==
    /\ table \in [Tabs -> 0..MaxAllocs] /\ live \subseteq Allocs /\ nalloc \in Allocs
    /\ spin \in [0..HASHTABLE_LOCK_DOMAINS - 1 -> Users \cup {None}]
    /\ pc \in [Users -> {"exited", "idle", "lock", "w1", "w2", "r1", "r2", "unlock"}]
    /\ ptr \in [Users -> 0..MaxAllocs]
    /\ op \in [Users -> [tab : Tabs, kind : {"put", "probe"}, key : HashKeys]]
    /\ res \in [Users -> (HashKeys \X (HashKeys \cup {NONE})) \cup {Miss}]
    /\ cmd \in Commands
    /\ thread \in BOOLEAN /\ stop \in BOOLEAN
    /\ spc \in {"loop", "input", "delete", "new", "join"} /\ analyze \in BOOLEAN

\* No search thread reads or writes an array that has been deleted: the
\* array a put() or probe() is accessing, from the moment it reads the
\* table pointer to its unlock() or return, is live.  The shell replaces
\* the arrays in "hash/pawnhash/evalcache clear" (the tables' clear()),
\* "... size" and "... off".
MemorySafe == \A u \in Users : ptr[u] # 0 => ptr[u] \in live

\* A probe() that hits returns the contents stored for the position it
\* probed: the lock domains keep a put() of another position into the same
\* slot from tearing the HashEntry that probe() tests and then copies, and
\* the caches, which have no locks, are used by their owner thread alone.
ProbeWhole == \A u \in Users : res[u] # Miss => res[u][2] = Contents(res[u][1])

\* stop_search() returns: the interrupt reaches every search thread, each
\* finishes its put() or probe(), releases its spinlock and returns, and
\* Thread::wait() comes back.
StopSearchReturns == spc = "join" ~> spc = "loop"
====
