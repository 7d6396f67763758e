---------------------------- MODULE MCHashTable ----------------------------
(***************************************************************************)
(* Two search threads share a table of two slots; hashkeys 1 and 3 both   *)
(* map to slot 1, so puts of different positions overwrite each other and *)
(* a probe can meet an entry of the other position.  Thread t1 also owns  *)
(* the pawn hash table and the evaluation cache.  The three tables are    *)
(* allocations 1-3, and two more arrays can be made by "size" or "clear". *)
(***************************************************************************)
EXTENDS HashTable

MCUsers == {"t1", "t2"}
MCHashKeys == {1, 3}
\* Every command of every table, with analysis on and off.
MCCmds == (Tabs \X Params) \cup {<<"shell", "analyze">>, <<"shell", "exit">>}
\* The hash-table commands only.
MCHashCmds == ({"hash"} \X Params) \cup {<<"shell", "analyze">>, <<"shell", "exit">>}
====
