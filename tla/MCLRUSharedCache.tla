-------------------------- MODULE MCLRUSharedCache --------------------------
(* Small instances of LRUSharedCache for TLC.                               *)
EXTENDS LRUSharedCache

SetsOf == [small |-> 1, large |-> 2, odd |-> 3]
WaysOf == [small |-> 2, large |-> 2, odd |-> 2]

Lookups == {"lookup", "lookup_and_insert"} \X BOOLEAN
Insertions == {"insert"} \X BOOLEAN
Taking == {<<"lookup", TRUE>>, <<"invalidate", TRUE>>}

(* Threads that bring times in any order, on one set; and two that do so    *)
(* while stores invalidate.                                                 *)
AnyOrder == [caches |-> {"small"}, threads |-> 1, blocks |-> {0, 1, 2}, times |-> {3, 4, 5},
             calls |-> Lookups \cup Insertions, inOrder |-> FALSE, saves |-> FALSE]
Storing == [AnyOrder EXCEPT !.threads = 2, !.times = {3, 4},
                            !.calls = Insertions \cup {<<"lookup_and_insert", FALSE>>} \cup Taking]
(* One thread whose calls go to two caches of different sizes, and one that *)
(* only inserts.                                                            *)
Resizing == [caches |-> {"small", "large"}, threads |-> 1, blocks |-> {0, 1, 2, 3},
             times |-> 1..5, calls |-> {<<"insert", FALSE>>} \cup Taking, inOrder |-> TRUE, saves |-> FALSE]
Inserting == [Resizing EXCEPT !.calls = Insertions]
(* A checkpoint of three sets by two workers.                               *)
Saving == [caches |-> {"odd"}, threads |-> 1, blocks |-> {0, 1, 2, 3, 5}, times |-> {1},
           calls |-> {<<"lookup", TRUE>>, <<"lookup_and_insert", FALSE>>, <<"insert", TRUE>>},
           inOrder |-> FALSE, saves |-> TRUE]
Guests == {AnyOrder, Storing, Resizing, Inserting, Saving}

(* The calls of the single-threaded hierarchy, which the test drives.       *)
SingleThreaded == {[Resizing EXCEPT !.calls = {<<"lookup_and_insert", FALSE>>}]}
=============================================================================
