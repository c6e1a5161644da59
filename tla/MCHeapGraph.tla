------------------------------ MODULE MCHeapGraph ------------------------------
(***************************************************************************)
(* Scenes for HeapGraph: three allocations that point to each other in     *)
(* every way, cycles included; a global variable of the program or of a    *)
(* system module; a heap structure beside the allocations, in one of them, *)
(* or with a pointer in one of them.                                       *)
(*                                                                         *)
(* The first two allocations are blocks of an NT heap (their header lies   *)
(* before the user data, and it is the header's address that the heap      *)
(* reports), the third one is a block of a segment heap.                   *)
(***************************************************************************)
EXTENDS HeapGraph

CONSTANTS
    NtBlocks,       \* the heap reports its NT blocks
    Areas,          \* whether a system area lies in the second allocation
    Chosen          \* the options that are tried

Range(first, size) == [first |-> first, size |-> size]
Base == <<13, 22, 31>>
To(at, i) == [at |-> at, data |-> Base[i] + 1]

Allocation(first, check, metadata, area, cells) ==
    [first |-> first, size |-> 6, check |-> check, metadata |-> metadata,
     area |-> area, cells |-> cells]

Allocations3(c1, c2, c3, area, crt3) ==
    << Allocation(13, Range(13, 6), Range(10, 3), FALSE, c1),
       Allocation(22, Range(22, 6), Range(20, 2), area, c2),
       Allocation(31, IF crt3 THEN Range(30, 8) ELSE Range(31, 6), Range(90, 2), FALSE, c3) >>

Global(system, filtered, target) ==
    [first |-> 70, size |-> 4, cells |-> {To(2, target)}, system |-> system, filtered |-> filtered]

Structure(where) ==
    CASE where = "beside" -> [address |-> 60, user |-> TRUE, pointers |-> <<[base |-> 60, offset |-> 1]>>]
      [] where = "within" -> [address |-> 22, user |-> TRUE, pointers |-> <<[base |-> 22, offset |-> 2]>>]
      [] where = "header" -> [address |-> 11, user |-> FALSE, pointers |-> <<[base |-> 11, offset |-> 0],
                                                                             [base |-> 60, offset |-> 0]>>]

Scene(c1, c2, c3, area, crt3, global, where, options) ==
    LET h == Structure(where) IN
    [allocations |-> Allocations3(c1, c2, c3, area, crt3),
     globals |-> <<global>>,
     thread |-> [teb |-> 50, pointers |-> <<[base |-> 50, offset |-> 0]>>, registers |-> <<0, 14>>,
                 stacks |-> <<[size |-> 4, cells |-> {To(0, 3)}]>>],
     crt |-> IF crt3 THEN <<Range(12, 8), Range(30, 8)>> ELSE <<Range(12, 8)>>,
     heaps |-> <<[address |-> h.address, user |-> h.user, pointers |-> h.pointers,
                  blocks |-> (IF NtBlocks THEN <<[address |-> 10, subsegment |-> FALSE],
                                                 [address |-> 20, subsegment |-> FALSE]>> ELSE <<>>)
                             \o <<[address |-> IF crt3 THEN 30 ELSE 31, subsegment |-> FALSE]>>]>>,
     options |-> options]

(* Options other than the default are tried with a structure in an           *)
(* allocation, where the most marks are set.                                 *)
MCScenes ==
    {Scene(c1, c2, c3, area, crt3, global, w[1], w[2]) :
        c1 \in {{}, {To(4, 2)}},
        c2 \in {{To(1, 1)}, {To(0, 3)}},
        c3 \in {{}, {To(0, 1), To(2, 2)}},
        area \in Areas, crt3 \in BOOLEAN,
        global \in {Global(FALSE, FALSE, 2), Global(TRUE, FALSE, 1), Global(TRUE, TRUE, 3)},
        w \in {v \in {"beside", "within", "header"} \X Chosen : v[1] = "within" \/ v[2] = {}}}

MCChosen ==
    {{}, {"no_filter_heap_entries"}, {"no_mark_all_crt_entries"},
     {"no_mark_global_variable_data_pointers"}}
===============================================================================
