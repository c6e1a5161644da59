------------------------- MODULE InnermostAllocations -------------------------
(***************************************************************************)
(* What process_heaps promises of its list of allocations, without keys,   *)
(* lookups or an order: blocks are reported one at a time, and of blocks   *)
(* that lie in one another the innermost is the one that is visible.  Of   *)
(* two reports of the same range the later one counts, because the         *)
(* heap-specific stages, which know more, come after the generic ones.     *)
(***************************************************************************)
EXTENDS HeapRanges

CONSTANT Dumps      \* the sets of blocks a dump may hold

VARIABLES
    dump,           \* the blocks of the dump that is analysed
    reported,       \* the blocks reported so far
    visible         \* the allocations a user is shown

vars == <<dump, reported, visible>>

StrictlyInside(b, c) == Contains(c, b) /\ ~Contains(b, c)

Init ==
    /\ dump \in Dumps
    /\ reported = {}
    /\ visible = {}

Report(b) ==
    /\ b \in dump
    /\ reported' = reported \union {b}
    /\ visible' = IF \E v \in visible : StrictlyInside(v, b)
                  THEN visible
                  ELSE {v \in visible : ~Contains(v, b)} \union {b}
    /\ UNCHANGED dump

Next == \E b \in dump : Report(b)

Spec == Init /\ [][Next]_vars
===============================================================================
