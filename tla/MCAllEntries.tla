----------------------------- MODULE MCAllEntries -----------------------------
(***************************************************************************)
(* Dumps for AllEntries: one heap of each type, with blocks in every stage *)
(* of the type.  Each block is free, allocated, allocated for a block the  *)
(* debug CRT uses, or for one that it has freed and holds.                 *)
(***************************************************************************)
EXTENDS AllEntries

CONSTANT LargeMayBeFreed    \* a freed CRT block may be in a large allocation

Range(first, size) == [first |-> first, size |-> size]

Block(kind, index, raw, user, state, internal) ==
    [kind |-> kind, heap |-> index, first |-> user.first, size |-> user.size,
     raw |-> raw, state |-> state, internal |-> internal]

(* A CRT block that fills the user range: header, data, no man's land.     *)
Crt(user, use) ==
    [first |-> user.first, size |-> user.size,
     user |-> Range(user.first + 1, user.size - 2), block_use |-> use]

Use == {"free", "plain", "used", "freed"}
State(use) == IF use \in {"free", "other"} THEN use ELSE "allocated"
CrtOf(user, use) == IF use \in {"used", "freed"} THEN {Crt(user, use = "used")} ELSE {}

MemoryRange(first, size) ==
    Block("memory_range", 0, Range(first, size), Range(first, size), "allocated", FALSE)

(* An NT heap: an internal block that holds an LFH subsegment with two     *)
(* entries, a block beside it, and a virtual block that fills its range;   *)
(* and a second NT heap with nothing in it.                                *)
NtHeaps ==
    {[types |-> <<"nt_heap", "nt_heap">>,
      blocks |-> {MemoryRange(0, 30), MemoryRange(40, 6),
                  Block("nt_heap_segment_entry", 1, Range(1, 14), Range(2, 13), "allocated", TRUE),
                  Block("nt_heap_lfh_entry", 1, Range(4, 5), Range(5, 4), State(u), FALSE),
                  Block("nt_heap_lfh_entry", 1, Range(9, 5), Range(10, 4), State(v), FALSE),
                  Block("nt_heap_segment_entry", 1, Range(15, 8), Range(16, 6), State(w), FALSE),
                  Block("nt_heap_virtual_entry", 1, Range(40, 6), Range(40, 6), State(x), FALSE)},
      subsegments |-> {[heap |-> 1, first |-> 4]},
      crt |-> CrtOf(Range(5, 4), u) \union CrtOf(Range(10, 4), v)
              \union CrtOf(Range(16, 5), w) \union CrtOf(Range(40, 6), x)] :
        u \in Use, v \in {"used", "freed"}, w \in Use, x \in Use \ {"free"}}

(* Two NT heaps, each with an internal block whose LFH entries may all be  *)
(* free: what is known of the subsegments of one does not help the other.  *)
LfhHeaps ==
    {[types |-> <<"nt_heap", "nt_heap">>,
      blocks |-> {MemoryRange(0, 24),
                  Block("nt_heap_segment_entry", 1, Range(1, 9), Range(2, 8), "allocated", TRUE),
                  Block("nt_heap_lfh_entry", 1, Range(4, 5), Range(5, 4), State(u), FALSE),
                  Block("nt_heap_segment_entry", 2, Range(12, 9), Range(13, 8), "allocated", TRUE),
                  Block("nt_heap_lfh_entry", 2, Range(15, 5), Range(16, 4), State(v), FALSE)},
      subsegments |-> {[heap |-> 1, first |-> 4], [heap |-> 2, first |-> 15]},
      crt |-> CrtOf(Range(5, 4), u) \union CrtOf(Range(16, 4), v)] :
        u \in Use, v \in Use}

(* An NT heap and a segment heap with a block of every stage.              *)
SegmentHeaps ==
    {[types |-> <<"nt_heap", "segment_heap">>,
      blocks |-> {MemoryRange(0, 50),
                  Block("nt_heap_segment_entry", 1, Range(0, 6), Range(1, 5), "allocated", FALSE),
                  Block("segment_backend_entry", 2, Range(6, 6), Range(6, 6), State(u), FALSE),
                  Block("segment_entry", 2, Range(12, 6), Range(13, 5), State(v), FALSE),
                  Block("segment_lfh_entry", 2, Range(18, 6), Range(18, 5), State(w), FALSE),
                  Block("segment_large_entry", 2, Range(30, 20), Range(30, 15), "allocated", FALSE)},
      subsegments |-> {},
      crt |-> CrtOf(Range(1, 4), "used") \union CrtOf(Range(6, 6), u) \union CrtOf(Range(13, 4), v)
              \union CrtOf(Range(18, 5), w) \union CrtOf(Range(30, 15), x)] :
        u \in Use \union {"other"}, v \in Use, w \in Use \union {"other"},
        x \in IF LargeMayBeFreed THEN {"plain", "used", "freed"} ELSE {"plain", "used"}}

(* A debug page heap beside its normal NT heap.  The first virtual storage *)
(* range is the one the entries are carved from: it has no user address.   *)
DphHeaps ==
    {[types |-> <<"nt_heap", "dph_heap">>,
      blocks |-> {MemoryRange(0, 20), MemoryRange(20, 20),
                  Block("nt_heap_segment_entry", 1, Range(1, 6), Range(2, 5), "allocated", FALSE),
                  Block("dph_virtual_entry", 2, Range(20, 20), Range(20, 20), "free", FALSE),
                  Block("dph_entry", 2, Range(20, 8), Range(22, 6), State(u), FALSE),
                  Block("dph_entry", 2, Range(28, 8), Range(30, 6), State(v), FALSE),
                  Block("dph_virtual_entry", 2, Range(10, 8), Range(11, 7), State(w), FALSE)},
      subsegments |-> {},
      crt |-> CrtOf(Range(22, 6), u) \union CrtOf(Range(30, 6), v) \union CrtOf(Range(11, 6), w)] :
        u \in Use, v \in Use, w \in Use}

(* A heap created in memory that a block of another heap has, which is     *)
(* read after that heap or before it: from its beginning, its middle or to *)
(* its end, and that memory may itself be in a block of the other heap.    *)
HeapsInBlocks ==
    {[types |-> <<"nt_heap", "nt_heap">>,
      blocks |-> {MemoryRange(0, 20),
                  Block("nt_heap_segment_entry", a, Range(2, 18), Range(3, 17), "allocated", FALSE),
                  Block("nt_heap_virtual_entry", c, Range(4, 12), Range(4, 12), "allocated", FALSE),
                  Block("nt_heap_segment_entry", b, Range(f, 8), Range(f, 8), "allocated", FALSE),
                  Block("nt_heap_lfh_entry", b, Range(f, 3), Range(f, 3), State(u), FALSE),
                  Block("nt_heap_segment_entry", b, Range(18, 2), Range(18, 2), "allocated", FALSE)},
      subsegments |-> {},
      crt |-> {}] :
        a \in {1, 2}, b \in {1, 2}, c \in {1, 2}, f \in {4, 6, 8}, u \in {"free", "plain"}}

MCHeaps == NtHeaps \union LfhHeaps \union SegmentHeaps \union DphHeaps \union HeapsInBlocks
MCDumps == {Reported(h) : h \in MCHeaps}
===============================================================================
