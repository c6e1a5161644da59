------------------------------ MODULE AllEntries ------------------------------
(***************************************************************************)
(* process_heaps::all_entries and all_free_entries: how the allocations    *)
(* and the free blocks of a dump are collected from all of its heaps.      *)
(*                                                                         *)
(* all_entries goes through the memory ranges, then heap by heap through   *)
(* the stages of the heap's type.  A block of a stage is matched with the  *)
(* debug CRT's list of blocks; what comes of it is passed to               *)
(* add_heap_entry (module HeapEntryMap, which this module extends).        *)
(*                                                                         *)
(* A block is a record                                                     *)
(*   kind, heap      the stage that reports it, the heap it belongs to     *)
(*   first, size     user_address() and user_requested_size()              *)
(*   raw             the block with its heap header: [first, size]         *)
(*   state           "allocated", "free", or "other" for what neither      *)
(*                   list shows (a committed page range that is no         *)
(*                   allocation, an LFH bucket that is not enabled)        *)
(*   internal        heap_entry flags are FlagBusy | FlagVirtualAlloc      *)
(* and a CRT block is [first, size] of the whole entry with its header,    *)
(* user = [first, size] of the user data, and block_use.                   *)
(***************************************************************************)
EXTENDS HeapEntryMap, Sequences

CONSTANT Heaps      \* the dumps: [types, blocks, subsegments, crt]

VARIABLES
    heap,           \* the dump that is analysed
    heap_index,     \* the last heap that was opened
    stages,         \* the stages left of that heap, the current one first
    todo,           \* the blocks of the current stage not yet visited
    lfh_data        \* first addresses of the LFH subsegments of the heap

walk == <<heap, heap_index, stages, todo, lfh_data>>
allVars == <<vars, walk>>

StagesOf(type) ==
    CASE type = "nt_heap" ->
            <<"nt_heap_lfh_entry", "nt_heap_segment_entry", "nt_heap_virtual_entry">>
      [] type = "segment_heap" ->
            <<"segment_backend_entry", "segment_entry", "segment_lfh_entry", "segment_large_entry">>
      [] type = "dph_heap" ->
            <<"dph_entry", "dph_virtual_entry">>

BlocksOf(kind, index) == {b \in heap.blocks : b.kind = kind /\ b.heap = index}

SubsegmentsOf(h, index) == {s.first : s \in {t \in h.subsegments : t.heap = index}}

-------------------------------------------------------------------------------
(* The test each stage makes before it looks a block up in the CRT's list. *)
Considered(b, starts) ==
    \/ b.kind \in {"memory_range", "segment_large_entry"}
    \/ /\ b.state = "allocated"
       /\ b.kind = "nt_heap_segment_entry" => ~HoldsSubsegment(b, starts)

(* match_crt_entry: only the lower bound of the user address is compared,  *)
(* and a memory range is not compared at all.                              *)
MatchCrtEntry(h, b) ==
    IF b.kind = "memory_range" THEN {}
    ELSE {c \in LowerBound(h.crt, b.first) :
             Match(c, b) \in {"block_match", "block_contains"}}

RawEntry(b) == [first |-> b.first, size |-> b.size, kind |-> b.kind, crt |-> FALSE]
CrtEntry(b, c) == [first |-> c.user.first, size |-> c.user.size, kind |-> b.kind, crt |-> TRUE]

(* Slip for EntryOf: block_use is not looked at.                           *)
SlipEntryOfFreed(h, b) ==
    IF MatchCrtEntry(h, b) = {} THEN {RawEntry(b)}
    ELSE {CrtEntry(b, c) : c \in MatchCrtEntry(h, b)}

(* Slip for EntryOf: the test of block_use the wrong way round.            *)
SlipEntryOfUsed(h, b) ==
    IF MatchCrtEntry(h, b) = {} THEN {RawEntry(b)}
    ELSE {CrtEntry(b, c) : c \in {d \in MatchCrtEntry(h, b) : ~d.block_use}}

(* What a block adds to the list: the CRT's user data if the CRT uses the  *)
(* block, nothing if the CRT has freed it, the block itself if it is not   *)
(* the CRT's.                                                              *)
EntryOf(h, b) ==
    IF MatchCrtEntry(h, b) = {} THEN {RawEntry(b)}
    ELSE {CrtEntry(b, c) : c \in {d \in MatchCrtEntry(h, b) : d.block_use}}

(* Everything add_heap_entry is going to be called with.                   *)
Reported(h) ==
    UNION {EntryOf(h, b) : b \in {d \in h.blocks : Considered(d, SubsegmentsOf(h, d.heap))}}

ASSUME HeapsAssumption == \A h \in Heaps : Reported(h) \in Dumps
ASSUME TypesAssumption == \A h \in Heaps : h.types \in Seq({"nt_heap", "segment_heap", "dph_heap"})

(* A block is reported by a stage of its heap, a memory range before any   *)
(* heap; and what the program asked for lies in the raw block.             *)
ASSUME BlocksAssumption ==
    \A h \in Heaps : \A b \in h.blocks :
        /\ b.first \in Nat /\ b.size \in Nat /\ b.raw.first \in Nat /\ b.raw.size \in Nat
        /\ Contains(b.raw, b) /\ LastAddress(b) <= LastAddress(b.raw)
        /\ IF b.kind = "memory_range" THEN b.heap = 0
           ELSE /\ b.heap \in 1..Len(h.types)
                /\ \E k \in 1..Len(StagesOf(h.types[b.heap])) : StagesOf(h.types[b.heap])[k] = b.kind

(* The committed ranges are what the heaps' memory is made of: no block    *)
(* goes beyond the range it is in.                                         *)
ASSUME RangesAssumption ==
    \A h \in Heaps : \A r, b \in h.blocks :
        r.kind = "memory_range" /\ b.kind # "memory_range" /\ Contains(b, r) => Contains(r, b)

(* The blocks that all_entries looks up in the CRT's list.                 *)
HeapBlock(h, b) == b.kind # "memory_range" /\ Considered(b, SubsegmentsOf(h, b.heap))

(* The debug CRT takes each of its blocks, with a header before and a gap  *)
(* behind the user data, as one allocation of its own from a heap, and no  *)
(* heap is made in memory of the CRT's.                                    *)
ASSUME CrtAssumption ==
    \A h \in Heaps : \A c \in h.crt :
        /\ c.first \in Nat /\ c.size \in Nat /\ c.user.first \in Nat /\ c.user.size \in Nat
        /\ c.first < c.user.first /\ End(c.user) < End(c)
        /\ \E b \in h.blocks : HeapBlock(h, b) /\ Contains(b, c)
        /\ \A b \in h.blocks : Contains(b, c) \/ Apart(b.raw, c)
        /\ \A d \in h.crt \ {c} :
              /\ Apart(c, d)
              /\ \A b \in h.blocks : HeapBlock(h, b) => ~(Contains(b, c) /\ Contains(b, d))

-------------------------------------------------------------------------------
(* all_free_entries: the free blocks of the heaps, and the allocated       *)
(* blocks that hold a block the CRT has freed.  A block is looked for in   *)
(* the CRT's list by the user address lying anywhere in the raw block.     *)
FreedCrt(h, b) == {c \in h.crt : ~c.block_use /\ ContainsAddress(b.raw, c.user.first)}

ListedFree(h, b) ==
    /\ b.kind \notin {"memory_range", "segment_large_entry"}
    /\ b.kind = "nt_heap_segment_entry" => ~HoldsSubsegment(b, SubsegmentsOf(h, b.heap))
    /\ b.state = "free" \/ (b.state = "allocated" /\ FreedCrt(h, b) # {})

FreeEntries(h) ==
    UNION {IF b.state = "free" THEN {RawEntry(b)} ELSE {CrtEntry(b, c) : c \in FreedCrt(h, b)} :
              b \in {d \in h.blocks : ListedFree(h, d)}}

-------------------------------------------------------------------------------
InitWalk ==
    /\ heap \in Heaps
    /\ dump = Reported(heap)
    /\ added = {}
    /\ entries = {}
    /\ failed = FALSE
    /\ heap_index = 0
    /\ stages = <<"memory_range">>
    /\ todo = BlocksOf("memory_range", 0)
    /\ lfh_data = {}

(* What the visit of a block passes to add_heap_entry, if anything.        *)
Contribution(b) == IF Considered(b, lfh_data) THEN EntryOf(heap, b) ELSE {}

(* One iteration of the loop of a stage.  The lists of the dump are in     *)
(* any order.                                                              *)
Visit(b) ==
    /\ ~failed
    /\ b \in todo
    /\ todo' = todo \ {b}
    /\ \/ Contribution(b) = {} /\ UNCHANGED vars
       \/ \E e \in Contribution(b) : AddHeapEntry(e)
    /\ UNCHANGED <<heap, heap_index, stages, lfh_data>>

(* Slip for NextStage: the subsegments are lost between the stages.        *)
SlipNextStage ==
    /\ ~failed
    /\ todo = {}
    /\ Len(stages) > 1
    /\ lfh_data' = lfh_data
    /\ stages' = Tail(stages)
    /\ todo' = BlocksOf(Head(stages'), heap_index)
    /\ UNCHANGED <<vars, heap, heap_index>>

(* get_all_nt_heap_lfh_entries returns the subsegments it has gone         *)
(* through; the segment stage of the same heap needs them.                 *)
NextStage ==
    /\ ~failed
    /\ todo = {}
    /\ Len(stages) > 1
    /\ lfh_data' = IF Head(stages) = "nt_heap_lfh_entry"
                   THEN SubsegmentsOf(heap, heap_index) ELSE lfh_data
    /\ stages' = Tail(stages)
    /\ todo' = BlocksOf(Head(stages'), heap_index)
    /\ UNCHANGED <<vars, heap, heap_index>>

NextHeap ==
    /\ ~failed
    /\ todo = {}
    /\ Len(stages) = 1
    /\ heap_index < Len(heap.types)
    /\ heap_index' = heap_index + 1
    /\ stages' = StagesOf(heap.types[heap_index'])
    /\ todo' = BlocksOf(Head(stages'), heap_index')
    /\ lfh_data' = {}
    /\ UNCHANGED <<vars, heap>>

Done == todo = {} /\ Len(stages) = 1 /\ heap_index = Len(heap.types)

(* The list is complete, or the exception of add_heap_entry has left it;   *)
(* anything else that stops the walk is a deadlock.                        *)
Finished == (Done \/ failed) /\ UNCHANGED allVars

NextWalk == (\E b \in todo : Visit(b)) \/ NextStage \/ NextHeap \/ Finished

WalkSpec == InitWalk /\ [][NextWalk]_allVars

-------------------------------------------------------------------------------
(* The type invariant: what is still to be visited is of the stage that    *)
(* the walk is at.                                                         *)
WalkTypeOK ==
    /\ heap \in Heaps
    /\ heap_index \in 0..Len(heap.types)
    /\ Len(stages) \in 1..4
    /\ todo \subseteq BlocksOf(Head(stages), heap_index)
    /\ lfh_data \subseteq SubsegmentsOf(heap, heap_index)

(* What one stage of a heap hands to the next decides what is added: an    *)
(* internal block that LFH subsegments are carved from is no allocation,   *)
(* though it is busy and every entry in it may be free.  At every moment   *)
(* only what the heaps report has been added, and in the end all of it.    *)
ReportedExactly ==
    /\ added \subseteq Reported(heap)
    /\ Done => added = Reported(heap)

Found(map, c) ==
    \E e \in LowerBound(map, c.user.first) : Match(c.user, e) \in {"block_match", "block_contains"}

Owners(c) == {b \in heap.blocks : b.kind # "memory_range" /\ Contains(b.raw, c)}

(* validate_crt_entries of the test program, "valid CRT Entries are all    *)
(* found": the user data of every block the CRT uses is found in the list  *)
(* by its address, whichever heap and stage reported it; and every block   *)
(* the CRT has freed but still holds in the list of free entries, if it    *)
(* does not live in a large allocation of a segment heap.                  *)
CrtBlocksFound ==
    Done => \A c \in heap.crt :
                IF c.block_use THEN Found(entries, c)
                ELSE (\A b \in Owners(c) : b.kind # "segment_large_entry") => Found(FreeEntries(heap), c)

(* The other half of it without that exception.                            *)
FreedCrtBlocksFound ==
    Done => \A c \in heap.crt : ~c.block_use => Found(FreeEntries(heap), c)

(* The blocks that one of the two lists has to account for.                *)
Accountable(b) ==
    /\ b.kind \notin {"memory_range", "segment_large_entry"}
    /\ b.state = "allocated"
    /\ ~HoldsSubsegment(b, SubsegmentsOf(heap, b.heap))

(* all_entries and all_free_entries decide by different tests (the lower   *)
(* bound of the user range here, the first user address in the raw block   *)
(* there), and yet every allocated block is in exactly one of the lists.   *)
LiveXorFree ==
    Done => \A b \in heap.blocks :
                Accountable(b) => ((EntryOf(heap, b) \intersect added # {}) # ListedFree(heap, b))

(* No allocation of a heap is hidden behind the memory range it is in,     *)
(* not even if it fills the range.                                         *)
HeapBlocksShown ==
    Done => \A e \in added :
                e.kind # "memory_range" =>
                    \E n \in entries : n.kind # "memory_range" /\ Contains(e, n)

===============================================================================
