------------------------------ MODULE SegmentHeap ------------------------------
(***************************************************************************)
(* How the blocks of a segment heap are read from a dump, in the order of  *)
(* process_heaps: the page ranges of its segments (backend), the chunks of *)
(* the variable size subsegments, the blocks of the low fragmentation heap *)
(* bucket by bucket, and the large allocations in their tree.              *)
(*                                                                         *)
(* A heap is a record                                                      *)
(*   target      of the process                                            *)
(*   padding     the version of ntdll may put padding in front of a block  *)
(*   page        page_size(); memory is in the dump by whole pages         *)
(*   pages       the pages that are in the dump                            *)
(*   word, tail  the machine word at an address, and the two bytes at one, *)
(*               where they are not 0                                      *)
(*   ranges      the page range descriptors in the order of the segment    *)
(*               contexts, their pages and the arrays in these: a sequence *)
(*               of [address, flags, block, units, unit, extra]            *)
(*   free_ranges, free_chunks   descriptors, and headers of chunks, in the *)
(*               trees of what is free                                     *)
(*   vs          a sequence of [address, last], last in units of 16 bytes  *)
(*   chunk       the decoded headers of chunks by address: [size (in       *)
(*               units of the heap), allocated, unused]                    *)
(*   buckets     a sequence of [pointer (its address), enabled, address,   *)
(*               slots], a slot being [pointer, available, full], the last *)
(*               two sequences of subsegments [address, count, first,      *)
(*               size, bitmap, bits], bits the words of the bitmap, each   *)
(*               the set of its bits that are 1                            *)
(*   root, large the tree of large allocations: [left, right, virtual,     *)
(*               unused, pages] by the address of the node, 0 for none     *)
(* and, for the properties, blocks and damaged: what is really there.      *)
(* The lists are the sequences the list walker delivers (ListWalkers).     *)
(***************************************************************************)
EXTENDS Integers, Sequences, FiniteSets

VARIABLES
    sheap,      \* the heap that is read
    part,       \* "backend", "vs", "lfh", "large", "done"
    index,      \* of the range, subsegment or bucket that comes next
    chunk_at,   \* chunk_header_address; 0 before the subsegment is entered
    slots,      \* the affinity slots of the bucket not yet begun
    lfh_todo,   \* the subsegments of the slot not yet finished
    lfh_block,  \* entries(): [index, bit, data, word] in the first of these
    nodes,      \* the stack of rtl_rb_tree_walker
    found,      \* the blocks that were reported
    thrown      \* an exception left the reader

svars == <<sheap, part, index, chunk_at, slots, lfh_todo, lfh_block, nodes, found, thrown>>

-------------------------------------------------------------------------------
HasPage(h, address) == address \div h.page \in h.pages

ValueAt(h, f, address) ==
    IF HasPage(h, address) /\ address \in DOMAIN f THEN f[address] ELSE 0

HeaderLength(target) == IF target = "x64" THEN 16 ELSE 8
Unit(target) == IF target = "x64" THEN 16 ELSE 8

PadSizes(target) == IF target = "x64" THEN {16, 64} ELSE {8}
LargePadSizes(target) == IF target = "x64" THEN {64} ELSE {32}

(* a < b in unsigned arithmetic, where a may have passed below 0.          *)
Below(a, b) == 0 <= a /\ a < b

(* get_read_front_padding_size, 0 for none: any block whose first word is  *)
(* one of the sizes is taken to be padded, if one of them fits in it.      *)
FrontPaddingOf(h, sizes, address, size) ==
    IF /\ h.padding
       /\ \E s \in sizes : ~Below(size, s)
       /\ ValueAt(h, h.word, address) \in sizes
    THEN ValueAt(h, h.word, address)
    ELSE 0

(* read_extra_data: bit 15 says that one byte is unused, bit 14 that there *)
(* is a stack trace in the unused bytes.                                   *)
ExtraUnused(h, address, size) ==
    LET v == ValueAt(h, h.tail, address + size - 2) IN
    IF v >= 32768 THEN 1 ELSE IF v >= 16384 THEN v - 16384 ELSE v

SegmentBlock(kind, address, size, padding, requested, state) ==
    [kind |-> kind, first |-> address + padding, size |-> requested,
     raw |-> [first |-> address, size |-> size], state |-> state]

Report(blocks) == found' = found \union blocks

-------------------------------------------------------------------------------
(* heap_page_segment::entries: the descriptors of committed ranges, and of *)
(* these only two kinds matter.                                            *)
BackendSubsegment == {"lfh", "committed"}
FreeRange == {"committed"}

RangeSize(d) == d.units * d.unit

RangeRequested(d, padding) ==
    RangeSize(d) - (IF d.extra >= RangeSize(d) THEN 0 ELSE d.extra) - padding

RangeBlock(h, d) ==
    LET padding == FrontPaddingOf(h, PadSizes(h.target), d.block, RangeSize(d)) IN
    SegmentBlock("segment_backend_entry", d.block, RangeSize(d), padding,
                 RangeRequested(d, padding),
                 IF d.flags = FreeRange THEN "free" ELSE "allocated")

(* A descriptor that is not in the dump ends everything.                   *)
VisitRange ==
    /\ part = "backend" /\ ~thrown /\ index <= Len(sheap.ranges)
    /\ LET d == sheap.ranges[index] IN
       /\ thrown' = ~HasPage(sheap, d.address)
       /\ Report(IF ~thrown' /\ d.flags \in {BackendSubsegment, FreeRange}
                 THEN {RangeBlock(sheap, d)} ELSE {})
    /\ index' = index + 1
    /\ UNCHANGED <<sheap, part, chunk_at, slots, lfh_todo, lfh_block, nodes>>

EndRanges ==
    /\ part = "backend" /\ ~thrown /\ index > Len(sheap.ranges)
    /\ part' = "vs"
    /\ index' = 1
    /\ UNCHANGED <<sheap, chunk_at, slots, lfh_todo, lfh_block, nodes, found, thrown>>

-------------------------------------------------------------------------------
(* heap_vs_subsegment::size is rounded up to whole pages.                  *)
Subsegment == sheap.vs[index]

(* The length of the structure, and what the chunks are aligned by.        *)
SubsegmentLength(target) == IF target = "x64" THEN 40 ELSE 24

FirstChunk(h, s) == s.address + SubsegmentLength(h.target) + (IF h.target = "x64" THEN 8 ELSE 0)

SubsegmentEnd(h, s) == s.address + ((s.last * 16 + h.page - 1) \div h.page) * h.page

InSubsegment == part = "vs" /\ ~thrown /\ index <= Len(sheap.vs) /\ chunk_at # 0

EnterSubsegment ==
    /\ part = "vs" /\ ~thrown /\ index <= Len(sheap.vs) /\ chunk_at = 0
    /\ thrown' = ~HasPage(sheap, Subsegment.address)
    /\ chunk_at' = FirstChunk(sheap, Subsegment)
    /\ UNCHANGED <<sheap, part, slots, index, lfh_todo, lfh_block, nodes, found>>

ChunkAt(h, address) ==
    IF address \in DOMAIN h.chunk THEN h.chunk[address]
    ELSE [size |-> 1, allocated |-> FALSE, unused |-> FALSE]

(* heap_vs_entry::user_requested_size.  padding is what the constructor    *)
(* has found out.                                                          *)
ChunkRequested(h, c, address, size, padding) ==
    LET room == size - padding
        unused == IF c.unused /\ c.allocated THEN ExtraUnused(h, address, size) ELSE 0 IN
    IF Below(room, unused) THEN room ELSE room - unused

(* front_padding_size_ is initialised before size_, which get_front_-      *)
(* padding_size() looks at: whether the block is large enough for a        *)
(* padding is decided on whatever lies in memory at that place.            *)
ChunkPaddings(h, address) == {FrontPaddingOf(h, PadSizes(h.target), address, s) : s \in {0, 64}}

ChunkBlock(h, at, padding) ==
    LET c == ChunkAt(h, at)
        address == at + HeaderLength(h.target)
        size == c.size * Unit(h.target) - HeaderLength(h.target)
    IN
    SegmentBlock("segment_entry", address, size, padding, ChunkRequested(h, c, address, size, padding),
                 IF c.allocated THEN "allocated" ELSE "free")

(* The walk goes on by the size of the chunk, be it 0.                     *)
VisitChunk ==
    /\ InSubsegment
    /\ chunk_at < SubsegmentEnd(sheap, Subsegment)
    /\ HasPage(sheap, chunk_at)
    /\ \E padding \in ChunkPaddings(sheap, chunk_at + HeaderLength(sheap.target)) :
          Report({ChunkBlock(sheap, chunk_at, padding)})
    /\ chunk_at' = chunk_at + ChunkAt(sheap, chunk_at).size * Unit(sheap.target)
    /\ UNCHANGED <<sheap, part, slots, index, lfh_todo, lfh_block, nodes, thrown>>

NextSubsegment ==
    /\ index' = index + 1
    /\ chunk_at' = 0

(* The rest of the subsegment becomes one uncommitted range.               *)
LostRest(h, s, at) ==
    LET address == at + HeaderLength(h.target)
        size == SubsegmentEnd(h, s) - address IN
    SegmentBlock("segment_entry", address, size, 0, size, "free")

VisitLostChunk ==
    /\ InSubsegment
    /\ chunk_at < SubsegmentEnd(sheap, Subsegment)
    /\ ~HasPage(sheap, chunk_at)
    /\ Report({LostRest(sheap, Subsegment, chunk_at)})
    /\ NextSubsegment
    /\ UNCHANGED <<sheap, part, slots, lfh_todo, lfh_block, nodes, thrown>>

EndSubsegment ==
    /\ InSubsegment
    /\ chunk_at >= SubsegmentEnd(sheap, Subsegment)
    /\ NextSubsegment
    /\ UNCHANGED <<sheap, part, slots, lfh_todo, lfh_block, nodes, found, thrown>>

EndSubsegments ==
    /\ part = "vs" /\ ~thrown /\ index > Len(sheap.vs)
    /\ part' = "lfh"
    /\ index' = 1
    /\ UNCHANGED <<sheap, chunk_at, slots, lfh_todo, lfh_block, nodes, found, thrown>>

-------------------------------------------------------------------------------
(* heap_lfh_context::active_buckets.  A pointer that is not in the dump     *)
(* throws, and so does an enabled bucket that is not.                      *)
BucketThrows(h, bucket) == ~HasPage(h, bucket.pointer) \/ (bucket.enabled /\ ~HasPage(h, bucket.address))

TakeBucket ==
    /\ part = "lfh" /\ ~thrown /\ slots = <<>> /\ lfh_todo = <<>> /\ index <= Len(sheap.buckets)
    /\ LET bucket == sheap.buckets[index] IN
       /\ thrown' = BucketThrows(sheap, bucket)
       /\ slots' = IF thrown' \/ ~bucket.enabled THEN <<>> ELSE bucket.slots
    /\ index' = index + 1
    /\ UNCHANGED <<sheap, part, chunk_at, lfh_todo, lfh_block, nodes, found>>

(* Before the first block mask is 0, here bit 32.                          *)
FirstLfhBlock == [index |-> 0, bit |-> 32, data |-> {}, word |-> 0]

(* heap_lfh_bucket::affinity_slots and heap_lfh_affinity_slot::subsegments:*)
(* a slot whose pointer is not in the dump is left out, one that itself is *)
(* not in the dump throws.                                                 *)
TakeSlot ==
    /\ part = "lfh" /\ ~thrown /\ slots # <<>> /\ lfh_todo = <<>>
    /\ LET slot == Head(slots) IN
       /\ thrown' = (HasPage(sheap, slot.pointer) /\ ~HasPage(sheap, slot.address))
       /\ lfh_todo' = IF HasPage(sheap, slot.pointer) /\ ~thrown' THEN slot.available \o slot.full ELSE <<>>
    /\ slots' = Tail(slots)
    /\ lfh_block' = FirstLfhBlock
    /\ UNCHANGED <<sheap, part, index, chunk_at, nodes, found>>

InLfh == part = "lfh" /\ ~thrown /\ lfh_todo # <<>>

(* The address of the next word of the bitmap.                             *)
WordAddress(s) == s.bitmap + 4 * lfh_block.word

NeedsWord == lfh_block.bit = 32

LfhHeaderLost(s) == ~HasPage(sheap, s.address)

LfhBlock(h, s, n, allocated, has_unused) ==
    LET address == s.address + s.first + n * s.size
        padding == FrontPaddingOf(h, PadSizes(h.target), address, s.size)
        unused == IF has_unused /\ allocated THEN ExtraUnused(h, address, s.size) ELSE 0 IN
    SegmentBlock("segment_lfh_entry", address, s.size, padding, s.size - unused - padding,
                 IF allocated THEN "allocated" ELSE "free")

(* heap_lfh_subsegment::entries: two bits of the bitmap for a block, and   *)
(* the next word of it when the mask has left the last.                    *)
VisitLfhBlock ==
    /\ InLfh
    /\ LET s == Head(lfh_todo)
           word == IF NeedsWord THEN lfh_block.word + 1 ELSE lfh_block.word
           data == IF NeedsWord THEN s.bits[word] ELSE lfh_block.data
           bit == IF NeedsWord THEN 0 ELSE lfh_block.bit IN
       /\ lfh_block.index < s.count
       /\ ~LfhHeaderLost(s)
       /\ NeedsWord => HasPage(sheap, WordAddress(s))
       /\ Report({LfhBlock(sheap, s, lfh_block.index, bit \in data, bit + 1 \in data)})
       /\ lfh_block' = [index |-> lfh_block.index + 1, bit |-> bit + 2, data |-> data, word |-> word]
    /\ UNCHANGED <<sheap, part, index, chunk_at, slots, lfh_todo, nodes, thrown>>

(* All blocks were read, or a word of the bitmap is not in the dump.       *)
EndLfhSubsegment ==
    /\ InLfh
    /\ LET s == Head(lfh_todo) IN
       /\ LfhHeaderLost(s) \/ lfh_block.index = s.count \/ (NeedsWord /\ ~HasPage(sheap, WordAddress(s)))
       /\ thrown' = LfhHeaderLost(s)
    /\ lfh_todo' = Tail(lfh_todo)
    /\ lfh_block' = FirstLfhBlock
    /\ UNCHANGED <<sheap, part, index, chunk_at, slots, nodes, found>>

EndBuckets ==
    /\ part = "lfh" /\ ~thrown /\ slots = <<>> /\ lfh_todo = <<>> /\ index > Len(sheap.buckets)
    /\ part' = "large"
    /\ nodes' = IF sheap.root = 0 THEN <<>> ELSE <<sheap.root>>
    /\ UNCHANGED <<sheap, index, chunk_at, slots, lfh_todo, lfh_block, found, thrown>>

-------------------------------------------------------------------------------
(* large_alloc_entry: the address has the count of unused bytes in its low *)
(* bits.                                                                   *)
LargeBlock(h, a) ==
    LET address == a.virtual - a.unused
        size == a.pages * h.page
        padding == FrontPaddingOf(h, LargePadSizes(h.target), address, size) IN
    SegmentBlock("segment_large_entry", address, size, padding, size - a.unused - padding, "allocated")

Link(n) == IF n = 0 THEN <<>> ELSE <<n>>

Children(a) == Link(a.right) \o Link(a.left)

VisitLarge ==
    /\ part = "large" /\ ~thrown /\ nodes # <<>>
    /\ LET node == nodes[Len(nodes)]
           rest == SubSeq(nodes, 1, Len(nodes) - 1) IN
       IF HasPage(sheap, node)
       THEN /\ Report({LargeBlock(sheap, sheap.large[node])})
            /\ nodes' = rest \o Children(sheap.large[node])
            /\ UNCHANGED thrown
       ELSE /\ thrown' = TRUE
            /\ UNCHANGED <<found, nodes>>
    /\ UNCHANGED <<sheap, part, index, chunk_at, slots, lfh_todo, lfh_block>>

EndLarge ==
    /\ part = "large" /\ ~thrown /\ nodes = <<>>
    /\ part' = "done"
    /\ UNCHANGED <<sheap, index, chunk_at, slots, lfh_todo, lfh_block, nodes, found, thrown>>

-------------------------------------------------------------------------------
SegmentInit(h) ==
    /\ sheap = h
    /\ part = "backend"
    /\ index = 1
    /\ chunk_at = 0
    /\ slots = <<>>
    /\ lfh_todo = <<>>
    /\ lfh_block = FirstLfhBlock
    /\ nodes = <<>>
    /\ found = {}
    /\ thrown = FALSE

SegmentNext ==
    \/ VisitRange \/ EndRanges
    \/ EnterSubsegment \/ VisitChunk \/ VisitLostChunk \/ EndSubsegment \/ EndSubsegments
    \/ TakeBucket \/ TakeSlot \/ VisitLfhBlock \/ EndLfhSubsegment \/ EndBuckets
    \/ VisitLarge \/ EndLarge

SegmentDone == part = "done"

-------------------------------------------------------------------------------
(***************************************************************************)
(* What is really in the heap, apart from what the reader finds.  chunks   *)
(* of a subsegment are the addresses of the headers of its chunks, damaged *)
(* the addresses of headers, and of counts of unused bytes, that were      *)
(* overwritten.                                                            *)
(* blocks is what the program has allocated: [kind, at, first, size,       *)
(* needs, ambiguous, way], where needs are the addresses whose content     *)
(* says how the block is laid out, ambiguous is TRUE if the data of the    *)
(* program begins with a word that could be the size of a padding, or if   *)
(* the block is of variable size and padded, and way are the addresses     *)
(* that have to be readable for the reader to come by the block at all.    *)
(***************************************************************************)
OnTheWay(h, b) == \A a \in b.way : HasPage(h, a) /\ a \notin h.damaged

Known(h, b) == ~b.ambiguous /\ \A a \in b.needs : HasPage(h, a) /\ a \notin h.damaged

Shows(h, s, b) ==
    /\ s.state = "allocated" /\ s.kind = b.kind /\ s.raw.first = b.at
    /\ Known(h, b) => s.first = b.first /\ s.size = b.size

(***************************************************************************)
(* How Windows lays such a heap out, as far as the reader relies on it.    *)
(***************************************************************************)
IsSequence(s) == s \in Seq({s[n] : n \in DOMAIN s})

(* A padding in front of the data has its own size in its first word; of   *)
(* a block without one that begins like a padding nothing is said.         *)
PaddingIsWritten(h, sizes, b, size) ==
    /\ b.at \in Nat /\ b.first \in Nat /\ b.size \in Nat /\ size \in Nat
    /\ b.at <= b.first /\ b.first - b.at + b.size <= size
    /\ IF b.first = b.at
       THEN b.ambiguous \/ ~h.padding \/ (b.at \in DOMAIN h.word => h.word[b.at] \notin sizes)
       ELSE /\ b.first - b.at \in sizes /\ b.at \in b.needs
            /\ h.padding /\ b.at \in DOMAIN h.word /\ h.word[b.at] = b.first - b.at

UnusedOf(b, size) == size - (b.first - b.at) - b.size

(* The count of unused bytes in the last two of them.                      *)
UnusedIsWritten(h, b, size, flagged) ==
    LET place == b.at + size - 2
        unused == UnusedOf(b, size) IN
    /\ unused < 16384
    /\ flagged <=> unused > 0
    /\ unused > 0 =>
          /\ place \in b.needs
          /\ place \notin h.damaged =>
                /\ place \in DOMAIN h.tail /\ h.tail[place] \in Nat
                /\ IF unused = 1 THEN h.tail[place] >= 32768 ELSE h.tail[place] \in {unused, unused + 16384}

RangeIsWritten(h, b, d) ==
    /\ d.block = b.at /\ d.flags = BackendSubsegment
    /\ PaddingIsWritten(h, PadSizes(h.target), b, RangeSize(d))
    /\ d.extra = UnusedOf(b, RangeSize(d)) /\ d.extra < RangeSize(d)

(* A chunk ends where the next one begins, or at the end of its subsegment.*)
IsIntact(h, a) == HasPage(h, a) /\ a \notin h.damaged

AfterChunk(h, p) == p + ChunkAt(h, p).size * Unit(h.target)

SubsegmentIsLaidOut(h, s) ==
    /\ s.address \in Nat /\ SubsegmentEnd(h, s) \in Nat /\ s.chunks \subseteq Nat
    /\ FirstChunk(h, s) \in s.chunks \ {0}
    /\ \A p \in s.chunks :
          /\ FirstChunk(h, s) <= p /\ p < SubsegmentEnd(h, s)
          /\ IsIntact(h, p) =>
                /\ p < AfterChunk(h, p)
                /\ AfterChunk(h, p) \in s.chunks \/ AfterChunk(h, p) >= SubsegmentEnd(h, s)
                /\ \A q \in s.chunks : p < q => AfterChunk(h, p) <= q

ChunkIsWritten(h, b, s, p) ==
    LET size == ChunkAt(h, p).size * Unit(h.target) - HeaderLength(h.target) IN
    /\ b.at = p + HeaderLength(h.target)
    /\ \A a \in s.chunks : a <= p => a \in b.way
    /\ p \notin h.damaged =>
          /\ ChunkAt(h, p).allocated
          /\ b.ambiguous \/ b.first = b.at
          /\ PaddingIsWritten(h, PadSizes(h.target), b, size)
          /\ UnusedIsWritten(h, b, size, ChunkAt(h, p).unused)

SubsegmentsOf(slot) ==
    {slot.available[k] : k \in DOMAIN slot.available} \union {slot.full[k] : k \in DOMAIN slot.full}

(* The bits of a block, and the words that come before and with them.      *)
LfhBlockIsWritten(h, b, slot, s, n) ==
    LET word == s.bits[n \div 16 + 1]
        bit == 2 * (n % 16) IN
    /\ b.at = s.address + s.first + n * s.size
    /\ slot.pointer \in b.way /\ \A k \in 0..(n \div 16) : s.bitmap + 4 * k \in b.way
    /\ bit \in word
    /\ PaddingIsWritten(h, PadSizes(h.target), b, s.size)
    /\ UnusedIsWritten(h, b, s.size, bit + 1 \in word)

Nodes(h) == DOMAIN h.large

ChildrenOf(h, node) == {h.large[node].left, h.large[node].right} \ {0}

(* What can be come to from the root is in every set that has the root and *)
(* the children of what it has.                                            *)
InTree(h, node) ==
    /\ h.root # 0
    /\ \A tree \in SUBSET Nodes(h) :
          h.root \in tree /\ (\A n \in tree : ChildrenOf(h, n) \subseteq tree) => node \in tree

LargeIsWritten(h, b, node) ==
    LET a == h.large[node]
        size == a.pages * h.page IN
    /\ InTree(h, node)
    /\ b.at = a.virtual - a.unused
    /\ PaddingIsWritten(h, LargePadSizes(h.target), b, size)
    /\ a.unused = UnusedOf(b, size)

SegmentBlockIsWritten(h, b) ==
    CASE b.kind = "segment_backend_entry" -> \E j \in DOMAIN h.ranges : RangeIsWritten(h, b, h.ranges[j])
      [] b.kind = "segment_entry" ->
            \E i \in DOMAIN h.vs : \E p \in h.vs[i].chunks : ChunkIsWritten(h, b, h.vs[i], p)
      [] b.kind = "segment_lfh_entry" ->
            \E i \in {m \in DOMAIN h.buckets : h.buckets[m].enabled} : \E j \in DOMAIN h.buckets[i].slots :
            \E s \in SubsegmentsOf(h.buckets[i].slots[j]) : \E n \in 0..(s.count - 1) :
                LfhBlockIsWritten(h, b, h.buckets[i].slots[j], s, n)
      [] b.kind = "segment_large_entry" -> \E node \in Nodes(h) : LargeIsWritten(h, b, node)

(* Where nothing is overwritten all that is written is true: of whatever   *)
(* is in use there is a block of the program, or it holds a subsegment,    *)
(* and in what is not in use there is none.  The blocks in a subsegment    *)
(* are those of its chunks, and of the LFH.                                *)
Outside(b, address, size) == address + size <= b.at \/ b.at + b.size <= address

BlocksOf(h, kind) == {b \in h.blocks : b.kind = kind}

NotInUse(h, address, size) == \A b \in h.blocks : Outside(b, address, size)

ChunkAddress(h, p) == p + HeaderLength(h.target)

ChunkSize(h, p) == ChunkAt(h, p).size * Unit(h.target) - HeaderLength(h.target)

SegmentHeapIsTrue(h) ==
    /\ \A j \in DOMAIN h.ranges : LET d == h.ranges[j] IN
          /\ d.flags = BackendSubsegment =>
                \/ d.block \in h.holders
                \/ \E b \in BlocksOf(h, "segment_backend_entry") : RangeIsWritten(h, b, d)
          /\ d.flags = FreeRange => NotInUse(h, d.block, RangeSize(d))
    /\ \A i \in DOMAIN h.vs : LET s == h.vs[i] IN
          /\ \A p \in s.chunks :
                IF ChunkAt(h, p).allocated
                THEN \/ ChunkAddress(h, p) \in h.holders
                     \/ \E b \in BlocksOf(h, "segment_entry") : ChunkIsWritten(h, b, s, p)
                ELSE NotInUse(h, ChunkAddress(h, p), ChunkSize(h, p))
          /\ \A b \in h.blocks :
                \/ Outside(b, s.address, SubsegmentEnd(h, s) - s.address)
                \/ b.kind = "segment_lfh_entry"
                \/ b.kind = "segment_entry" /\ \E p \in s.chunks : ChunkIsWritten(h, b, s, p)
    /\ \A i \in {m \in DOMAIN h.buckets : h.buckets[m].enabled} : \A j \in DOMAIN h.buckets[i].slots :
       \A s \in SubsegmentsOf(h.buckets[i].slots[j]) : \A n \in 0..(s.count - 1) :
          LET at == s.address + s.first + n * s.size IN
          IF 2 * (n % 16) \in s.bits[n \div 16 + 1]
          THEN \E b \in BlocksOf(h, "segment_lfh_entry") : LfhBlockIsWritten(h, b, h.buckets[i].slots[j], s, n)
          ELSE NotInUse(h, at, s.size)
    /\ \A node \in Nodes(h) : InTree(h, node) =>
          \E b \in BlocksOf(h, "segment_large_entry") : LargeIsWritten(h, b, node)

SegmentHeapIsLaidOut(h) ==
    /\ IsSequence(h.ranges) /\ IsSequence(h.vs) /\ IsSequence(h.buckets)
    /\ \A i \in DOMAIN h.buckets :
          /\ IsSequence(h.buckets[i].slots)
          /\ \A j \in DOMAIN h.buckets[i].slots : LET slot == h.buckets[i].slots[j] IN
                /\ IsSequence(slot.available) /\ IsSequence(slot.full)
                /\ \A s \in SubsegmentsOf(slot) : s.count \in Nat /\ s.bitmap \in Nat
    /\ \A i \in DOMAIN h.vs : SubsegmentIsLaidOut(h, h.vs[i])
    /\ \A a \in DOMAIN h.chunk : h.chunk[a].size \in Nat
    /\ h.root \in Nodes(h) \union {0} /\ \A n \in Nodes(h) : ChildrenOf(h, n) \subseteq Nodes(h)
    /\ \A b \in h.blocks :
          /\ b.kind \in {"segment_backend_entry", "segment_entry", "segment_lfh_entry", "segment_large_entry"}
          /\ SegmentBlockIsWritten(h, b)
    /\ h.damaged = {} => SegmentHeapIsTrue(h)

(* If the reader comes to its end every block it could get to is reported, *)
(* and reported as the program knows it where the dump has what says so: a *)
(* lost page hides the rest of one subsegment and of no other.             *)
SegmentBlocksShown ==
    SegmentDone => \A b \in sheap.blocks : OnTheWay(sheap, b) => \E s \in found : Shows(sheap, s, b)

(* What a reported block says is so: an allocated one is a block of the   *)
(* program or a chunk that holds a subsegment, and a free one has no byte  *)
(* in common with a block of the program that the reader can get to.  The  *)
(* rest of a subsegment behind a lost header is the exception: it passes   *)
(* for free with the LFH blocks in its chunks.                             *)
IsReal(h, s) ==
    IF s.state = "allocated"
    THEN s.raw.first \in h.holders \/ \E b \in h.blocks : Shows(h, s, b)
    ELSE \A b \in h.blocks :
             \/ ~OnTheWay(h, b)
             \/ Outside(b, s.raw.first, s.raw.size)
             \/ /\ b.kind = "segment_lfh_entry" /\ s.kind = "segment_entry"
                /\ ~HasPage(h, s.raw.first - HeaderLength(h.target))

(* In a heap that is not damaged every block that is reported is real.     *)
SegmentShownReal == SegmentDone /\ sheap.damaged = {} => \A s \in found : IsReal(sheap, s)
===============================================================================
