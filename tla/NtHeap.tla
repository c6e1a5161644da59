-------------------------------- MODULE NtHeap --------------------------------
(***************************************************************************)
(* How the blocks of an NT heap are read from a dump: the walk over the    *)
(* entries of its segments (heap_segment), the subsegments of the low      *)
(* fragmentation heap (lfh_heap, lfh_segment, heap_subsegment), and the    *)
(* blocks with memory of their own (heap_virtual_block).                   *)
(*                                                                         *)
(* The LFH is read zone by zone.  For each zone all segments are walked    *)
(* first, since a record of the zone counts as a subsegment only if its    *)
(* entries begin in an internal entry of a segment.  What comes out are    *)
(* the blocks that module AllEntries takes as its input.                   *)
(*                                                                         *)
(* A heap is a record                                                      *)
(*   target, address, ust    of the process; ust is the database of stack  *)
(*                           traces, without the debug page heap           *)
(*   lfh                     the LFH is the front end, and its address is  *)
(*                           known                                         *)
(*   encoded, offset         the type of the user data header has the      *)
(*                           field EncodedOffsets, FirstAllocationOffset   *)
(*   key, zone_size          lfh_key() is known; size of a zone's header   *)
(*   memory                  the granules that are in the dump             *)
(*   header, data            the decoded headers by address, and how the   *)
(*                           data of a block looks if taken for a header;  *)
(*                           the fields are size (in granules), flags,     *)
(*                           lfh, raw, eod, ust, gap, ust_raw              *)
(*   segments                a sequence of [first, last, ucr], ucr the     *)
(*                           list of [address, size] of its uncommitted    *)
(*                           ranges                                        *)
(*   zones                   a sequence of sequences of records [lost,     *)
(*                           block_size, block_count, user_blocks, offset, *)
(*                           stride]                                       *)
(*   frees                   the addresses of the entries of its free list *)
(*   virtuals                a set of [entry, data, committed, reserved,   *)
(*                           unused]                                       *)
(* and, for the properties, blocks: what is really there.                  *)
(***************************************************************************)
EXTENDS HeapEntry, HeapRanges, Sequences, FiniteSets

VARIABLES
    heap,       \* the heap that is read
    stage,      \* "gather", "segment", "virtual"
    zone,       \* the zone the segments are gathered for
    seg, at,    \* the segment that is walked and the address of the next entry
    seen,       \* all_heap_entries of build_subsegments
    todo,       \* the records of the zone not yet looked at
    lfh_data,   \* first addresses of the subsegments that were read
    out,        \* the blocks that were reported
    failed      \* an exception left the reader

vars == <<heap, stage, zone, seg, at, seen, todo, lfh_data, out, failed>>

-------------------------------------------------------------------------------
(* A stream at the address delivers a whole granule.                       *)
Readable(h, address) == address \in h.memory

HeaderAt(h, address) == IF address \in DOMAIN h.header THEN h.header[address] ELSE h.data

FlagBusy == "busy"
FlagVirtualAlloc == "virtual"

IsBusy(h, header) ==
    IF header.lfh
    THEN IF h.ust THEN header.raw = 66 ELSE header.raw # 0
    ELSE FlagBusy \in header.flags

Granule(h, address) == (address \div Length(h.target)) * Length(h.target)

PointerSize(target) == Length(target) \div 2

(* The constructors that read a header; an LFH entry is told its size.     *)
(* The block of the heap itself has no user data.  The stack trace header  *)
(* is searched two granules behind the header, and the word at the end of  *)
(* the data area may be in the granule of the next header.                 *)
EntryAt(h, address, size) ==
    LET header == HeaderAt(h, address)
        e == [target |-> h.target, address |-> address, size |-> size,
              in_use |-> IsBusy(h, header) /\ address # h.address,
              raw |-> header.raw, eod |-> None,
              ust |-> /\ h.ust /\ address # h.address /\ header.ust
                      /\ Readable(h, address + 2 * Length(h.target)),
              gap |-> header.gap, ust_raw |-> header.ust_raw]
        word == UserAddress(e) + DataArea(e) - PointerSize(h.target)
    IN
    IF Readable(h, Granule(h, word)) THEN [e EXCEPT !.eod = header.eod] ELSE e

SegmentEntry(h, address) ==
    EntryAt(h, address, HeaderAt(h, address).size * Length(h.target))

Block(kind, e, state, internal) ==
    [kind |-> kind, first |-> UserAddress(e), size |-> Requested(e),
     raw |-> [first |-> e.address, size |-> e.size],
     state |-> state, internal |-> internal]

EntryBlock(h, kind, e) ==
    LET header == HeaderAt(h, e.address) IN
    Block(kind, e, IF IsBusy(h, header) THEN "allocated" ELSE "free",
          {FlagBusy, FlagVirtualAlloc} \subseteq header.flags)

(* The constructors that are only told a size: an uncommitted range, or    *)
(* the rest of a segment that cannot be read.                              *)
NoEntry(kind, address, size) ==
    [kind |-> kind, first |-> 0, size |-> 0,
     raw |-> [first |-> address, size |-> size], state |-> "free", internal |-> FALSE]

-------------------------------------------------------------------------------
Walking == ~failed /\ stage \in {"gather", "segment"} /\ seg <= Len(heap.segments)

Segment == heap.segments[seg]

(* is_uncommitted_range: the map has the first range of the list that      *)
(* begins at an address, and is asked for exactly that address.            *)
UncommittedAt(s, address) ==
    {s.ucr[i] : i \in {j \in 1..Len(s.ucr) :
        s.ucr[j].address = address /\ \A k \in 1..(j - 1) : s.ucr[k].address # address}}

Yield(blocks) ==
    /\ seen' = IF stage = "gather" THEN seen \union blocks ELSE seen
    /\ out' = IF stage = "segment" THEN out \union blocks ELSE out

StartOf(h, n) == IF n <= Len(h.segments) THEN h.segments[n].first ELSE 0

NextSegment ==
    /\ seg' = seg + 1
    /\ at' = StartOf(heap, seg + 1)

VisitUncommitted ==
    /\ Walking
    /\ at < Segment.last
    /\ \E r \in UncommittedAt(Segment, at) :
        /\ Yield({NoEntry("nt_heap_segment_entry", r.address, r.size)})
        /\ at' = at + r.size
    /\ UNCHANGED <<heap, stage, zone, seg, todo, lfh_data, failed>>

(* Slip for VisitUnreadable: the loop is not left.                         *)
SlipVisitUnreadable ==
    /\ Walking
    /\ at < Segment.last
    /\ UncommittedAt(Segment, at) = {}
    /\ ~Readable(heap, at)
    /\ Yield({NoEntry("nt_heap_segment_entry", at, Segment.last - at)})
    /\ UNCHANGED <<heap, stage, zone, seg, at, todo, lfh_data, failed>>

(* The rest of the segment becomes one range, and nothing that follows in  *)
(* the segment is looked at.                                               *)
VisitUnreadable ==
    /\ Walking
    /\ at < Segment.last
    /\ UncommittedAt(Segment, at) = {}
    /\ ~Readable(heap, at)
    /\ Yield({NoEntry("nt_heap_segment_entry", at, Segment.last - at)})
    /\ NextSegment
    /\ UNCHANGED <<heap, stage, zone, todo, lfh_data, failed>>

VisitEntry ==
    /\ Walking
    /\ at < Segment.last
    /\ UncommittedAt(Segment, at) = {}
    /\ Readable(heap, at)
    /\ \E e \in {SegmentEntry(heap, at)} :
       IF Constructed(e)
       THEN /\ Yield({EntryBlock(heap, "nt_heap_segment_entry", e)})
            /\ at' = at + e.size
            /\ UNCHANGED failed
       ELSE /\ failed' = TRUE
            /\ UNCHANGED <<seen, out, at>>
    /\ UNCHANGED <<heap, stage, zone, seg, todo, lfh_data>>

(* An uncommitted range at the end of the segment is an entry as well.     *)
EndSegment ==
    /\ Walking
    /\ at >= Segment.last
    /\ Yield({NoEntry("nt_heap_segment_entry", r.address, r.size) :
                 r \in IF at = Segment.last THEN UncommittedAt(Segment, at) ELSE {}})
    /\ NextSegment
    /\ UNCHANGED <<heap, stage, zone, todo, lfh_data, failed>>

-------------------------------------------------------------------------------
(* heap_subsegment::get_entry_data: where the entries begin, 0 if nowhere, *)
(* and how far apart they are.  The type says in which of three ways it is *)
(* found out; the first falls back to the others if the header of the user *)
(* blocks is not in the dump.                                              *)
Encoded(h, r) == h.encoded /\ Readable(h, r.user_blocks)

EntryStart(h, r) ==
    IF r.block_size = 0 \/ r.user_blocks = 0 THEN 0
    ELSE r.user_blocks + (IF Encoded(h, r) \/ h.offset THEN r.offset ELSE h.zone_size)

Stride(h, r) == IF Encoded(h, r) THEN r.stride ELSE r.block_size * Length(h.target)

EntryDataThrows(h, r) ==
    /\ r.block_size # 0 /\ r.user_blocks # 0
    /\ IF Encoded(h, r) THEN ~h.key ELSE h.offset /\ ~Readable(h, r.user_blocks)

(* heap_subsegment::entries: the headers that are read, up to one that is  *)
(* not in the dump.                                                        *)
LfhAddress(h, r, i) == EntryStart(h, r) + i * Stride(h, r)

LfhEntriesRead(h, r) ==
    {EntryAt(h, LfhAddress(h, r, i), r.block_size * Length(h.target)) :
        i \in {j \in 0..(r.block_count - 1) : \A k \in 0..j : Readable(h, LfhAddress(h, r, k))}}

LfhBlocks(h, r) ==
    {EntryBlock(h, "nt_heap_lfh_entry", e) :
        e \in {f \in LfhEntriesRead(h, r) : HeaderAt(h, f.address).lfh}}

(* Slip for IsSubsegment: records are kept wherever their entries begin.   *)
SlipIsSubsegment(h, r, entries) == EntryStart(h, r) # 0 /\ LfhBlocks(h, r) # {}

(* The records build_subsegments keeps, given the entries of the segments. *)
IsSubsegment(h, r, entries) ==
    /\ EntryStart(h, r) # 0
    /\ \E b \in entries : HoldsSubsegment(b, {EntryStart(h, r)})
    /\ LfhBlocks(h, r) # {}

(* The entries of a subsegment are constructed in has_any_entries, and all *)
(* of them when they are reported.                                         *)
LfhThrows(h, r, entries) ==
    /\ EntryStart(h, r) # 0
    /\ \E b \in entries : HoldsSubsegment(b, {EntryStart(h, r)})
    /\ \E e \in LfhEntriesRead(h, r) : ~Constructed(e)

Gathered == ~failed /\ stage = "gather" /\ seg > Len(heap.segments)

(* A turn of the loop of build_subsegments, and of the loop over what it   *)
(* has kept.  A record that is not in the dump ends the zone.              *)
TakeRecord ==
    /\ Gathered
    /\ todo # <<>>
    /\ LET r == Head(todo) IN
       IF r.lost
       THEN /\ todo' = <<>>
            /\ UNCHANGED <<lfh_data, out, failed>>
       ELSE /\ todo' = Tail(todo)
            /\ failed' = (EntryDataThrows(heap, r) \/ LfhThrows(heap, r, seen))
            /\ IF ~failed' /\ IsSubsegment(heap, r, seen)
               THEN /\ lfh_data' = lfh_data \union {EntryStart(heap, r)}
                    /\ out' = out \union LfhBlocks(heap, r)
               ELSE UNCHANGED <<lfh_data, out>>
    /\ UNCHANGED <<heap, stage, zone, seg, at, seen>>

(* The next zone, with a walk of its own over the segments; after the last *)
(* one the segments are walked to report their entries.                    *)
NextZone ==
    /\ Gathered
    /\ todo = <<>>
    /\ zone' = zone + 1
    /\ stage' = IF zone < Len(heap.zones) THEN "gather" ELSE "segment"
    /\ todo' = IF zone < Len(heap.zones) THEN heap.zones[zone + 1] ELSE <<>>
    /\ seen' = {}
    /\ seg' = 1
    /\ at' = StartOf(heap, 1)
    /\ UNCHANGED <<heap, lfh_data, out, failed>>

-------------------------------------------------------------------------------
(* heap_virtual_block::entries.  The entry is told its size and its unused *)
(* bytes, which are where the header of another block has its size.        *)
VirtualEntry(h, v) ==
    [EntryAt(h, v.entry, v.committed) EXCEPT !.raw = 0,
        !.in_use = FlagBusy \in HeaderAt(h, v.entry).flags /\ v.entry # h.address]

VirtualBlock(h, v) ==
    [Block("nt_heap_virtual_entry", VirtualEntry(h, v),
           IF FlagBusy \in HeaderAt(h, v.entry).flags THEN "allocated" ELSE "free",
           {FlagBusy, FlagVirtualAlloc} \subseteq HeaderAt(h, v.entry).flags)
        EXCEPT !.size = v.committed - v.unused]

(* Its first entry, if it has committed memory: the range up to the end of *)
(* that memory if the header cannot be read or cannot be true.             *)
VirtualFirst(h, v) ==
    IF v.committed = 0 THEN {}
    ELSE IF ~Readable(h, v.entry) \/ v.unused > v.committed
    THEN {NoEntry("nt_heap_virtual_entry", v.entry, v.data + v.committed - v.entry)}
    ELSE {VirtualBlock(h, v)}

(* What is reserved beyond the committed memory.                           *)
VirtualRest(v) ==
    IF v.reserved > v.committed
    THEN {NoEntry("nt_heap_virtual_entry", v.data + v.committed, v.reserved - v.committed)}
    ELSE {}

VirtualThrows(h, v) ==
    /\ v.committed > 0
    /\ Readable(h, v.entry)
    /\ v.unused <= v.committed
    /\ LET b == VirtualBlock(h, v) IN
       b.first + b.size > b.raw.first + b.raw.size + Private(h.target)

EndWalk ==
    /\ ~failed
    /\ stage = "segment"
    /\ seg > Len(heap.segments)
    /\ stage' = "virtual"
    /\ failed' = \E v \in heap.virtuals : VirtualThrows(heap, v)
    /\ out' = IF failed' THEN out
              ELSE out \union UNION {VirtualFirst(heap, v) \union VirtualRest(v) : v \in heap.virtuals}
    /\ UNCHANGED <<heap, zone, seg, at, seen, todo, lfh_data>>

-------------------------------------------------------------------------------
Init(h) ==
    /\ heap = h
    /\ zone = 1
    /\ stage = IF heap.lfh /\ Len(heap.zones) > 0 THEN "gather" ELSE "segment"
    /\ todo = IF heap.lfh /\ Len(heap.zones) > 0 THEN heap.zones[1] ELSE <<>>
    /\ seg = 1
    /\ at = StartOf(heap, 1)
    /\ seen = {}
    /\ lfh_data = {}
    /\ out = {}
    /\ failed = FALSE

Next ==
    \/ VisitUncommitted \/ VisitUnreadable \/ VisitEntry \/ EndSegment
    \/ TakeRecord \/ NextZone
    \/ EndWalk

Done == ~failed /\ stage = "virtual"

-------------------------------------------------------------------------------
(***************************************************************************)
(* What is really in the heap, apart from what the walk finds:             *)
(*   segments[i].entries   where the headers of its entries are            *)
(*   damaged               those of them that were overwritten             *)
(*   blocks                the allocations of the program, each with kind, *)
(*                         at (its header), first, size, needs (the        *)
(*                         granules its header refers to) and, in the LFH, *)
(*                         zone, record and index                          *)
(***************************************************************************)
Intact(h, address) == Readable(h, address) /\ address \notin h.damaged

(* No header on the way to address is missing or damaged.                  *)
WayTo(h, address) ==
    \E i \in DOMAIN h.segments :
        /\ address \in h.segments[i].entries
        /\ \A a \in h.segments[i].entries : a <= address => Intact(h, a)

(* The entry whose memory the LFH block lies in.                           *)
Holder(h, b) ==
    LET before == {a \in UNION {h.segments[i].entries : i \in DOMAIN h.segments} : a < b.at} IN
    CHOOSE a \in before : \A c \in before : c <= a

Reachable(h, b) ==
    CASE b.kind = "nt_heap_segment_entry" -> WayTo(h, b.at)
      [] b.kind = "nt_heap_virtual_entry" -> Intact(h, b.at)
      [] b.kind = "nt_heap_lfh_entry" ->
            LET r == h.zones[b.zone][b.record] IN
            /\ WayTo(h, Holder(h, b))
            /\ \A j \in 1..b.record : ~h.zones[b.zone][j].lost
            /\ h.encoded => Readable(h, r.user_blocks)
            /\ \A k \in 0..b.index : Intact(h, r.user_blocks + r.offset + k * r.stride)

(***************************************************************************)
(* How Windows lays a heap out, as far as the reader relies on it.  What a *)
(* damaged header says is left open.                                       *)
(***************************************************************************)
IsList(s) == Len(s) \in Nat /\ DOMAIN s = 1..Len(s)

(* An entry, or an uncommitted range, ends where the next one begins, or   *)
(* at the end of its segment.                                              *)
Places(s) == s.entries \union {s.ucr[i].address : i \in DOMAIN s.ucr}

Follows(s, place, next) ==
    /\ place < next /\ (next \in Places(s) \/ next >= s.last)
    /\ \A p \in Places(s) : place < p => next <= p

SegmentIsLaidOut(h, s) ==
    /\ s.last \in Nat /\ Places(s) \subseteq Nat /\ IsList(s.ucr)
    /\ s.first \in Places(s) /\ \A p \in Places(s) : s.first <= p
    /\ \A a \in s.entries :
          a < s.last /\ (Intact(h, a) => Follows(s, a, a + HeaderAt(h, a).size * Length(h.target)))
    /\ \A i \in DOMAIN s.ucr :
          /\ s.ucr[i].size \in Nat /\ s.ucr[i].address \notin s.entries
          /\ \A j \in DOMAIN s.ucr : s.ucr[i].address = s.ucr[j].address => i = j
          /\ Follows(s, s.ucr[i].address, s.ucr[i].address + s.ucr[i].size)

(* The header of a block as the allocator writes it, with all that says    *)
(* how large the block is.                                                 *)
HasTraceHeader(h, a) == h.ust /\ HeaderAt(h, a).ust

WrittenAt(h, a, size) ==
    LET header == HeaderAt(h, a) IN
    [target |-> h.target, address |-> a, size |-> size, in_use |-> TRUE, raw |-> header.raw, eod |-> header.eod,
     ust |-> HasTraceHeader(h, a), gap |-> header.gap, ust_raw |-> header.ust_raw]

UserBegin(h, a) == a + (IF HasTraceHeader(h, a) THEN UstHeaderSize(h.target) ELSE Length(h.target))

IsPlain(h, b) ==
    LET header == HeaderAt(h, b.at) IN
    IsBusy(h, header) /\ ~({FlagBusy, FlagVirtualAlloc} \subseteq header.flags)

BlockIsWritten(h, b, size) ==
    LET e == WrittenAt(h, b.at, size) IN
    /\ e \in Entries /\ e.size >= 2 * Length(h.target)
    /\ b.size \in Nat /\ WrittenFor(e, b.size) /\ b.first = UserBegin(h, b.at)
    /\ ~HasTraceHeader(h, b.at) /\ e.size - b.size >= 63 =>
          Granule(h, b.at + e.size + Private(h.target) - PointerSize(h.target)) \in b.needs

(* A subsegment of the LFH lies in an internal entry, behind its header.   *)
LiesInSubsegment(h, b) ==
    LET r == h.zones[b.zone][b.record]
        holder == Holder(h, b)
        start == r.user_blocks + r.offset IN
    /\ h.lfh /\ b.zone \in DOMAIN h.zones /\ b.record \in DOMAIN h.zones[b.zone]
    /\ r.block_size \in Nat \ {0} /\ r.user_blocks \in Nat \ {0} /\ r.offset \in Nat /\ r.stride \in Nat
    /\ r.block_count \in Nat /\ b.index \in 0..(r.block_count - 1) /\ b.at = start + b.index * r.stride
    /\ ~h.encoded => r.stride = r.block_size * Length(h.target) /\ (~h.offset => r.offset = h.zone_size)
    /\ holder \notin h.damaged =>
          /\ {FlagBusy, FlagVirtualAlloc} \subseteq HeaderAt(h, holder).flags
          /\ holder < start /\ start < holder + HeaderAt(h, holder).size * Length(h.target)

(* No record of the LFH ever was of memory that is now a virtual block.    *)
VirtualIsWritten(h, b, v) ==
    /\ v.entry = b.at /\ v.committed \in Nat \ {0} /\ v.unused \in Nat /\ v.unused <= v.committed
    /\ FlagBusy \in HeaderAt(h, b.at).flags
    /\ b.first = UserBegin(h, b.at) /\ b.size = v.committed - v.unused
    /\ \A z \in DOMAIN h.zones : \A j \in DOMAIN h.zones[z] :
          LET start == EntryStart(h, h.zones[z][j]) IN ~(start > b.at /\ start < b.at + v.committed)

BlockIsLaidOut(h, b) ==
    LET header == HeaderAt(h, b.at) IN
    /\ HasTraceHeader(h, b.at) => (b.at + 2 * Length(h.target)) \in b.needs
    /\ b.kind = "nt_heap_segment_entry" =>
          IsPlain(h, b) /\ BlockIsWritten(h, b, header.size * Length(h.target))
    /\ b.kind = "nt_heap_lfh_entry" =>
          /\ IsPlain(h, b) /\ header.lfh
          /\ BlockIsWritten(h, b, h.zones[b.zone][b.record].block_size * Length(h.target))
    /\ b.kind = "nt_heap_virtual_entry" => \E v \in h.virtuals : VirtualIsWritten(h, b, v)

(* Where nothing is overwritten all that is written is true: no entry      *)
(* reaches into another one; one in use is the block of the heap, which is *)
(* smaller than any address, or an internal one, or a block; in a          *)
(* subsegment that a record leads to, the entries in use are its blocks,   *)
(* and its header is not missing from the dump where these are not; and a  *)
(* virtual block in use has its memory for itself.                         *)
EntriesOf(h) == UNION {h.segments[i].entries : i \in DOMAIN h.segments}

SizeAt(h, a) == HeaderAt(h, a).size * Length(h.target)

IsInternal(h, a) == {FlagBusy, FlagVirtualAlloc} \subseteq HeaderAt(h, a).flags

LiesIn(h, address, a) == a < address /\ address < a + SizeAt(h, a)

SubsegmentIsTrue(h, z, j, a) ==
    LET r == h.zones[z][j] IN
    \A i \in 0..(r.block_count - 1) : LET p == LfhAddress(h, r, i) IN
        Readable(h, p) /\ HeaderAt(h, p).lfh /\ IsBusy(h, HeaderAt(h, p)) =>
            /\ p + r.block_size * Length(h.target) <= a + SizeAt(h, a)
            /\ h.encoded => Readable(h, r.user_blocks)
            /\ \E b \in h.blocks : b.kind = "nt_heap_lfh_entry" /\ b.zone = z /\ b.record = j /\ b.index = i

NtHeapIsTrue(h) ==
    /\ \A a, c \in EntriesOf(h) : a < c => a + SizeAt(h, a) <= c
    /\ \A a \in EntriesOf(h) :
          /\ SizeAt(h, h.address) <= a
          /\ IsBusy(h, HeaderAt(h, a)) =>
                \/ a = h.address
                \/ IsInternal(h, a)
                \/ \E b \in h.blocks : b.kind = "nt_heap_segment_entry" /\ b.at = a
    /\ \A z \in DOMAIN h.zones : \A j \in DOMAIN h.zones[z] : \A a \in EntriesOf(h) :
          ~h.zones[z][j].lost /\ IsInternal(h, a) /\ LiesIn(h, EntryStart(h, h.zones[z][j]), a) =>
              SubsegmentIsTrue(h, z, j, a)
    /\ \A v \in h.virtuals :
          v.committed # 0 /\ ~(v.unused > v.committed) /\ FlagBusy \in HeaderAt(h, v.entry).flags =>
              /\ \E b \in h.blocks : b.kind = "nt_heap_virtual_entry" /\ VirtualIsWritten(h, b, v)
              /\ \A a \in EntriesOf(h) : v.entry + v.committed <= a \/ a + SizeAt(h, a) <= v.entry

Headers ==
    [size : Nat, flags : SUBSET {FlagBusy, FlagVirtualAlloc}, lfh : BOOLEAN, raw : 0..127, eod : Int,
     ust : BOOLEAN, gap : Nat \union {None}, ust_raw : Nat]

IsLaidOut(h) ==
    /\ h.target \in Targets /\ IsList(h.segments) /\ IsList(h.zones) /\ \A z \in DOMAIN h.zones : IsList(h.zones[z])
    /\ h.ust \in BOOLEAN /\ DOMAIN h.header \subseteq Nat
    /\ \A a \in DOMAIN h.header : h.header[a] \in Headers
    /\ h.data \in Headers
    /\ \A i \in DOMAIN h.segments : SegmentIsLaidOut(h, h.segments[i])
    /\ \A b \in h.blocks :
          /\ b.at \in Nat \ {h.address}
          /\ b.kind \in {"nt_heap_segment_entry", "nt_heap_lfh_entry", "nt_heap_virtual_entry"}
          /\ b.kind = "nt_heap_lfh_entry" => LiesInSubsegment(h, b)
          /\ b.at \notin h.damaged => BlockIsLaidOut(h, b)
    /\ h.damaged = {} => NtHeapIsTrue(h)

(* The blocks that all_entries goes on with.                               *)
Shown == {b \in out : b.state = "allocated" /\ ~HoldsSubsegment(b, lfh_data)}

(* The stack trace header, or the count of unused bytes, of the block is   *)
(* in the dump if it has one.                                              *)
Complete(h, b) == \A a \in b.needs : Readable(h, a)

Agree(h, b, s) ==
    /\ s.kind = b.kind /\ s.raw.first = b.at
    /\ Complete(h, b) => s.first = b.first /\ s.size = b.size

(* Memory that is missing from the dump, or a damaged header, hides the    *)
(* blocks behind it in the same segment or subsegment and no others: all   *)
(* blocks that can be reached are reported, where they are and with the    *)
(* size the program asked for if all that says so is in the dump.          *)
NtBlocksShown ==
    Done => \A b \in heap.blocks : Reachable(heap, b) => \E s \in Shown : Agree(heap, b, s)

(* In a heap that is not damaged nothing is reported that the program did  *)
(* not allocate, whatever the dump is missing and whatever the records of  *)
(* former subsegments point to.  There are two exceptions: the block of    *)
(* the heap itself is reported at address 0, and an internal block if none *)
(* of the blocks in it is.                                                 *)
ShownBlocksAreReal ==
    Done /\ heap.damaged = {} =>
        \A s \in Shown :
            \/ \E b \in heap.blocks : Reachable(heap, b) /\ Agree(heap, b, s)
            \/ s.raw.first = heap.address /\ s.first = 0
            \/ /\ s.internal
               /\ \A b \in Shown : b # s => Apart(b, s)

(* The type of the user data header has its field, and the field is not in *)
(* the dump: the one way an undamaged heap makes the reader throw.         *)
FieldMissing(h) ==
    h.offset /\ \E z \in DOMAIN h.zones : \E j \in DOMAIN h.zones[z] :
        h.zones[z][j].user_blocks # 0 /\ ~Readable(h, h.zones[z][j].user_blocks)
===============================================================================
