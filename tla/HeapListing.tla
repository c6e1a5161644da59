------------------------------ MODULE HeapListing ------------------------------
(***************************************************************************)
(* The listing MiniDumper prints of the heaps (dump_mini_dump_heap,        *)
(* print_nt_heap, print_segment_heap): a line for whatever the readers     *)
(* deliver, when they deliver it, and for a block that is in use the bytes *)
(* of the program in a hex dump, as with --hexdumpmemorydata.              *)
(*                                                                         *)
(* The subsegments of the LFH are read first and kept; each is printed     *)
(* under the internal entry its blocks lie in, and that entry is not       *)
(* dumped as if it were data.  Subsegments that no entry has asked for     *)
(* come last, with a warning.                                              *)
(*                                                                         *)
(* The listing is a sequence of what one entry makes it print: a set of    *)
(* lines [kind, at, size, dump, part], part the subsegment a line is       *)
(* printed for or 0, dump the set of at most one range [first, size] that  *)
(* is dumped; of what else is in a line, headings and totals nothing is    *)
(* kept.  The bytes behind the first that is missing in the dump, or       *)
(* behind the limit of --limitmemoryhexdump, are left out of a hex dump;   *)
(* here they are not told apart.                                           *)
(***************************************************************************)
EXTENDS HeapReaders

VARIABLES
    kept,       \* lfh_data: the records of the subsegments, in order
    printed,    \* those with printed_subsegment, by their index
    warned,     \* "LFH segment(s) not found in any heap allocations!"
    listing,    \* what was printed
    cut         \* an exception of its own has ended the listing

lvars == <<kept, printed, warned, listing, cut>>

listed == <<readers, lvars>>

-------------------------------------------------------------------------------
Line(kind, address, size, dump) ==
    [kind |-> kind, at |-> address, size |-> size, dump |-> dump, part |-> 0]

(* The stream is not at its end.                                           *)
Dump(readable, address, size) ==
    IF readable /\ size # 0 THEN {[first |-> address, size |-> size]} ELSE {}

(* A range of the UnknownSizeType, which is dumped as it is.               *)
IsUnknown(h, b) ==
    /\ b.kind = "nt_heap_virtual_entry"
    /\ \E v \in h.virtuals :
        b.raw.first = v.entry /\ v.committed > 0 /\ v.unused > v.committed /\ Readable(h, v.entry)

NtDump(h, b, contains) ==
    IF IsUnknown(h, b) THEN Dump(TRUE, b.raw.first, b.raw.size)
    ELSE IF b.state = "allocated" /\ b.first # 0 /\ ~(b.internal /\ contains)
    THEN Dump(Readable(h, Granule(h, b.first)), b.first, b.size)
    ELSE {}

(* print_dump_entry.                                                       *)
NtLine(h, b, contains) == Line(b.kind, b.raw.first, b.raw.size, NtDump(h, b, contains))

NtLines(h, blocks) == {NtLine(h, b, FALSE) : b \in blocks}

(* print_lfh_heap_segment of the subsegments with these indexes.           *)
SubsegmentLines(h, indexes) ==
    UNION {{[NtLine(h, b, FALSE) EXCEPT !.part = n] : b \in LfhBlocks(h, kept[n])} : n \in indexes}

Unprinted == DOMAIN kept \ printed

(* is_lfh_subsegment_in_entry.                                             *)
HeldBy(h, b) == {n \in Unprinted : HoldsSubsegment(b, {EntryStart(h, kept[n])})}

-------------------------------------------------------------------------------
(* What the readers have delivered with this step.                         *)
New == out' \ out
NewFound == found' \ found

Put(lines) == listing' = IF lines = {} THEN listing ELSE Append(listing, lines)

(* The subsegments are gathered before anything of a heap is printed.      *)
Keep ==
    /\ kept' = IF /\ Gathered /\ todo # <<>>
                  /\ ~Head(todo).lost /\ ~failed' /\ IsSubsegment(heap, Head(todo), seen)
               THEN Append(kept, Head(todo))
               ELSE kept
    /\ UNCHANGED <<printed, warned, listing, cut>>

(* Slip for PrintSegmentEntry: the subsegments stay unprinted.             *)
SlipPrintSegmentEntry ==
    /\ \E held \in {UNION {HeldBy(heap, b) : b \in New}} :
        Put({NtLine(heap, b, held # {}) : b \in New} \union SubsegmentLines(heap, held))
    /\ UNCHANGED <<kept, printed, warned, cut>>

(* print_heap_segment: an entry and the subsegments in it.                 *)
PrintSegmentEntry ==
    /\ \E held \in {UNION {HeldBy(heap, b) : b \in New}} :
        /\ Put({NtLine(heap, b, held # {}) : b \in New} \union SubsegmentLines(heap, held))
        /\ printed' = printed \union held
    /\ UNCHANGED <<kept, warned, cut>>

(* nt_heap::free_entries.  An entry that is not in the dump is left out,   *)
(* one whose constructor throws is the end of the listing.                 *)
FreeEntries(h) == {SegmentEntry(h, a) : a \in {f \in h.frees : Readable(h, f)}}

FreeListThrows(h) == \E e \in FreeEntries(h) : ~Constructed(e)

FreeLines(h) == NtLines(h, {EntryBlock(h, "free_list_entry", e) : e \in FreeEntries(h)})

(* The end of print_nt_heap: the subsegments that are left, the virtual    *)
(* blocks and the free list.                                               *)
PrintRest ==
    /\ Put(SubsegmentLines(heap, Unprinted)
           \union (IF failed' THEN {} ELSE NtLines(heap, New))
           \union (IF failed' \/ FreeListThrows(heap) THEN {} ELSE FreeLines(heap)))
    /\ warned' = (warned \/ Unprinted # {})
    /\ printed' = DOMAIN kept
    /\ cut' = FreeListThrows(heap)
    /\ UNCHANGED kept

ListNt ==
    /\ ReadNt
    /\ IF cut THEN UNCHANGED lvars
       ELSE CASE stage = "gather" -> Keep
              [] stage = "segment" /\ stage' = "segment" -> PrintSegmentEntry
              [] stage' = "virtual" -> PrintRest

-------------------------------------------------------------------------------
SegmentLine(h, b, used) ==
    Line(b.kind, b.raw.first, b.raw.size,
         IF used THEN Dump(HasPage(h, b.first), b.first, b.size) ELSE {})

(* print_vs_entry: the rest of a subsegment behind a lost header counts as *)
(* uncommitted, and is reported as free.                                   *)
ChunkLine(h, b) == SegmentLine(h, b, b.state = "allocated")

(* print_lfh_entry.                                                        *)
LfhEntryLine(h, b) == SegmentLine(h, b, b.state = "allocated" /\ b.first # 0)

(* print_lfh_context_heap, of whose buckets, slots and subsegments there   *)
(* are only headings.                                                      *)
LfhLines(h, blocks) == {LfhEntryLine(h, b) : b \in blocks}

(* print_heap_large_entry.                                                 *)
LargeLine(h, b) == SegmentLine(h, b, TRUE)

(* print_segment_heap_page_entry: every committed range has a line, though *)
(* only a range with a block in it is dumped.                              *)
RangeLine(h, d) ==
    IF d.flags \in {BackendSubsegment, FreeRange}
    THEN SegmentLine(h, RangeBlock(h, d), d.flags = BackendSubsegment /\ RangeBlock(h, d).first # 0)
    ELSE Line("page_range", d.block, RangeSize(d), {})

(* The free ranges of the segments and the free chunks of the variable     *)
(* size subsegments, which are listed from their trees once more.  A chunk *)
(* that is not in the dump is left out, a range that is not throws.        *)
FreeRangesThrow(h) == \E d \in h.free_ranges : ~HasPage(h, d.address)

FreeRangeLines(h) == {[RangeLine(h, d) EXCEPT !.kind = "free_range"] : d \in h.free_ranges}

FreeChunkLines(h) ==
    {Line("free_chunk", a + HeaderLength(h.target),
          ChunkAt(h, a).size * Unit(h.target) - HeaderLength(h.target), {}) :
        a \in {c \in h.free_chunks : HasPage(h, c)}}

SegmentLines ==
    CASE part = "backend" /\ part' = "backend" ->
            IF thrown' THEN {} ELSE {RangeLine(sheap, sheap.ranges[index])}
      [] part = "backend" /\ part' = "vs" ->
            IF FreeRangesThrow(sheap) THEN {} ELSE FreeRangeLines(sheap)
      [] part = "vs" /\ part' = "lfh" -> FreeChunkLines(sheap)
      [] part = "vs" /\ part' = "vs" -> {ChunkLine(sheap, b) : b \in NewFound}
      [] part = "lfh" -> LfhLines(sheap, NewFound)
      [] part = "large" -> {LargeLine(sheap, b) : b \in NewFound}

ListSegment ==
    /\ ReadSegment
    /\ IF cut THEN UNCHANGED lvars
       ELSE /\ Put(SegmentLines)
            /\ cut' = (part = "backend" /\ part' = "vs" /\ FreeRangesThrow(sheap))
            /\ UNCHANGED <<kept, printed, warned>>

-------------------------------------------------------------------------------
ListingInit ==
    /\ ReadersInit
    /\ kept = <<>> /\ printed = {} /\ warned = FALSE /\ listing = <<>> /\ cut = FALSE

ListingNext == ListNt \/ ListSegment

ListingSpec == ListingInit /\ [][ListingNext]_listed /\ WF_listed(ListingNext)

-------------------------------------------------------------------------------
Finished == Done /\ SegmentDone /\ ~cut

LinesOf(b) ==
    {<<n, l>> \in {<<n, l>> \in (DOMAIN listing) \X UNION {listing[m] : m \in DOMAIN listing} :
                   l \in listing[n]} :
        l.kind = b.kind /\ l.at = b.raw.first}

Inside(l, m) == m.at < l.at /\ l.at < m.at + m.size

(* Whatever is damaged or missing, the listing has each block that the     *)
(* analysis of the heaps reports, and has it once; the blocks of a         *)
(* subsegment stand directly under the entry they lie in, and the warning  *)
(* about subsegments without one is never seen: the two places that decide *)
(* which entry holds a subsegment agree.                                   *)
ListedOnce ==
    Finished =>
        /\ ~warned
        /\ \A b \in out \union found : Cardinality(LinesOf(b)) = 1
        /\ \A n \in DOMAIN listing : \A l \in listing[n] :
            l.part # 0 => \E m \in listing[n] : m.kind = "nt_heap_segment_entry" /\ Inside(l, m)

(* What is dumped of the entries of the NT heap.                           *)
NtDumps ==
    UNION {l.dump : l \in {m \in UNION {listing[n] : n \in DOMAIN listing} :
        m.kind \in {"nt_heap_segment_entry", "nt_heap_lfh_entry", "nt_heap_virtual_entry"}}}

(* In an NT heap that is not damaged the data of each block that can be    *)
(* reached is dumped as the program knows it, and no byte is dumped twice: *)
(* not as part of the entry a subsegment lies in either.                   *)
DumpsTrue ==
    Finished /\ heap.damaged = {} =>
        /\ \A b \in heap.blocks :
            (/\ Reachable(heap, b) /\ Complete(heap, b) /\ b.size > 0
             /\ Readable(heap, Granule(heap, b.first)))
            => [first |-> b.first, size |-> b.size] \in NtDumps
        /\ \A d, e \in NtDumps : d # e => Apart(d, e)

(* The listing has what the analysis reports and the bytes the program     *)
(* has, each once.                                                         *)
ListingRight == ListedOnce /\ DumpsTrue
===============================================================================
