----------------------------- MODULE NtHeapCases ------------------------------
(***************************************************************************)
(* NT heaps for NtHeap.  In granules, a heap of two segments:              *)
(*    4..6    the block of the heap                                        *)
(*    7..15   an internal block with a subsegment of two entries           *)
(*    16..    a block, a free block, an uncommitted range of four,         *)
(*            another block, and an uncommitted range at the end           *)
(*    40..    a block in a segment of its own                              *)
(*    60..    a virtual block                                              *)
(* The user data header is at 8; the LFH entries begin at 9, or at 10 if   *)
(* the offset is encoded.  Memory is lost in pages of four granules.       *)
(***************************************************************************)
EXTENDS NtHeap, TLC

Header(size, flags, lfh, raw) ==
    [size |-> size, flags |-> flags, lfh |-> lfh, raw |-> raw,
     eod |-> 5, ust |-> FALSE, gap |-> None, ust_raw |-> 0]

Least(a, b) == IF a < b THEN a ELSE b

(* What the allocator writes for a request of the program.                 *)
Written(target, ust, size, requested, lfh) ==
    LET unused == size * Length(target) - requested IN
    [Header(size, {FlagBusy}, lfh,
            IF ust THEN (IF lfh THEN 66 ELSE 0) ELSE Least(unused, 63))
        EXCEPT !.eod = IF unused >= 63 THEN unused ELSE 5,
               !.ust = ust,
               !.gap = IF ust THEN unused ELSE None]

Free(size, lfh, ust) == [Header(size, {}, lfh, 0) EXCEPT !.ust = ust, !.gap = IF ust THEN 50 ELSE None]

Plain(size) == Header(size, {FlagBusy}, FALSE, 1)
Internal(size) == Header(size, {FlagBusy, FlagVirtualAlloc}, FALSE, 8)

(* The data of the block at 16 looks like headers of LFH entries.          *)
Data == Header(1, {}, FALSE, 12)
Misleading == [n \in {17, 18} |-> Header(1, {}, TRUE, 12)]

User(target, ust, granule) ==
    granule * Length(target) + (IF ust THEN UstHeaderSize(target) ELSE Length(target))

Record(target, size, count, blocks, offset) ==
    [lost |-> FALSE, block_size |-> size, block_count |-> count,
     user_blocks |-> blocks * Length(target), offset |-> offset * Length(target),
     stride |-> size * Length(target)]

-------------------------------------------------------------------------------
(* c: target, ust, layout of the user data header, arrangement of the      *)
(* zones; the LFH entries, the block at 16 and the one behind the range as *)
(* [size, requested] or free; pages lost; damage as a function from        *)
(* granules to headers.                                                    *)
IsFree(b) == b.requested = None

(* The stack trace header, or else the count if it is not in the header.   *)
Needs(target, ust, granule, b) ==
    LET g == Length(target) IN
    IF ust THEN {(granule + 2) * g}
    ELSE IF b.size * g - b.requested < 63 THEN {}
    ELSE {(granule + b.size - (IF target = "x64" THEN 0 ELSE 1)) * g}

HeaderOf(c, b, lfh) ==
    IF IsFree(b) THEN Free(b.size, lfh, c.ust)
    ELSE Written(c.target, c.ust, b.size, b.requested, lfh)

FirstEntry(c) == IF c.layout = "encoded" THEN 10 ELSE 9

HeapOf(c) ==
    LET g == Length(c.target)
        start == FirstEntry(c)
        stride == c.lfh[1].size
        rest == 16 + c.block.size
        range == rest + 2
        last == range + 4 + c.behind.size
        good == Record(c.target, stride, 2, 8, start - 8)
        stale == Record(c.target, 1, 2, 16, start - 8)
        gone == [good EXCEPT !.lost = TRUE]
        unused == [good EXCEPT !.block_size = 0]
        zones == CASE c.zones = "one" -> <<<<good>>>>
                   [] c.zones = "stale" -> <<<<stale, unused, good>>>>
                   [] c.zones = "two" -> <<<<unused, stale>>, <<good>>>>
                   [] c.zones = "gone" -> <<<<stale, gone>>, <<gone, good>>>>
                   [] c.zones = "off" -> <<>>
        lfhs == c.zones # "off"
        entries == (4 :> Plain(3)) @@ (7 :> Internal(9))
                   @@ (IF lfhs THEN (start :> HeaderOf(c, c.lfh[1], TRUE))
                                    @@ ((start + stride) :> HeaderOf(c, c.lfh[2], TRUE))
                       ELSE <<>>)
                   @@ (16 :> HeaderOf(c, c.block, FALSE)) @@ (rest :> Free(2, FALSE, c.ust))
                   @@ ((range + 4) :> HeaderOf(c, c.behind, FALSE))
                   @@ (40 :> HeaderOf(c, c.behind, FALSE))
                   @@ (60 :> [Header(40, {FlagBusy, FlagVirtualAlloc}, FALSE, 0) EXCEPT !.ust = c.ust])
        memory == (4..(range - 1)) \union ((range + 4)..(last - 1)) \union (40..42) \union (60..64)
        content == c.damage @@ entries @@ Misleading
        lost == {m \in memory : m \div 4 \in c.pages}
        descriptor == 4 * g + UstHeaderSize(c.target) + 10
        At(granule, b, kind, place) ==
            IF IsFree(b) THEN {}
            ELSE {[kind |-> kind, at |-> granule * g, first |-> User(c.target, c.ust, granule),
                   size |-> b.requested, needs |-> Needs(c.target, c.ust, granule, b),
                   zone |-> place[1], record |-> place[2], index |-> place[3]]}
        place == CASE c.zones = "one" -> <<1, 1>>
                   [] c.zones = "stale" -> <<1, 3>>
                   [] OTHER -> <<2, IF c.zones = "two" THEN 1 ELSE 2>>
    IN
    [target |-> c.target, address |-> 4 * g, ust |-> c.ust, lfh |-> lfhs,
     encoded |-> c.layout = "encoded", offset |-> c.layout = "offset",
     key |-> TRUE, zone_size |-> g,
     memory |-> {n * g : n \in memory \ lost},
     header |-> [a \in {n * g : n \in DOMAIN content} |-> content[a \div g]] @@ <<>>,
     data |-> Data,
     segments |->
        <<[first |-> 4 * g, last |-> last * g,
           ucr |-> <<[address |-> last * g, size |-> 3 * g], [address |-> range * g, size |-> 4 * g]>>,
           entries |-> {n * g : n \in {4, 7, 16, rest, range + 4}}],
          [first |-> 40 * g, last |-> (40 + c.behind.size) * g, ucr |-> <<>>, entries |-> {40 * g}]>>,
     zones |-> zones,
     frees |-> {rest * g},
     virtuals |-> {[entry |-> 60 * g, data |-> 61 * g,
                    committed |-> IF c.virtual = "reserved" THEN 0 ELSE 12 * g,
                    reserved |-> IF c.virtual = "full" THEN 12 * g ELSE 14 * g,
                    unused |-> IF c.virtual = "damaged" THEN 13 * g ELSE descriptor]},
     damaged |-> {n * g : n \in DOMAIN c.damage},
     blocks |->
        (IF lfhs THEN At(start, c.lfh[1], "nt_heap_lfh_entry", Append(place, 0))
                      \union At(start + stride, c.lfh[2], "nt_heap_lfh_entry", Append(place, 1))
         ELSE {})
        \union At(16, c.block, "nt_heap_segment_entry", <<0, 0, 0>>)
        \union At(range + 4, c.behind, "nt_heap_segment_entry", <<0, 0, 0>>)
        \union At(40, c.behind, "nt_heap_segment_entry", <<0, 0, 0>>)
        \union (IF c.virtual \in {"reserved", "damaged"} THEN {}
                ELSE {[kind |-> "nt_heap_virtual_entry", at |-> 60 * g,
                       first |-> User(c.target, c.ust, 60), size |-> 12 * g - descriptor,
                       needs |-> IF c.ust THEN {62 * g} ELSE {}, zone |-> 0, record |-> 0, index |-> 0]})]

-------------------------------------------------------------------------------
Of(size, requested) == [size |-> size, requested |-> requested]

Usual ==
    [target |-> "x64", ust |-> FALSE, layout |-> "encoded", zones |-> "stale",
     lfh |-> <<Of(2, 20), Of(2, 3)>>, block |-> Of(3, 30), behind |-> Of(2, 24),
     pages |-> {}, damage |-> <<>>, virtual |-> "usual"]

Small ==
    [Usual EXCEPT !.target = "x86", !.lfh = <<Of(2, 8), Of(2, 3)>>, !.block = Of(3, 16), !.behind = Of(2, 8)]

Traced ==
    [Usual EXCEPT !.ust = TRUE, !.lfh = <<Of(3, 8), Of(3, 1)>>, !.block = Of(4, 24), !.behind = Of(3, 5)]

Zones == {"one", "stale", "two", "gone", "off"}
Layouts == {"encoded", "offset", "neither"}
Pages == {{}} \union {{p, q} : p, q \in {1, 2, 3, 4, 5, 6, 10, 15}}

Virtuals == {"usual", "full", "reserved", "damaged"}

(* Every combination of missing pages.                                     *)
Losses ==
    {[Usual EXCEPT !.layout = l, !.zones = z, !.pages = p] : l \in Layouts, z \in Zones, p \in Pages}
    \union {[Traced EXCEPT !.layout = l, !.pages = p] : l \in Layouts, p \in Pages}
    \union {[Usual EXCEPT !.block = Of(6, 20), !.pages = p] : p \in Pages}
    \union {[Small EXCEPT !.block = Of(10, 16), !.pages = p] : p \in Pages}
    \union {[Usual EXCEPT !.virtual = v, !.pages = p] : v \in Virtuals, p \in Pages}

(* Requests of all sizes: a few unused bytes, many, exactly 16#3F#.        *)
Sizes ==
    {[Usual EXCEPT !.block = b, !.lfh = <<l, m>>, !.layout = "neither", !.virtual = "full"] :
        b \in {Of(2, 0), Of(2, 8), Of(3, 7), Of(3, 40), Of(6, 88), Of(6, 34), Of(6, 33), Of(6, 20), Of(4, None)},
        l \in {Of(2, 0), Of(2, 24), Of(2, None)}, m \in {Of(2, 9), Of(2, None)}}
    \union
    {[Small EXCEPT !.block = b, !.lfh = <<l, Of(2, 6)>>] :
        b \in {Of(2, 0), Of(2, 8), Of(3, 3), Of(3, 16), Of(10, 18), Of(10, 17), Of(3, None)},
        l \in {Of(2, 0), Of(2, 8), Of(2, None)}}
    \union
    {[Traced EXCEPT !.block = b, !.lfh = <<l, Of(3, 1)>>, !.zones = z] :
        b \in {Of(3, 0), Of(3, 8), Of(4, 24), Of(9, 2), Of(4, None)},
        l \in {Of(3, 8), Of(3, None)}, z \in {"one", "stale"}}

(* One header that was overwritten.                                        *)
Damages ==
    {[(IF t = "x64" THEN Usual ELSE Small) EXCEPT !.damage = n :> Header(size, flags, lfh, raw)] :
        t \in Targets, n \in {7, 10, 16}, size \in {0, 1, 2, 5, 40},
        flags \in {{}, {FlagBusy}}, lfh \in {FALSE, TRUE}, raw \in {0, 1, 30}}
    \union (* only the free list leads to it *)
    {[Usual EXCEPT !.block = Of(6, 20), !.pages = {4}, !.damage = 22 :> Header(0, {}, FALSE, 1)]}

MCNtHeaps == {HeapOf(c) : c \in Losses \union Sizes \union Damages}

(* The requests of the program have headers as the allocator writes them.  *)
RequestsAreWritten ==
    \A h \in MCNtHeaps : \A b \in h.blocks :
        b.kind # "nt_heap_virtual_entry" /\ b.at \notin h.damaged /\ Complete(h, b) =>
            WrittenFor(SegmentEntry(h, b.at), b.size)
===============================================================================
