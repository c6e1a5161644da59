--------------------------- MODULE SegmentHeapCases ----------------------------
(***************************************************************************)
(* Segment heaps for SegmentHeap, with pages of 64 bytes:                  *)
(*    page 0, 1    the page range descriptors; their ranges are at 1024    *)
(*    2048         a subsegment of four chunks: a block, a free one, one   *)
(*                 that holds a subsegment of the LFH, and another block   *)
(*    3072         a subsegment of one block                               *)
(*    4096, 5120   subsegments of the LFH; the bitmap of the first goes    *)
(*                 over two words on two pages                             *)
(*    page 94..99  the bucket, its slots and the pointers to them          *)
(*    page 110..   the nodes of the large allocations                      *)
(***************************************************************************)
EXTENDS SegmentHeap, TLC

(* What the allocator writes for a request: the size of the padding, the   *)
(* count of unused bytes.  word is what the program begins its data with.  *)
TailOf(size, b) ==
    LET unused == size - b.padding - b.requested IN
    IF unused = 1 THEN 32768 ELSE unused + (IF b.traced THEN 16384 ELSE 0)

HasUnused(size, b) == size - b.padding - b.requested > 0

UpToPage(n) == ((n + 63) \div 64) * 64

MCFirstWord(b) == IF b.padding > 0 THEN b.padding ELSE b.word

(* c: target, padding; the blocks a and b of variable size, l of the LFH,  *)
(* p of the backend and g, a large one; the pages lost; spot, the header   *)
(* or tail that was overwritten with size and value; the tree.             *)
SegmentHeapOf(c) ==
    LET u == Unit(c.target)
        head == HeaderLength(c.target)
        first == 2048 + (IF c.target = "x64" THEN 48 ELSE 24)
        chunkA == first
        chunkF == chunkA + c.a.units * u
        chunkH == chunkF + 2 * u
        chunkB == chunkH + 192
        endB == UpToPage(chunkB + c.b.units * u)
        chunkD == first + 1024
        endD == UpToPage(chunkD + c.b.units * u)
        b == [c.b EXCEPT !.units = (endB - chunkB) \div u]
        d == [c.b EXCEPT !.units = (endD - chunkD) \div u]
        small == chunkH + head
        Room(x) == x.units * u - head
        Chunk(x) == [size |-> x.units, allocated |-> TRUE, unused |-> HasUnused(Room(x), x)]
        lfhs == 2 * u
        Lfh(address, count, start, bitmap, bits) ==
            [address |-> address, count |-> count, first |-> start, size |-> lfhs,
             bitmap |-> bitmap, bits |-> bits]
        Bits(n, x) == {2 * n} \union (IF HasUnused(lfhs, x) THEN {2 * n + 1} ELSE {})
        s1 == Lfh(small, 2, 64, small + 32, <<Bits(1, c.l)>>)
        s2 == Lfh(4096, 18, 128, 4096 + 60, <<Bits(0, c.l) \union Bits(15, c.l), Bits(1, c.l)>>)
        s3 == Lfh(5120, 1, 64, 5120 + 32, <<Bits(0, c.l)>>)
        At(s, n) == s.address + s.first + n * s.size
        lfhBlocks == {<<s1, 1>>, <<s2, 0>>, <<s2, 15>>, <<s2, 17>>, <<s3, 0>>}
        written == {<<chunkA + head, Room(c.a), c.a>>, <<chunkB + head, Room(b), b>>,
                    <<chunkD + head, Room(d), d>>, <<1024, 128, c.p>>, <<1280, 64, c.p>>}
                   \union {<<At(x[1], x[2]), lfhs, c.l>> : x \in lfhBlocks}
        larges == {<<8192, 128, c.g>>, <<9216, 128, c.g>>, <<10240, 128, c.g>>}
        tails == [a \in {w[1] + w[2] - 2 : w \in {v \in written : HasUnused(v[2], v[3])}} |->
                    LET w == CHOOSE v \in written : v[1] + v[2] - 2 = a IN TailOf(w[2], w[3])]
        words == [a \in {w[1] : w \in written \union larges} |->
                    MCFirstWord((CHOOSE v \in written \union larges : v[1] = a)[3])]
        Needs(w) == (IF HasUnused(w[2], w[3]) THEN {w[1] + w[2] - 2} ELSE {})
                    \union (IF w[3].padding > 0 THEN {w[1]} ELSE {})
        Real(kind, w, needs, way) ==
            [kind |-> kind, at |-> w[1], first |-> w[1] + w[3].padding, size |-> w[3].requested,
             needs |-> needs, way |-> way,
             ambiguous |-> c.padding /\ (IF w[3].padding > 0 THEN kind = "segment_entry"
                                         ELSE w[3].word # 0)]
        Words(s, n) == {s.bitmap + 4 * k : k \in 0..(n \div 16)}
        Slot(s) == IF s = s3 THEN 97 * 64 ELSE 96 * 64
        spot == CASE c.spot = "a" -> [chunk |-> chunkA, tail |-> 0]
                  [] c.spot = "free" -> [chunk |-> chunkF, tail |-> 0]
                  [] c.spot = "holder" -> [chunk |-> chunkH, tail |-> 0]
                  [] c.spot = "tail of a" -> [chunk |-> 0, tail |-> chunkA + head + Room(c.a) - 2]
                  [] c.spot = "tail of l" -> [chunk |-> 0, tail |-> At(s2, 16) - 2]
                  [] OTHER -> [chunk |-> 0, tail |-> 0]
        all == {n \in 0..200 : n \notin c.lost}
        Range(address, flags, block, units, x) ==
            [address |-> address, flags |-> flags, block |-> block, units |-> units, unit |-> 64,
             extra |-> IF HasUnused(64 * units, x) THEN 64 * units - x.padding - x.requested ELSE 0]
        Node(left, right, at) ==
            [left |-> left, right |-> right, unused |-> 128 - c.g.padding - c.g.requested,
             virtual |-> at + 128 - c.g.padding - c.g.requested, pages |-> 2]
    IN
    [target |-> c.target, padding |-> c.padding, page |-> 64, pages |-> all,
     word |-> words, tail |-> (IF spot.tail = 0 THEN <<>> ELSE spot.tail :> c.value) @@ tails,
     ranges |-> <<Range(0, {"lfh", "committed"}, 1024, 2, c.p),
                  Range(16, {"lfh"}, 1088, 1, c.p),
                  Range(32, {"committed"}, 1152, 1, c.p),
                  Range(64, {"lfh", "committed", "first"}, 1216, 1, c.p),
                  Range(80, {"lfh", "committed"}, 1280, 1, c.p)>>,
     free_ranges |-> {Range(32, {"committed"}, 1152, 1, c.p)}, free_chunks |-> {chunkF},
     vs |-> <<[address |-> 2048, last |-> (endB - 2048 - 16) \div 16,
               chunks |-> {chunkA, chunkF, chunkH, chunkB}],
              [address |-> 3072, last |-> (endD - 3072 - 16) \div 16, chunks |-> {chunkD}]>>,
     chunk |-> (IF spot.chunk = 0 THEN <<>>
                ELSE spot.chunk :> [size |-> c.size, allocated |-> TRUE, unused |-> TRUE])
               @@ (chunkA :> Chunk(c.a)) @@ (chunkF :> [size |-> 2, allocated |-> FALSE, unused |-> FALSE])
               @@ (chunkH :> [size |-> 192 \div u, allocated |-> TRUE, unused |-> FALSE])
               @@ (chunkB :> Chunk(b)) @@ (chunkD :> Chunk(d)),
     buckets |-> <<[pointer |-> 94 * 64, enabled |-> FALSE, address |-> 0, slots |-> <<>>],
                   [pointer |-> 94 * 64 + 8, enabled |-> TRUE, address |-> 95 * 64,
                    slots |-> <<[pointer |-> 96 * 64, address |-> 98 * 64, available |-> <<s1>>, full |-> <<s2>>],
                                [pointer |-> 97 * 64, address |-> 99 * 64, available |-> <<s3>>, full |-> <<>>]>>]>>,
     root |-> IF c.tree = "empty" THEN 0 ELSE 110 * 64,
     large |-> (110 * 64 :> Node(111 * 64, 112 * 64, 8192))
               @@ (111 * 64 :> Node(0, 0, 9216))
               @@ (112 * 64 :> Node(0, 0, 10240)),
     damaged |-> {spot.tail, spot.chunk} \ {0},
     holders |-> {chunkH + head},
     blocks |->
        {Real("segment_backend_entry", w, IF w[3].padding > 0 THEN {w[1]} ELSE {}, {}) :
            w \in {<<1024, 128, c.p>>, <<1280, 64, c.p>>}}
        \union {Real("segment_entry", <<x[1] + head, Room(x[2]), x[2]>>,
                     Needs(<<x[1] + head, Room(x[2]), x[2]>>),
                     IF x[1] = chunkD THEN {chunkD}
                     ELSE {a \in {chunkA, chunkF, chunkH, chunkB} : a <= x[1]}) :
                    x \in {<<chunkA, c.a>>, <<chunkB, b>>, <<chunkD, d>>}}
        \union {Real("segment_lfh_entry", <<At(x[1], x[2]), lfhs, c.l>>,
                     Needs(<<At(x[1], x[2]), lfhs, c.l>>), {Slot(x[1])} \union Words(x[1], x[2])) :
                    x \in lfhBlocks}
        \union (IF c.tree = "empty" THEN {}
                ELSE {Real("segment_large_entry", w, IF w[3].padding > 0 THEN {w[1]} ELSE {}, {}) : w \in larges})]

-------------------------------------------------------------------------------
Req(units, requested) ==
    [units |-> units, requested |-> requested, padding |-> 0, traced |-> FALSE, word |-> 0]

Padded(b, padding) == [b EXCEPT !.padding = padding]
Traced(b) == [b EXCEPT !.traced = TRUE]

Usual ==
    [target |-> "x64", padding |-> FALSE, a |-> Req(3, 20), b |-> Req(5, 50), l |-> Req(2, 31),
     p |-> Req(1, 40), g |-> Req(1, 100), lost |-> {},
     spot |-> "none", size |-> 0, value |-> 0, tree |-> "usual"]

Small == [Usual EXCEPT !.target = "x86", !.a = Req(4, 20), !.b = Req(6, 30), !.l = Req(2, 9)]

WithPadding ==
    [Usual EXCEPT !.padding = TRUE, !.l = Padded(Req(2, 12), 16), !.p = Padded(Req(1, 40), 16),
                  !.g = Padded(Req(1, 60), 64), !.a = Traced(Padded(Req(6, 20), 16))]

WithPaddingSmall ==
    [Small EXCEPT !.padding = TRUE, !.l = Padded(Req(2, 5), 8), !.p = Padded(Req(1, 40), 8),
                  !.g = Padded(Req(1, 60), 32)]

Known4 == {Usual, Small, WithPadding, WithPaddingSmall}

LostPages == {0, 1, 16, 32, 33, 34, 35, 36, 37, 48, 49, 50, 64, 65, 66, 70, 80, 81, 95, 96, 97, 98, 111, 128}

Losses ==
    {[u EXCEPT !.lost = {p}] : u \in Known4, p \in LostPages}
    \union {[u EXCEPT !.lost = {p, q}] : u \in {Usual, WithPaddingSmall}, p \in LostPages, q \in {0, 33, 36, 49, 65, 96, 111}}

Sizes ==
    {[u EXCEPT !.a = Req(n, r), !.l = l] :
        u \in {Usual, [Usual EXCEPT !.padding = TRUE]},
        n \in {3, 4}, r \in {0, 1, 30, 31, 32},
        l \in {Req(2, 0), Req(2, 31), Req(2, 32), Traced(Req(2, 5)), [Req(2, 20) EXCEPT !.word = 16],
               [Req(2, 20) EXCEPT !.word = 64]}}

Damages ==
    {[u EXCEPT !.spot = p, !.size = n] :
        u \in Known4, p \in {"a", "free", "holder"}, n \in {0, 1, 2, 6, 40}}
    \union {[u EXCEPT !.spot = p, !.value = v] :
        u \in Known4, p \in {"tail of a", "tail of l"}, v \in {0, 7, 2000, 16389, 40000}}
    \union {[u EXCEPT !.tree = "empty"] : u \in Known4}

MCSegmentHeaps == {SegmentHeapOf(c) : c \in Losses \union Sizes \union Damages}
===============================================================================
