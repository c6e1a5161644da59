-------------------------- MODULE HeapReaders_proofs --------------------------
(***************************************************************************)
(* What the allocator wrote for a request, the reader gets back; and no    *)
(* block of an NT heap or of a segment heap is lost but by what is missing *)
(* or damaged on the way to it.  Where nothing is damaged, nothing is      *)
(* reported either that the program does not have.                         *)
(***************************************************************************)
EXTENDS HeapReaders, SequenceTheorems, TLAPS

(* A block with a stack trace header: the count is in the end gap.         *)
LEMMA UstRequestRecovered ==
    ASSUME NEW e \in Entries, NEW requested \in Nat,
           e.size >= 2 * Length(e.target), WrittenFor(e, requested), e.ust
    PROVE  /\ Constructed(e) /\ Requested(e) = requested
           /\ UserAddress(e) = e.address + (IF e.ust THEN UstHeaderSize(e.target) ELSE Length(e.target))
<1>1. e.target \in {"x86", "x64"} /\ e.size \in Nat /\ e.address \in Nat
    BY DEF Entries, Targets
<1>2. UserAddress(e) = e.address + UstHeaderSize(e.target)
    BY DEF WrittenFor, UserAddress
<1>3. DataArea(e) = e.size + Private(e.target) - UstHeaderSize(e.target)
    BY <1>1, <1>2 DEF DataArea, UstHeaderSize, Private
<1>4. e.gap = e.size - requested /\ requested + UstHeaderSize(e.target) <= e.size + Private(e.target)
    BY DEF WrittenFor
<1>5. KnownByGap(e)
    BY <1>1, <1>4 DEF KnownByGap, EndGapOffset, UstHeaderSize, Private, None
<1>6. Unused(e) = e.size - requested - EndGapOffset(e.target)
    BY <1>4, <1>5 DEF Unused
<1>7. Requested(e) = requested
    BY <1>1, <1>3, <1>4, <1>6 DEF Requested, EndGapOffset, UstHeaderSize, Private
<1>8. e.size > 0
    BY <1>1 DEF Length
<1>9. UserDataInBlock(e)
    BY <1>1, <1>2, <1>4, <1>7 DEF UserDataInBlock, UstHeaderSize, Private
<1>10. QED
    BY <1>2, <1>5, <1>7, <1>8, <1>9 DEF Constructed, DividesByZero

(* A block without one: the count is in the header or at the end.          *)
LEMMA PlainRequestRecovered ==
    ASSUME NEW e \in Entries, NEW requested \in Nat,
           e.size >= 2 * Length(e.target), WrittenFor(e, requested), ~e.ust
    PROVE  /\ Constructed(e) /\ Requested(e) = requested
           /\ UserAddress(e) = e.address + (IF e.ust THEN UstHeaderSize(e.target) ELSE Length(e.target))
<1>1. e.target \in {"x86", "x64"} /\ e.size \in Nat /\ e.address \in Nat /\ e.raw \in 0..127
    BY DEF Entries, Targets
<1>2. /\ e.in_use
      /\ requested + 8 <= e.size
      /\ requested < 8 => e.size <= 3 * Length(e.target)
      /\ e.size - requested < 63 => e.raw = e.size - requested
      /\ e.size - requested >= 63 => e.raw = 63 /\ e.eod = e.size - requested
    BY DEF WrittenFor, Offset
<1>3. requested < 8 => \/ e.target = "x64" /\ e.size \in {32, 48}
                       \/ e.size \in {16, 24}
  <2>1. e.size % Length(e.target) = 0
      BY DEF WrittenFor
  <2>2. QED
      BY <1>1, <1>2, <2>1 DEF Length
<1>4. e.raw <= e.size
    BY <1>1, <1>2
<1>5. FrontPadding(e) = 0
    BY <1>1, <1>4 DEF FrontPadding
<1>6. UserAddress(e) = e.address + Length(e.target)
    BY <1>1, <1>2, <1>5 DEF UserAddress, Length
<1>7. DataArea(e) = e.size - 8
    BY <1>1, <1>5 DEF DataArea, Private, Length
<1>8. GivenUnused(e) = e.raw /\ ~KnownByGap(e)
    BY DEF GivenUnused, KnownByGap
<1>9. Unused(e) = e.size - 8 - requested
  <2>1. CASE KnownByEod(e)
    <3>1. e.eod = e.size - requested
        BY <1>1, <1>2, <1>8, <2>1 DEF KnownByEod
    <3>2. QED
        BY <1>1, <1>2, <1>7, <1>8, <2>1, <3>1 DEF Unused
  <2>2. CASE ~KnownByEod(e)
    <3>1. e.size - requested < 63
      <4>1. SUFFICES ASSUME e.size - requested >= 63 PROVE FALSE
          BY <1>1
      <4>2. e.raw = 63 /\ e.eod = e.size - requested
          BY <4>1, <1>2
      <4>3. requested >= 8
          BY <4>1, <1>1, <1>2 DEF Length
      <4>4. QED
          BY <4>2, <4>3, <1>1, <1>2, <1>7, <1>8, <2>2 DEF KnownByEod, None
    <3>2. e.raw = e.size - requested
        BY <3>1, <1>2
    <3>3. CASE requested >= 8
        BY <1>1, <1>2, <1>7, <1>8, <2>2, <3>2, <3>3 DEF Unused, Offset
    <3>4. CASE requested < 8
      <4>1. e.raw > DataArea(e) /\ e.raw - DataArea(e) = 8 - requested
            /\ ~(e.raw - DataArea(e) > DataArea(e))
          BY <1>1, <1>3, <1>7, <3>2, <3>4
      <4>2. QED
          BY <1>1, <1>3, <1>7, <1>8, <2>2, <3>4, <4>1 DEF Unused, Offset
    <3>5. QED
        BY <1>1, <3>3, <3>4
  <2>3. QED
      BY <2>1, <2>2
<1>10. Requested(e) = requested
    BY <1>1, <1>2, <1>7, <1>9 DEF Requested
<1>11. ~DividesByZero(e)
  <2>1. e.size >= 16
      BY <1>1 DEF Length
  <2>2. QED
      BY <1>1, <1>7, <2>1 DEF DividesByZero
<1>12. UserDataInBlock(e)
    BY <1>1, <1>2, <1>6, <1>10 DEF UserDataInBlock, Private, Length
<1>13. QED
    BY <1>6, <1>10, <1>11, <1>12 DEF Constructed

(* heap_entry's constructor returns for every block the allocator wrote,   *)
(* and user_requested_size() is what the program asked for: up to 62       *)
(* unused bytes or more, requests below eight bytes, x86 and x64, with and *)
(* without stack traces.  (A request below eight bytes makes the count     *)
(* larger than the data area, which get_unused_bytes undoes case by case.) *)
THEOREM RequestRecovered ==
    ASSUME NEW e \in Entries, NEW requested \in Nat,
           e.size >= 2 * Length(e.target), WrittenFor(e, requested)
    PROVE  /\ Constructed(e) /\ Requested(e) = requested
           /\ UserAddress(e) = e.address + (IF e.ust THEN UstHeaderSize(e.target) ELSE Length(e.target))
BY UstRequestRecovered, PlainRequestRecovered DEF Entries
-------------------------------------------------------------------------------
(* The entry read at the place of a block is the one the allocator wrote,  *)
(* but that the word at its end may be missing where it is not needed.     *)
LEMMA EntryIsWritten ==
    ASSUME NEW h, NEW b, NEW size, h.target \in Targets, b.at # h.address,
           IsPlain(h, b), BlockIsWritten(h, b, size), Complete(h, b),
           HasTraceHeader(h, b.at) => (b.at + 2 * Length(h.target)) \in b.needs
    PROVE  LET e == EntryAt(h, b.at, size) IN
           /\ e \in Entries /\ WrittenFor(e, b.size)
           /\ e.target = h.target /\ e.address = b.at /\ e.size = size
           /\ e.ust = HasTraceHeader(h, b.at)
<1> DEFINE header == HeaderAt(h, b.at)
           w == WrittenAt(h, b.at, size)
           e0 == [w EXCEPT !.eod = None]
           word == UserAddress(e0) + DataArea(e0) - PointerSize(h.target)
           e == EntryAt(h, b.at, size)
<1>1. /\ w \in Entries /\ w.size >= 2 * Length(h.target) /\ b.size \in Nat /\ WrittenFor(w, b.size)
      /\ ~HasTraceHeader(h, b.at) /\ w.size - b.size >= 63 =>
            Granule(h, b.at + w.size + Private(h.target) - PointerSize(h.target)) \in b.needs
  BY DEF BlockIsWritten
<1>2. w = [target |-> h.target, address |-> b.at, size |-> size, in_use |-> TRUE, raw |-> header.raw,
           eod |-> header.eod, ust |-> HasTraceHeader(h, b.at), gap |-> header.gap, ust_raw |-> header.ust_raw]
  BY DEF WrittenAt
<1>3. IsBusy(h, header) /\ b.at # h.address
  BY DEF IsPlain
<1>4. (h.ust /\ b.at # h.address /\ header.ust /\ Readable(h, b.at + 2 * Length(h.target)))
        = HasTraceHeader(h, b.at)
  BY <1>3 DEF HasTraceHeader, Complete
<1> DEFINE traced == HasTraceHeader(h, b.at)
           busy == TRUE
           Record(eod) ==
              [target |-> h.target, address |-> b.at, size |-> size, in_use |-> busy, raw |-> header.raw,
               eod |-> eod, ust |-> traced, gap |-> header.gap, ust_raw |-> header.ust_raw]
<1>5. w = Record(header.eod)
  BY <1>2
<1>6. e0 = Record(None) /\ [e0 EXCEPT !.eod = header.eod] = w
  <2> HIDE DEF traced, w, busy, header
  <2>1. e0 = Record(None)
    BY <1>5
  <2>2. [Record(None) EXCEPT !.eod = header.eod] = Record(header.eod)
    OBVIOUS
  <2>. QED
    BY <1>5, <2>1, <2>2
<1>7. e0 \in Entries
  <2>1. busy \in BOOLEAN /\ traced \in BOOLEAN
    BY DEF HasTraceHeader
  <2> HIDE DEF traced, w, busy, header, e0
  <2>. QED
    BY <1>1, <1>5, <1>6, <2>1 DEF Entries, None
<1>8. e = IF Readable(h, Granule(h, word)) THEN w ELSE e0
  <2>1. (IsBusy(h, header) /\ b.at # h.address) = TRUE
    BY <1>3
  <2> HIDE DEF w, e0, word
  <2>2. e = IF Readable(h, Granule(h, UserAddress(e0) + DataArea(e0) - PointerSize(h.target)))
            THEN [e0 EXCEPT !.eod = header.eod] ELSE e0
    BY <1>4, <1>6, <2>1 DEF EntryAt
  <2>. QED
    BY <1>6, <2>2 DEF word
<1>9. CASE Readable(h, Granule(h, word))
  BY <1>1, <1>2, <1>8, <1>9
<1>10. CASE ~Readable(h, Granule(h, word))
  <2>1. e = e0
    BY <1>8, <1>10
  <2>2. /\ e0.target = h.target /\ e0.address = b.at /\ e0.size = size /\ e0.ust = HasTraceHeader(h, b.at)
        /\ e0.in_use = w.in_use /\ e0.raw = w.raw /\ e0.eod = None /\ e0.gap = w.gap /\ e0.ust_raw = w.ust_raw
    BY <1>5, <1>6
  <2>4. CASE HasTraceHeader(h, b.at)
    BY <1>1, <1>2, <1>7, <2>1, <2>2, <2>4 DEF WrittenFor
  <2>5. CASE ~HasTraceHeader(h, b.at)
    <3>1. word = b.at + size + Private(h.target) - PointerSize(h.target)
      <4>1. size \in Nat /\ b.at \in Nat /\ header.raw \in 0..127
        BY <1>1, <1>2 DEF Entries
      <4>2. FrontPadding(e0) \in Nat
        BY <2>2, <4>1 DEF FrontPadding, Length
      <4>3. /\ UserAddress(e0) = b.at + Length(h.target) + FrontPadding(e0)
            /\ DataArea(e0) = size + Private(h.target) - Length(h.target) - FrontPadding(e0)
        BY <1>2, <2>2, <2>5 DEF UserAddress, DataArea
      <4>. QED
        BY <4>1, <4>2, <4>3 DEF Length, Private, PointerSize
    <3>2. ~(size - b.size >= 63)
      <4> HIDE DEF word
      <4>. QED
      BY <1>1, <1>2, <1>10, <2>5, <3>1 DEF Complete
    <3>. QED
      BY <1>1, <1>2, <1>7, <2>1, <2>2, <2>5, <3>2 DEF WrittenFor
  <2>. QED
    BY <2>4, <2>5
<1>. QED
  BY <1>9, <1>10

(* So a block whose header is whole is reported where the program has it,  *)
(* with the size it asked for.                                             *)
LEMMA WrittenIsReported ==
    ASSUME NEW h, NEW b, NEW size, NEW kind, h.target \in Targets, b.at # h.address, kind = b.kind,
           IsPlain(h, b), BlockIsWritten(h, b, size),
           HasTraceHeader(h, b.at) => (b.at + 2 * Length(h.target)) \in b.needs
    PROVE  LET s == EntryBlock(h, kind, EntryAt(h, b.at, size)) IN
           s.state = "allocated" /\ ~s.internal /\ Agree(h, b, s)
<1> DEFINE e == EntryAt(h, b.at, size)
           s == EntryBlock(h, kind, e)
<1>1. e.address = b.at
  BY DEF EntryAt
<1>2. /\ s.kind = kind /\ s.raw.first = e.address /\ s.first = UserAddress(e) /\ s.size = Requested(e)
      /\ s.state = IF IsBusy(h, HeaderAt(h, e.address)) THEN "allocated" ELSE "free"
      /\ s.internal = ({FlagBusy, FlagVirtualAlloc} \subseteq HeaderAt(h, e.address).flags)
  BY DEF EntryBlock, Block
<1>3. ASSUME Complete(h, b) PROVE s.first = b.first /\ s.size = b.size
  <2>1. /\ e \in Entries /\ WrittenFor(e, b.size)
        /\ e.target = h.target /\ e.address = b.at /\ e.size = size /\ e.ust = HasTraceHeader(h, b.at)
    BY <1>3, EntryIsWritten
  <2>2. b.size \in Nat /\ size >= 2 * Length(h.target) /\ b.first = UserBegin(h, b.at)
    BY DEF BlockIsWritten, WrittenAt
  <2> HIDE DEF e, s
  <2>3. Requested(e) = b.size /\ UserAddress(e) = b.at + (IF e.ust THEN UstHeaderSize(e.target) ELSE Length(e.target))
    BY <2>1, <2>2, RequestRecovered
  <2>. QED
    BY <1>2, <2>1, <2>2, <2>3 DEF UserBegin
<1> HIDE DEF e, s
<1>. QED
  BY <1>1, <1>2, <1>3 DEF IsPlain, Agree, e, s
-------------------------------------------------------------------------------
(***************************************************************************)
(* The walk over the entries of the segments.  As long as no header was    *)
(* missing or damaged the walk stands at the place of an entry or of an    *)
(* uncommitted range, so that no entry is stepped over; what it has passed *)
(* is in the set it collects.                                              *)
(***************************************************************************)
Clear(h, n, p) == \A a \in h.segments[n].entries : a <= p => Intact(h, a)

ClearBefore(h, n, p) == \A a \in h.segments[n].entries : a < p => Intact(h, a)

NtBlockAt(h, p) == EntryBlock(h, "nt_heap_segment_entry", SegmentEntry(h, p))

Collected == IF stage = "gather" THEN seen ELSE out

PassedOnes(h, n, p) == n < seg \/ (n = seg /\ p < at)

SegmentsInv ==
    /\ heap \in {p.nt : p \in Processes}
    /\ stage \in {"gather", "segment", "virtual"}
    /\ seg \in 1..(Len(heap.segments) + 1)
    /\ at \in Nat
    /\ seg <= Len(heap.segments) /\ ClearBefore(heap, seg, at) =>
          at \in Places(heap.segments[seg]) \/ at >= heap.segments[seg].last
    /\ \A n \in 1..Len(heap.segments) : \A p \in heap.segments[n].entries :
          Clear(heap, n, p) /\ PassedOnes(heap, n, p) => NtBlockAt(heap, p) \in Collected
    /\ stage = "virtual" => seg = Len(heap.segments) + 1

LEMMA LaidOut ==
    ASSUME SegmentsInv
    PROVE  /\ IsLaidOut(heap) /\ IsList(heap.segments) /\ IsList(heap.zones)
           /\ Len(heap.segments) \in Nat /\ DOMAIN heap.segments = 1..Len(heap.segments)
           /\ \A n \in 1..Len(heap.segments) : SegmentIsLaidOut(heap, heap.segments[n])
           /\ \A n \in 1..Len(heap.segments) : heap.segments[n].first \in Nat
           /\ Length(heap.target) \in {8, 16}
<1>1. PICK p \in Processes : heap = p.nt
  BY DEF SegmentsInv
<1>2. IsLaidOut(heap)
  BY <1>1, ProcessesAssumption
<1>3. IsList(heap.segments) /\ IsList(heap.zones) /\ heap.target \in Targets
      /\ \A n \in DOMAIN heap.segments : SegmentIsLaidOut(heap, heap.segments[n])
  BY <1>2 DEF IsLaidOut
<1>4. \A n \in DOMAIN heap.segments : heap.segments[n].first \in Nat
  BY <1>3 DEF SegmentIsLaidOut
<1>. QED
  BY <1>2, <1>3, <1>4 DEF IsList, Length

LEMMA SizesOfHeaders ==
    ASSUME NEW h, IsLaidOut(h), NEW a
    PROVE  HeaderAt(h, a).size * Length(h.target) \in Nat
<1>1. HeaderAt(h, a).size \in Nat
  BY DEF IsLaidOut, HeaderAt, Headers
<1>2. Length(h.target) \in Nat
  BY DEF Length
<1>. QED
  BY <1>1, <1>2

LEMMA SegmentStart ==
    ASSUME SegmentsInv, NEW n \in 1..(Len(heap.segments) + 1)
    PROVE  /\ StartOf(heap, n) \in Nat
           /\ n <= Len(heap.segments) =>
                /\ StartOf(heap, n) \in Places(heap.segments[n])
                /\ \A p \in heap.segments[n].entries : StartOf(heap, n) <= p
<1>1. CASE n <= Len(heap.segments)
  <2>1. StartOf(heap, n) = heap.segments[n].first /\ SegmentIsLaidOut(heap, heap.segments[n])
        /\ heap.segments[n].first \in Nat
    BY <1>1, LaidOut DEF StartOf
  <2>. QED
    BY <2>1 DEF SegmentIsLaidOut, Places
<1>2. CASE ~(n <= Len(heap.segments))
  BY <1>2 DEF StartOf
<1>. QED
  BY <1>1, <1>2

(* What is known where the walk stands in a segment.                       *)
LEMMA AtPlace ==
    ASSUME SegmentsInv, Walking
    PROVE  /\ seg \in 1..Len(heap.segments) /\ Segment = heap.segments[seg]
           /\ SegmentIsLaidOut(heap, Segment)
           /\ Segment.last \in Nat /\ Segment.entries \subseteq Nat
           /\ \A p \in Segment.entries : p < Segment.last
           /\ \A p \in Segment.entries : Clear(heap, seg, p) /\ at <= p =>
                at \in Places(Segment) /\ ClearBefore(heap, seg, at)
           /\ at < Segment.last /\ UncommittedAt(Segment, at) = {} /\ at \in Places(Segment) =>
                at \in Segment.entries
<1>1. /\ seg \in 1..Len(heap.segments) /\ Segment = heap.segments[seg] /\ SegmentIsLaidOut(heap, Segment)
      /\ at \in Nat
  BY LaidOut DEF SegmentsInv, Walking, Segment
<1>2. Segment.last \in Nat /\ Places(Segment) \subseteq Nat /\ IsList(Segment.ucr)
      /\ \A p \in Segment.entries : p < Segment.last
  BY <1>1 DEF SegmentIsLaidOut
<1>3. Segment.entries \subseteq Nat
  BY <1>2 DEF Places
<1>4. ASSUME NEW p \in Segment.entries, Clear(heap, seg, p), at <= p
      PROVE  at \in Places(Segment) /\ ClearBefore(heap, seg, at)
  <2>1. ClearBefore(heap, seg, at)
    BY <1>1, <1>3, <1>4 DEF Clear, ClearBefore
  <2>2. at \in Places(heap.segments[seg]) \/ at >= heap.segments[seg].last
    BY <1>1, <2>1 DEF SegmentsInv
  <2>. QED
    BY <1>1, <1>2, <1>3, <1>4, <2>1, <2>2
<1>5. ASSUME UncommittedAt(Segment, at) = {}, at \in Places(Segment)
      PROVE  at \in Segment.entries
  <2>1. SUFFICES ASSUME NEW i \in DOMAIN Segment.ucr, Segment.ucr[i].address = at PROVE FALSE
    BY <1>5 DEF Places
  <2>2. \A k \in DOMAIN Segment.ucr : Segment.ucr[k].address = at => k = i
    BY <1>1, <2>1 DEF SegmentIsLaidOut
  <2>3. i \in 1..Len(Segment.ucr) /\ \A k \in 1..(i - 1) : k \in DOMAIN Segment.ucr /\ k # i
    BY <1>2 DEF IsList
  <2>4. Segment.ucr[i] \in UncommittedAt(Segment, at)
    BY <2>1, <2>2, <2>3 DEF UncommittedAt
  <2>. QED
    BY <1>5, <2>4
<1>. QED
  BY <1>1, <1>2, <1>3, <1>4, <1>5
(* The walk goes from an entry or an uncommitted range to what follows it. *)
LEMMA StepInSegment ==
    ASSUME SegmentsInv, Walking, at < Segment.last, heap' = heap, stage' = stage, seg' = seg,
           at' \in Nat, at <= at', Collected \subseteq Collected',
           at \in Places(Segment) /\ (at \in Segment.entries => Intact(heap, at)) =>
               at' = at \/ Follows(Segment, at, at'),
           at \in Segment.entries /\ at' # at => NtBlockAt(heap, at) \in Collected'
    PROVE  SegmentsInv'
<1>1. /\ seg \in 1..Len(heap.segments) /\ Segment = heap.segments[seg] /\ SegmentIsLaidOut(heap, Segment)
      /\ Segment.last \in Nat /\ Segment.entries \subseteq Nat
      /\ \A p \in Segment.entries : Clear(heap, seg, p) /\ at <= p =>
            at \in Places(Segment) /\ ClearBefore(heap, seg, at)
      /\ at \in Nat /\ Len(heap.segments) \in Nat
  BY AtPlace, LaidOut DEF SegmentsInv
<1>2. ASSUME ClearBefore(heap, seg, at')
      PROVE  at' \in Places(Segment) \/ at' >= Segment.last
  <2>1. ClearBefore(heap, seg, at)
    BY <1>1, <1>2 DEF ClearBefore
  <2>2. at \in Places(Segment)
    BY <1>1, <2>1 DEF SegmentsInv
  <2>3. CASE at' = at
    BY <2>2, <2>3
  <2>4. CASE at' # at
    <3>1. at \in Segment.entries => Intact(heap, at)
      BY <1>1, <1>2, <2>4 DEF ClearBefore
    <3>. QED
      BY <2>2, <2>4, <3>1 DEF Follows
  <2>. QED
    BY <2>3, <2>4
<1>3. ASSUME NEW n \in 1..Len(heap.segments), NEW p \in heap.segments[n].entries,
             Clear(heap, n, p), n < seg \/ (n = seg /\ p < at')
      PROVE  NtBlockAt(heap, p) \in Collected'
  <2>1. CASE PassedOnes(heap, n, p)
    BY <1>3, <2>1 DEF SegmentsInv
  <2>2. CASE ~PassedOnes(heap, n, p)
    <3>1. n = seg /\ p \in Segment.entries /\ at <= p /\ p < at'
      BY <1>1, <1>3, <2>2 DEF PassedOnes
    <3>2. at \in Places(Segment) /\ (at \in Segment.entries => Intact(heap, at))
      BY <1>1, <1>3, <3>1 DEF Clear
    <3>3. Follows(Segment, at, at')
      BY <1>1, <3>1, <3>2
    <3>4. p = at
      BY <1>1, <3>1, <3>3 DEF Follows, Places
    <3>. QED
      BY <3>1, <3>4
  <2>. QED
    BY <2>1, <2>2
<1>4. stage' \in {"gather", "segment"} /\ stage = stage'
  BY DEF Walking
<1>. QED
  <2>1. heap' \in {p.nt : p \in Processes} /\ seg' \in 1..(Len(heap'.segments) + 1)
    BY DEF SegmentsInv
  <2>2. seg' <= Len(heap'.segments) /\ ClearBefore(heap', seg', at') =>
          at' \in Places(heap'.segments[seg']) \/ at' >= heap'.segments[seg'].last
    BY <1>1, <1>2
  <2>3. \A n \in 1..Len(heap'.segments) : \A p \in heap'.segments[n].entries :
          Clear(heap', n, p) /\ PassedOnes(heap, n, p)' => NtBlockAt(heap', p) \in Collected'
    BY <1>3 DEF PassedOnes
  <2>. QED
    BY <1>4, <2>1, <2>2, <2>3 DEF SegmentsInv

(* A segment is left when no entry on the way is left in it.               *)
LEMMA StepOutOfSegment ==
    ASSUME SegmentsInv, Walking, heap' = heap, stage' = stage, NextSegment, Collected \subseteq Collected',
           \A p \in Segment.entries : Clear(heap, seg, p) => p < at
    PROVE  SegmentsInv'
<1>1. /\ seg \in 1..Len(heap.segments) /\ Segment = heap.segments[seg] /\ Segment.entries \subseteq Nat
      /\ Len(heap.segments) \in Nat
  BY AtPlace, LaidOut
<1>2. seg' = seg + 1 /\ seg' \in 1..(Len(heap.segments) + 1) /\ at' = StartOf(heap, seg')
  BY <1>1 DEF NextSegment
<1>3. /\ at' \in Nat
      /\ seg' <= Len(heap.segments) =>
            at' \in Places(heap.segments[seg']) /\ \A p \in heap.segments[seg'].entries : at' <= p
  BY <1>2, SegmentStart
<1>4. ASSUME NEW n \in 1..Len(heap.segments), NEW p \in heap.segments[n].entries,
             Clear(heap, n, p), n < seg' \/ (n = seg' /\ p < at')
      PROVE  NtBlockAt(heap, p) \in Collected'
  <2>1. n < seg'
    <3>1. SUFFICES ASSUME n = seg' /\ p < at' PROVE FALSE
      BY <1>4
    <3>2. at' <= p /\ p \in Nat
      <4>1. SegmentIsLaidOut(heap, heap.segments[n])
        BY LaidOut
      <4>2. p \in Nat
        BY <4>1 DEF SegmentIsLaidOut, Places
      <4>. QED
        BY <1>1, <1>2, <1>3, <3>1, <4>2
    <3>. QED
      BY <1>3, <3>1, <3>2
  <2>2. PassedOnes(heap, n, p)
    BY <1>1, <1>2, <1>4, <2>1 DEF PassedOnes
  <2>. QED
    BY <1>4, <2>2 DEF SegmentsInv
<1>. QED
  <2>1. heap' \in {p.nt : p \in Processes} /\ stage' \in {"gather", "segment", "virtual"} /\ stage' # "virtual"
    BY DEF SegmentsInv, Walking
  <2>2. \A n \in 1..Len(heap'.segments) : \A p \in heap'.segments[n].entries :
          Clear(heap', n, p) /\ PassedOnes(heap, n, p)' => NtBlockAt(heap', p) \in Collected'
    BY <1>4 DEF PassedOnes
  <2>. QED
    BY <1>2, <1>3, <2>1, <2>2 DEF SegmentsInv

LEMMA UncommittedKeeps == ASSUME SegmentsInv, VisitUncommitted PROVE SegmentsInv'
<1>1. /\ Walking /\ at < Segment.last /\ heap' = heap /\ stage' = stage /\ seg' = seg
      /\ Collected \subseteq Collected'
  BY DEF VisitUncommitted, Yield, Collected, Walking
<1>2. PICK r \in UncommittedAt(Segment, at) : at' = at + r.size
  BY DEF VisitUncommitted
<1>3. PICK i \in 1..Len(Segment.ucr) : r = Segment.ucr[i] /\ Segment.ucr[i].address = at
  BY <1>2 DEF UncommittedAt
<1>4. SegmentIsLaidOut(heap, Segment) /\ at \in Nat
  BY <1>1, AtPlace DEF SegmentsInv
<1>5. /\ i \in DOMAIN Segment.ucr /\ Segment.ucr[i].size \in Nat /\ at \notin Segment.entries
      /\ Follows(Segment, at, at + r.size)
  BY <1>3, <1>4 DEF SegmentIsLaidOut, IsList
<1>. QED
  BY <1>1, <1>2, <1>3, <1>4, <1>5, StepInSegment

LEMMA UnreadableKeeps == ASSUME SegmentsInv, VisitUnreadable PROVE SegmentsInv'
<1>1. /\ Walking /\ at < Segment.last /\ heap' = heap /\ stage' = stage /\ NextSegment
      /\ UncommittedAt(Segment, at) = {} /\ ~Readable(heap, at) /\ Collected \subseteq Collected'
  BY DEF VisitUnreadable, Yield, Collected, Walking
<1>2. ASSUME NEW p \in Segment.entries, Clear(heap, seg, p) PROVE p < at
  <2>1. SUFFICES ASSUME at <= p PROVE FALSE
    BY <1>1, AtPlace DEF SegmentsInv
  <2>2. at \in Segment.entries /\ Segment = heap.segments[seg]
    BY <1>1, <1>2, <2>1, AtPlace
  <2>. QED
    BY <1>1, <1>2, <2>1, <2>2 DEF Clear, Intact
<1>. QED
  BY <1>1, <1>2, StepOutOfSegment

LEMMA EndKeeps == ASSUME SegmentsInv, EndSegment PROVE SegmentsInv'
<1>1. /\ Walking /\ at >= Segment.last /\ heap' = heap /\ stage' = stage /\ NextSegment
      /\ Collected \subseteq Collected'
  BY DEF EndSegment, Yield, Collected, Walking
<1>2. \A p \in Segment.entries : p < at
  BY <1>1, AtPlace DEF SegmentsInv
<1>. QED
  BY <1>1, <1>2, StepOutOfSegment

LEMMA EntryKeeps == ASSUME SegmentsInv, VisitEntry PROVE SegmentsInv'
<1>1. /\ Walking /\ at < Segment.last /\ heap' = heap /\ stage' = stage /\ seg' = seg
      /\ UncommittedAt(Segment, at) = {} /\ at \in Nat
  BY DEF VisitEntry, SegmentsInv
<1> DEFINE e == SegmentEntry(heap, at)
<1>2. e.size = HeaderAt(heap, at).size * Length(heap.target) /\ e.size \in Nat
  BY LaidOut, SizesOfHeaders DEF SegmentEntry, EntryAt
<1>3. CASE Constructed(e)
  <2>1. at' = at + e.size /\ Yield({NtBlockAt(heap, at)})
    BY <1>3 DEF VisitEntry, NtBlockAt
  <2>2. Collected \subseteq Collected' /\ NtBlockAt(heap, at) \in Collected'
    BY <1>1, <2>1 DEF Yield, Collected, Walking
  <2>3. ASSUME at \in Places(Segment), at \in Segment.entries => Intact(heap, at)
        PROVE  Follows(Segment, at, at')
    <3>1. at \in Segment.entries /\ SegmentIsLaidOut(heap, Segment)
      BY <1>1, <2>3, AtPlace
    <3>. QED
      BY <1>2, <2>1, <2>3, <3>1 DEF SegmentIsLaidOut
  <2>. QED
    BY <1>1, <1>2, <2>1, <2>2, <2>3, StepInSegment
<1>4. CASE ~Constructed(e)
  <2>1. at' = at /\ seen' = seen /\ out' = out
    BY <1>4 DEF VisitEntry
  <2>2. Collected' = Collected
    BY <1>1, <2>1 DEF Collected
  <2>. QED
    BY <1>1, <2>1, <2>2, StepInSegment
<1>. QED
  BY <1>3, <1>4
LEMMA SegmentsStay ==
    ASSUME SegmentsInv, heap' = heap, stage' = stage, seg' = seg, at' = at, Collected \subseteq Collected'
    PROVE  SegmentsInv'
BY DEF SegmentsInv, PassedOnes

LEMMA ZoneKeeps == ASSUME SegmentsInv, NextZone PROVE SegmentsInv'
<1>1. /\ heap' = heap /\ seg' = 1 /\ at' = StartOf(heap, 1)
      /\ stage' \in {"gather", "segment"} /\ Len(heap.segments) \in Nat
  BY LaidOut DEF NextZone
<1>2. /\ at' \in Nat
      /\ 1 <= Len(heap.segments) =>
            /\ at' \in Places(heap.segments[1])
            /\ \A p \in heap.segments[1].entries : at' <= p
  BY <1>1, SegmentStart
<1>3. ASSUME NEW n \in 1..Len(heap.segments), NEW p \in heap.segments[n].entries
      PROVE  ~PassedOnes(heap, n, p)'
  <2>1. SegmentIsLaidOut(heap, heap.segments[n])
    BY LaidOut
  <2>2. p \in Nat
    BY <2>1 DEF SegmentIsLaidOut, Places
  <2>. QED
    BY <1>1, <1>2, <2>2 DEF PassedOnes
<1>. QED
  BY <1>1, <1>2, <1>3 DEF SegmentsInv

LEMMA EndWalkKeeps == ASSUME SegmentsInv, EndWalk PROVE SegmentsInv'
<1>1. /\ heap' = heap /\ stage = "segment" /\ stage' = "virtual" /\ seg' = seg /\ at' = at
      /\ seg > Len(heap.segments) /\ Len(heap.segments) \in Nat
  BY LaidOut DEF EndWalk
<1>2. out \subseteq out'
  BY DEF EndWalk
<1>3. Collected \subseteq Collected'
  BY <1>1, <1>2 DEF Collected
<1>4. seg = Len(heap.segments) + 1
  BY <1>1 DEF SegmentsInv
<1>. QED
  BY <1>1, <1>3, <1>4 DEF SegmentsInv, PassedOnes

LEMMA SegmentsStep == ASSUME SegmentsInv, [Next]_vars PROVE SegmentsInv'
<1>1. CASE TakeRecord
  <2>1. heap' = heap /\ stage' = stage /\ seg' = seg /\ at' = at /\ stage = "gather" /\ seen' = seen
    BY <1>1 DEF TakeRecord, Gathered
  <2>. QED
    BY <2>1, SegmentsStay DEF Collected
<1>2. CASE UNCHANGED vars
  BY <1>2, SegmentsStay DEF vars, Collected
<1>. QED
  BY <1>1, <1>2, UncommittedKeeps, UnreadableKeeps, EntryKeeps, EndKeeps, ZoneKeeps, EndWalkKeeps DEF Next

(* All entries come by: when the walk is at the end of the segments it has *)
(* each one no header on the way to is missing or damaged.                 *)
LEMMA EntriesCollected ==
    ASSUME SegmentsInv, seg > Len(heap.segments), NEW p, WayTo(heap, p)
    PROVE  NtBlockAt(heap, p) \in Collected
<1>1. PICK n \in DOMAIN heap.segments : p \in heap.segments[n].entries /\ Clear(heap, n, p)
  BY DEF WayTo, Clear
<1>2. n \in 1..Len(heap.segments) /\ n < seg
  BY LaidOut DEF SegmentsInv
<1>. QED
  BY <1>1, <1>2 DEF SegmentsInv, PassedOnes

-------------------------------------------------------------------------------
(***************************************************************************)
(* The subsegments of the LFH.  Of the zone that is read, Taken records    *)
(* were looked at, or do not matter since one of them is lost; the blocks  *)
(* of those, and of all zones before, are in the set of blocks.            *)
(***************************************************************************)
Taken == Len(heap.zones[zone]) - Len(todo)

LfhSize(h, b) == h.zones[b.zone][b.record].block_size * Length(h.target)

LfhBlockAt(h, b) == EntryBlock(h, "nt_heap_lfh_entry", EntryAt(h, b.at, LfhSize(h, b)))

LookedAt(b) == stage # "gather" \/ b.zone < zone \/ (b.zone = zone /\ b.record <= Taken)

LfhBlocksOf(h) == {b \in h.blocks : b.kind = "nt_heap_lfh_entry"}

RecordStarts(h) == UNION {{EntryStart(h, h.zones[z][j]) : j \in DOMAIN h.zones[z]} : z \in DOMAIN h.zones}

LfhInv ==
    /\ stage = "gather" =>
          /\ heap.lfh /\ zone \in DOMAIN heap.zones
          /\ IsList(todo) /\ Len(todo) <= Len(heap.zones[zone])
          /\ \A j \in 1..Len(todo) : todo[j] = heap.zones[zone][Taken + j]
    /\ ~failed => \A b \in LfhBlocksOf(heap) : Reachable(heap, b) /\ LookedAt(b) => LfhBlockAt(heap, b) \in out
    /\ lfh_data \subseteq RecordStarts(heap)

LEMMA ZonesAreLists ==
    ASSUME SegmentsInv
    PROVE  /\ DOMAIN heap.zones = 1..Len(heap.zones) /\ Len(heap.zones) \in Nat
           /\ \A z \in DOMAIN heap.zones : Len(heap.zones[z]) \in Nat /\ DOMAIN heap.zones[z] = 1..Len(heap.zones[z])
BY LaidOut DEF IsLaidOut, IsList

LEMMA LfhPlaces ==
    ASSUME SegmentsInv, NEW b \in LfhBlocksOf(heap)
    PROVE  /\ LiesInSubsegment(heap, b) /\ b.at \in Nat /\ b.at # heap.address
           /\ heap.lfh /\ b.zone \in 1..Len(heap.zones) /\ b.record \in 1..Len(heap.zones[b.zone])
           /\ b.at \notin heap.damaged => BlockIsLaidOut(heap, b)
<1>1. LiesInSubsegment(heap, b) /\ b.at \in Nat /\ b.at # heap.address
      /\ (b.at \notin heap.damaged => BlockIsLaidOut(heap, b))
  BY LaidOut DEF IsLaidOut, LfhBlocksOf
<1>2. heap.lfh /\ b.zone \in DOMAIN heap.zones /\ b.record \in DOMAIN heap.zones[b.zone]
  BY <1>1 DEF LiesInSubsegment
<1>. QED
  BY <1>1, <1>2, ZonesAreLists
(* The record of a block that can be reached is kept, and the block comes  *)
(* out of it.                                                              *)
LEMMA BlockIsRead ==
    ASSUME SegmentsInv, Gathered, NEW b \in LfhBlocksOf(heap), Reachable(heap, b)
    PROVE  LET r == heap.zones[b.zone][b.record] IN
           ~r.lost /\ IsSubsegment(heap, r, seen) /\ LfhBlockAt(heap, b) \in LfhBlocks(heap, r)
<1> DEFINE r == heap.zones[b.zone][b.record]
           holder == Holder(heap, b)
           start == r.user_blocks + r.offset
<1>1. /\ WayTo(heap, holder) /\ \A j \in 1..b.record : ~heap.zones[b.zone][j].lost
      /\ heap.encoded => Readable(heap, r.user_blocks)
      /\ \A k \in 0..b.index : Intact(heap, r.user_blocks + r.offset + k * r.stride)
  BY DEF Reachable, LfhBlocksOf
<1>2. /\ r.block_size \in Nat \ {0} /\ r.user_blocks \in Nat \ {0} /\ r.offset \in Nat /\ r.stride \in Nat
      /\ r.block_count \in Nat /\ b.index \in 0..(r.block_count - 1) /\ b.at = start + b.index * r.stride
      /\ ~heap.encoded => r.stride = r.block_size * Length(heap.target)
                          /\ (~heap.offset => r.offset = heap.zone_size)
      /\ holder \notin heap.damaged =>
            /\ {FlagBusy, FlagVirtualAlloc} \subseteq HeaderAt(heap, holder).flags
            /\ holder < start /\ start < holder + HeaderAt(heap, holder).size * Length(heap.target)
      /\ b.record \in Nat \ {0}
  BY LfhPlaces, ZonesAreLists DEF LiesInSubsegment
<1>3. EntryStart(heap, r) = start /\ Stride(heap, r) = r.stride
  BY <1>1, <1>2 DEF EntryStart, Stride, Encoded
<1>4. ~r.lost
  BY <1>1, <1>2
<1>5. \A k \in 0..b.index : Readable(heap, LfhAddress(heap, r, k))
  BY <1>1, <1>3 DEF LfhAddress, Intact
<1>6. b.at \notin heap.damaged /\ b.index \in 0..b.index
  BY <1>1, <1>2 DEF Intact
<1>7. LfhAddress(heap, r, b.index) = b.at
  BY <1>2, <1>3 DEF LfhAddress
<1>8. EntryAt(heap, b.at, LfhSize(heap, b)) \in LfhEntriesRead(heap, r)
  BY <1>2, <1>5, <1>7 DEF LfhEntriesRead, LfhSize
<1>9. HeaderAt(heap, b.at).lfh
  BY <1>6, LfhPlaces DEF BlockIsLaidOut, LfhBlocksOf
<1>10. LfhBlockAt(heap, b) \in LfhBlocks(heap, r)
  <2>1. EntryAt(heap, b.at, LfhSize(heap, b)).address = b.at
    BY DEF EntryAt
  <2>. QED
    BY <1>8, <1>9, <2>1 DEF LfhBlocks, LfhBlockAt
<1>11. NtBlockAt(heap, holder) \in seen
  BY <1>1, EntriesCollected DEF Gathered, Collected
<1>12. holder \notin heap.damaged
  <2>1. PICK n \in DOMAIN heap.segments :
            /\ holder \in heap.segments[n].entries
            /\ \A a \in heap.segments[n].entries : a <= holder => Intact(heap, a)
    BY <1>1 DEF WayTo
  <2>2. SegmentIsLaidOut(heap, heap.segments[n])
    BY LaidOut
  <2>3. holder \in Nat
    BY <2>1, <2>2 DEF SegmentIsLaidOut, Places
  <2> HIDE DEF holder
  <2>. QED
    BY <2>1, <2>3 DEF Intact
<1>13. HoldsSubsegment(NtBlockAt(heap, holder), {start})
  <2>1. /\ SegmentEntry(heap, holder).address = holder
        /\ SegmentEntry(heap, holder).size = HeaderAt(heap, holder).size * Length(heap.target)
    BY DEF SegmentEntry, EntryAt
  <2>2. /\ NtBlockAt(heap, holder).raw.first = holder
        /\ NtBlockAt(heap, holder).raw.size = HeaderAt(heap, holder).size * Length(heap.target)
        /\ NtBlockAt(heap, holder).internal = ({FlagBusy, FlagVirtualAlloc} \subseteq HeaderAt(heap, holder).flags)
    BY <2>1 DEF NtBlockAt, EntryBlock, Block
  <2>. QED
    BY <1>2, <1>12, <2>2 DEF HoldsSubsegment
<1>14. EntryStart(heap, r) # 0
  BY <1>2, <1>3
<1>15. IsSubsegment(heap, r, seen)
  <2> HIDE DEF r, start
  <2>. QED
    BY <1>3, <1>10, <1>11, <1>13, <1>14 DEF IsSubsegment
<1>. QED
  BY <1>4, <1>10, <1>15

LEMMA RecordKeeps == ASSUME SegmentsInv, LfhInv, TakeRecord PROVE LfhInv'
<1>1. /\ Gathered /\ todo # <<>> /\ heap' = heap /\ stage' = stage /\ zone' = zone /\ stage = "gather" /\ ~failed
  BY DEF TakeRecord, Gathered
<1>2. /\ heap.lfh /\ zone \in DOMAIN heap.zones /\ IsList(todo) /\ Len(todo) <= Len(heap.zones[zone])
      /\ \A j \in 1..Len(todo) : todo[j] = heap.zones[zone][Taken + j]
      /\ Len(heap.zones[zone]) \in Nat /\ Len(todo) \in Nat
  BY <1>1, ZonesAreLists DEF LfhInv, IsList
<1> DEFINE r == Head(todo)
<1>3. Len(todo) > 0 /\ r = todo[1] /\ r = heap.zones[zone][Taken + 1] /\ Taken + 1 \in DOMAIN heap.zones[zone]
  <2>1. Len(todo) > 0
    BY <1>1, <1>2 DEF IsList
  <2>. QED
    BY <1>2, <2>1, ZonesAreLists DEF Taken
<1>4. CASE r.lost
  <2>1. todo' = <<>> /\ out' = out /\ lfh_data' = lfh_data /\ failed' = failed
    BY <1>4 DEF TakeRecord
  <2>2. ASSUME NEW b \in LfhBlocksOf(heap), Reachable(heap, b), LookedAt(b)'
        PROVE  LfhBlockAt(heap, b) \in out
    <3>1. CASE b.zone = zone /\ b.record > Taken
      <4>1. \A j \in 1..b.record : ~heap.zones[zone][j].lost
        BY <2>2, <3>1 DEF Reachable, LfhBlocksOf
      <4>2. Taken + 1 \in 1..b.record
        BY <1>2, <3>1, LfhPlaces DEF Taken
      <4>. QED
        BY <1>3, <1>4, <4>1, <4>2
    <3>2. CASE ~(b.zone = zone /\ b.record > Taken)
      <4>1. LookedAt(b)
        BY <1>1, <1>2, <2>2, <3>2, LfhPlaces DEF LookedAt, Taken
      <4>. QED
        BY <1>1, <2>2, <4>1 DEF LfhInv
    <3>. QED
      BY <3>1, <3>2
  <2>3. IsList(todo') /\ Len(todo') = 0
    BY <2>1 DEF IsList
  <2>. QED
    BY <1>1, <1>2, <2>1, <2>2, <2>3 DEF LfhInv
<1>5. CASE ~r.lost
  <2>1. todo' = Tail(todo)
    BY <1>5 DEF TakeRecord
  <2>2. IsList(todo') /\ Len(todo') = Len(todo) - 1 /\ \A j \in 1..Len(todo') : todo'[j] = todo[j + 1]
    BY <1>2, <1>3, <2>1 DEF IsList
  <2>3. Taken' = Taken + 1
    BY <1>1, <1>2, <2>2 DEF Taken
  <2>4. \A j \in 1..Len(todo') : todo'[j] = heap.zones[zone][Taken' + j]
    <3>1. Taken \in Int
      BY <1>2 DEF Taken
    <3>2. ASSUME NEW j \in 1..Len(todo') PROVE todo'[j] = heap.zones[zone][Taken' + j]
      <4>1. j + 1 \in 1..Len(todo) /\ Taken + (j + 1) = Taken' + j
        BY <1>2, <2>2, <2>3, <3>1
      <4>. QED
        BY <1>2, <2>2, <4>1
    <3>. QED
      BY <3>2
  <2>5. out \subseteq out'
    BY <1>5 DEF TakeRecord
  <2>6. ASSUME ~failed', NEW b \in LfhBlocksOf(heap), Reachable(heap, b), LookedAt(b)'
        PROVE  LfhBlockAt(heap, b) \in out'
    <3>1. CASE b.zone = zone /\ b.record = Taken + 1
      <4>1. r = heap.zones[b.zone][b.record]
        BY <1>3, <3>1
      <4>2. IsSubsegment(heap, r, seen) /\ LfhBlockAt(heap, b) \in LfhBlocks(heap, r)
        BY <1>1, <2>6, <4>1, BlockIsRead
      <4>3. out' = out \union LfhBlocks(heap, r)
        BY <1>5, <2>6, <4>2 DEF TakeRecord
      <4>. QED
        BY <4>2, <4>3
    <3>2. CASE ~(b.zone = zone /\ b.record = Taken + 1)
      <4>1. LookedAt(b)
        BY <1>1, <1>2, <2>3, <2>6, <3>2, LfhPlaces DEF LookedAt, Taken
      <4>. QED
        BY <1>1, <2>5, <2>6, <4>1 DEF LfhInv
    <3>. QED
      BY <3>1, <3>2
  <2>7. lfh_data' \subseteq RecordStarts(heap)
    <3>1. EntryStart(heap, r) \in RecordStarts(heap)
      BY <1>2, <1>3 DEF RecordStarts
    <3>. QED
      BY <1>5, <3>1 DEF TakeRecord, LfhInv
  <2>. QED
    BY <1>1, <1>2, <2>2, <2>4, <2>6, <2>7 DEF LfhInv
<1>. QED
  BY <1>4, <1>5
LEMMA ZoneKeepsLfh == ASSUME SegmentsInv, LfhInv, NextZone PROVE LfhInv'
<1>1. /\ stage = "gather" /\ ~failed /\ failed' = failed /\ todo = <<>> /\ heap' = heap /\ zone' = zone + 1
      /\ out' = out /\ lfh_data' = lfh_data
  BY DEF NextZone, Gathered
<1>2. /\ heap.lfh /\ zone \in 1..Len(heap.zones) /\ Len(heap.zones) \in Nat /\ Len(todo) = 0
      /\ Taken = Len(heap.zones[zone]) /\ Len(heap.zones[zone]) \in Nat
  BY <1>1, ZonesAreLists DEF LfhInv, Taken
<1>3. ASSUME NEW b \in LfhBlocksOf(heap), Reachable(heap, b), b.zone <= zone
      PROVE  LfhBlockAt(heap, b) \in out
  <2>1. LookedAt(b)
    BY <1>2, <1>3, LfhPlaces DEF LookedAt
  <2>. QED
    BY <1>1, <1>3, <2>1 DEF LfhInv
<1>4. CASE zone < Len(heap.zones)
  <2>1. stage' = "gather" /\ todo' = heap.zones[zone + 1]
    BY <1>4 DEF NextZone
  <2>2. zone' \in DOMAIN heap.zones /\ IsList(todo') /\ Taken' = 0 /\ Len(todo') \in Nat
    BY <1>1, <1>2, <1>4, <2>1, ZonesAreLists DEF IsList, Taken
  <2>3. \A j \in 1..Len(todo') : todo'[j] = heap.zones[zone'][Taken' + j]
    BY <1>1, <2>1, <2>2
  <2>4. \A b \in LfhBlocksOf(heap) : LookedAt(b)' => b.zone <= zone
    BY <1>1, <1>2, <2>1, <2>2, LfhPlaces, ZonesAreLists DEF LookedAt
  <2>5. Len(todo') <= Len(heap.zones[zone'])
    BY <1>1, <2>1, <2>2
  <2>. QED
    BY <1>1, <1>2, <1>3, <2>2, <2>3, <2>4, <2>5 DEF LfhInv
<1>5. CASE ~(zone < Len(heap.zones))
  <2>1. stage' = "segment"
    BY <1>5 DEF NextZone
  <2>2. \A b \in LfhBlocksOf(heap) : b.zone <= zone
    BY <1>2, <1>5, LfhPlaces
  <2>. QED
    BY <1>1, <1>3, <2>1, <2>2 DEF LfhInv
<1>. QED
  BY <1>4, <1>5

LEMMA LfhStep == ASSUME SegmentsInv, LfhInv, [Next]_vars PROVE LfhInv'
<1>1. ASSUME VisitUncommitted \/ VisitUnreadable \/ VisitEntry \/ EndSegment \/ UNCHANGED vars
      PROVE  LfhInv'
  <2>1. heap' = heap /\ stage' = stage /\ zone' = zone /\ todo' = todo /\ lfh_data' = lfh_data
    BY <1>1 DEF VisitUncommitted, VisitUnreadable, VisitEntry, EndSegment, vars
  <2>2. out \subseteq out' /\ (~failed' => ~failed)
    BY <1>1 DEF VisitUncommitted, VisitUnreadable, VisitEntry, EndSegment, vars, Yield, Walking
  <2>. QED
    BY <2>1, <2>2 DEF LfhInv, LookedAt, Taken
<1>2. CASE EndWalk
  <2>1. /\ heap' = heap /\ stage = "segment" /\ stage' = "virtual" /\ lfh_data' = lfh_data /\ ~failed
        /\ out \subseteq out'
    BY <1>2 DEF EndWalk
  <2>. QED
    BY <2>1 DEF LfhInv, LookedAt
<1>. QED
  BY <1>1, <1>2, RecordKeeps, ZoneKeepsLfh DEF Next

-------------------------------------------------------------------------------
(* The virtual blocks come last.                                           *)
VirtualInv ==
    stage = "virtual" /\ ~failed => \A v \in heap.virtuals : VirtualFirst(heap, v) \subseteq out

LEMMA VirtualStep == ASSUME VirtualInv, [Next]_vars PROVE VirtualInv'
<1>1. CASE EndWalk
  <2>1. ~failed' => \A v \in heap.virtuals : VirtualFirst(heap, v) \subseteq out'
    BY <1>1 DEF EndWalk
  <2>. QED
    BY <1>1, <2>1 DEF EndWalk, VirtualInv
<1>2. CASE UNCHANGED vars
  BY <1>2 DEF vars, VirtualInv
<1>3. ASSUME VisitUncommitted \/ VisitUnreadable \/ VisitEntry \/ EndSegment \/ TakeRecord \/ NextZone
      PROVE  stage' # "virtual"
  BY <1>3 DEF VisitUncommitted, VisitUnreadable, VisitEntry, EndSegment, TakeRecord, NextZone, Walking, Gathered
<1>. QED
  BY <1>1, <1>2, <1>3 DEF Next, VirtualInv

LEMMA VirtualRecovered ==
    ASSUME NEW h, IsLaidOut(h), NEW b \in h.blocks, b.kind = "nt_heap_virtual_entry", Intact(h, b.at),
           NEW v \in h.virtuals, VirtualIsWritten(h, b, v)
    PROVE  LET s == VirtualBlock(h, v) IN
           /\ VirtualFirst(h, v) = {s} /\ s.state = "allocated" /\ Agree(h, b, s)
           /\ s.raw.first = b.at /\ s.raw.size = v.committed
<1>1. BlockIsLaidOut(h, b) /\ b.at \in Nat /\ b.at # h.address
  BY DEF IsLaidOut, Intact
<1>2. /\ v.entry = b.at /\ v.committed \in Nat \ {0} /\ v.unused \in Nat /\ v.unused <= v.committed
      /\ FlagBusy \in HeaderAt(h, b.at).flags
      /\ b.first = UserBegin(h, b.at) /\ b.size = v.committed - v.unused
  BY DEF VirtualIsWritten
<1> DEFINE s == VirtualBlock(h, v)
           e == VirtualEntry(h, v)
<1>3. VirtualFirst(h, v) = {s}
  BY <1>2 DEF VirtualFirst, Intact
<1>4. /\ e.target = h.target /\ e.address = b.at /\ e.size = v.committed /\ e.raw = 0
      /\ e.in_use = (FlagBusy \in HeaderAt(h, v.entry).flags /\ v.entry # h.address)
      /\ e.ust = (h.ust /\ b.at # h.address /\ HeaderAt(h, b.at).ust
                  /\ Readable(h, b.at + 2 * Length(h.target)))
  BY <1>2 DEF VirtualEntry, EntryAt
<1>5. /\ s.kind = b.kind /\ s.raw.first = b.at /\ s.raw.size = v.committed
      /\ s.state = "allocated" /\ s.size = b.size /\ s.first = UserAddress(e)
  BY <1>2, <1>4 DEF VirtualBlock, Block
<1>6. ASSUME Complete(h, b) PROVE s.first = b.first
  <2>1. e.ust = HasTraceHeader(h, b.at)
    BY <1>1, <1>4, <1>6 DEF HasTraceHeader, Complete, BlockIsLaidOut
  <2>2. h.target \in Targets
    BY DEF IsLaidOut
  <2> HIDE DEF e
  <2>3. FrontPadding(e) = 0
    BY <1>2, <1>4 DEF FrontPadding
  <2>4. e.in_use
    BY <1>1, <1>2, <1>4, Zenon
  <2>. QED
    BY <1>1, <1>2, <1>4, <1>5, <2>1, <2>2, <2>3, <2>4 DEF UserAddress, UserBegin, Length
<1>. QED
  <2>1. Agree(h, b, s)
    BY <1>5, <1>6 DEF Agree
  <2>. QED
    BY <1>3, <1>5, <2>1

LEMMA VirtualIsReported ==
    ASSUME NEW h, IsLaidOut(h), NEW starts \in SUBSET RecordStarts(h), NEW b \in h.blocks,
           b.kind = "nt_heap_virtual_entry", Reachable(h, b)
    PROVE  \E v \in h.virtuals : \E s \in VirtualFirst(h, v) :
               s.state = "allocated" /\ ~HoldsSubsegment(s, starts) /\ Agree(h, b, s)
<1>1. Intact(h, b.at)
  BY DEF Reachable
<1>2. PICK v \in h.virtuals : VirtualIsWritten(h, b, v)
  BY <1>1 DEF IsLaidOut, Intact, BlockIsLaidOut
<1> DEFINE s == VirtualBlock(h, v)
<1>3. /\ VirtualFirst(h, v) = {s} /\ s.state = "allocated" /\ Agree(h, b, s)
      /\ s.raw.first = b.at /\ s.raw.size = v.committed
  BY <1>1, <1>2, VirtualRecovered
<1>4. ~HoldsSubsegment(s, starts)
  <2>1. \A x \in starts : ~(x > b.at /\ x < b.at + v.committed)
    BY <1>2 DEF RecordStarts, VirtualIsWritten
  <2> HIDE DEF s
  <2>. QED
    BY <1>3, <2>1 DEF HoldsSubsegment
<1>. QED
  BY <1>3, <1>4
-------------------------------------------------------------------------------
NtInv == SegmentsInv /\ LfhInv /\ VirtualInv

LEMMA InitNt == ASSUME ReadersInit PROVE NtInv
<1>1. PICK p \in Processes : Init(p.nt)
  BY DEF ReadersInit
<1>2. /\ heap = p.nt /\ heap \in {q.nt : q \in Processes} /\ IsLaidOut(heap)
      /\ stage \in {"gather", "segment"} /\ seg = 1 /\ at = StartOf(heap, 1) /\ lfh_data = {}
      /\ stage = "gather" => heap.lfh /\ Len(heap.zones) > 0 /\ zone = 1 /\ todo = heap.zones[1]
      /\ stage = "segment" => ~(heap.lfh /\ Len(heap.zones) > 0)
  BY <1>1, ProcessesAssumption DEF Init
<1>3. /\ IsList(heap.segments) /\ IsList(heap.zones) /\ \A z \in DOMAIN heap.zones : IsList(heap.zones[z])
      /\ \A n \in DOMAIN heap.segments : SegmentIsLaidOut(heap, heap.segments[n])
  BY <1>2 DEF IsLaidOut
<1>4. SegmentsInv
  <2>1. 1 <= Len(heap.segments) =>
           /\ at \in Nat /\ at \in Places(heap.segments[1])
           /\ \A p2 \in Places(heap.segments[1]) : at <= p2
    BY <1>2, <1>3 DEF IsList, StartOf, SegmentIsLaidOut
  <2>2. ~(1 <= Len(heap.segments)) => at = 0
    BY <1>2 DEF StartOf
  <2>3. ASSUME NEW n \in 1..Len(heap.segments), NEW p2 \in heap.segments[n].entries
        PROVE  ~PassedOnes(heap, n, p2)
    <3>1. p2 \in Nat /\ p2 \in Places(heap.segments[n])
      BY <1>3 DEF IsList, SegmentIsLaidOut, Places
    <3>. QED
      BY <1>2, <1>3, <2>1, <3>1 DEF IsList, PassedOnes
  <2>. QED
    BY <1>2, <1>3, <2>1, <2>2, <2>3 DEF SegmentsInv, IsList
<1>5. LfhInv
  <2>1. CASE stage = "gather"
    <3>1. zone \in DOMAIN heap.zones /\ IsList(todo) /\ Taken = 0 /\ Len(todo) \in Nat
      BY <1>2, <1>3, <2>1 DEF IsList, Taken
    <3>2. \A b \in LfhBlocksOf(heap) : ~LookedAt(b)
      BY <1>2, <1>4, <2>1, <3>1, LfhPlaces, ZonesAreLists DEF LookedAt
    <3>3. \A j \in 1..Len(todo) : todo[j] = heap.zones[zone][Taken + j]
      BY <1>2, <2>1, <3>1
    <3>4. Len(todo) <= Len(heap.zones[zone])
      BY <1>2, <2>1, <3>1
    <3>. QED
      BY <1>2, <2>1, <3>1, <3>2, <3>3, <3>4 DEF LfhInv
  <2>2. CASE stage = "segment"
    <3>1. LfhBlocksOf(heap) = {}
      BY <1>2, <1>4, <2>2, LfhPlaces, ZonesAreLists
    <3>. QED
      BY <1>2, <2>2, <3>1 DEF LfhInv
  <2>. QED
    BY <1>2, <2>1, <2>2
<1>. QED
  BY <1>2, <1>4, <1>5 DEF NtInv, VirtualInv

LEMMA StepNt == ASSUME NtInv, [ReadersNext]_readers PROVE NtInv'
<1>1. [Next]_vars
  BY DEF ReadersNext, ReadNt, ReadSegment, readers
<1>. QED
  BY <1>1, SegmentsStep, LfhStep, VirtualStep DEF NtInv

LEMMA NtInvariance == ReadersSpec => []NtInv
<1>. QED
  BY InitNt, StepNt, PTL DEF ReadersSpec

(* Whatever pages a dump lacks and whatever headers are overwritten, in    *)
(* every NT heap: a block is reported where it is, with the size that the  *)
(* program asked for, unless a header on the way to it is missing or       *)
(* damaged.                                                                *)
THEOREM NoNtBlockIsLost == ReadersSpec => []NtBlocksShown
<1>1. ASSUME NtInv, Done, NEW b \in heap.blocks, Reachable(heap, b)
      PROVE  \E s \in Shown : Agree(heap, b, s)
  <2>1. /\ SegmentsInv /\ LfhInv /\ VirtualInv /\ stage = "virtual" /\ ~failed
        /\ seg > Len(heap.segments) /\ Collected = out
    BY <1>1, LaidOut DEF NtInv, Done, SegmentsInv, Collected
  <2>2. IsLaidOut(heap) /\ heap.target \in Targets
    BY <2>1, LaidOut DEF IsLaidOut
  <2>3. /\ b.at \in Nat /\ b.at # heap.address
        /\ b.kind \in {"nt_heap_segment_entry", "nt_heap_lfh_entry", "nt_heap_virtual_entry"}
        /\ b.at \notin heap.damaged => BlockIsLaidOut(heap, b)
    BY <2>2 DEF IsLaidOut
  <2>4. \A s : ~s.internal => ~HoldsSubsegment(s, lfh_data)
    BY DEF HoldsSubsegment
  <2>5. CASE b.kind = "nt_heap_segment_entry"
    <3>1. WayTo(heap, b.at)
      BY <1>1, <2>5 DEF Reachable
    <3>2. b.at \notin heap.damaged
      BY <2>3, <3>1 DEF WayTo, Intact
    <3>3. NtBlockAt(heap, b.at) \in out
      BY <2>1, <3>1, EntriesCollected
    <3>4. /\ IsPlain(heap, b) /\ BlockIsWritten(heap, b, HeaderAt(heap, b.at).size * Length(heap.target))
          /\ HasTraceHeader(heap, b.at) => (b.at + 2 * Length(heap.target)) \in b.needs
      BY <2>3, <2>5, <3>2 DEF BlockIsLaidOut
    <3>5. LET s == NtBlockAt(heap, b.at) IN s.state = "allocated" /\ ~s.internal /\ Agree(heap, b, s)
      BY <2>2, <2>3, <2>5, <3>4, WrittenIsReported DEF NtBlockAt, SegmentEntry
    <3>. QED
      BY <2>4, <3>3, <3>5 DEF Shown
  <2>6. CASE b.kind = "nt_heap_lfh_entry"
    <3>1. b \in LfhBlocksOf(heap)
      BY <2>6 DEF LfhBlocksOf
    <3>2. LfhBlockAt(heap, b) \in out
      BY <1>1, <2>1, <3>1 DEF LfhInv, LookedAt
    <3>3. b.at \notin heap.damaged
      <4>1. /\ b.at = heap.zones[b.zone][b.record].user_blocks + heap.zones[b.zone][b.record].offset
                        + b.index * heap.zones[b.zone][b.record].stride
            /\ b.index \in 0..b.index
        BY <2>1, <3>1, LfhPlaces DEF LiesInSubsegment
      <4>. QED
        BY <1>1, <2>6, <4>1 DEF Reachable, Intact
    <3>4. /\ IsPlain(heap, b) /\ BlockIsWritten(heap, b, LfhSize(heap, b))
          /\ HasTraceHeader(heap, b.at) => (b.at + 2 * Length(heap.target)) \in b.needs
      BY <2>3, <2>6, <3>3 DEF BlockIsLaidOut, LfhSize
    <3>5. LET s == LfhBlockAt(heap, b) IN s.state = "allocated" /\ ~s.internal /\ Agree(heap, b, s)
      BY <2>2, <2>3, <2>6, <3>4, WrittenIsReported DEF LfhBlockAt
    <3>. QED
      BY <2>4, <3>2, <3>5 DEF Shown
  <2>7. CASE b.kind = "nt_heap_virtual_entry"
    <3>1. PICK v \in heap.virtuals : \E s \in VirtualFirst(heap, v) :
             s.state = "allocated" /\ ~HoldsSubsegment(s, lfh_data) /\ Agree(heap, b, s)
      <4>1. lfh_data \subseteq RecordStarts(heap)
        BY <2>1 DEF LfhInv
      <4>. QED
        BY <1>1, <2>2, <2>7, <4>1, VirtualIsReported
    <3>. QED
      BY <2>1, <3>1 DEF VirtualInv, Shown
  <2>. QED
    BY <2>3, <2>5, <2>6, <2>7
<1>2. NtInv => NtBlocksShown
  BY <1>1 DEF NtBlocksShown
<1>. QED
  BY <1>2, NtInvariance, PTL

-------------------------------------------------------------------------------
(***************************************************************************)
(* Where the blocks that are reported as allocated come from.  In a heap   *)
(* that is not damaged the walk only stands where an entry or a range      *)
(* begins, and a record is only kept for an internal entry that is there.  *)
(***************************************************************************)

(* What the reader makes of a header has the type of an entry.             *)
LEMMA EntryIsTyped ==
    ASSUME NEW h, IsLaidOut(h), NEW a \in Nat, NEW size \in Nat
    PROVE  LET e == EntryAt(h, a, size) IN
           /\ e \in Entries /\ e.target = h.target /\ e.address = a /\ e.size = size
           /\ e.in_use = (IsBusy(h, HeaderAt(h, a)) /\ a # h.address)
           /\ e.ust => a # h.address
<1>. DEFINE header == HeaderAt(h, a)
            busy == IsBusy(h, header) /\ a # h.address
            traced == h.ust /\ a # h.address /\ header.ust /\ Readable(h, a + 2 * Length(h.target))
            Record(eod) ==
              [target |-> h.target, address |-> a, size |-> size, in_use |-> busy, raw |-> header.raw,
               eod |-> eod, ust |-> traced, gap |-> header.gap, ust_raw |-> header.ust_raw]
            e == EntryAt(h, a, size)
<1>1. header \in Headers /\ h.target \in Targets
  BY DEF IsLaidOut, HeaderAt
<1>2. busy \in BOOLEAN /\ traced \in BOOLEAN
  <2>. HIDE DEF header
  <2>1. CASE header.lfh
    BY <2>1 DEF IsBusy
  <2>2. CASE ~header.lfh
    BY <2>2 DEF IsBusy
  <2>. QED
    BY <2>1, <2>2
<1>3. e = Record(None) \/ e = Record(header.eod)
  <2>1. Record(header.eod) = [Record(None) EXCEPT !.eod = header.eod]
    <3>. HIDE DEF busy, traced, header
    <3>. QED
      OBVIOUS
  <2>. HIDE DEF Record
  <2>2. \/ e = Record(None) \/ e = [Record(None) EXCEPT !.eod = header.eod]
    BY DEF EntryAt, Record
  <2>. QED
    BY <2>1, <2>2
<1>4. /\ header.raw \in 0..127 /\ header.eod \in Int /\ header.gap \in Nat \union {None} /\ header.ust_raw \in Nat
  BY <1>1 DEF Headers
<1>. HIDE DEF header, e
<1>5. traced => a # h.address
  OBVIOUS
<1>6. \A eod \in Int : Record(eod) \in Entries
  <2>. HIDE DEF busy, traced
  <2>. QED
    BY <1>1, <1>2, <1>4 DEF Entries
<1>7. e \in Entries /\ e.target = h.target /\ e.address = a /\ e.size = size /\ e.in_use = busy /\ e.ust = traced
  <2>. HIDE DEF busy, traced
  <2>. QED
    BY <1>3, <1>4, <1>6 DEF None
<1>. QED
  BY <1>5, <1>7 DEF e, header

(* A block that was constructed has what it says it has within its bounds, *)
(* and that is never more than its size.                                   *)
LEMMA UserDataIsInside ==
    ASSUME NEW e \in Entries, Constructed(e)
    PROVE  /\ UserAddress(e) \in Nat /\ Requested(e) \in Nat
           /\ UserAddress(e) + Requested(e) <= e.address + e.size + Private(e.target)
           /\ e.in_use => UserAddress(e) >= e.address + Length(e.target)
<1>1. /\ e.target \in {"x86", "x64"} /\ e.size \in Nat /\ e.address \in Nat /\ e.raw \in 0..127 /\ e.ust_raw \in Nat
      /\ e.in_use \in BOOLEAN /\ e.ust \in BOOLEAN /\ e.eod \in Int /\ e.gap \in Nat \union {None}
  BY DEF Entries, Targets
<1>2. UserAddress(e) \in Nat /\ (e.in_use => UserAddress(e) >= e.address + Length(e.target))
  BY <1>1 DEF UserAddress, FrontPadding, UstHeaderSize, Length
<1>3. DataArea(e) \in Int
  BY <1>1, <1>2 DEF DataArea, FrontPadding, Length, Private
<1>4. GivenUnused(e) \in Int
  BY <1>1, <1>2 DEF GivenUnused, Offset
<1>5. Unused(e) \in Int
  BY <1>1, <1>3, <1>4 DEF Unused, Remainder, KnownByGap, Offset, EndGapOffset, DividesByZero, Constructed, None, KnownByEod
<1>6. Requested(e) \in Int
  BY <1>1, <1>3, <1>5 DEF Requested, Remainder, DividesByZero, Constructed
<1>. QED
  BY <1>2, <1>6 DEF Constructed, UserDataInBlock

(* The block of the heap has no user data.                                 *)
LEMMA HeapBlockIsSmall ==
    ASSUME NEW e \in Entries, Constructed(e), ~e.in_use, ~e.ust
    PROVE  UserAddress(e) = 0 /\ Requested(e) <= e.size
<1>1. /\ e.target \in {"x86", "x64"} /\ e.size \in Nat /\ e.address \in Nat /\ e.raw \in 0..127
      /\ e.eod \in Int
  BY DEF Entries, Targets
<1>2. UserAddress(e) = 0
  BY DEF UserAddress
<1>3. DataArea(e) \in Int /\ DataArea(e) <= e.size
  BY <1>1 DEF DataArea, FrontPadding, Length, Private
<1>4. GivenUnused(e) = e.raw /\ ~KnownByGap(e)
  BY DEF GivenUnused, KnownByGap
<1>5. Unused(e) \in Int /\ Unused(e) >= 0
  BY <1>1, <1>3, <1>4 DEF Unused, Remainder, Offset, DividesByZero, Constructed, None, KnownByEod
<1>6. Requested(e) <= e.size
  BY <1>1, <1>3, <1>5 DEF Requested, Remainder, DividesByZero, Constructed
<1>. QED
  BY <1>2, <1>6

SegmentSource(h, x) ==
    \E a \in EntriesOf(h) : WayTo(h, a) /\ Constructed(SegmentEntry(h, a)) /\ x = NtBlockAt(h, a)

RecordSource(h, x, z, j, a) ==
    LET r == h.zones[z][j] IN
    /\ \A m \in 1..j : ~h.zones[z][m].lost
    /\ WayTo(h, a) /\ IsInternal(h, a) /\ LiesIn(h, EntryStart(h, r), a)
    /\ x \in LfhBlocks(h, r)
    /\ \A e \in LfhEntriesRead(h, r) : Constructed(e)

LfhSource(h, x, starts) ==
    \E z \in DOMAIN h.zones : \E j \in DOMAIN h.zones[z] : \E a \in EntriesOf(h) :
        EntryStart(h, h.zones[z][j]) \in starts /\ RecordSource(h, x, z, j, a)

VirtualSource(h, x) == \E v \in h.virtuals : x \in VirtualFirst(h, v) /\ ~VirtualThrows(h, v)

NtRealInv ==
    heap.damaged = {} =>
        /\ \A x \in seen : x.internal => SegmentSource(heap, x)
        /\ \A x \in out : x.state = "allocated" =>
              SegmentSource(heap, x) \/ LfhSource(heap, x, lfh_data) \/ VirtualSource(heap, x)
        /\ Walking => ClearBefore(heap, seg, at)
        /\ stage = "gather" /\ todo # <<>> => \A m \in 1..Taken : ~heap.zones[zone][m].lost

LEMMA SourcesStay ==
    ASSUME NEW h, NEW x, NEW starts, NEW more, LfhSource(h, x, starts), starts \subseteq more
    PROVE  LfhSource(h, x, more)
BY DEF LfhSource

LEMMA RangesAreFree ==
    ASSUME NEW kind, NEW address, NEW size
    PROVE  NoEntry(kind, address, size).state # "allocated" /\ ~NoEntry(kind, address, size).internal
BY DEF NoEntry

(* What the walk has yielded, by the stage it is in.                       *)
LEMMA YieldKeeps ==
    ASSUME NtRealInv, heap' = heap, stage' = stage, todo' = todo, zone' = zone, lfh_data' = lfh_data,
           NEW blocks, Yield(blocks), Walking' => ClearBefore(heap, seg', at'),
           \A x \in blocks : (x.internal \/ x.state = "allocated") /\ heap.damaged = {} => SegmentSource(heap, x)
    PROVE  NtRealInv'
<1>1. SUFFICES ASSUME heap.damaged = {} PROVE NtRealInv'
  BY DEF NtRealInv
<1>2. \A x \in seen' : x.internal => SegmentSource(heap, x)
  BY <1>1 DEF NtRealInv, Yield
<1>3. \A x \in out' : x.state = "allocated" =>
         SegmentSource(heap, x) \/ LfhSource(heap, x, lfh_data) \/ VirtualSource(heap, x)
  BY <1>1 DEF NtRealInv, Yield
<1>4. stage' = "gather" /\ todo' # <<>> => \A m \in 1..Taken' : ~heap.zones[zone'][m].lost
  BY <1>1 DEF NtRealInv, Taken
<1>. QED
  BY <1>2, <1>3, <1>4 DEF NtRealInv

(* The place of the walk, and the next one.                                *)
LEMMA NextPlaceIsClear ==
    ASSUME SegmentsInv, NtRealInv, heap.damaged = {}, Walking, at < Segment.last
    PROVE  /\ at \in Places(Segment) /\ ClearBefore(heap, seg, at)
           /\ \A next \in Nat :
                Follows(Segment, at, next) /\ (at \in Segment.entries => Readable(heap, at)) =>
                    ClearBefore(heap, seg, next)
<1>1. /\ seg \in 1..Len(heap.segments) /\ Segment = heap.segments[seg] /\ Segment.last \in Nat
      /\ Segment.entries \subseteq Nat /\ at \in Nat /\ Len(heap.segments) \in Nat
  BY AtPlace, LaidOut DEF SegmentsInv
<1>2. ClearBefore(heap, seg, at)
  BY DEF NtRealInv
<1>3. at \in Places(Segment)
  BY <1>1, <1>2 DEF SegmentsInv
<1>4. ASSUME NEW next \in Nat, Follows(Segment, at, next), at \in Segment.entries => Readable(heap, at),
             NEW a \in Segment.entries, a < next
      PROVE  Intact(heap, a)
  <2>1. ~(at < a)
    BY <1>1, <1>4 DEF Follows, Places
  <2>2. CASE a = at
    BY <1>4, <2>2 DEF Intact
  <2>3. CASE a < at
    BY <1>1, <1>2, <2>3 DEF ClearBefore
  <2>. QED
    BY <1>1, <2>1, <2>2, <2>3
<1>. QED
  BY <1>1, <1>2, <1>3, <1>4 DEF ClearBefore

LEMMA FirstPlaceIsClear ==
    ASSUME SegmentsInv, NEW n \in 1..Len(heap.segments)
    PROVE  ClearBefore(heap, n, StartOf(heap, n))
<1>1. /\ n \in 1..(Len(heap.segments) + 1) /\ n <= Len(heap.segments) /\ SegmentIsLaidOut(heap, heap.segments[n])
  BY LaidOut
<1>2. StartOf(heap, n) \in Nat /\ \A p \in heap.segments[n].entries : p \in Nat /\ StartOf(heap, n) <= p
  BY <1>1, SegmentStart DEF SegmentIsLaidOut, Places
<1>. QED
  BY <1>2 DEF ClearBefore

LEMMA SegmentsKeepReal ==
    ASSUME SegmentsInv, NtRealInv,
           VisitUncommitted \/ VisitUnreadable \/ VisitEntry \/ EndSegment
    PROVE  NtRealInv'
<1>1. /\ Walking /\ heap' = heap /\ stage' = stage /\ todo' = todo /\ zone' = zone /\ lfh_data' = lfh_data
      /\ seg \in 1..Len(heap.segments) /\ Segment = heap.segments[seg] /\ at \in Nat
      /\ Len(heap.segments) \in Nat
  BY AtPlace, LaidOut DEF VisitUncommitted, VisitUnreadable, VisitEntry, EndSegment, SegmentsInv, Walking
<1>2. SUFFICES ASSUME heap.damaged = {} PROVE NtRealInv'
  BY <1>1 DEF NtRealInv
<1>3. NextSegment => (Walking' => ClearBefore(heap, seg', at'))
  <2>1. ASSUME NextSegment, Walking' PROVE seg' \in 1..Len(heap.segments) /\ at' = StartOf(heap, seg')
    BY <1>1, <2>1 DEF NextSegment, Walking
  <2>. QED
    BY <2>1, FirstPlaceIsClear
<1>4. CASE VisitUncommitted
  <2>1. PICK r \in UncommittedAt(Segment, at) :
           Yield({NoEntry("nt_heap_segment_entry", r.address, r.size)}) /\ at' = at + r.size
    BY <1>4 DEF VisitUncommitted
  <2>2. PICK i \in 1..Len(Segment.ucr) : r = Segment.ucr[i] /\ Segment.ucr[i].address = at
    BY <2>1 DEF UncommittedAt
  <2>3. SegmentIsLaidOut(heap, Segment) /\ at < Segment.last /\ seg' = seg
    BY <1>1, <1>4, AtPlace DEF VisitUncommitted
  <2>4. at' \in Nat /\ at \notin Segment.entries /\ Follows(Segment, at, at')
    <3>1. /\ i \in DOMAIN Segment.ucr /\ Segment.ucr[i].size \in Nat /\ at \notin Segment.entries
          /\ Follows(Segment, at, at + r.size)
      BY <2>2, <2>3 DEF SegmentIsLaidOut, IsList
    <3>. QED
      BY <1>1, <2>1, <2>2, <3>1
  <2>5. ClearBefore(heap, seg', at')
    BY <1>1, <1>2, <2>3, <2>4, NextPlaceIsClear
  <2>. QED
    BY <1>1, <2>1, <2>5, RangesAreFree, YieldKeeps
<1>5. CASE VisitUnreadable \/ EndSegment
  <2>1. NextSegment /\ \E blocks : Yield(blocks) /\ \A x \in blocks : x.state # "allocated" /\ ~x.internal
    BY <1>5, RangesAreFree DEF VisitUnreadable, EndSegment
  <2>. QED
    BY <1>1, <1>3, <2>1, YieldKeeps
<1>6. CASE VisitEntry
  <2>1. /\ at < Segment.last /\ UncommittedAt(Segment, at) = {} /\ Readable(heap, at) /\ seg' = seg
    BY <1>6 DEF VisitEntry
  <2>2. at \in Places(Segment) /\ at \in Segment.entries /\ ClearBefore(heap, seg, at)
    BY <1>1, <1>2, <2>1, AtPlace, NextPlaceIsClear
  <2> DEFINE e == SegmentEntry(heap, at)
  <2>3. CASE Constructed(e)
    <3>1. at' = at + e.size /\ Yield({NtBlockAt(heap, at)})
      BY <2>3, <1>6 DEF VisitEntry, NtBlockAt
    <3>2. e.size = HeaderAt(heap, at).size * Length(heap.target) /\ e.size \in Nat
      BY LaidOut, SizesOfHeaders DEF SegmentEntry, EntryAt
    <3>3. Intact(heap, at) /\ SegmentIsLaidOut(heap, Segment)
      BY <1>1, <1>2, <2>1, AtPlace DEF Intact
    <3>4. Follows(Segment, at, at') /\ at' \in Nat
      BY <1>1, <2>2, <3>1, <3>2, <3>3 DEF SegmentIsLaidOut
    <3>5. ClearBefore(heap, seg', at')
      BY <1>1, <1>2, <2>1, <3>4, NextPlaceIsClear
    <3>6. WayTo(heap, at) /\ at \in EntriesOf(heap)
      <4>1. \A a \in Segment.entries : a \in Nat
        BY AtPlace, <1>1
      <4>2. \A a \in Segment.entries : a <= at => Intact(heap, a)
        BY <1>1, <2>2, <3>3, <4>1 DEF ClearBefore
      <4>3. seg \in DOMAIN heap.segments
        BY <1>1, LaidOut
      <4>. QED
        BY <1>1, <2>2, <4>2, <4>3 DEF WayTo, EntriesOf
    <3>7. SegmentSource(heap, NtBlockAt(heap, at))
      BY <2>3, <3>6 DEF SegmentSource
    <3>. QED
      BY <1>1, <3>1, <3>5, <3>7, YieldKeeps
  <2>4. CASE ~Constructed(e)
    <3>1. failed' /\ seen' = seen /\ out' = out
      BY <2>4, <1>6 DEF VisitEntry
    <3>. QED
      BY <1>1, <3>1 DEF NtRealInv, Walking, Taken
  <2>. QED
    BY <2>3, <2>4
<1>. QED
  BY <1>4, <1>5, <1>6

(* A record that is kept leads to an internal entry that is there.         *)
LEMMA RecordKeepsReal == ASSUME SegmentsInv, LfhInv, NtRealInv, TakeRecord PROVE NtRealInv'
<1>1. /\ Gathered /\ todo # <<>> /\ heap' = heap /\ stage' = stage /\ zone' = zone /\ seen' = seen /\ seg' = seg
      /\ stage = "gather" /\ ~failed /\ seg > Len(heap.segments) /\ Len(heap.segments) \in Nat /\ seg \in Nat
  BY LaidOut DEF TakeRecord, Gathered, SegmentsInv
<1>2. SUFFICES ASSUME heap.damaged = {} PROVE NtRealInv'
  BY <1>1 DEF NtRealInv
<1>3. /\ zone \in DOMAIN heap.zones /\ IsList(todo) /\ Len(todo) <= Len(heap.zones[zone])
      /\ \A j \in 1..Len(todo) : todo[j] = heap.zones[zone][Taken + j]
      /\ Len(heap.zones[zone]) \in Nat /\ Len(todo) \in Nat
  BY <1>1, ZonesAreLists DEF LfhInv, IsList
<1> DEFINE r == Head(todo)
<1>4. Len(todo) > 0 /\ r = heap.zones[zone][Taken + 1] /\ Taken + 1 \in DOMAIN heap.zones[zone] /\ Taken \in Nat
  <2>1. Len(todo) > 0
    BY <1>1, <1>3 DEF IsList
  <2>. QED
    BY <1>3, <2>1, ZonesAreLists DEF Taken
<1>5. ~Walking'
  BY <1>1 DEF Walking
<1>6. CASE r.lost
  <2>1. todo' = <<>> /\ lfh_data' = lfh_data /\ out' = out
    BY <1>6 DEF TakeRecord
  <2>. QED
    BY <1>1, <1>5, <2>1 DEF NtRealInv
<1>7. CASE ~r.lost
  <2>1. todo' = Tail(todo) /\ failed' = (EntryDataThrows(heap, r) \/ LfhThrows(heap, r, seen))
    BY <1>7 DEF TakeRecord
  <2>2. Taken' = Taken + 1
    BY <1>1, <1>3, <1>4, <2>1 DEF Taken, IsList
  <2>3. \A m \in 1..(Taken + 1) : ~heap.zones[zone][m].lost
    <3>1. \A m \in 1..Taken : ~heap.zones[zone][m].lost
      BY <1>1, <1>2 DEF NtRealInv
    <3>2. ASSUME NEW m \in 1..(Taken + 1) PROVE m \in 1..Taken \/ m = Taken + 1
      BY <1>4
    <3>. QED
      BY <1>4, <1>7, <3>1, <3>2
  <2>4. CASE ~failed' /\ IsSubsegment(heap, r, seen)
    <3>1. lfh_data' = lfh_data \union {EntryStart(heap, r)} /\ out' = out \union LfhBlocks(heap, r)
      BY <1>7, <2>4 DEF TakeRecord
    <3>2. PICK b \in seen : HoldsSubsegment(b, {EntryStart(heap, r)})
      BY <2>4 DEF IsSubsegment
    <3>3. b.internal /\ EntryStart(heap, r) > b.raw.first /\ EntryStart(heap, r) < b.raw.first + b.raw.size
      BY <3>2 DEF HoldsSubsegment
    <3>4. PICK a \in EntriesOf(heap) : WayTo(heap, a) /\ b = NtBlockAt(heap, a)
      BY <1>2, <3>3 DEF NtRealInv, SegmentSource
    <3>5. /\ b.raw.first = a /\ b.raw.size = SizeAt(heap, a) /\ b.internal = IsInternal(heap, a)
      BY <3>4 DEF NtBlockAt, EntryBlock, Block, SegmentEntry, EntryAt, SizeAt, IsInternal
    <3>6. IsInternal(heap, a) /\ LiesIn(heap, EntryStart(heap, r), a)
      <4>1. a \in Nat
        BY <3>4, LaidOut DEF EntriesOf, SegmentIsLaidOut, Places
      <4>. QED
        BY <3>3, <3>5, <4>1 DEF LiesIn
    <3>7. \A e \in LfhEntriesRead(heap, r) : Constructed(e)
      BY <2>1, <2>4, <3>2 DEF LfhThrows, IsSubsegment
    <3>8. \A x \in LfhBlocks(heap, r) : LfhSource(heap, x, lfh_data')
      <4>1. \A x \in LfhBlocks(heap, r) : RecordSource(heap, x, zone, Taken + 1, a)
        BY <1>4, <2>3, <3>4, <3>6, <3>7 DEF RecordSource
      <4>. QED
        BY <1>3, <1>4, <3>1, <4>1 DEF LfhSource
    <3>9. \A x \in out : LfhSource(heap, x, lfh_data) => LfhSource(heap, x, lfh_data')
      BY <3>1, SourcesStay
    <3>. QED
      BY <1>1, <1>2, <1>5, <2>2, <2>3, <3>1, <3>8, <3>9 DEF NtRealInv
  <2>5. CASE ~(~failed' /\ IsSubsegment(heap, r, seen))
    <3>1. lfh_data' = lfh_data /\ out' = out
      BY <1>7, <2>5 DEF TakeRecord
    <3>. QED
      BY <1>1, <1>2, <1>5, <2>2, <2>3, <3>1 DEF NtRealInv
  <2>. QED
    BY <2>4, <2>5
<1>. QED
  BY <1>6, <1>7

LEMMA ZoneKeepsReal == ASSUME SegmentsInv, LfhInv, NtRealInv, NextZone PROVE NtRealInv'
<1>1. /\ heap' = heap /\ seen' = {} /\ seg' = 1 /\ at' = StartOf(heap, 1) /\ out' = out /\ lfh_data' = lfh_data
      /\ zone' = zone + 1 /\ Len(heap.segments) \in Nat
  BY LaidOut DEF NextZone
<1>2. Walking' => ClearBefore(heap, seg', at')
  BY <1>1, FirstPlaceIsClear DEF Walking
<1>3. stage' = "gather" => todo' = heap.zones[zone']
  BY <1>1 DEF NextZone
<1>4. stage' = "gather" => \A m \in 1..Taken' : ~heap.zones[zone'][m].lost
  <2>1. ASSUME stage' = "gather" PROVE Taken' = 0
    <3>1. zone' \in DOMAIN heap.zones
      <4>1. zone \in 1..Len(heap.zones)
        BY ZonesAreLists DEF LfhInv, NextZone, Gathered
      <4>. QED
        BY <1>1, <2>1, <4>1, ZonesAreLists DEF NextZone
    <3>. QED
      BY <1>1, <1>3, <2>1, <3>1, ZonesAreLists DEF Taken
  <2>. QED
    BY <2>1
<1>. QED
  BY <1>1, <1>2, <1>4 DEF NtRealInv

LEMMA EndKeepsReal == ASSUME NtRealInv, EndWalk PROVE NtRealInv'
<1>1. heap' = heap /\ seen' = seen /\ lfh_data' = lfh_data /\ stage' = "virtual" /\ ~Walking'
  BY DEF EndWalk, Walking
<1>2. ASSUME NEW x \in out', x.state = "allocated"
      PROVE  x \in out \/ VirtualSource(heap, x)
  <2>1. SUFFICES ASSUME x \notin out PROVE VirtualSource(heap, x)
    OBVIOUS
  <2>2. PICK v \in heap.virtuals : x \in VirtualFirst(heap, v) \union VirtualRest(v) /\ ~VirtualThrows(heap, v)
    BY <1>2, <2>1 DEF EndWalk
  <2>3. x \notin VirtualRest(v)
    BY <1>2, RangesAreFree DEF VirtualRest
  <2>. QED
    BY <2>2, <2>3 DEF VirtualSource
<1>. QED
  BY <1>1, <1>2 DEF NtRealInv

LEMMA NtRealStep == ASSUME SegmentsInv, LfhInv, NtRealInv, [Next]_vars PROVE NtRealInv'
<1>1. CASE UNCHANGED vars
  BY <1>1 DEF vars, NtRealInv, Walking, Taken
<1>. QED
  BY <1>1, SegmentsKeepReal, RecordKeepsReal, ZoneKeepsReal, EndKeepsReal DEF Next

(* The memory a reported block stands for, its header left out; the end    *)
(* may be within the part of the next header that a block may use.         *)
Within(h, x, low, high) ==
    /\ x.first \in Nat /\ x.size \in Nat
    /\ low + Length(h.target) <= x.first /\ x.first + x.size <= high + Private(h.target)

LEMMA ApartInTheHeap ==
    ASSUME NEW h, NEW x, NEW y, NEW l \in Nat, NEW m \in Nat, NEW k \in Nat, NEW n \in Nat,
           Within(h, x, l, m), Within(h, y, k, n), m <= k \/ n <= l
    PROVE  Apart(x, y)
<1>1. Length(h.target) \in Nat /\ Private(h.target) \in Nat /\ Private(h.target) < Length(h.target)
  BY DEF Length, Private
<1>. QED
  BY <1>1 DEF Within, Apart, LastAddress

(* An entry in use that was constructed.                                   *)
LEMMA EntryIsWithin ==
    ASSUME NEW h, IsLaidOut(h), NEW a \in Nat \ {h.address}, NEW size \in Nat, NEW kind,
           Constructed(EntryAt(h, a, size)), EntryBlock(h, kind, EntryAt(h, a, size)).state = "allocated"
    PROVE  Within(h, EntryBlock(h, kind, EntryAt(h, a, size)), a, a + size)
<1> DEFINE e == EntryAt(h, a, size)
<1>1. /\ e \in Entries /\ e.target = h.target /\ e.address = a /\ e.size = size
      /\ e.in_use = (IsBusy(h, HeaderAt(h, a)) /\ a # h.address)
  BY EntryIsTyped
<1>2. IsBusy(h, HeaderAt(h, e.address))
  BY DEF EntryBlock, Block
<1>3. e.in_use
  BY <1>1, <1>2
<1> DEFINE s == EntryBlock(h, kind, e)
<1>4. s.first = UserAddress(e) /\ s.size = Requested(e)
  BY DEF EntryBlock, Block
<1> HIDE DEF e, s
<1>5. /\ UserAddress(e) \in Nat /\ Requested(e) \in Nat
      /\ UserAddress(e) + Requested(e) <= e.address + e.size + Private(e.target)
      /\ UserAddress(e) >= e.address + Length(e.target)
  BY <1>1, <1>3, UserDataIsInside DEF e
<1>. QED
  BY <1>1, <1>4, <1>5 DEF Within, e, s

(* What is where in a heap that is not damaged.                            *)
LEMMA TrueOfNtHeap ==
    ASSUME NEW h, IsLaidOut(h), h.damaged = {}
    PROVE  /\ EntriesOf(h) \subseteq Nat /\ \A a : SizeAt(h, a) \in Nat
           /\ NtHeapIsTrue(h) /\ h.target \in Targets
           /\ \A b \in h.blocks : b.at \in Nat \ {h.address} /\ BlockIsLaidOut(h, b)
<1>1. \A a \in EntriesOf(h) : a \in Nat
  BY DEF EntriesOf, IsLaidOut, SegmentIsLaidOut, Places
<1>2. \A a : SizeAt(h, a) \in Nat
  BY SizesOfHeaders DEF SizeAt
<1>3. NtHeapIsTrue(h) /\ h.target \in Targets
  BY DEF IsLaidOut
<1>4. \A b \in h.blocks : b.at \in Nat \ {h.address} /\ BlockIsLaidOut(h, b)
  BY DEF IsLaidOut
<1>. QED
  BY <1>1, <1>2, <1>3, <1>4

LEMMA SegmentEntryIs ==
    ASSUME NEW h, IsLaidOut(h), h.damaged = {}, NEW x, x.state = "allocated",
           NEW a \in EntriesOf(h), WayTo(h, a), Constructed(SegmentEntry(h, a)), x = NtBlockAt(h, a)
    PROVE  /\ x.raw.first = a /\ x.raw.size = SizeAt(h, a) /\ x.internal = IsInternal(h, a)
           /\ a # h.address => Within(h, x, a, a + SizeAt(h, a))
           /\ a = h.address => x.first = 0 /\ x.size \in Nat /\ x.size <= SizeAt(h, h.address)
           /\ \/ a = h.address
              \/ IsInternal(h, a)
              \/ \E b \in h.blocks : Reachable(h, b) /\ Agree(h, b, x)
<1>1. a \in Nat /\ SizeAt(h, a) \in Nat
  BY TrueOfNtHeap
<1>2. x = EntryBlock(h, "nt_heap_segment_entry", EntryAt(h, a, SizeAt(h, a)))
      /\ SegmentEntry(h, a) = EntryAt(h, a, SizeAt(h, a))
  BY DEF NtBlockAt, SegmentEntry, SizeAt
<1>3. /\ x.raw.first = a /\ x.raw.size = SizeAt(h, a) /\ x.internal = IsInternal(h, a)
      /\ IsBusy(h, HeaderAt(h, a))
  BY <1>2 DEF EntryBlock, Block, EntryAt, IsInternal
<1>4. a # h.address => Within(h, x, a, a + SizeAt(h, a))
  BY <1>1, <1>2, EntryIsWithin
<1>5. a = h.address => x.first = 0 /\ x.size \in Nat /\ x.size <= SizeAt(h, h.address)
  <2>1. SUFFICES ASSUME a = h.address PROVE x.first = 0 /\ x.size \in Nat /\ x.size <= SizeAt(h, a)
    OBVIOUS
  <2> DEFINE e == EntryAt(h, a, SizeAt(h, a))
  <2>2. /\ e \in Entries /\ e.size = SizeAt(h, a) /\ ~e.in_use /\ ~e.ust /\ Constructed(e)
    <3>1. /\ e \in Entries /\ e.target = h.target /\ e.address = a /\ e.size = SizeAt(h, a)
          /\ e.in_use = (IsBusy(h, HeaderAt(h, a)) /\ a # h.address)
          /\ e.ust => a # h.address
      BY <1>1, EntryIsTyped
    <3>. QED
      BY <1>2, <2>1, <3>1
  <2>3. x.first = UserAddress(e) /\ x.size = Requested(e)
    BY <1>2 DEF EntryBlock, Block
  <2> HIDE DEF e
  <2>. QED
    BY <2>2, <2>3, HeapBlockIsSmall, UserDataIsInside
<1>6. \/ a = h.address
      \/ IsInternal(h, a)
      \/ \E b \in h.blocks : b.kind = "nt_heap_segment_entry" /\ b.at = a
  BY <1>3, TrueOfNtHeap DEF NtHeapIsTrue
<1>7. ASSUME NEW b \in h.blocks, b.kind = "nt_heap_segment_entry", b.at = a
      PROVE  Reachable(h, b) /\ Agree(h, b, x)
  <2>1. Reachable(h, b)
    BY <1>7 DEF Reachable
  <2>2. /\ IsPlain(h, b) /\ BlockIsWritten(h, b, SizeAt(h, a)) /\ b.at # h.address /\ h.target \in Targets
        /\ HasTraceHeader(h, b.at) => (b.at + 2 * Length(h.target)) \in b.needs
    BY <1>7, TrueOfNtHeap DEF BlockIsLaidOut, SizeAt
  <2>. QED
    BY <1>2, <1>7, <2>1, <2>2, WrittenIsReported
<1>. QED
  BY <1>3, <1>4, <1>5, <1>6, <1>7

LEMMA LfhBlockIs ==
    ASSUME NEW h, IsLaidOut(h), h.damaged = {}, NEW x, x.state = "allocated",
           NEW z \in DOMAIN h.zones, NEW j \in DOMAIN h.zones[z], NEW a \in EntriesOf(h),
           RecordSource(h, x, z, j, a)
    PROVE  /\ Within(h, x, a, a + SizeAt(h, a))
           /\ \E b \in h.blocks : Reachable(h, b) /\ Agree(h, b, x)
<1> DEFINE r == h.zones[z][j]
           start == EntryStart(h, r)
           size == r.block_size * Length(h.target)
<1>1. /\ \A m \in 1..j : ~h.zones[z][m].lost
      /\ WayTo(h, a) /\ IsInternal(h, a) /\ a < start /\ start < a + SizeAt(h, a)
      /\ x \in LfhBlocks(h, r) /\ \A e \in LfhEntriesRead(h, r) : Constructed(e)
  BY DEF RecordSource, LiesIn
<1>2. /\ NtHeapIsTrue(h) /\ h.target \in Targets /\ a \in Nat /\ SizeAt(h, a) \in Nat /\ EntriesOf(h) \subseteq Nat
      /\ \A b \in h.blocks : b.at \in Nat \ {h.address} /\ BlockIsLaidOut(h, b)
  BY TrueOfNtHeap
<1>3. j \in Nat \ {0}
  BY DEF IsLaidOut, IsList
<1>4. PICK i \in 0..(r.block_count - 1) :
         /\ \A k \in 0..i : Readable(h, LfhAddress(h, r, k))
         /\ HeaderAt(h, LfhAddress(h, r, i)).lfh
         /\ x = EntryBlock(h, "nt_heap_lfh_entry", EntryAt(h, LfhAddress(h, r, i), size))
         /\ EntryAt(h, LfhAddress(h, r, i), size) \in LfhEntriesRead(h, r)
  <2>1. PICK e \in LfhEntriesRead(h, r) : HeaderAt(h, e.address).lfh /\ x = EntryBlock(h, "nt_heap_lfh_entry", e)
    BY <1>1 DEF LfhBlocks
  <2>2. PICK i \in 0..(r.block_count - 1) :
           (\A k \in 0..i : Readable(h, LfhAddress(h, r, k))) /\ e = EntryAt(h, LfhAddress(h, r, i), size)
    BY <2>1 DEF LfhEntriesRead
  <2>3. e.address = LfhAddress(h, r, i)
    BY <2>2 DEF EntryAt
  <2>. QED
    BY <2>1, <2>2, <2>3
<1> DEFINE p == LfhAddress(h, r, i)
<1>5. Readable(h, p) /\ HeaderAt(h, p).lfh /\ IsBusy(h, HeaderAt(h, p)) /\ i \in Nat
  <2>1. i \in Nat /\ i \in 0..i
    OBVIOUS
  <2>2. EntryAt(h, p, size).address = p
    BY DEF EntryAt
  <2>3. IsBusy(h, HeaderAt(h, p))
    BY <1>4, <2>2 DEF EntryBlock, Block
  <2>. QED
    BY <1>4, <2>1, <2>3
<1>6. /\ p + size <= a + SizeAt(h, a) /\ (h.encoded => Readable(h, r.user_blocks))
      /\ \E b \in h.blocks : b.kind = "nt_heap_lfh_entry" /\ b.zone = z /\ b.record = j /\ b.index = i
  <2>1. ~r.lost
    BY <1>1, <1>3
  <2>2. SubsegmentIsTrue(h, z, j, a)
    BY <1>1, <1>2, <2>1 DEF NtHeapIsTrue, LiesIn
  <2>. QED
    BY <1>5, <2>2 DEF SubsegmentIsTrue
<1>7. PICK b \in h.blocks : b.kind = "nt_heap_lfh_entry" /\ b.zone = z /\ b.record = j /\ b.index = i
  BY <1>6
<1>8. /\ r.block_size \in Nat \ {0} /\ r.user_blocks \in Nat \ {0} /\ r.offset \in Nat /\ r.stride \in Nat
      /\ b.at = r.user_blocks + r.offset + i * r.stride
      /\ ~h.encoded => r.stride = size /\ (~h.offset => r.offset = h.zone_size)
  BY <1>7 DEF IsLaidOut, LiesInSubsegment
<1>9. start = r.user_blocks + r.offset /\ Stride(h, r) = r.stride
  BY <1>6, <1>8 DEF EntryStart, Stride, Encoded
<1>10. p = b.at /\ start <= p /\ p \in Nat \ {h.address} /\ size \in Nat /\ size > 0
  <2>1. p = b.at /\ start \in Nat /\ i * r.stride \in Nat
    BY <1>5, <1>8, <1>9 DEF LfhAddress
  <2>2. start <= p
    BY <1>8, <1>9, <2>1
  <2>3. Length(h.target) \in Nat \ {0}
    BY DEF Length
  <2>. QED
    BY <1>2, <1>8, <2>1, <2>2, <2>3
<1>11. Within(h, x, a, a + SizeAt(h, a))
  <2>1. Within(h, x, p, p + size)
    BY <1>1, <1>4, <1>10, EntryIsWithin
  <2>2. Length(h.target) \in Nat /\ Private(h.target) \in Nat
    BY DEF Length, Private
  <2> HIDE DEF p, size, start
  <2>. QED
    BY <1>1, <1>2, <1>6, <1>9, <1>10, <1>8, <2>1, <2>2 DEF Within
<1>12. Holder(h, b) = a
  <2> DEFINE before == {c \in EntriesOf(h) : c < b.at}
  <2>1. a \in before /\ \A c \in before : c <= a
    <3>1. \A c \in EntriesOf(h) : a < c => a + SizeAt(h, a) <= c
      BY <1>2 DEF NtHeapIsTrue
    <3> HIDE DEF p, size, start
    <3>2. a < p /\ p < a + SizeAt(h, a) /\ p = b.at
      BY <1>1, <1>2, <1>6, <1>8, <1>9, <1>10
    <3>3. \A c \in before : c <= a
      BY <1>2, <1>10, <3>1, <3>2
    <3>. QED
      BY <1>2, <3>2, <3>3
  <2>2. \A d \in before : (\A c \in before : c <= d) => d = a
    BY <1>2, <2>1
  <2>3. Holder(h, b) = CHOOSE d \in before : \A c \in before : c <= d
    BY DEF Holder, EntriesOf
  <2> HIDE DEF before
  <2>. QED
    BY <2>1, <2>2, <2>3
<1>13. Reachable(h, b)
  <2>1. \A k \in 0..i : Intact(h, r.user_blocks + r.offset + k * r.stride)
    BY <1>4, <1>9 DEF LfhAddress, Intact
  <2>. QED
    BY <1>1, <1>6, <1>7, <1>12, <2>1 DEF Reachable
<1>14. Agree(h, b, x)
  <2>1. /\ IsPlain(h, b) /\ BlockIsWritten(h, b, size) /\ b.at # h.address /\ h.target \in Targets
        /\ HasTraceHeader(h, b.at) => (b.at + 2 * Length(h.target)) \in b.needs
    BY <1>2, <1>7 DEF BlockIsLaidOut
  <2>2. x = EntryBlock(h, "nt_heap_lfh_entry", EntryAt(h, b.at, size))
    BY <1>4, <1>10
  <2>. QED
    BY <1>7, <2>1, <2>2, WrittenIsReported
<1>. QED
  BY <1>11, <1>13, <1>14

LEMMA VirtualBlockIs ==
    ASSUME NEW h, IsLaidOut(h), h.damaged = {}, NEW x, x.state = "allocated",
           NEW v \in h.virtuals, x \in VirtualFirst(h, v), ~VirtualThrows(h, v)
    PROVE  /\ v.entry \in Nat /\ v.committed \in Nat /\ Within(h, x, v.entry, v.entry + v.committed)
           /\ \A a \in EntriesOf(h) : v.entry + v.committed <= a \/ a + SizeAt(h, a) <= v.entry
           /\ \E b \in h.blocks : Reachable(h, b) /\ Agree(h, b, x)
<1>1. /\ v.committed # 0 /\ Readable(h, v.entry) /\ ~(v.unused > v.committed) /\ x = VirtualBlock(h, v)
  BY RangesAreFree DEF VirtualFirst
<1>2. FlagBusy \in HeaderAt(h, v.entry).flags
  BY <1>1 DEF VirtualBlock, Block
<1>3. /\ \A a \in EntriesOf(h) : v.entry + v.committed <= a \/ a + SizeAt(h, a) <= v.entry
      /\ \E b \in h.blocks : b.kind = "nt_heap_virtual_entry" /\ VirtualIsWritten(h, b, v)
  BY <1>1, <1>2, TrueOfNtHeap DEF NtHeapIsTrue
<1>4. PICK b \in h.blocks : b.kind = "nt_heap_virtual_entry" /\ VirtualIsWritten(h, b, v)
  BY <1>3
<1>5. /\ v.entry = b.at /\ v.committed \in Nat \ {0} /\ v.unused \in Nat /\ v.unused <= v.committed
      /\ b.at \in Nat /\ b.at # h.address
  BY <1>4, TrueOfNtHeap DEF VirtualIsWritten
<1>6. Intact(h, b.at)
  BY <1>1, <1>5 DEF Intact
<1>7. /\ x.state = "allocated" /\ Agree(h, b, x) /\ x.raw.first = b.at /\ x.raw.size = v.committed
  BY <1>1, <1>4, <1>6, VirtualRecovered
<1>8. Reachable(h, b)
  BY <1>4, <1>6 DEF Reachable
<1>9. Within(h, x, v.entry, v.entry + v.committed)
  <2> DEFINE e == VirtualEntry(h, v)
  <2>1. /\ e.target = h.target /\ e.address = b.at /\ e.size = v.committed /\ e.raw = 0
        /\ e.in_use = (FlagBusy \in HeaderAt(h, v.entry).flags /\ v.entry # h.address)
    BY <1>5 DEF VirtualEntry, EntryAt
  <2>2. x.first = UserAddress(e) /\ x.size = v.committed - v.unused
    BY <1>1 DEF VirtualBlock, Block
  <2>3. e.in_use
    BY <1>2, <1>5, <2>1, Zenon
  <2> HIDE DEF e
  <2>4. UserAddress(e) \in Nat /\ UserAddress(e) >= b.at + Length(h.target)
    <3>1. h.target \in Targets
      BY TrueOfNtHeap
    <3>2. FrontPadding(e) = 0
      BY <1>5, <2>1 DEF FrontPadding
    <3>. QED
      BY <1>5, <2>1, <2>3, <3>1, <3>2 DEF UserAddress, UstHeaderSize, Length
  <2>5. x.first + x.size <= x.raw.first + x.raw.size + Private(h.target)
    <3>1. Private(h.target) \in Nat
      BY DEF Private
    <3>2. ~(x.first + x.size > x.raw.first + x.raw.size + Private(h.target))
      BY <1>1, <1>5 DEF VirtualThrows
    <3>. QED
      BY <1>5, <1>7, <2>2, <2>4, <3>1, <3>2
  <2>. QED
    BY <1>5, <1>7, <2>2, <2>4, <2>5 DEF Within
<1>. QED
  BY <1>3, <1>5, <1>7, <1>8, <1>9

(* The blocks that are reported beside an internal one.                    *)
LEMMA InternalIsApart ==
    ASSUME NEW h, IsLaidOut(h), h.damaged = {}, NEW starts,
           NEW s, s.state = "allocated", s.internal, ~HoldsSubsegment(s, starts),
           NEW a \in EntriesOf(h), a # h.address, WayTo(h, a), Constructed(SegmentEntry(h, a)), s = NtBlockAt(h, a),
           NEW t, t.state = "allocated", t # s,
           SegmentSource(h, t) \/ LfhSource(h, t, starts) \/ VirtualSource(h, t)
    PROVE  Apart(t, s)
<1>1. /\ NtHeapIsTrue(h) /\ a \in Nat /\ SizeAt(h, a) \in Nat /\ EntriesOf(h) \subseteq Nat
      /\ SizeAt(h, h.address) \in Nat
  BY TrueOfNtHeap
<1>2. s.raw.first = a /\ s.raw.size = SizeAt(h, a) /\ Within(h, s, a, a + SizeAt(h, a))
  BY SegmentEntryIs
<1>3. ASSUME NEW c \in EntriesOf(h), c # a, Within(h, t, c, c + SizeAt(h, c))
      PROVE  Apart(t, s)
  <2>1. c \in Nat /\ SizeAt(h, c) \in Nat
    BY TrueOfNtHeap
  <2>2. c + SizeAt(h, c) <= a \/ a + SizeAt(h, a) <= c
    BY <1>1, <1>3, <2>1 DEF NtHeapIsTrue
  <2>3. c + SizeAt(h, c) \in Nat /\ a + SizeAt(h, a) \in Nat
    BY <1>1, <2>1
  <2>. QED
    BY <1>1, <1>2, <1>3, <2>1, <2>2, <2>3, ApartInTheHeap
<1>4. CASE SegmentSource(h, t)
  <2>1. PICK c \in EntriesOf(h) : WayTo(h, c) /\ Constructed(SegmentEntry(h, c)) /\ t = NtBlockAt(h, c)
    BY <1>4 DEF SegmentSource
  <2>2. c # a
    BY <2>1
  <2>3. CASE c # h.address
    BY <1>3, <2>1, <2>2, <2>3, SegmentEntryIs
  <2>4. CASE c = h.address
    <3>1. t.first = 0 /\ t.size \in Nat /\ t.size <= SizeAt(h, h.address)
      BY <2>1, <2>4, SegmentEntryIs
    <3>2. SizeAt(h, h.address) <= a
      BY <1>1 DEF NtHeapIsTrue
    <3>3. s.first \in Nat /\ a < s.first
      BY <1>1, <1>2 DEF Within, Length
    <3>4. LastAddress(t) < s.first
      BY <1>1, <3>1, <3>2, <3>3 DEF LastAddress
    <3>. QED
      BY <3>4 DEF Apart
  <2>. QED
    BY <2>3, <2>4
<1>5. CASE LfhSource(h, t, starts)
  <2>1. PICK z \in DOMAIN h.zones : \E j \in DOMAIN h.zones[z] : \E c \in EntriesOf(h) :
           EntryStart(h, h.zones[z][j]) \in starts /\ RecordSource(h, t, z, j, c)
    BY <1>5 DEF LfhSource
  <2>2. PICK j \in DOMAIN h.zones[z], c \in EntriesOf(h) :
           EntryStart(h, h.zones[z][j]) \in starts /\ RecordSource(h, t, z, j, c)
    BY <2>1
  <2>3. Within(h, t, c, c + SizeAt(h, c))
    BY <2>2, LfhBlockIs
  <2>4. c # a
    <3>1. SUFFICES ASSUME c = a PROVE FALSE
      OBVIOUS
    <3> DEFINE start == EntryStart(h, h.zones[z][j])
    <3>2. start \in starts /\ a < start /\ start < a + SizeAt(h, a)
      BY <2>2, <3>1 DEF RecordSource, LiesIn
    <3> HIDE DEF start
    <3>3. start > s.raw.first /\ start < s.raw.first + s.raw.size
      BY <1>2, <3>2
    <3>. QED
      BY <3>2, <3>3 DEF HoldsSubsegment
  <2>. QED
    BY <1>3, <2>3, <2>4
<1>6. CASE VirtualSource(h, t)
  <2>1. PICK v \in h.virtuals : t \in VirtualFirst(h, v) /\ ~VirtualThrows(h, v)
    BY <1>6 DEF VirtualSource
  <2>2. /\ v.entry \in Nat /\ v.committed \in Nat /\ Within(h, t, v.entry, v.entry + v.committed)
        /\ v.entry + v.committed <= a \/ a + SizeAt(h, a) <= v.entry
    BY <2>1, VirtualBlockIs
  <2>3. v.entry + v.committed \in Nat /\ a + SizeAt(h, a) \in Nat
    BY <1>1, <2>2
  <2>. QED
    BY <1>1, <1>2, <2>2, <2>3, ApartInTheHeap
<1>. QED
  BY <1>4, <1>5, <1>6

LEMMA NtRealInvariance == ReadersSpec => []NtRealInv
<1>1. ASSUME ReadersInit PROVE NtRealInv
  <2>1. NtInv
    BY <1>1, InitNt
  <2>2. PICK p \in Processes : Init(p.nt)
    BY <1>1 DEF ReadersInit
  <2>3. /\ seen = {} /\ out = {} /\ seg = 1 /\ at = StartOf(heap, 1)
        /\ stage = "gather" => zone = 1 /\ todo = heap.zones[1] /\ Len(heap.zones) > 0
    BY <2>2 DEF Init
  <2>4. Walking => ClearBefore(heap, seg, at)
    BY <2>1, <2>3, LaidOut, FirstPlaceIsClear DEF NtInv, Walking
  <2>5. stage = "gather" => \A m \in 1..Taken : ~heap.zones[zone][m].lost
    <3>1. stage = "gather" => Taken = 0
      BY <2>1, <2>3, ZonesAreLists DEF NtInv, Taken
    <3>. QED
      BY <3>1
  <2>. QED
    BY <2>3, <2>4, <2>5 DEF NtRealInv
<1>2. ASSUME NtInv, NtRealInv, [ReadersNext]_readers PROVE NtRealInv'
  <2>1. [Next]_vars
    BY <1>2 DEF ReadersNext, ReadNt, ReadSegment, readers
  <2>. QED
    BY <1>2, <2>1, NtRealStep DEF NtInv
<1>. QED
  BY <1>1, <1>2, NtInvariance, PTL DEF ReadersSpec

(* Whatever pages a dump of an NT heap lacks, and whatever is left in the  *)
(* records of former subsegments: if no header was overwritten, each block *)
(* that is reported as allocated is one the program has, where it is and   *)
(* with the size it asked for, or the block of the heap itself, or an      *)
(* internal block in which no other block that is reported lies.           *)
THEOREM NtBlocksAreReal == ReadersSpec => []ShownBlocksAreReal
<1>1. ASSUME NtInv, NtRealInv, Done, heap.damaged = {}, NEW s \in Shown
      PROVE  \/ \E b \in heap.blocks : Reachable(heap, b) /\ Agree(heap, b, s)
             \/ s.raw.first = heap.address /\ s.first = 0
             \/ s.internal /\ \A b \in Shown : b # s => Apart(b, s)
  <2>1. IsLaidOut(heap)
    BY <1>1, LaidOut DEF NtInv
  <2>2. \A x \in Shown : /\ x.state = "allocated" /\ ~HoldsSubsegment(x, lfh_data)
                         /\ SegmentSource(heap, x) \/ LfhSource(heap, x, lfh_data) \/ VirtualSource(heap, x)
    BY <1>1 DEF Shown, NtRealInv
  <2>3. CASE SegmentSource(heap, s)
    <3>1. PICK a \in EntriesOf(heap) :
             WayTo(heap, a) /\ Constructed(SegmentEntry(heap, a)) /\ s = NtBlockAt(heap, a)
      BY <2>3 DEF SegmentSource
    <3>2. /\ s.raw.first = a /\ s.internal = IsInternal(heap, a)
          /\ a = heap.address => s.first = 0
          /\ \/ a = heap.address
             \/ IsInternal(heap, a)
             \/ \E b \in heap.blocks : Reachable(heap, b) /\ Agree(heap, b, s)
      BY <1>1, <2>1, <2>2, <3>1, SegmentEntryIs
    <3>3. ASSUME a # heap.address, IsInternal(heap, a), NEW t \in Shown, t # s
          PROVE  Apart(t, s)
      BY <1>1, <2>1, <2>2, <3>1, <3>2, <3>3, InternalIsApart
    <3>. QED
      BY <3>2, <3>3
  <2>4. CASE LfhSource(heap, s, lfh_data)
    <3>1. PICK z \in DOMAIN heap.zones : \E j \in DOMAIN heap.zones[z] : \E c \in EntriesOf(heap) :
             RecordSource(heap, s, z, j, c)
      BY <2>4 DEF LfhSource
    <3>. QED
      BY <1>1, <2>1, <2>2, <3>1, LfhBlockIs
  <2>5. CASE VirtualSource(heap, s)
    BY <1>1, <2>1, <2>2, <2>5, VirtualBlockIs DEF VirtualSource
  <2>. QED
    BY <2>2, <2>3, <2>4, <2>5
<1>2. NtInv /\ NtRealInv => ShownBlocksAreReal
  BY <1>1 DEF ShownBlocksAreReal
<1>. QED
  BY <1>2, NtInvariance, NtRealInvariance, PTL

-------------------------------------------------------------------------------
(***************************************************************************)
(* Segment heaps: what is written is recovered, kind of block by kind.     *)
(***************************************************************************)
LEMMA PadSizesArePositive ==
    ASSUME NEW target
    PROVE  PadSizes(target) \subseteq Nat \ {0} /\ LargePadSizes(target) \subseteq Nat \ {0}
  BY DEF PadSizes, LargePadSizes

LEMMA PaddingRecovered ==
    ASSUME NEW h, NEW b, NEW size, NEW sizes, sizes \subseteq Nat \ {0},
           PaddingIsWritten(h, sizes, b, size), Known(h, b)
    PROVE  FrontPaddingOf(h, sizes, b.at, size) = b.first - b.at
<1>1. /\ b.at \in Nat /\ b.first \in Nat /\ b.size \in Nat /\ size \in Nat
      /\ b.at <= b.first /\ b.first - b.at + b.size <= size /\ ~b.ambiguous
  BY DEF PaddingIsWritten, Known
<1>2. CASE b.first = b.at
  <2>1. ~h.padding \/ (b.at \in DOMAIN h.word => h.word[b.at] \notin sizes)
    BY <1>1, <1>2 DEF PaddingIsWritten
  <2>2. ~h.padding \/ ValueAt(h, h.word, b.at) \notin sizes
    BY <2>1 DEF ValueAt
  <2>. QED
    BY <1>1, <1>2, <2>2 DEF FrontPaddingOf
<1>3. CASE b.first # b.at
  <2>1. /\ b.first - b.at \in sizes /\ b.at \in b.needs
        /\ h.padding /\ b.at \in DOMAIN h.word /\ h.word[b.at] = b.first - b.at
    BY <1>3 DEF PaddingIsWritten
  <2>2. ValueAt(h, h.word, b.at) = b.first - b.at
    BY <2>1 DEF ValueAt, Known
  <2>3. ~Below(size, b.first - b.at)
    BY <1>1 DEF Below
  <2>. QED
    BY <2>1, <2>2, <2>3 DEF FrontPaddingOf
<1>. QED
  BY <1>2, <1>3

LEMMA UnusedRecovered ==
    ASSUME NEW h, NEW b, NEW size, NEW sizes, NEW flagged,
           PaddingIsWritten(h, sizes, b, size), UnusedIsWritten(h, b, size, flagged), Known(h, b)
    PROVE  /\ UnusedOf(b, size) \in Nat
           /\ flagged => ExtraUnused(h, b.at, size) = UnusedOf(b, size)
           /\ ~flagged => UnusedOf(b, size) = 0
<1>1. /\ b.at \in Nat /\ b.first \in Nat /\ b.size \in Nat /\ size \in Nat
      /\ b.at <= b.first /\ b.first - b.at + b.size <= size
  BY DEF PaddingIsWritten
<1>2. UnusedOf(b, size) \in Nat
  BY <1>1 DEF UnusedOf
<1>3. ~flagged => UnusedOf(b, size) = 0
  BY <1>2 DEF UnusedIsWritten
<1>4. ASSUME flagged
      PROVE  ExtraUnused(h, b.at, size) = UnusedOf(b, size)
  <2>. DEFINE place == b.at + size - 2
              unused == UnusedOf(b, size)
  <2>1. unused > 0 /\ unused < 16384 /\ place \in b.needs
    BY <1>4 DEF UnusedIsWritten
  <2>2. place \notin h.damaged /\ HasPage(h, place)
    BY <2>1 DEF Known
  <2>3. /\ place \in DOMAIN h.tail /\ h.tail[place] \in Nat
        /\ IF unused = 1 THEN h.tail[place] >= 32768 ELSE h.tail[place] \in {unused, unused + 16384}
    BY <2>1, <2>2 DEF UnusedIsWritten
  <2>4. ValueAt(h, h.tail, place) = h.tail[place]
    BY <2>2, <2>3 DEF ValueAt
  <2>5. unused \in Nat
    BY <1>2
  <2>6. ExtraUnused(h, b.at, size) =
          IF h.tail[place] >= 32768 THEN 1 ELSE IF h.tail[place] >= 16384 THEN h.tail[place] - 16384 ELSE h.tail[place]
    BY <2>4 DEF ExtraUnused
  <2>. HIDE DEF place, unused
  <2>7. ExtraUnused(h, b.at, size) = unused
    BY <2>1, <2>3, <2>5, <2>6
  <2>. QED
    BY <2>7 DEF unused
<1>. QED
  BY <1>2, <1>3, <1>4

(* What the reader makes of a block that is written as Windows does it.    *)
LEMMA RangeRecovered ==
    ASSUME NEW h, NEW b, NEW d, RangeIsWritten(h, b, d), b.kind = "segment_backend_entry"
    PROVE  Shows(h, RangeBlock(h, d), b)
<1>. DEFINE s == RangeBlock(h, d)
<1>1. d.block = b.at /\ d.flags = BackendSubsegment /\ d.flags # FreeRange
  BY DEF RangeIsWritten, BackendSubsegment, FreeRange
<1>2. s.state = "allocated" /\ s.kind = b.kind /\ s.raw.first = b.at
  BY <1>1 DEF RangeBlock, SegmentBlock
<1>3. ASSUME Known(h, b)
      PROVE  s.first = b.first /\ s.size = b.size
  <2>1. FrontPaddingOf(h, PadSizes(h.target), b.at, RangeSize(d)) = b.first - b.at
    BY <1>3, PaddingRecovered, PadSizesArePositive DEF RangeIsWritten
  <2>2. /\ b.at \in Nat /\ b.first \in Nat /\ b.size \in Nat /\ RangeSize(d) \in Nat
        /\ d.extra = RangeSize(d) - (b.first - b.at) - b.size /\ d.extra < RangeSize(d)
    BY DEF RangeIsWritten, PaddingIsWritten, UnusedOf
  <2>3. s.first = b.at + (b.first - b.at) /\ s.size = RangeRequested(d, b.first - b.at)
    BY <1>1, <2>1 DEF RangeBlock, SegmentBlock
  <2>4. RangeRequested(d, b.first - b.at) = RangeSize(d) - d.extra - (b.first - b.at)
    BY <2>2 DEF RangeRequested
  <2>. QED
    BY <2>2, <2>3, <2>4
<1>. QED
  BY <1>2, <1>3 DEF Shows

LEMMA ChunkRecovered ==
    ASSUME NEW h, NEW b, NEW t, NEW p, ChunkIsWritten(h, b, t, p), p \notin h.damaged,
           b.kind = "segment_entry", NEW padding \in ChunkPaddings(h, p + HeaderLength(h.target))
    PROVE  Shows(h, ChunkBlock(h, p, padding), b)
<1>. DEFINE s == ChunkBlock(h, p, padding)
            c == ChunkAt(h, p)
            size == c.size * Unit(h.target) - HeaderLength(h.target)
<1>1. /\ b.at = p + HeaderLength(h.target) /\ c.allocated /\ (b.ambiguous \/ b.first = b.at)
      /\ PaddingIsWritten(h, PadSizes(h.target), b, size)
      /\ UnusedIsWritten(h, b, size, c.unused)
  BY DEF ChunkIsWritten
<1>2. /\ s.state = "allocated" /\ s.kind = b.kind /\ s.raw.first = b.at /\ s.first = b.at + padding
      /\ s.size = ChunkRequested(h, c, b.at, size, padding)
  BY <1>1 DEF ChunkBlock, SegmentBlock
<1>3. ASSUME Known(h, b)
      PROVE  s.first = b.first /\ s.size = b.size
  <2>1. b.first = b.at /\ b.at \in Nat /\ size \in Nat /\ b.size \in Nat
    BY <1>1, <1>3 DEF Known, PaddingIsWritten
  <2>2. padding = 0
    <3>1. ~h.padding \/ (b.at \in DOMAIN h.word => h.word[b.at] \notin PadSizes(h.target))
      BY <1>1, <1>3, <2>1 DEF PaddingIsWritten, Known
    <3>2. 0 \notin PadSizes(h.target)
      BY PadSizesArePositive
    <3>3. ~h.padding \/ ValueAt(h, h.word, b.at) \notin PadSizes(h.target)
      BY <3>1, <3>2 DEF ValueAt
    <3>. QED
      BY <1>1, <3>3 DEF ChunkPaddings, FrontPaddingOf
  <2>3. /\ UnusedOf(b, size) \in Nat
        /\ c.unused => ExtraUnused(h, b.at, size) = UnusedOf(b, size)
        /\ ~c.unused => UnusedOf(b, size) = 0
    BY <1>1, <1>3, UnusedRecovered
  <2>4. UnusedOf(b, size) = size - b.size
    BY <2>1 DEF UnusedOf
  <2>. HIDE DEF s, c, size
  <2>5. ChunkRequested(h, c, b.at, size, 0) = size - UnusedOf(b, size)
    BY <1>1, <2>1, <2>3, <2>4 DEF ChunkRequested, Below
  <2>. QED
    BY <1>2, <2>1, <2>2, <2>4, <2>5
<1>. QED
  BY <1>2, <1>3 DEF Shows

LfhBlockOf(h, s, n) ==
    LET word == s.bits[n \div 16 + 1]
        bit == 2 * (n % 16) IN
    LfhBlock(h, s, n, bit \in word, bit + 1 \in word)

LEMMA LfhBlockRecovered ==
    ASSUME NEW h, NEW b, NEW slot, NEW t, NEW n, LfhBlockIsWritten(h, b, slot, t, n), b.kind = "segment_lfh_entry"
    PROVE  Shows(h, LfhBlockOf(h, t, n), b)
<1>. DEFINE s == LfhBlockOf(h, t, n)
            used == 2 * (n % 16) \in t.bits[n \div 16 + 1]
            flagged == 2 * (n % 16) + 1 \in t.bits[n \div 16 + 1]
            padding == FrontPaddingOf(h, PadSizes(h.target), b.at, t.size)
<1>1. /\ b.at = t.address + t.first + n * t.size /\ used
      /\ PaddingIsWritten(h, PadSizes(h.target), b, t.size)
      /\ UnusedIsWritten(h, b, t.size, flagged)
  BY DEF LfhBlockIsWritten
<1>2. s = LfhBlock(h, t, n, used, flagged)
  BY DEF LfhBlockOf
<1>. HIDE DEF s, used, flagged
<1>3. /\ s.state = "allocated" /\ s.kind = b.kind /\ s.raw.first = b.at /\ s.first = b.at + padding
      /\ s.size = t.size - (IF flagged THEN ExtraUnused(h, b.at, t.size) ELSE 0) - padding
  BY <1>1, <1>2 DEF LfhBlock, SegmentBlock
<1>4. ASSUME Known(h, b)
      PROVE  s.first = b.first /\ s.size = b.size
  <2>1. padding = b.first - b.at
    BY <1>1, <1>4, PaddingRecovered, PadSizesArePositive
  <2>2. (IF flagged THEN ExtraUnused(h, b.at, t.size) ELSE 0) = UnusedOf(b, t.size)
    BY <1>1, <1>4, UnusedRecovered
  <2>3. b.at \in Nat /\ b.first \in Nat /\ t.size \in Nat /\ b.size \in Nat
    BY <1>1 DEF PaddingIsWritten
  <2>. QED
    BY <1>3, <2>1, <2>2, <2>3 DEF UnusedOf
<1>. QED
  BY <1>3, <1>4 DEF Shows, s

LEMMA LargeRecovered ==
    ASSUME NEW h, NEW b, NEW node, LargeIsWritten(h, b, node), b.kind = "segment_large_entry"
    PROVE  Shows(h, LargeBlock(h, h.large[node]), b)
<1>. DEFINE a == h.large[node]
            s == LargeBlock(h, a)
            size == a.pages * h.page
            padding == FrontPaddingOf(h, LargePadSizes(h.target), b.at, size)
<1>1. /\ b.at = a.virtual - a.unused /\ a.unused = UnusedOf(b, size)
      /\ PaddingIsWritten(h, LargePadSizes(h.target), b, size)
  BY DEF LargeIsWritten
<1>2. /\ s.state = "allocated" /\ s.kind = b.kind /\ s.raw.first = b.at /\ s.first = b.at + padding
      /\ s.size = size - a.unused - padding
  BY <1>1 DEF LargeBlock, SegmentBlock
<1>3. ASSUME Known(h, b)
      PROVE  s.first = b.first /\ s.size = b.size
  <2>1. padding = b.first - b.at
    BY <1>1, <1>3, PaddingRecovered, PadSizesArePositive
  <2>2. b.at \in Nat /\ b.first \in Nat /\ size \in Nat /\ b.size \in Nat
    BY <1>1 DEF PaddingIsWritten
  <2>3. a.unused = size - (b.first - b.at) - b.size
    BY <1>1 DEF UnusedOf
  <2>. HIDE DEF s, a, size, padding
  <2>. QED
    BY <1>2, <2>1, <2>2, <2>3
<1>. QED
  BY <1>2, <1>3 DEF Shows

-------------------------------------------------------------------------------
(***************************************************************************)
(* What the reader of a segment heap has done, part by part.               *)
(***************************************************************************)
Parts == {"backend", "vs", "lfh", "large", "done"}

RangesInv ==
    /\ part = "backend" => index \in Nat
    /\ \A j \in 1..Len(sheap.ranges) :
          /\ sheap.ranges[j].flags \in {BackendSubsegment, FreeRange}
          /\ part # "backend" \/ j < index
          => RangeBlock(sheap, sheap.ranges[j]) \in found

(* The walk over the chunks stands at one, unless a header was missing or  *)
(* damaged; those it has passed in this way are reported.                  *)
IntactUpTo(i, p) == \A a \in sheap.vs[i].chunks : a <= p => IsIntact(sheap, a)

IntactBefore(i, p) == \A a \in sheap.vs[i].chunks : a < p => IsIntact(sheap, a)

ChunkReported(p) ==
    \E padding \in ChunkPaddings(sheap, p + HeaderLength(sheap.target)) : ChunkBlock(sheap, p, padding) \in found

ChunkPassed(i, p) ==
    \/ part \in {"lfh", "large", "done"}
    \/ part = "vs" /\ i < index
    \/ part = "vs" /\ i = index /\ chunk_at # 0 /\ p < chunk_at

ChunksInv ==
    /\ part = "backend" => chunk_at = 0
    /\ part = "vs" =>
          /\ index \in 1..(Len(sheap.vs) + 1) /\ chunk_at \in Nat
          /\ index <= Len(sheap.vs) /\ chunk_at # 0 /\ IntactBefore(index, chunk_at) =>
                chunk_at \in sheap.vs[index].chunks \/ chunk_at >= SubsegmentEnd(sheap, sheap.vs[index])
    /\ \A i \in 1..Len(sheap.vs) : \A p \in sheap.vs[i].chunks :
          IntactUpTo(i, p) /\ ChunkPassed(i, p) => ChunkReported(p)

(* Every subsegment of an enabled bucket is ahead, or its blocks are read  *)
(* as far as its bitmap is in the dump.                                    *)
Elements(s) == {s[k] : k \in 1..Len(s)}

Ahead(i, slot, s) ==
    \/ part \in {"backend", "vs"}
    \/ part = "lfh" /\ (index <= i \/ slot \in Elements(slots) \/ s \in Elements(lfh_todo))

WordsRead(s, n) == \A k \in 0..(n \div 16) : HasPage(sheap, s.bitmap + 4 * k)

ReadUpTo(s, count) == \A n \in 0..(count - 1) : WordsRead(s, n) => LfhBlockOf(sheap, s, n) \in found

Buckets == {i \in 1..Len(sheap.buckets) : sheap.buckets[i].enabled}

SlotsOf(i) == {sheap.buckets[i].slots[j] : j \in DOMAIN sheap.buckets[i].slots}

AllSlots == UNION {SlotsOf(i) : i \in Buckets}

AllSubsegments == UNION {SubsegmentsOf(slot) : slot \in AllSlots}

(* Where the mask is in the bitmap.                                        *)
MaskAt(s) ==
    /\ lfh_block.index \in 0..s.count /\ lfh_block.word \in Nat
    /\ lfh_block.index - 16 * (lfh_block.word - 1) \in 0..16
    /\ lfh_block.bit = 2 * (lfh_block.index - 16 * (lfh_block.word - 1))
    /\ lfh_block.word > 0 => lfh_block.data = s.bits[lfh_block.word]

BucketsInv ==
    /\ part = "lfh" =>
          /\ index \in Nat \ {0}
          /\ slots \in Seq(AllSlots) /\ lfh_todo \in Seq(AllSubsegments)
          /\ lfh_todo # <<>> => MaskAt(Head(lfh_todo)) /\ ReadUpTo(Head(lfh_todo), lfh_block.index)
    /\ part \in {"backend", "vs"} => slots = <<>> /\ lfh_todo = <<>>
    /\ \A i \in Buckets : \A slot \in SlotsOf(i) : HasPage(sheap, slot.pointer) =>
          \A s \in SubsegmentsOf(slot) : Ahead(i, slot, s) \/ ReadUpTo(s, s.count)

(* The nodes that were visited, with those still on the stack, are closed. *)
NodesVisited(tree, pending) ==
    /\ sheap.root \in tree \union pending
    /\ \A n \in tree :
          LargeBlock(sheap, sheap.large[n]) \in found /\ ChildrenOf(sheap, n) \subseteq tree \union pending

TreeInv ==
    /\ part \in {"large", "done"} =>
          /\ nodes \in Seq(Nodes(sheap))
          /\ sheap.root = 0 \/ \E tree \in SUBSET Nodes(sheap) : NodesVisited(tree, Elements(nodes))
    /\ part = "done" => nodes = <<>>

SegmentHeapInv ==
    /\ sheap \in {p.segment : p \in Processes} /\ part \in Parts
    /\ part = "done" => ~thrown
    /\ ~thrown => RangesInv /\ ChunksInv /\ BucketsInv /\ TreeInv

LEMMA SegmentHeapLaidOut == ASSUME SegmentHeapInv PROVE SegmentHeapIsLaidOut(sheap)
BY ProcessesAssumption DEF SegmentHeapInv

LEMMA SequencesAreLists ==
    ASSUME NEW s, IsSequence(s)
    PROVE  Len(s) \in Nat /\ DOMAIN s = 1..Len(s)
BY DEF IsSequence

LEMMA InitSegment == ASSUME ReadersInit PROVE SegmentHeapInv
<1>1. PICK p \in Processes : SegmentInit(p.segment)
  BY DEF ReadersInit
<1>2. /\ sheap = p.segment /\ part = "backend" /\ index = 1 /\ chunk_at = 0 /\ slots = <<>> /\ lfh_todo = <<>>
      /\ found = {} /\ thrown = FALSE
  BY <1>1 DEF SegmentInit
<1>3. SegmentHeapIsLaidOut(sheap)
  BY <1>2, ProcessesAssumption
<1>4. RangesInv /\ ChunksInv /\ BucketsInv /\ TreeInv
  <2>1. RangesInv
    BY <1>2 DEF RangesInv
  <2>2. ChunksInv
    BY <1>2 DEF ChunksInv, ChunkPassed
  <2>3. BucketsInv
    BY <1>2 DEF BucketsInv, Ahead
  <2>4. TreeInv
    BY <1>2 DEF TreeInv
  <2>. QED
    BY <2>1, <2>2, <2>3, <2>4
<1>. QED
  BY <1>2, <1>4 DEF SegmentHeapInv, Parts

(* What holds of a part goes on to hold when other parts are read.         *)
LEMMA RangesKept ==
    ASSUME SegmentHeapInv, ~thrown, SegmentNext, ~thrown'
    PROVE  RangesInv'
<1>1. Len(sheap.ranges) \in Nat /\ RangesInv /\ sheap' = sheap /\ found \subseteq found'
  <2>1. IsSequence(sheap.ranges)
    BY SegmentHeapLaidOut DEF SegmentHeapIsLaidOut
  <2>2. sheap' = sheap /\ found \subseteq found'
    BY DEF SegmentNext, VisitRange, EndRanges, EnterSubsegment, VisitChunk, VisitLostChunk, EndSubsegment,
           EndSubsegments, TakeBucket, TakeSlot, VisitLfhBlock, EndLfhSubsegment, EndBuckets, VisitLarge,
           EndLarge, Report
  <2>. QED
    BY <2>1, <2>2, SequencesAreLists DEF SegmentHeapInv
<1>2. CASE VisitRange
  <2>. DEFINE d == sheap.ranges[index]
  <2>1. part = "backend" /\ part' = part /\ index' = index + 1 /\ index \in Nat
    BY <1>1, <1>2 DEF VisitRange, RangesInv
  <2>2. d.flags \in {BackendSubsegment, FreeRange} => RangeBlock(sheap, d) \in found'
    BY <1>2 DEF VisitRange, Report
  <2>3. ASSUME NEW j \in 1..Len(sheap.ranges), sheap.ranges[j].flags \in {BackendSubsegment, FreeRange}, j < index'
        PROVE  RangeBlock(sheap, sheap.ranges[j]) \in found'
    <3>1. j < index \/ j = index
      BY <1>1, <2>1, <2>3
    <3>. QED
      BY <1>1, <2>1, <2>2, <2>3, <3>1 DEF RangesInv
  <2>. QED
    BY <1>1, <2>1, <2>3 DEF RangesInv
<1>3. CASE EndRanges
  <2>1. part = "backend" /\ part' = "vs" /\ index > Len(sheap.ranges) /\ index \in Nat
    BY <1>1, <1>3 DEF EndRanges, RangesInv
  <2>. QED
    BY <1>1, <2>1 DEF RangesInv
<1>4. CASE ~VisitRange /\ ~EndRanges
  <2>1. part # "backend" /\ part' # "backend"
    BY <1>4 DEF SegmentNext, EnterSubsegment, VisitChunk, VisitLostChunk, EndSubsegment, InSubsegment,
           EndSubsegments, TakeBucket, TakeSlot, VisitLfhBlock, EndLfhSubsegment, EndBuckets, VisitLarge,
           EndLarge, InLfh
  <2>. QED
    BY <1>1, <2>1 DEF RangesInv
<1>. QED
  BY <1>2, <1>3, <1>4

LEMMA FoundGrows ==
    ASSUME SegmentNext
    PROVE  sheap' = sheap /\ found \subseteq found'
BY DEF SegmentNext, VisitRange, EndRanges, EnterSubsegment, VisitChunk, VisitLostChunk, EndSubsegment,
       EndSubsegments, TakeBucket, TakeSlot, VisitLfhBlock, EndLfhSubsegment, EndBuckets, VisitLarge,
       EndLarge, Report

LEMMA WhereChunksAre ==
    ASSUME SegmentHeapInv, ~thrown, part = "vs", index <= Len(sheap.vs)
    PROVE  /\ Len(sheap.vs) \in Nat /\ index \in 1..Len(sheap.vs) /\ chunk_at \in Nat
           /\ Subsegment = sheap.vs[index] /\ SubsegmentIsLaidOut(sheap, Subsegment)
           /\ Subsegment.chunks \subseteq Nat /\ SubsegmentEnd(sheap, Subsegment) \in Nat
           /\ \A p \in Subsegment.chunks : p < SubsegmentEnd(sheap, Subsegment)
<1>1. IsSequence(sheap.vs) /\ \A i \in DOMAIN sheap.vs : SubsegmentIsLaidOut(sheap, sheap.vs[i])
  BY SegmentHeapLaidOut DEF SegmentHeapIsLaidOut
<1>2. Len(sheap.vs) \in Nat /\ DOMAIN sheap.vs = 1..Len(sheap.vs)
  BY <1>1, SequencesAreLists
<1>3. index \in 1..(Len(sheap.vs) + 1) /\ chunk_at \in Nat
  BY DEF SegmentHeapInv, ChunksInv
<1>4. index \in 1..Len(sheap.vs) /\ SubsegmentIsLaidOut(sheap, sheap.vs[index])
  BY <1>1, <1>2, <1>3
<1>. QED
  BY <1>2, <1>3, <1>4 DEF Subsegment, SubsegmentIsLaidOut

LEMMA ChunksPassedStay ==
    ASSUME ChunksInv, sheap' = sheap, found \subseteq found', NEW i \in 1..Len(sheap.vs), NEW p \in sheap.vs[i].chunks,
           IntactUpTo(i, p), ChunkPassed(i, p)
    PROVE  ChunkReported(p)'
<1>1. ChunkReported(p)
  BY DEF ChunksInv
<1>. QED
  BY <1>1 DEF ChunkReported

LEMMA ChunkKeeps ==
    ASSUME SegmentHeapInv, ~thrown, VisitChunk
    PROVE  ChunksInv'
<1>1. /\ part = "vs" /\ part' = part /\ index' = index /\ index <= Len(sheap.vs) /\ chunk_at # 0 /\ sheap' = sheap
      /\ chunk_at < SubsegmentEnd(sheap, Subsegment) /\ HasPage(sheap, chunk_at) /\ found \subseteq found'
      /\ chunk_at' = AfterChunk(sheap, chunk_at) /\ ChunksInv
  BY DEF VisitChunk, InSubsegment, Report, AfterChunk, SegmentHeapInv
<1>2. \A p : p = chunk_at => ChunkReported(p)'
  BY <1>1 DEF VisitChunk, Report, ChunkReported
<1>3. /\ Len(sheap.vs) \in Nat /\ index \in 1..Len(sheap.vs) /\ chunk_at \in Nat
      /\ Subsegment = sheap.vs[index] /\ SubsegmentIsLaidOut(sheap, Subsegment)
      /\ Subsegment.chunks \subseteq Nat /\ SubsegmentEnd(sheap, Subsegment) \in Nat
  BY <1>1, WhereChunksAre
<1>4. chunk_at' \in Nat /\ chunk_at <= chunk_at' /\ chunk_at' # 0
  <2>1. ChunkAt(sheap, chunk_at).size \in Nat
    BY SegmentHeapLaidOut DEF SegmentHeapIsLaidOut, ChunkAt
  <2>2. ChunkAt(sheap, chunk_at).size * Unit(sheap.target) \in Nat
    BY <2>1 DEF Unit
  <2>. QED
    BY <1>1, <1>3, <2>2 DEF AfterChunk
<1>5. ASSUME IntactBefore(index, chunk_at)
      PROVE  chunk_at \in Subsegment.chunks
  BY <1>1, <1>3, <1>5 DEF ChunksInv
<1>6. ASSUME IntactBefore(index, chunk_at')
      PROVE  chunk_at' \in Subsegment.chunks \/ chunk_at' >= SubsegmentEnd(sheap, Subsegment)
  <2>1. IntactBefore(index, chunk_at)
    BY <1>3, <1>4, <1>6 DEF IntactBefore
  <2>2. CASE chunk_at' = chunk_at
    BY <1>5, <2>1, <2>2
  <2>3. CASE chunk_at' # chunk_at
    <3>1. IsIntact(sheap, chunk_at)
      BY <1>3, <1>4, <1>5, <1>6, <2>1, <2>3 DEF IntactBefore
    <3>. QED
      BY <1>1, <1>3, <1>5, <2>1, <3>1 DEF SubsegmentIsLaidOut
  <2>. QED
    BY <2>2, <2>3
<1>7. ASSUME NEW i \in 1..Len(sheap.vs), NEW p \in sheap.vs[i].chunks, IntactUpTo(i, p), ChunkPassed(i, p)'
      PROVE  ChunkReported(p)'
  <2>1. CASE ChunkPassed(i, p)
    BY <1>1, <1>7, <2>1, ChunksPassedStay
  <2>2. CASE ~ChunkPassed(i, p)
    <3>1. i = index /\ p \in Subsegment.chunks /\ p \in Nat /\ chunk_at <= p /\ p < chunk_at'
      BY <1>1, <1>3, <1>7, <2>2 DEF ChunkPassed
    <3>2. IntactBefore(index, chunk_at)
      BY <1>3, <1>7, <3>1 DEF IntactUpTo, IntactBefore
    <3>3. chunk_at \in Subsegment.chunks /\ IsIntact(sheap, chunk_at)
      BY <1>3, <1>5, <1>7, <3>1, <3>2 DEF IntactUpTo
    <3>4. \A q \in Subsegment.chunks : chunk_at < q => chunk_at' <= q
      BY <1>1, <1>3, <3>3 DEF SubsegmentIsLaidOut
    <3>5. p = chunk_at
      BY <1>3, <1>4, <3>1, <3>4
    <3>. QED
      BY <1>2, <3>5
  <2>. QED
    BY <2>1, <2>2
<1>8. \A i, p : IntactUpTo(i, p)' = IntactUpTo(i, p)
  BY <1>1 DEF IntactUpTo
<1>9. IntactBefore(index, chunk_at)' => IntactBefore(index, chunk_at')
  BY <1>1 DEF IntactBefore
<1>10. (\A i \in 1..Len(sheap.vs) : \A p \in sheap.vs[i].chunks :
           IntactUpTo(i, p) /\ ChunkPassed(i, p) => ChunkReported(p))'
  BY <1>1, <1>7, <1>8
<1>. QED
  BY <1>1, <1>3, <1>4, <1>6, <1>9, <1>10 DEF ChunksInv

(* A subsegment is left when no chunk that can be reached is left in it.   *)
LEMMA SubsegmentLeft ==
    ASSUME SegmentHeapInv, ~thrown, InSubsegment, NextSubsegment, part' = part, sheap' = sheap, found \subseteq found',
           \A p \in Subsegment.chunks : IntactUpTo(index, p) => p < chunk_at
    PROVE  ChunksInv'
<1>1. part = "vs" /\ index <= Len(sheap.vs) /\ chunk_at # 0 /\ index' = index + 1 /\ chunk_at' = 0 /\ ChunksInv
  BY DEF InSubsegment, NextSubsegment, SegmentHeapInv
<1>2. /\ Len(sheap.vs) \in Nat /\ index \in 1..Len(sheap.vs) /\ Subsegment = sheap.vs[index]
  BY <1>1, WhereChunksAre
<1>3. ASSUME NEW i \in 1..Len(sheap.vs), NEW p \in sheap.vs[i].chunks, IntactUpTo(i, p), ChunkPassed(i, p)'
      PROVE  ChunkReported(p)'
  <2>1. i < index \/ i = index
    BY <1>1, <1>2, <1>3 DEF ChunkPassed
  <2>2. ChunkPassed(i, p)
    BY <1>1, <1>2, <1>3, <2>1 DEF ChunkPassed
  <2>. QED
    BY <1>1, <1>3, <2>2, ChunksPassedStay
<1>4. \A i, p : IntactUpTo(i, p)' = IntactUpTo(i, p)
  BY DEF IntactUpTo
<1>. QED
  BY <1>1, <1>2, <1>3, <1>4 DEF ChunksInv

LEMMA ChunksKept ==
    ASSUME SegmentHeapInv, ~thrown, SegmentNext, ~thrown'
    PROVE  ChunksInv'
<1>1. sheap' = sheap /\ found \subseteq found' /\ ChunksInv /\ part \in Parts
  BY FoundGrows DEF SegmentHeapInv
<1>2. \A i, p : IntactUpTo(i, p)' = IntactUpTo(i, p)
  BY <1>1 DEF IntactUpTo
<1>3. ASSUME part' = part, chunk_at' = chunk_at, part # "vs"
      PROVE  ChunksInv'
  <2>1. \A i, p : ChunkPassed(i, p)' => ChunkPassed(i, p)
    BY <1>3 DEF ChunkPassed
  <2>. QED
    BY <1>1, <1>2, <1>3, <2>1, ChunksPassedStay DEF ChunksInv
<1>4. CASE VisitRange
  BY <1>3, <1>4 DEF VisitRange
<1>5. CASE EndRanges
  <2>1. part = "backend" /\ part' = "vs" /\ index' = 1 /\ chunk_at' = 0
    BY <1>1, <1>5 DEF EndRanges, ChunksInv
  <2>2. Len(sheap.vs) \in Nat
    BY SegmentHeapLaidOut, SequencesAreLists DEF SegmentHeapIsLaidOut
  <2>3. \A i \in 1..Len(sheap.vs) : \A p : ~ChunkPassed(i, p)'
    BY <2>1, <2>2 DEF ChunkPassed
  <2>. QED
    BY <1>1, <2>1, <2>2, <2>3 DEF ChunksInv
<1>6. CASE EnterSubsegment
  <2>1. /\ part = "vs" /\ part' = part /\ index' = index /\ index <= Len(sheap.vs) /\ chunk_at = 0
        /\ chunk_at' = FirstChunk(sheap, Subsegment)
    BY <1>6 DEF EnterSubsegment
  <2>2. /\ Len(sheap.vs) \in Nat /\ index \in 1..Len(sheap.vs) /\ Subsegment = sheap.vs[index]
        /\ SubsegmentIsLaidOut(sheap, Subsegment) /\ Subsegment.chunks \subseteq Nat
    BY <2>1, WhereChunksAre
  <2>3. chunk_at' \in Subsegment.chunks /\ \A p \in Subsegment.chunks : chunk_at' <= p
    BY <2>1, <2>2 DEF SubsegmentIsLaidOut
  <2>4. ASSUME NEW i \in 1..Len(sheap.vs), NEW p \in sheap.vs[i].chunks, ChunkPassed(i, p)'
        PROVE  ChunkPassed(i, p)
    <3>1. i < index \/ (i = index /\ p < chunk_at')
      BY <2>1, <2>4 DEF ChunkPassed
    <3>2. i < index
      BY <2>2, <2>3, <3>1
    <3>. QED
      BY <2>1, <3>2 DEF ChunkPassed
  <2>. QED
    BY <1>1, <1>2, <2>1, <2>2, <2>3, <2>4, ChunksPassedStay DEF ChunksInv
<1>7. CASE VisitChunk
  BY <1>7, ChunkKeeps
<1>8. CASE VisitLostChunk
  <2>1. /\ part = "vs" /\ index <= Len(sheap.vs) /\ chunk_at # 0 /\ InSubsegment /\ NextSubsegment /\ part' = part
        /\ chunk_at < SubsegmentEnd(sheap, Subsegment) /\ ~HasPage(sheap, chunk_at)
    BY <1>8 DEF VisitLostChunk, InSubsegment
  <2>2. /\ index \in 1..Len(sheap.vs) /\ chunk_at \in Nat /\ Subsegment = sheap.vs[index]
        /\ Subsegment.chunks \subseteq Nat /\ SubsegmentEnd(sheap, Subsegment) \in Nat
    BY <2>1, WhereChunksAre
  <2>3. ASSUME NEW p \in Subsegment.chunks, IntactUpTo(index, p), ~(p < chunk_at)
        PROVE  FALSE
    <3>1. chunk_at <= p
      BY <2>2, <2>3
    <3>2. IntactBefore(index, chunk_at)
      BY <2>2, <2>3, <3>1 DEF IntactUpTo, IntactBefore
    <3>3. chunk_at \in Subsegment.chunks
      BY <1>1, <2>1, <2>2, <3>2 DEF ChunksInv
    <3>. QED
      BY <2>1, <2>2, <2>3, <3>1, <3>3 DEF IntactUpTo, IsIntact
  <2>. QED
    BY <1>1, <2>1, <2>3, SubsegmentLeft
<1>9. CASE EndSubsegment
  <2>1. /\ part = "vs" /\ index <= Len(sheap.vs) /\ InSubsegment /\ NextSubsegment /\ part' = part
        /\ chunk_at >= SubsegmentEnd(sheap, Subsegment)
    BY <1>9 DEF EndSubsegment, InSubsegment
  <2>2. /\ chunk_at \in Nat /\ Subsegment.chunks \subseteq Nat /\ SubsegmentEnd(sheap, Subsegment) \in Nat
        /\ \A p \in Subsegment.chunks : p < SubsegmentEnd(sheap, Subsegment)
    BY <2>1, WhereChunksAre
  <2>3. \A p \in Subsegment.chunks : p < chunk_at
    BY <2>1, <2>2
  <2>. QED
    BY <1>1, <2>1, <2>3, SubsegmentLeft
<1>10. CASE EndSubsegments
  <2>1. part = "vs" /\ part' = "lfh" /\ index > Len(sheap.vs) /\ index \in Nat /\ Len(sheap.vs) \in Nat
    <3>1. Len(sheap.vs) \in Nat
      BY SegmentHeapLaidOut, SequencesAreLists DEF SegmentHeapIsLaidOut
    <3>. QED
      BY <1>1, <1>10, <3>1 DEF EndSubsegments, ChunksInv
  <2>2. \A i \in 1..Len(sheap.vs) : \A p : ChunkPassed(i, p)
    BY <2>1 DEF ChunkPassed
  <2>. QED
    BY <1>1, <1>2, <2>1, <2>2, ChunksPassedStay DEF ChunksInv
<1>11. CASE TakeBucket \/ TakeSlot \/ VisitLfhBlock \/ EndLfhSubsegment \/ VisitLarge
  BY <1>3, <1>11 DEF TakeBucket, TakeSlot, VisitLfhBlock, EndLfhSubsegment, VisitLarge, InLfh
<1>12. CASE EndBuckets \/ EndLarge
  <2>1. part \in {"lfh", "large"} /\ part' \in {"large", "done"}
    BY <1>12 DEF EndBuckets, EndLarge
  <2>2. \A i, p : ChunkPassed(i, p)
    BY <2>1 DEF ChunkPassed
  <2>. QED
    BY <1>1, <1>2, <2>1, <2>2, ChunksPassedStay DEF ChunksInv
<1>. QED
  BY <1>4, <1>5, <1>6, <1>7, <1>8, <1>9, <1>10, <1>11, <1>12 DEF SegmentNext

LEMMA HeadAndTail ==
    ASSUME NEW S, NEW q \in Seq(S), q # <<>>
    PROVE  Head(q) \in S /\ Tail(q) \in Seq(S) /\ Elements(q) = {Head(q)} \union Elements(Tail(q))
<1>1. /\ Head(q) \in S /\ Tail(q) \in Seq(S) /\ Len(Tail(q)) = Len(q) - 1
      /\ \A i \in 1..Len(Tail(q)) : Tail(q)[i] = q[i + 1]
  BY HeadTailProperties
<1>2. Head(q) = q[1] /\ Len(q) \in Nat /\ Len(q) > 0
  OBVIOUS
<1>3. ASSUME NEW k \in 1..Len(q), k # 1
      PROVE  q[k] \in Elements(Tail(q))
  <2>1. k - 1 \in 1..Len(Tail(q)) /\ Tail(q)[k - 1] = q[k]
    BY <1>1, <1>2, <1>3
  <2>. QED
    BY <2>1 DEF Elements
<1>4. ASSUME NEW i \in 1..Len(Tail(q))
      PROVE  Tail(q)[i] \in Elements(q)
  <2>1. i + 1 \in 1..Len(q) /\ Tail(q)[i] = q[i + 1]
    BY <1>1, <1>2, <1>4
  <2>. QED
    BY <2>1 DEF Elements
<1>5. 1 \in 1..Len(q)
  BY <1>2
<1>. QED
  BY <1>1, <1>2, <1>3, <1>4, <1>5 DEF Elements

LEMMA Concatenated ==
    ASSUME NEW S, NEW q \in Seq(S), NEW r \in Seq(S)
    PROVE  q \o r \in Seq(S) /\ Elements(q \o r) = Elements(q) \union Elements(r)
<1>1. /\ q \o r \in Seq(S) /\ Len(q \o r) = Len(q) + Len(r) /\ Len(q) \in Nat /\ Len(r) \in Nat
      /\ \A i \in 1..(Len(q) + Len(r)) : (q \o r)[i] = IF i <= Len(q) THEN q[i] ELSE r[i - Len(q)]
  BY ConcatProperties, LenProperties
<1>2. ASSUME NEW i \in 1..Len(q \o r)
      PROVE  (q \o r)[i] \in Elements(q) \union Elements(r)
  <2>1. CASE i <= Len(q)
    <3>1. i \in 1..Len(q) /\ (q \o r)[i] = q[i]
      BY <1>1, <1>2, <2>1
    <3>. QED
      BY <3>1 DEF Elements
  <2>2. CASE ~(i <= Len(q))
    <3>1. i - Len(q) \in 1..Len(r) /\ (q \o r)[i] = r[i - Len(q)]
      BY <1>1, <1>2, <2>2
    <3>. QED
      BY <3>1 DEF Elements
  <2>. QED
    BY <2>1, <2>2
<1>3. ASSUME NEW i \in 1..Len(q)
      PROVE  q[i] \in Elements(q \o r)
  <2>1. i \in 1..Len(q \o r) /\ (q \o r)[i] = q[i]
    BY <1>1, <1>3
  <2>. QED
    BY <2>1 DEF Elements
<1>4. ASSUME NEW i \in 1..Len(r)
      PROVE  r[i] \in Elements(q \o r)
  <2>1. Len(q) + i \in 1..Len(q \o r) /\ (q \o r)[Len(q) + i] = r[i]
    BY <1>1, <1>4
  <2>. QED
    BY <2>1 DEF Elements
<1>. QED
  BY <1>1, <1>2, <1>3, <1>4 DEF Elements

LEMMA SlotsAreLists ==
    ASSUME SegmentHeapInv
    PROVE  /\ Len(sheap.buckets) \in Nat /\ Buckets \subseteq DOMAIN sheap.buckets
           /\ \A i \in Buckets : IsSequence(sheap.buckets[i].slots) /\ Elements(sheap.buckets[i].slots) = SlotsOf(i)
           /\ \A i \in Buckets : \A slot \in SlotsOf(i) :
                /\ IsSequence(slot.available) /\ IsSequence(slot.full)
                /\ SubsegmentsOf(slot) = Elements(slot.available) \union Elements(slot.full)
                /\ \A s \in SubsegmentsOf(slot) : s.count \in Nat /\ s.bitmap \in Nat
<1>1. /\ IsSequence(sheap.buckets)
      /\ \A i \in DOMAIN sheap.buckets :
          /\ IsSequence(sheap.buckets[i].slots)
          /\ \A j \in DOMAIN sheap.buckets[i].slots : LET slot == sheap.buckets[i].slots[j] IN
                /\ IsSequence(slot.available) /\ IsSequence(slot.full)
                /\ \A s \in SubsegmentsOf(slot) : s.count \in Nat /\ s.bitmap \in Nat
  BY SegmentHeapLaidOut DEF SegmentHeapIsLaidOut
<1>2. Len(sheap.buckets) \in Nat /\ DOMAIN sheap.buckets = 1..Len(sheap.buckets)
  BY <1>1, SequencesAreLists
<1>3. Buckets \subseteq DOMAIN sheap.buckets
  BY <1>2 DEF Buckets
<1>4. ASSUME NEW i \in Buckets
      PROVE  IsSequence(sheap.buckets[i].slots) /\ Elements(sheap.buckets[i].slots) = SlotsOf(i)
  BY <1>1, <1>3, SequencesAreLists DEF Elements, SlotsOf
<1>5. ASSUME NEW i \in Buckets, NEW slot \in SlotsOf(i)
      PROVE  /\ IsSequence(slot.available) /\ IsSequence(slot.full)
             /\ SubsegmentsOf(slot) = Elements(slot.available) \union Elements(slot.full)
             /\ \A s \in SubsegmentsOf(slot) : s.count \in Nat /\ s.bitmap \in Nat
  <2>1. /\ IsSequence(slot.available) /\ IsSequence(slot.full)
        /\ \A s \in SubsegmentsOf(slot) : s.count \in Nat /\ s.bitmap \in Nat
    BY <1>1, <1>3 DEF SlotsOf
  <2>2. DOMAIN slot.available = 1..Len(slot.available) /\ DOMAIN slot.full = 1..Len(slot.full)
    BY <2>1, SequencesAreLists
  <2>. QED
    BY <2>1, <2>2 DEF SubsegmentsOf, Elements
<1>. QED
  BY <1>2, <1>3, <1>4, <1>5

(* What the dump says of the buckets does not change, and what was read    *)
(* stays read.                                                             *)
LEMMA BucketsStay ==
    ASSUME sheap' = sheap, found \subseteq found'
    PROVE  /\ Buckets' = Buckets /\ (\A i : SlotsOf(i)' = SlotsOf(i))
           /\ AllSlots' = AllSlots /\ AllSubsegments' = AllSubsegments
           /\ \A s, n : ReadUpTo(s, n) => ReadUpTo(s, n)'
<1>1. Buckets' = Buckets /\ \A i : SlotsOf(i)' = SlotsOf(i)
  BY DEF Buckets, SlotsOf
<1>2. AllSlots' = AllSlots
  BY <1>1 DEF AllSlots
<1>3. AllSubsegments' = AllSubsegments
  BY <1>2 DEF AllSubsegments
<1>4. \A s, n : ReadUpTo(s, n) => ReadUpTo(s, n)'
  BY DEF ReadUpTo, WordsRead
<1>. QED
  BY <1>1, <1>2, <1>3, <1>4

LEMMA EmptyIsEmpty == ASSUME NEW S PROVE <<>> \in Seq(S) /\ Elements(<<>>) = {}
BY DEF Elements

LEMMA FirstBlockIsRight ==
    ASSUME NEW t, t.count \in Nat, lfh_block' = FirstLfhBlock
    PROVE  /\ \A s : s = t => MaskAt(s)'
           /\ \A s : ReadUpTo(s, lfh_block.index)'
<1>1. /\ lfh_block'.index = 0 /\ lfh_block'.word = 0 /\ lfh_block'.bit = 32
  BY DEF FirstLfhBlock
<1>2. \A s : s = t => MaskAt(s)'
  BY <1>1 DEF MaskAt
<1>3. \A s : ReadUpTo(s, lfh_block.index)'
  BY <1>1 DEF ReadUpTo
<1>. QED
  BY <1>2, <1>3

(* A bucket, a slot or a subsegment is ahead until it is taken, and then   *)
(* its parts are.                                                          *)
LEMMA BucketTaken ==
    ASSUME SegmentHeapInv, ~thrown, TakeBucket, ~thrown'
    PROVE  BucketsInv'
<1>1. /\ part = "lfh" /\ part' = part /\ slots = <<>> /\ lfh_todo = <<>> /\ lfh_todo' = <<>> /\ sheap' = sheap
      /\ index <= Len(sheap.buckets) /\ index' = index + 1 /\ found' = found /\ BucketsInv
      /\ slots' = IF ~sheap.buckets[index].enabled THEN <<>> ELSE sheap.buckets[index].slots
  BY DEF TakeBucket, SegmentHeapInv
<1>2. /\ Buckets' = Buckets /\ (\A i : SlotsOf(i)' = SlotsOf(i))
      /\ AllSlots' = AllSlots /\ AllSubsegments' = AllSubsegments
      /\ \A s, n : ReadUpTo(s, n) => ReadUpTo(s, n)'
  BY <1>1, BucketsStay
<1>3. index \in Nat \ {0} /\ Len(sheap.buckets) \in Nat /\ Buckets \subseteq 1..Len(sheap.buckets)
  BY <1>1, SlotsAreLists DEF BucketsInv, Buckets
<1>4. CASE index \in Buckets
  <2>1. /\ slots' = sheap.buckets[index].slots /\ Elements(slots') = SlotsOf(index)
        /\ slots' \in Seq(SlotsOf(index))
    BY <1>1, <1>4, SlotsAreLists DEF Buckets, IsSequence, SlotsOf
  <2>2. SlotsOf(index) \subseteq AllSlots
    BY <1>4 DEF AllSlots
  <2>3. slots' \in Seq(AllSlots)
    BY <2>1, <2>2
  <2>4. ASSUME NEW i \in Buckets, NEW slot \in SlotsOf(i), NEW s, Ahead(i, slot, s)
        PROVE  Ahead(i, slot, s)'
    <3>1. index <= i
      BY <1>1, <2>4, EmptyIsEmpty DEF Ahead
    <3>2. CASE i = index
      <4>1. slot \in Elements(slots)'
        BY <2>1, <2>4, <3>2 DEF Elements
      <4>. QED
        BY <1>1, <4>1 DEF Ahead
    <3>3. CASE i # index
      <4>1. index' <= i
        BY <1>1, <1>3, <3>1, <3>3
      <4>. QED
        BY <1>1, <4>1 DEF Ahead
    <3>. QED
      BY <3>2, <3>3
  <2>. QED
    BY <1>1, <1>2, <1>3, <2>3, <2>4 DEF BucketsInv
<1>5. CASE index \notin Buckets
  <2>1. slots' = <<>>
    BY <1>1, <1>3, <1>5 DEF Buckets
  <2>2. ASSUME NEW i \in Buckets, NEW slot \in SlotsOf(i), NEW s, Ahead(i, slot, s)
        PROVE  Ahead(i, slot, s)'
    <3>1. index <= i /\ i # index
      BY <1>1, <1>5, <2>2, EmptyIsEmpty DEF Ahead
    <3>2. index' <= i
      BY <1>1, <1>3, <3>1
    <3>. QED
      BY <1>1, <3>2 DEF Ahead
  <2>3. slots' \in Seq(AllSlots)
    BY <2>1
  <2>. QED
    BY <1>1, <1>2, <1>3, <2>2, <2>3 DEF BucketsInv
<1>. QED
  BY <1>4, <1>5

LEMMA SlotTaken ==
    ASSUME SegmentHeapInv, ~thrown, TakeSlot, ~thrown'
    PROVE  BucketsInv'
<1>. DEFINE first_slot == Head(slots)
<1>1. /\ part = "lfh" /\ part' = part /\ slots # <<>> /\ lfh_todo = <<>> /\ sheap' = sheap
      /\ index' = index /\ found' = found /\ BucketsInv /\ slots' = Tail(slots) /\ lfh_block' = FirstLfhBlock
      /\ lfh_todo' = IF HasPage(sheap, first_slot.pointer) THEN first_slot.available \o first_slot.full ELSE <<>>
  BY DEF TakeSlot, SegmentHeapInv
<1>2. /\ Buckets' = Buckets /\ (\A i : SlotsOf(i)' = SlotsOf(i))
      /\ AllSlots' = AllSlots /\ AllSubsegments' = AllSubsegments
      /\ \A s, n : ReadUpTo(s, n) => ReadUpTo(s, n)'
  BY <1>1, BucketsStay
<1>3. index \in Nat \ {0} /\ slots \in Seq(AllSlots)
  BY <1>1 DEF BucketsInv
<1>4. /\ first_slot \in AllSlots /\ slots' \in Seq(AllSlots)
      /\ Elements(slots) = {first_slot} \union Elements(Tail(slots))
  BY <1>1, <1>3, HeadAndTail
<1>5. /\ SubsegmentsOf(first_slot) \subseteq AllSubsegments
      /\ SubsegmentsOf(first_slot) = Elements(first_slot.available) \union Elements(first_slot.full)
      /\ first_slot.available \in Seq(AllSubsegments) /\ first_slot.full \in Seq(AllSubsegments)
  <2>1. SubsegmentsOf(first_slot) \subseteq AllSubsegments
    BY <1>4 DEF AllSubsegments
  <2>2. /\ IsSequence(first_slot.available) /\ IsSequence(first_slot.full)
        /\ SubsegmentsOf(first_slot) = Elements(first_slot.available) \union Elements(first_slot.full)
    BY <1>4, SlotsAreLists DEF AllSlots
  <2>. HIDE DEF first_slot
  <2>3. first_slot.available \in Seq(SubsegmentsOf(first_slot)) /\ first_slot.full \in Seq(SubsegmentsOf(first_slot))
    BY <2>2 DEF IsSequence, SubsegmentsOf
  <2>. QED
    BY <2>1, <2>2, <2>3
<1>. HIDE DEF first_slot
<1>6. /\ lfh_todo' \in Seq(AllSubsegments)
      /\ HasPage(sheap, first_slot.pointer) => Elements(lfh_todo') = SubsegmentsOf(first_slot)
  BY <1>1, <1>5, Concatenated
<1>7. ASSUME lfh_todo' # <<>>
      PROVE  MaskAt(Head(lfh_todo))' /\ ReadUpTo(Head(lfh_todo), lfh_block.index)'
  <2>1. Head(lfh_todo') \in AllSubsegments
    BY <1>6, <1>7
  <2>2. Head(lfh_todo').count \in Nat
    BY <2>1, SlotsAreLists DEF AllSubsegments, AllSlots
  <2>. QED
    BY <1>1, <2>2, FirstBlockIsRight
<1>8. ASSUME NEW i \in Buckets, NEW slot \in SlotsOf(i), HasPage(sheap, slot.pointer),
             NEW s \in SubsegmentsOf(slot), Ahead(i, slot, s)
      PROVE  Ahead(i, slot, s)'
  <2>1. index <= i \/ slot \in Elements(slots)
    BY <1>1, <1>8, EmptyIsEmpty DEF Ahead
  <2>2. CASE slot = first_slot
    <3>1. s \in Elements(lfh_todo)'
      BY <1>6, <1>8, <2>2 DEF Elements
    <3>. QED
      BY <1>1, <3>1 DEF Ahead
  <2>3. CASE slot \in Elements(Tail(slots))
    <3>1. slot \in Elements(slots)'
      BY <1>1, <2>3 DEF Elements
    <3>. QED
      BY <1>1, <3>1 DEF Ahead
  <2>4. CASE index <= i
    BY <1>1, <2>4 DEF Ahead
  <2>. QED
    BY <1>4, <2>1, <2>2, <2>3, <2>4
<1>. QED
  BY <1>1, <1>2, <1>3, <1>4, <1>6, <1>7, <1>8 DEF BucketsInv

LEMMA LfhBlockRead ==
    ASSUME SegmentHeapInv, ~thrown, VisitLfhBlock
    PROVE  BucketsInv'
<1>. DEFINE t == Head(lfh_todo)
            n == lfh_block.index
            word == IF NeedsWord THEN lfh_block.word + 1 ELSE lfh_block.word
            data == IF NeedsWord THEN t.bits[word] ELSE lfh_block.data
            bit == IF NeedsWord THEN 0 ELSE lfh_block.bit
<1>1. /\ part = "lfh" /\ part' = part /\ lfh_todo # <<>> /\ sheap' = sheap /\ lfh_todo' = lfh_todo /\ slots' = slots
      /\ index' = index /\ found \subseteq found' /\ BucketsInv /\ n < t.count
      /\ LfhBlock(sheap, t, n, bit \in data, bit + 1 \in data) \in found'
      /\ lfh_block' = [index |-> n + 1, bit |-> bit + 2, data |-> data, word |-> word]
  BY DEF VisitLfhBlock, InLfh, SegmentHeapInv, Report
<1>2. /\ Buckets' = Buckets /\ (\A i : SlotsOf(i)' = SlotsOf(i))
      /\ AllSlots' = AllSlots /\ AllSubsegments' = AllSubsegments
      /\ \A s, m : ReadUpTo(s, m) => ReadUpTo(s, m)'
  BY <1>1, BucketsStay
<1>3. /\ MaskAt(t) /\ ReadUpTo(t, n) /\ lfh_todo \in Seq(AllSubsegments) /\ index \in Nat \ {0}
      /\ slots \in Seq(AllSlots)
  BY <1>1 DEF BucketsInv
<1>4. t.count \in Nat
  <2>1. t \in AllSubsegments
    BY <1>1, <1>3
  <2>. QED
    BY <2>1, SlotsAreLists DEF AllSubsegments, AllSlots
<1>5. /\ n \in 0..t.count /\ lfh_block.word \in Nat /\ n - 16 * (lfh_block.word - 1) \in 0..16
      /\ lfh_block.bit = 2 * (n - 16 * (lfh_block.word - 1))
      /\ lfh_block.word > 0 => lfh_block.data = t.bits[lfh_block.word]
  BY <1>3 DEF MaskAt
<1>. HIDE DEF t, n
<1>6. /\ word \in Nat \ {0} /\ n - 16 * (word - 1) \in 0..15 /\ bit = 2 * (n - 16 * (word - 1)) /\ data = t.bits[word]
      /\ n \in Nat
  BY <1>4, <1>5 DEF NeedsWord
<1>. HIDE DEF word, data, bit
<1>7. word = n \div 16 + 1 /\ bit = 2 * (n % 16)
  BY <1>6
<1>8. LfhBlockOf(sheap, t, n) \in found'
  BY <1>1, <1>6, <1>7 DEF LfhBlockOf
<1>9. lfh_block'.index = n + 1 /\ lfh_block'.bit = bit + 2 /\ lfh_block'.data = data /\ lfh_block'.word = word
  BY <1>1
<1>10. \A s : s = t => MaskAt(s)'
  BY <1>1, <1>4, <1>6, <1>9 DEF MaskAt
<1>11. \A s : s = t => ReadUpTo(s, lfh_block.index)'
  <2>1. ASSUME NEW m \in 0..n, WordsRead(t, m)
        PROVE  LfhBlockOf(sheap, t, m) \in found'
    <3>1. CASE m = n
      BY <1>8, <3>1
    <3>2. CASE m # n
      <4>1. m \in 0..(n - 1)
        BY <1>6, <3>2
      <4>. QED
        BY <1>1, <1>3, <2>1, <4>1 DEF ReadUpTo
    <3>. QED
      BY <3>1, <3>2
  <2>2. lfh_block'.index - 1 = n
    BY <1>6, <1>9
  <2>. QED
    BY <1>1, <2>1, <2>2 DEF ReadUpTo, WordsRead
<1>12. \A i, slot, s : Ahead(i, slot, s)' = Ahead(i, slot, s)
  BY <1>1 DEF Ahead, Elements
<1>13. MaskAt(Head(lfh_todo))' /\ ReadUpTo(Head(lfh_todo), lfh_block.index)'
  BY <1>1, <1>10, <1>11 DEF t
<1>. QED
  BY <1>1, <1>2, <1>3, <1>12, <1>13 DEF BucketsInv

(* A subsegment is left behind when its blocks are read, or a word of its  *)
(* bitmap is missing that all of the others come after.                    *)
LEMMA SubsegmentRead ==
    ASSUME SegmentHeapInv, ~thrown, EndLfhSubsegment, ~thrown'
    PROVE  BucketsInv'
<1>. DEFINE t == Head(lfh_todo)
            n == lfh_block.index
<1>1. /\ part = "lfh" /\ part' = part /\ lfh_todo # <<>> /\ sheap' = sheap /\ slots' = slots
      /\ index' = index /\ found' = found /\ BucketsInv /\ lfh_todo' = Tail(lfh_todo) /\ lfh_block' = FirstLfhBlock
      /\ n = t.count \/ (NeedsWord /\ ~HasPage(sheap, WordAddress(t)))
  BY DEF EndLfhSubsegment, InLfh, SegmentHeapInv
<1>2. /\ Buckets' = Buckets /\ (\A i : SlotsOf(i)' = SlotsOf(i))
      /\ AllSlots' = AllSlots /\ AllSubsegments' = AllSubsegments
      /\ \A s, m : ReadUpTo(s, m) => ReadUpTo(s, m)'
  BY <1>1, BucketsStay
<1>3. /\ MaskAt(t) /\ ReadUpTo(t, n) /\ lfh_todo \in Seq(AllSubsegments) /\ index \in Nat \ {0}
      /\ slots \in Seq(AllSlots)
  BY <1>1 DEF BucketsInv
<1>4. /\ t \in AllSubsegments /\ lfh_todo' \in Seq(AllSubsegments)
      /\ Elements(lfh_todo) = {t} \union Elements(Tail(lfh_todo))
  BY <1>1, <1>3, HeadAndTail
<1>5. \A s \in AllSubsegments : s.count \in Nat
  BY SlotsAreLists DEF AllSubsegments, AllSlots
<1>6. /\ n \in 0..t.count /\ lfh_block.word \in Nat /\ n - 16 * (lfh_block.word - 1) \in 0..16
      /\ lfh_block.bit = 2 * (n - 16 * (lfh_block.word - 1))
  BY <1>3 DEF MaskAt
<1>. HIDE DEF t, n
<1>7. ReadUpTo(t, t.count)
  <2>1. CASE n = t.count
    BY <1>3, <2>1
  <2>2. CASE NeedsWord /\ ~HasPage(sheap, WordAddress(t))
    <3>1. n = 16 * lfh_block.word /\ ~HasPage(sheap, t.bitmap + 4 * lfh_block.word)
      BY <1>6, <2>2 DEF NeedsWord, WordAddress
    <3>2. ASSUME NEW m \in 0..(t.count - 1), WordsRead(t, m)
          PROVE  m < n
      <4>1. t.count \in Nat /\ m \in Nat /\ n \in Nat
        BY <1>4, <1>5, <1>6, <3>2
      <4>2. SUFFICES ASSUME n <= m PROVE FALSE
        BY <4>1
      <4>3. lfh_block.word \in 0..(m \div 16)
        BY <1>6, <3>1, <4>1, <4>2
      <4>. QED
        BY <3>1, <3>2, <4>3 DEF WordsRead
    <3>3. \A m \in 0..(t.count - 1) : WordsRead(t, m) => m \in 0..(n - 1)
      BY <1>4, <1>5, <1>6, <3>2
    <3>. QED
      BY <1>3, <3>3 DEF ReadUpTo
  <2>. QED
    BY <1>1, <2>1, <2>2
<1>8. ASSUME lfh_todo' # <<>>
      PROVE  MaskAt(Head(lfh_todo))' /\ ReadUpTo(Head(lfh_todo), lfh_block.index)'
  <2>1. Head(lfh_todo') \in AllSubsegments
    BY <1>4, <1>8
  <2>. QED
    BY <1>1, <1>5, <2>1, FirstBlockIsRight
<1>9. ASSUME NEW i \in Buckets, NEW slot \in SlotsOf(i), NEW s \in SubsegmentsOf(slot), Ahead(i, slot, s)
      PROVE  Ahead(i, slot, s)' \/ s = t
  <2>1. CASE s \in Elements(lfh_todo)
    <3>1. SUFFICES ASSUME s # t PROVE Ahead(i, slot, s)'
      OBVIOUS
    <3>2. s \in Elements(lfh_todo)'
      BY <1>1, <1>4, <2>1, <3>1 DEF Elements
    <3>. QED
      BY <1>1, <3>2 DEF Ahead
  <2>2. CASE s \notin Elements(lfh_todo)
    BY <1>1, <1>9, <2>2 DEF Ahead, Elements
  <2>. QED
    BY <2>1, <2>2
<1>. QED
  BY <1>1, <1>2, <1>3, <1>4, <1>7, <1>8, <1>9 DEF BucketsInv

LEMMA BucketsKept ==
    ASSUME SegmentHeapInv, ~thrown, SegmentNext, ~thrown'
    PROVE  BucketsInv'
<1>1. sheap' = sheap /\ found \subseteq found' /\ BucketsInv /\ part \in Parts
  BY FoundGrows DEF SegmentHeapInv
<1>2. /\ Buckets' = Buckets /\ (\A i : SlotsOf(i)' = SlotsOf(i))
      /\ AllSlots' = AllSlots /\ AllSubsegments' = AllSubsegments
      /\ \A s, n : ReadUpTo(s, n) => ReadUpTo(s, n)'
  BY <1>1, BucketsStay
<1>3. CASE VisitRange \/ EndRanges \/ EnterSubsegment \/ VisitChunk \/ VisitLostChunk \/ EndSubsegment
  <2>1. /\ part \in {"backend", "vs"} /\ part' \in {"backend", "vs"} /\ slots' = slots /\ lfh_todo' = lfh_todo
    BY <1>3 DEF VisitRange, EndRanges, EnterSubsegment, VisitChunk, VisitLostChunk, EndSubsegment, InSubsegment
  <2>2. \A i, slot, s : Ahead(i, slot, s)'
    BY <2>1 DEF Ahead
  <2>. QED
    BY <1>1, <2>1, <2>2 DEF BucketsInv
<1>4. CASE EndSubsegments
  <2>1. part = "vs" /\ part' = "lfh" /\ index' = 1 /\ slots' = <<>> /\ lfh_todo' = <<>>
    BY <1>1, <1>4 DEF EndSubsegments, BucketsInv
  <2>2. Len(sheap.buckets) \in Nat /\ Buckets \subseteq 1..Len(sheap.buckets)
    BY SlotsAreLists DEF Buckets
  <2>3. \A i \in Buckets : \A slot, s : Ahead(i, slot, s)'
    BY <2>1, <2>2 DEF Ahead
  <2>. QED
    BY <1>2, <2>1, <2>3, EmptyIsEmpty DEF BucketsInv
<1>5. CASE TakeBucket
  BY <1>5, BucketTaken
<1>6. CASE TakeSlot
  BY <1>6, SlotTaken
<1>7. CASE VisitLfhBlock
  BY <1>7, LfhBlockRead
<1>8. CASE EndLfhSubsegment
  BY <1>8, SubsegmentRead
<1>9. CASE EndBuckets
  <2>1. part = "lfh" /\ part' = "large" /\ index > Len(sheap.buckets) /\ slots = <<>> /\ lfh_todo = <<>>
    BY <1>9 DEF EndBuckets
  <2>2. index \in Nat /\ Len(sheap.buckets) \in Nat /\ Buckets \subseteq 1..Len(sheap.buckets)
    BY <1>1, <2>1, SlotsAreLists DEF Buckets, BucketsInv
  <2>3. \A i \in Buckets : \A slot, s : ~Ahead(i, slot, s)
    BY <2>1, <2>2, EmptyIsEmpty DEF Ahead
  <2>. QED
    BY <1>1, <1>2, <2>1, <2>3 DEF BucketsInv
<1>10. CASE VisitLarge \/ EndLarge
  <2>1. part = "large" /\ part' \in {"large", "done"}
    BY <1>10 DEF VisitLarge, EndLarge
  <2>2. \A i, slot, s : ~Ahead(i, slot, s)
    BY <2>1 DEF Ahead
  <2>. QED
    BY <1>1, <1>2, <2>1, <2>2 DEF BucketsInv
<1>. QED
  BY <1>3, <1>4, <1>5, <1>6, <1>7, <1>8, <1>9, <1>10 DEF SegmentNext

LEMMA FrontAndLast ==
    ASSUME NEW S, NEW q \in Seq(S), q # <<>>
    PROVE  /\ q[Len(q)] \in S /\ SubSeq(q, 1, Len(q) - 1) \in Seq(S)
           /\ Elements(q) = {q[Len(q)]} \union Elements(SubSeq(q, 1, Len(q) - 1))
<1>. DEFINE front == SubSeq(q, 1, Len(q) - 1)
<1>1. Len(q) \in Nat \ {0}
  BY EmptySeq, LenProperties
<1>2. front \in Seq(S) /\ Len(front) = Len(q) - 1 /\ \A k \in 1..(Len(q) - 1) : front[k] = q[k]
  <2>1. 1 \in Int /\ Len(q) - 1 \in Int /\ \A i \in 1..(Len(q) - 1) : q[i] \in S
    BY <1>1
  <2>2. SubSeq(q, 1, Len(q) - 1) \in Seq(S)
    BY <2>1, SubSeqProperties
  <2>3. Len(SubSeq(q, 1, Len(q) - 1)) = Len(q) - 1
    <3>1. ASSUME NEW n \in Nat, \A i \in 1..n : q[i] \in S
          PROVE  Len(SubSeq(q, 1, n)) = IF 1 <= n THEN n - 1 + 1 ELSE 0
      BY <3>1, SubSeqProperties
    <3>2. ASSUME NEW n \in Nat, \A i \in 1..n : q[i] \in S
          PROVE  Len(SubSeq(q, 1, n)) = n
      BY <3>1, <3>2
    <3>3. PICK n \in Nat : n = Len(q) - 1
      BY <1>1
    <3>4. \A i \in 1..n : q[i] \in S
      BY <2>1, <3>3
    <3>5. Len(SubSeq(q, 1, n)) = n
      BY <3>2, <3>4
    <3>. QED
      BY <3>3, <3>5
  <2>4. \A k \in 1..(Len(q) - 1) : SubSeq(q, 1, Len(q) - 1)[k] = q[k]
    BY <1>1
  <2>. QED
    BY <2>2, <2>3, <2>4
<1>. HIDE DEF front
<1>3. \A k \in 1..Len(q) : k = Len(q) \/ k \in 1..(Len(q) - 1)
  BY <1>1
<1>4. Elements(q) = {q[Len(q)]} \union Elements(front)
  BY <1>1, <1>2, <1>3 DEF Elements
<1>. QED
  BY <1>1, <1>2, <1>4 DEF front

LEMMA ChildrenAreLinked ==
    ASSUME SegmentHeapInv, NEW node \in Nodes(sheap)
    PROVE  LET a == sheap.large[node] IN
           Children(a) \in Seq(Nodes(sheap)) /\ Elements(Children(a)) = ChildrenOf(sheap, node)
<1>. DEFINE a == sheap.large[node]
            Linked(n) == {n} \ {0}
<1>1. Linked(a.left) \subseteq Nodes(sheap) /\ Linked(a.right) \subseteq Nodes(sheap)
      /\ ChildrenOf(sheap, node) = Linked(a.right) \union Linked(a.left)
  BY SegmentHeapLaidOut DEF SegmentHeapIsLaidOut, ChildrenOf
<1>2. \A n : Linked(n) \subseteq Nodes(sheap) => Link(n) \in Seq(Nodes(sheap)) /\ Elements(Link(n)) = Linked(n)
  <2>1. \A n : n = 0 => Link(n) \in Seq(Nodes(sheap)) /\ Elements(Link(n)) = Linked(n)
    BY EmptyIsEmpty DEF Link
  <2>2. ASSUME NEW n, n # 0, n \in Nodes(sheap)
        PROVE  Link(n) \in Seq(Nodes(sheap)) /\ Elements(Link(n)) = Linked(n)
    <3>1. Link(n) = <<n>> /\ Linked(n) = {n}
      BY <2>2 DEF Link
    <3>2. <<n>> \in Seq(Nodes(sheap)) /\ Elements(<<n>>) = {n}
      BY <2>2 DEF Elements
    <3>. QED
      BY <3>1, <3>2
  <2>. QED
    BY <2>1, <2>2
<1>. HIDE DEF Linked, a
<1>3. Children(a) = Link(a.right) \o Link(a.left)
  BY DEF Children
<1>4. Children(a) \in Seq(Nodes(sheap)) /\ Elements(Children(a)) = Linked(a.right) \union Linked(a.left)
  BY <1>1, <1>2, <1>3, Concatenated
<1>. QED
  BY <1>1, <1>4 DEF a

LEMMA TreeKept ==
    ASSUME SegmentHeapInv, ~thrown, SegmentNext, ~thrown'
    PROVE  TreeInv'
<1>1. sheap' = sheap /\ found \subseteq found' /\ TreeInv /\ part \in Parts
  BY FoundGrows DEF SegmentHeapInv
<1>2. CASE ~EndBuckets /\ ~VisitLarge /\ ~EndLarge
  <2>1. part \notin {"large", "done"} /\ part' \notin {"large", "done"}
    BY <1>2 DEF SegmentNext, VisitRange, EndRanges, EnterSubsegment, VisitChunk, VisitLostChunk, EndSubsegment,
           EndSubsegments, TakeBucket, TakeSlot, VisitLfhBlock, EndLfhSubsegment, InSubsegment, InLfh
  <2>. QED
    BY <2>1 DEF TreeInv
<1>3. CASE EndBuckets
  <2>1. part' = "large" /\ nodes' = IF sheap.root = 0 THEN <<>> ELSE <<sheap.root>>
    BY <1>3 DEF EndBuckets
  <2>2. CASE sheap.root = 0
    BY <1>1, <2>1, <2>2, EmptyIsEmpty DEF TreeInv, Nodes
  <2>3. CASE sheap.root # 0
    <3>1. sheap.root \in Nodes(sheap)
      BY <2>3, SegmentHeapLaidOut DEF SegmentHeapIsLaidOut
    <3>2. nodes' = <<sheap.root>> /\ nodes' \in Seq(Nodes(sheap)) /\ Elements(nodes') = {sheap.root}
      BY <2>1, <2>3, <3>1 DEF Elements
    <3>3. \A pending : pending = {sheap.root} => NodesVisited({}, pending)'
      BY <1>1 DEF NodesVisited
    <3>4. NodesVisited({}, Elements(nodes))'
      BY <1>1, <3>2 DEF NodesVisited, Elements
    <3>. QED
      BY <1>1, <2>1, <3>2, <3>4 DEF TreeInv, Nodes
  <2>. QED
    BY <2>2, <2>3
<1>4. CASE VisitLarge
  <2>. DEFINE node == nodes[Len(nodes)]
              rest == SubSeq(nodes, 1, Len(nodes) - 1)
  <2>1. /\ part = "large" /\ part' = part /\ nodes # <<>>
        /\ LargeBlock(sheap, sheap.large[node]) \in found' /\ nodes' = rest \o Children(sheap.large[node])
    BY <1>4 DEF VisitLarge, Report
  <2>2. nodes \in Seq(Nodes(sheap))
    BY <1>1, <2>1 DEF TreeInv
  <2>3. node \in Nodes(sheap) /\ rest \in Seq(Nodes(sheap)) /\ Elements(nodes) = {node} \union Elements(rest)
    BY <2>1, <2>2, FrontAndLast
  <2>. HIDE DEF node, rest
  <2>4. nodes' \in Seq(Nodes(sheap)) /\ Elements(nodes') = Elements(rest) \union ChildrenOf(sheap, node)
    BY <2>1, <2>3, ChildrenAreLinked, Concatenated
  <2>5. Elements(nodes)' = Elements(nodes')
    BY DEF Elements
  <2>6. ASSUME sheap.root # 0
        PROVE  \E tree \in SUBSET Nodes(sheap) : NodesVisited(tree, Elements(nodes))'
    <3>1. PICK tree \in SUBSET Nodes(sheap) : NodesVisited(tree, Elements(nodes))
      BY <1>1, <2>1, <2>6 DEF TreeInv
    <3>. PICK larger \in SUBSET Nodes(sheap) : larger = tree \union {node}
      BY <2>3
    <3>2. sheap.root \in larger \union Elements(nodes')
      BY <2>3, <2>4, <3>1 DEF NodesVisited
    <3>3. ASSUME NEW n \in larger
          PROVE  /\ LargeBlock(sheap, sheap.large[n]) \in found'
                 /\ ChildrenOf(sheap, n) \subseteq larger \union Elements(nodes')
      BY <1>1, <2>1, <2>3, <2>4, <3>1, <3>3 DEF NodesVisited
    <3>4. NodesVisited(larger, Elements(nodes))'
      BY <1>1, <2>5, <3>2, <3>3 DEF NodesVisited
    <3>. QED
      BY <3>4
  <2>. QED
    BY <1>1, <2>1, <2>4, <2>6 DEF TreeInv, Nodes
<1>5. CASE EndLarge
  <2>1. part = "large" /\ part' = "done" /\ nodes = <<>> /\ nodes' = nodes /\ found' = found
    BY <1>5 DEF EndLarge
  <2>. QED
    BY <1>1, <2>1 DEF TreeInv, NodesVisited, Elements, Nodes
<1>. QED
  BY <1>2, <1>3, <1>4, <1>5

LEMMA StepSegment == ASSUME SegmentHeapInv, [ReadersNext]_readers PROVE SegmentHeapInv'
<1>1. CASE UNCHANGED svars
  <2>1. \A s, n : ReadUpTo(s, n)' = ReadUpTo(s, n)
    BY <1>1 DEF svars, ReadUpTo, WordsRead
  <2>2. /\ \A i, p : IntactUpTo(i, p)' = IntactUpTo(i, p) /\ IntactBefore(i, p)' = IntactBefore(i, p)
        /\ \A i, p : ChunkPassed(i, p)' = ChunkPassed(i, p) /\ ChunkReported(p)' = ChunkReported(p)
        /\ IntactBefore(index, chunk_at)' = IntactBefore(index, chunk_at)
    BY <1>1 DEF svars, ChunkPassed, ChunkReported, IntactUpTo, IntactBefore
  <2>3. \A i, slot, s : Ahead(i, slot, s)' = Ahead(i, slot, s)
    BY <1>1 DEF svars, Ahead, Elements
  <2>4. /\ Buckets' = Buckets /\ (\A i : SlotsOf(i)' = SlotsOf(i))
        /\ AllSlots' = AllSlots /\ AllSubsegments' = AllSubsegments
    BY <1>1, BucketsStay DEF svars
  <2>5. MaskAt(Head(lfh_todo))' = MaskAt(Head(lfh_todo))
        /\ ReadUpTo(Head(lfh_todo), lfh_block.index)' = ReadUpTo(Head(lfh_todo), lfh_block.index)
    BY <1>1 DEF svars, MaskAt, ReadUpTo, WordsRead
  <2>6. \A tree : NodesVisited(tree, Elements(nodes))' = NodesVisited(tree, Elements(nodes))
    BY <1>1 DEF svars, NodesVisited, Elements
  <2>7. RangesInv' = RangesInv
    BY <1>1 DEF svars, RangesInv
  <2>8. ChunksInv' = ChunksInv
    BY <1>1, <2>2 DEF svars, ChunksInv
  <2>9. BucketsInv' = BucketsInv
    BY <1>1, <2>1, <2>3, <2>4, <2>5 DEF svars, BucketsInv
  <2>10. TreeInv' = TreeInv
    BY <1>1, <2>6 DEF svars, TreeInv, Nodes
  <2>. QED
    BY <1>1, <2>7, <2>8, <2>9, <2>10 DEF svars, SegmentHeapInv
<1>2. CASE SegmentNext
  <2>1. sheap' \in {p.segment : p \in Processes} /\ part' \in Parts /\ ~thrown
    BY <1>2, FoundGrows DEF SegmentHeapInv, Parts, SegmentNext, VisitRange, EndRanges, EnterSubsegment, VisitChunk,
           VisitLostChunk, EndSubsegment, EndSubsegments, TakeBucket, TakeSlot, VisitLfhBlock, EndLfhSubsegment,
           EndBuckets, VisitLarge, EndLarge, InSubsegment, InLfh
  <2>2. part' = "done" => ~thrown'
    BY <1>2 DEF SegmentHeapInv, SegmentNext, VisitRange, EndRanges, EnterSubsegment, VisitChunk,
           VisitLostChunk, EndSubsegment, EndSubsegments, TakeBucket, TakeSlot, VisitLfhBlock, EndLfhSubsegment,
           EndBuckets, VisitLarge, EndLarge, InSubsegment, InLfh
  <2>3. ~thrown' => RangesInv' /\ ChunksInv' /\ BucketsInv' /\ TreeInv'
    BY <1>2, <2>1, RangesKept, ChunksKept, BucketsKept, TreeKept
  <2>. QED
    BY <2>1, <2>2, <2>3 DEF SegmentHeapInv
<1>. QED
  BY <1>1, <1>2 DEF ReadersNext, ReadNt, ReadSegment, readers

LEMMA SegmentInvariance == ReadersSpec => []SegmentHeapInv
BY InitSegment, StepSegment, PTL DEF ReadersSpec

(***************************************************************************)
(* Of every kind of block: the reader is at its end, and has come by it.   *)
(***************************************************************************)
LEMMA RangeShown ==
    ASSUME SegmentHeapInv, SegmentDone, NEW b \in sheap.blocks, b.kind = "segment_backend_entry"
    PROVE  \E s \in found : Shows(sheap, s, b)
<1>1. PICK j \in DOMAIN sheap.ranges : RangeIsWritten(sheap, b, sheap.ranges[j])
  BY SegmentHeapLaidOut DEF SegmentHeapIsLaidOut, SegmentBlockIsWritten
<1>2. j \in 1..Len(sheap.ranges)
  BY SegmentHeapLaidOut, SequencesAreLists DEF SegmentHeapIsLaidOut
<1>3. RangeBlock(sheap, sheap.ranges[j]) \in found
  BY <1>1, <1>2 DEF SegmentHeapInv, SegmentDone, RangesInv, RangeIsWritten
<1>. QED
  BY <1>1, <1>3, RangeRecovered

LEMMA ChunkShown ==
    ASSUME SegmentHeapInv, SegmentDone, NEW b \in sheap.blocks, b.kind = "segment_entry", OnTheWay(sheap, b)
    PROVE  \E s \in found : Shows(sheap, s, b)
<1>1. PICK i \in DOMAIN sheap.vs : \E p \in sheap.vs[i].chunks : ChunkIsWritten(sheap, b, sheap.vs[i], p)
  BY SegmentHeapLaidOut DEF SegmentHeapIsLaidOut, SegmentBlockIsWritten
<1>2. PICK p \in sheap.vs[i].chunks : ChunkIsWritten(sheap, b, sheap.vs[i], p)
  BY <1>1
<1>3. /\ i \in 1..Len(sheap.vs) /\ SubsegmentIsLaidOut(sheap, sheap.vs[i])
  BY SegmentHeapLaidOut, SequencesAreLists DEF SegmentHeapIsLaidOut
<1>4. p \in Nat
  BY <1>3 DEF SubsegmentIsLaidOut
<1>5. IntactUpTo(i, p)
  BY <1>2 DEF ChunkIsWritten, OnTheWay, IntactUpTo, IsIntact
<1>6. p \notin sheap.damaged
  BY <1>4, <1>5 DEF IntactUpTo, IsIntact
<1>7. ChunkReported(p)
  BY <1>3, <1>5 DEF SegmentHeapInv, SegmentDone, ChunksInv, ChunkPassed
<1>. QED
  BY <1>2, <1>6, <1>7, ChunkRecovered DEF ChunkReported

LEMMA LfhBlockShown ==
    ASSUME SegmentHeapInv, SegmentDone, NEW b \in sheap.blocks, b.kind = "segment_lfh_entry", OnTheWay(sheap, b)
    PROVE  \E s \in found : Shows(sheap, s, b)
<1>1. PICK i \in {m \in DOMAIN sheap.buckets : sheap.buckets[m].enabled} : \E j \in DOMAIN sheap.buckets[i].slots :
        \E s \in SubsegmentsOf(sheap.buckets[i].slots[j]) : \E n \in 0..(s.count - 1) :
            LfhBlockIsWritten(sheap, b, sheap.buckets[i].slots[j], s, n)
  BY SegmentHeapLaidOut DEF SegmentHeapIsLaidOut, SegmentBlockIsWritten
<1>2. PICK j \in DOMAIN sheap.buckets[i].slots : \E s \in SubsegmentsOf(sheap.buckets[i].slots[j]) :
        \E n \in 0..(s.count - 1) : LfhBlockIsWritten(sheap, b, sheap.buckets[i].slots[j], s, n)
  BY <1>1
<1>. DEFINE slot == sheap.buckets[i].slots[j]
<1>3. PICK t \in SubsegmentsOf(slot) : \E n \in 0..(t.count - 1) : LfhBlockIsWritten(sheap, b, slot, t, n)
  BY <1>2
<1>4. PICK n \in 0..(t.count - 1) : LfhBlockIsWritten(sheap, b, slot, t, n)
  BY <1>3
<1>5. i \in Buckets /\ slot \in SlotsOf(i)
  <2>1. DOMAIN sheap.buckets = 1..Len(sheap.buckets)
    BY SegmentHeapLaidOut, SequencesAreLists DEF SegmentHeapIsLaidOut
  <2>. QED
    BY <1>1, <1>2, <2>1 DEF Buckets, SlotsOf
<1>. HIDE DEF slot
<1>6. HasPage(sheap, slot.pointer) /\ WordsRead(t, n)
  BY <1>4 DEF LfhBlockIsWritten, OnTheWay, WordsRead
<1>7. ReadUpTo(t, t.count)
  BY <1>3, <1>5, <1>6 DEF SegmentHeapInv, SegmentDone, BucketsInv, Ahead
<1>8. LfhBlockOf(sheap, t, n) \in found
  BY <1>6, <1>7 DEF ReadUpTo
<1>. QED
  BY <1>4, <1>8, LfhBlockRecovered

LEMMA LargeShown ==
    ASSUME SegmentHeapInv, SegmentDone, NEW b \in sheap.blocks, b.kind = "segment_large_entry"
    PROVE  \E s \in found : Shows(sheap, s, b)
<1>1. PICK node \in Nodes(sheap) : LargeIsWritten(sheap, b, node)
  BY SegmentHeapLaidOut DEF SegmentHeapIsLaidOut, SegmentBlockIsWritten
<1>2. InTree(sheap, node)
  BY <1>1 DEF LargeIsWritten
<1>3. nodes = <<>> /\ (sheap.root = 0 \/ \E tree \in SUBSET Nodes(sheap) : NodesVisited(tree, Elements(nodes)))
  BY DEF SegmentHeapInv, SegmentDone, TreeInv
<1>4. PICK tree \in SUBSET Nodes(sheap) : NodesVisited(tree, Elements(nodes))
  BY <1>2, <1>3 DEF InTree
<1>5. sheap.root \in tree /\ \A n \in tree : ChildrenOf(sheap, n) \subseteq tree
  BY <1>3, <1>4, EmptyIsEmpty DEF NodesVisited
<1>6. node \in tree
  BY <1>2, <1>5 DEF InTree
<1>7. LargeBlock(sheap, sheap.large[node]) \in found
  BY <1>4, <1>6 DEF NodesVisited
<1>. QED
  BY <1>1, <1>7, LargeRecovered

(* No block of a segment heap is lost that the reader can get to, and a    *)
(* block is shown as the program knows it where the dump has what says so. *)
THEOREM NoSegmentBlockIsLost == ReadersSpec => []SegmentBlocksShown
<1>1. SegmentHeapInv => SegmentBlocksShown
  <2>1. SUFFICES ASSUME SegmentHeapInv, SegmentDone, NEW b \in sheap.blocks, OnTheWay(sheap, b)
                 PROVE  \E s \in found : Shows(sheap, s, b)
    BY DEF SegmentBlocksShown
  <2>2. b.kind \in {"segment_backend_entry", "segment_entry", "segment_lfh_entry", "segment_large_entry"}
    BY <2>1, SegmentHeapLaidOut DEF SegmentHeapIsLaidOut
  <2>. QED
    BY <2>1, <2>2, RangeShown, ChunkShown, LfhBlockShown, LargeShown
<1>. QED
  BY <1>1, SegmentInvariance, PTL

-------------------------------------------------------------------------------
(***************************************************************************)
(* Segment heaps, the other way round: in a heap that is not damaged the   *)
(* reader is always at a place that is what it takes it for, and so is     *)
(* what it reports.                                                        *)
(***************************************************************************)
RealInv ==
    sheap.damaged = {} =>
        /\ \A s \in found : IsReal(sheap, s)
        /\ ~thrown /\ part = "backend" => index # 0
        /\ ~thrown /\ part = "vs" /\ index <= Len(sheap.vs) /\ chunk_at # 0 =>
              chunk_at \in Subsegment.chunks \/ chunk_at >= SubsegmentEnd(sheap, Subsegment)
        /\ ~thrown /\ part = "large" => \A node \in Elements(nodes) : InTree(sheap, node)

LEMMA RangeIsReal ==
    ASSUME SegmentHeapInv, ~thrown, RealInv, sheap.damaged = {}, VisitRange
    PROVE  \A s \in found' : IsReal(sheap, s)
<1>. DEFINE d == sheap.ranges[index]
<1>1. index \in DOMAIN sheap.ranges
  <2>1. index \in Nat \ {0} /\ index <= Len(sheap.ranges)
    BY DEF VisitRange, SegmentHeapInv, RangesInv, RealInv
  <2>. QED
    BY <2>1, SegmentHeapLaidOut, SequencesAreLists DEF SegmentHeapIsLaidOut
<1>2. /\ d.flags = BackendSubsegment =>
            \/ d.block \in sheap.holders
            \/ \E b \in BlocksOf(sheap, "segment_backend_entry") : RangeIsWritten(sheap, b, d)
      /\ d.flags = FreeRange => NotInUse(sheap, d.block, RangeSize(d))
  BY <1>1, SegmentHeapLaidOut DEF SegmentHeapIsLaidOut, SegmentHeapIsTrue
<1>3. IF ~thrown' /\ d.flags \in {BackendSubsegment, FreeRange}
      THEN found' = found \union {RangeBlock(sheap, d)}
      ELSE found' = found
  BY DEF VisitRange, Report
<1>4. ASSUME d.flags \in {BackendSubsegment, FreeRange}
      PROVE  IsReal(sheap, RangeBlock(sheap, d))
  <2>1. /\ RangeBlock(sheap, d).state = IF d.flags = FreeRange THEN "free" ELSE "allocated"
        /\ RangeBlock(sheap, d).raw = [first |-> d.block, size |-> RangeSize(d)]
    BY DEF RangeBlock, SegmentBlock
  <2>2. CASE d.flags = FreeRange
    BY <1>2, <2>1, <2>2 DEF IsReal, NotInUse
  <2>3. CASE d.flags = BackendSubsegment
    <3>1. RangeBlock(sheap, d).state = "allocated" /\ RangeBlock(sheap, d).raw.first = d.block
      BY <2>1, <2>3 DEF BackendSubsegment, FreeRange
    <3>2. CASE d.block \in sheap.holders
      BY <3>1, <3>2 DEF IsReal
    <3>3. CASE \E b \in BlocksOf(sheap, "segment_backend_entry") : RangeIsWritten(sheap, b, d)
      <4>1. PICK b \in BlocksOf(sheap, "segment_backend_entry") : RangeIsWritten(sheap, b, d)
        BY <3>3
      <4>2. b \in sheap.blocks /\ Shows(sheap, RangeBlock(sheap, d), b)
        BY <4>1, RangeRecovered DEF BlocksOf
      <4>. QED
        BY <3>1, <4>2 DEF IsReal
    <3>. QED
      BY <1>2, <2>3, <3>2, <3>3
  <2>. QED
    BY <1>4, <2>2, <2>3
<1>. QED
  BY <1>3, <1>4 DEF RealInv

(* Where the reader is in a subsegment, what is really there.              *)
LEMMA TrueOfSubsegment ==
    ASSUME SegmentHeapInv, ~thrown, sheap.damaged = {}, InSubsegment, chunk_at < SubsegmentEnd(sheap, Subsegment), RealInv
    PROVE  /\ chunk_at \in Nat /\ chunk_at \in Subsegment.chunks /\ SubsegmentIsLaidOut(sheap, Subsegment)
           /\ IF ChunkAt(sheap, chunk_at).allocated
              THEN \/ ChunkAddress(sheap, chunk_at) \in sheap.holders
                   \/ \E b \in BlocksOf(sheap, "segment_entry") : ChunkIsWritten(sheap, b, Subsegment, chunk_at)
              ELSE NotInUse(sheap, ChunkAddress(sheap, chunk_at), ChunkSize(sheap, chunk_at))
           /\ \A b \in sheap.blocks :
                 \/ Outside(b, Subsegment.address, SubsegmentEnd(sheap, Subsegment) - Subsegment.address)
                 \/ b.kind = "segment_lfh_entry"
                 \/ b.kind = "segment_entry" /\ \E p \in Subsegment.chunks : ChunkIsWritten(sheap, b, Subsegment, p)
<1>1. /\ Len(sheap.vs) \in Nat /\ index \in 1..Len(sheap.vs) /\ chunk_at \in Nat
      /\ Subsegment = sheap.vs[index] /\ SubsegmentIsLaidOut(sheap, Subsegment)
      /\ SubsegmentEnd(sheap, Subsegment) \in Nat
  BY WhereChunksAre DEF InSubsegment
<1>2. chunk_at \in Subsegment.chunks
  BY <1>1 DEF RealInv, InSubsegment
<1>3. index \in DOMAIN sheap.vs /\ SegmentHeapIsTrue(sheap)
  BY <1>1, SegmentHeapLaidOut, SequencesAreLists DEF SegmentHeapIsLaidOut
<1>4. /\ \A p \in Subsegment.chunks :
            IF ChunkAt(sheap, p).allocated
            THEN \/ ChunkAddress(sheap, p) \in sheap.holders
                 \/ \E b \in BlocksOf(sheap, "segment_entry") : ChunkIsWritten(sheap, b, Subsegment, p)
            ELSE NotInUse(sheap, ChunkAddress(sheap, p), ChunkSize(sheap, p))
      /\ \A b \in sheap.blocks :
            \/ Outside(b, Subsegment.address, SubsegmentEnd(sheap, Subsegment) - Subsegment.address)
            \/ b.kind = "segment_lfh_entry"
            \/ b.kind = "segment_entry" /\ \E p \in Subsegment.chunks : ChunkIsWritten(sheap, b, Subsegment, p)
  BY <1>1, <1>3 DEF SegmentHeapIsTrue
<1>. QED
  BY <1>1, <1>2, <1>4

LEMMA ChunkIsReal ==
    ASSUME SegmentHeapInv, ~thrown, RealInv, sheap.damaged = {}, VisitChunk
    PROVE  \A s \in found' : IsReal(sheap, s)
<1>1. InSubsegment /\ chunk_at < SubsegmentEnd(sheap, Subsegment)
  BY DEF VisitChunk
<1>2. PICK padding \in ChunkPaddings(sheap, chunk_at + HeaderLength(sheap.target)) :
         found' = found \union {ChunkBlock(sheap, chunk_at, padding)}
  BY DEF VisitChunk, Report
<1>. DEFINE s == ChunkBlock(sheap, chunk_at, padding)
<1>3. /\ s.state = IF ChunkAt(sheap, chunk_at).allocated THEN "allocated" ELSE "free"
      /\ s.raw = [first |-> ChunkAddress(sheap, chunk_at), size |-> ChunkSize(sheap, chunk_at)]
  BY DEF ChunkBlock, SegmentBlock, ChunkAddress, ChunkSize
<1>4. IsReal(sheap, s)
  <2>1. CASE ~ChunkAt(sheap, chunk_at).allocated
    <3>1. NotInUse(sheap, ChunkAddress(sheap, chunk_at), ChunkSize(sheap, chunk_at))
      BY <1>1, <2>1, TrueOfSubsegment
    <3>2. s.state = "free"
      BY <1>3, <2>1
    <3>. HIDE DEF s
    <3>. QED
      BY <1>3, <3>1, <3>2 DEF IsReal, NotInUse
  <2>2. CASE ChunkAt(sheap, chunk_at).allocated
    <3>1. \/ ChunkAddress(sheap, chunk_at) \in sheap.holders
          \/ \E b \in BlocksOf(sheap, "segment_entry") : ChunkIsWritten(sheap, b, Subsegment, chunk_at)
      BY <1>1, <2>2, TrueOfSubsegment
    <3>2. s.state = "allocated" /\ s.raw.first = ChunkAddress(sheap, chunk_at)
      BY <1>3, <2>2
    <3>3. CASE ChunkAddress(sheap, chunk_at) \in sheap.holders
      BY <3>2, <3>3 DEF IsReal
    <3>4. CASE \E b \in BlocksOf(sheap, "segment_entry") : ChunkIsWritten(sheap, b, Subsegment, chunk_at)
      <4>1. PICK b \in BlocksOf(sheap, "segment_entry") : ChunkIsWritten(sheap, b, Subsegment, chunk_at)
        BY <3>4
      <4>2. b \in sheap.blocks /\ Shows(sheap, s, b)
        BY <4>1, ChunkRecovered DEF BlocksOf
      <4>. QED
        BY <3>2, <4>2 DEF IsReal
    <3>. QED
      BY <3>1, <3>3, <3>4
  <2>. QED
    BY <2>1, <2>2
<1>. QED
  BY <1>2, <1>4 DEF RealInv

LEMMA ReachedBlocks ==
    ASSUME NEW s, NEW b, NEW p \in s.chunks, NEW lost \in s.chunks, sheap.damaged = {}, SubsegmentIsLaidOut(sheap, s),
           ChunkIsWritten(sheap, b, s, p), OnTheWay(sheap, b), ~HasPage(sheap, lost),
           SegmentHeapIsLaidOut(sheap)
    PROVE  b.at \in Nat /\ b.size \in Nat /\ b.at + b.size <= lost
<1>1. p \in Nat /\ lost \in Nat
  BY DEF SubsegmentIsLaidOut
<1>2. ~(lost <= p)
  BY DEF ChunkIsWritten, OnTheWay
<1>3. HasPage(sheap, p)
  BY <1>1 DEF ChunkIsWritten, OnTheWay
<1>4. AfterChunk(sheap, p) <= lost
  BY <1>1, <1>2, <1>3 DEF SubsegmentIsLaidOut, IsIntact
<1>. DEFINE size == ChunkAt(sheap, p).size * Unit(sheap.target) - HeaderLength(sheap.target)
<1>5. b.at = p + HeaderLength(sheap.target) /\ PaddingIsWritten(sheap, PadSizes(sheap.target), b, size)
  BY DEF ChunkIsWritten
<1>6. /\ b.at \in Nat /\ b.first \in Nat /\ b.size \in Nat /\ size \in Nat
      /\ b.at <= b.first /\ b.first - b.at + b.size <= size
  BY <1>5 DEF PaddingIsWritten
<1>7. AfterChunk(sheap, p) = p + ChunkAt(sheap, p).size * Unit(sheap.target)
  BY DEF AfterChunk
<1>8. HeaderLength(sheap.target) \in Nat /\ Unit(sheap.target) \in Nat /\ ChunkAt(sheap, p).size \in Nat
  BY DEF HeaderLength, Unit, ChunkAt, SegmentHeapIsLaidOut
<1>. PICK units : units = ChunkAt(sheap, p).size * Unit(sheap.target)
  OBVIOUS
<1>9. units \in Nat /\ size = units - HeaderLength(sheap.target) /\ AfterChunk(sheap, p) = p + units
  BY <1>7, <1>8
<1>. HIDE DEF size
<1>10. b.at + size = AfterChunk(sheap, p)
  BY <1>1, <1>5, <1>8, <1>9
<1>. QED
  BY <1>1, <1>4, <1>6, <1>10

(* The block that is read next in a subsegment of the LFH.                 *)
LEMMA LfhBlockFound ==
    ASSUME SegmentHeapInv, ~thrown, VisitLfhBlock
    PROVE  \E t \in AllSubsegments, n \in Nat : n < t.count /\ found' = found \union {LfhBlockOf(sheap, t, n)}
<1>. DEFINE t == Head(lfh_todo)
            n == lfh_block.index
            word == IF NeedsWord THEN lfh_block.word + 1 ELSE lfh_block.word
            data == IF NeedsWord THEN t.bits[word] ELSE lfh_block.data
            bit == IF NeedsWord THEN 0 ELSE lfh_block.bit
<1>1. /\ part = "lfh" /\ lfh_todo # <<>> /\ BucketsInv /\ n < t.count
      /\ found' = found \union {LfhBlock(sheap, t, n, bit \in data, bit + 1 \in data)}
  BY DEF VisitLfhBlock, InLfh, SegmentHeapInv, Report
<1>2. MaskAt(t) /\ lfh_todo \in Seq(AllSubsegments)
  BY <1>1 DEF BucketsInv
<1>3. t \in AllSubsegments /\ t.count \in Nat
  <2>1. t \in AllSubsegments
    BY <1>1, <1>2
  <2>. QED
    BY <2>1, SlotsAreLists DEF AllSubsegments, AllSlots
<1>4. /\ n \in 0..t.count /\ lfh_block.word \in Nat /\ n - 16 * (lfh_block.word - 1) \in 0..16
      /\ lfh_block.bit = 2 * (n - 16 * (lfh_block.word - 1))
      /\ lfh_block.word > 0 => lfh_block.data = t.bits[lfh_block.word]
  BY <1>2 DEF MaskAt
<1>. HIDE DEF t, n
<1>5. /\ word \in Nat \ {0} /\ n - 16 * (word - 1) \in 0..15 /\ bit = 2 * (n - 16 * (word - 1)) /\ data = t.bits[word]
      /\ n \in Nat
  BY <1>3, <1>4 DEF NeedsWord
<1>. HIDE DEF word, data, bit
<1>6. word = n \div 16 + 1 /\ bit = 2 * (n % 16)
  BY <1>5
<1>7. LfhBlock(sheap, t, n, bit \in data, bit + 1 \in data) = LfhBlockOf(sheap, t, n)
  BY <1>5, <1>6 DEF LfhBlockOf
<1>. QED
  BY <1>1, <1>3, <1>5, <1>7

LEMMA BlockPlaces ==
    ASSUME SegmentHeapIsLaidOut(sheap), sheap.damaged = {}, NEW b \in sheap.blocks
    PROVE  b.at \in Nat /\ b.size \in Nat
<1>1. \A sizes, size : PaddingIsWritten(sheap, sizes, b, size) => b.at \in Nat /\ b.size \in Nat
  BY DEF PaddingIsWritten
<1>2. /\ b.kind \in {"segment_backend_entry", "segment_entry", "segment_lfh_entry", "segment_large_entry"}
      /\ SegmentBlockIsWritten(sheap, b)
  BY DEF SegmentHeapIsLaidOut
<1>3. CASE b.kind = "segment_backend_entry"
  <2>1. PICK j \in DOMAIN sheap.ranges : RangeIsWritten(sheap, b, sheap.ranges[j])
    BY <1>2, <1>3 DEF SegmentBlockIsWritten
  <2>. QED
    BY <1>1, <2>1 DEF RangeIsWritten
<1>4. CASE b.kind = "segment_entry"
  <2>1. PICK i \in DOMAIN sheap.vs : \E p \in sheap.vs[i].chunks : ChunkIsWritten(sheap, b, sheap.vs[i], p)
    BY <1>2, <1>4 DEF SegmentBlockIsWritten
  <2>2. PICK p \in sheap.vs[i].chunks : ChunkIsWritten(sheap, b, sheap.vs[i], p)
    BY <2>1
  <2>. QED
    BY <1>1, <2>2 DEF ChunkIsWritten
<1>5. CASE b.kind = "segment_lfh_entry"
  <2>1. \E slot, s, n : LfhBlockIsWritten(sheap, b, slot, s, n)
    BY <1>2, <1>5 DEF SegmentBlockIsWritten
  <2>2. PICK slot, s, n : LfhBlockIsWritten(sheap, b, slot, s, n)
    BY <2>1
  <2>. QED
    BY <1>1, <2>2 DEF LfhBlockIsWritten
<1>6. CASE b.kind = "segment_large_entry"
  <2>1. PICK node \in Nodes(sheap) : LargeIsWritten(sheap, b, node)
    BY <1>2, <1>6 DEF SegmentBlockIsWritten
  <2>. QED
    BY <1>1, <2>1 DEF LargeIsWritten
<1>. QED
  BY <1>2, <1>3, <1>4, <1>5, <1>6

LEMMA LostRestIsReal ==
    ASSUME SegmentHeapInv, ~thrown, RealInv, sheap.damaged = {}, VisitLostChunk
    PROVE  \A s \in found' : IsReal(sheap, s)
<1>1. /\ InSubsegment /\ chunk_at < SubsegmentEnd(sheap, Subsegment) /\ ~HasPage(sheap, chunk_at)
      /\ found' = found \union {LostRest(sheap, Subsegment, chunk_at)}
  BY DEF VisitLostChunk, Report
<1>. PICK s : s = LostRest(sheap, Subsegment, chunk_at)
  OBVIOUS
<1>2. /\ s.state = "free" /\ s.kind = "segment_entry" /\ s.raw.first = chunk_at + HeaderLength(sheap.target)
      /\ s.raw.size = SubsegmentEnd(sheap, Subsegment) - s.raw.first
  BY DEF LostRest, SegmentBlock
<1>3. /\ chunk_at \in Nat /\ chunk_at \in Subsegment.chunks /\ SubsegmentIsLaidOut(sheap, Subsegment)
      /\ HeaderLength(sheap.target) \in Nat /\ SegmentHeapIsLaidOut(sheap)
  BY <1>1, TrueOfSubsegment, SegmentHeapLaidOut DEF HeaderLength
<1>4. /\ Subsegment.address \in Nat /\ SubsegmentEnd(sheap, Subsegment) \in Nat
      /\ Subsegment.address <= chunk_at
  <2>1. /\ Subsegment.address \in Nat /\ SubsegmentEnd(sheap, Subsegment) \in Nat
        /\ FirstChunk(sheap, Subsegment) <= chunk_at
    BY <1>3 DEF SubsegmentIsLaidOut
  <2>. QED
    BY <1>3, <2>1 DEF FirstChunk, SubsegmentLength
<1>5. ASSUME NEW b \in sheap.blocks, OnTheWay(sheap, b), b.kind # "segment_lfh_entry"
      PROVE  Outside(b, s.raw.first, s.raw.size)
  <2>1. b.at \in Nat /\ b.size \in Nat
    BY <1>3, BlockPlaces
  <2>2. CASE Outside(b, Subsegment.address, SubsegmentEnd(sheap, Subsegment) - Subsegment.address)
    <3>1. SubsegmentEnd(sheap, Subsegment) <= b.at \/ b.at + b.size <= Subsegment.address
      BY <1>4, <2>1, <2>2 DEF Outside
    <3>. QED
      BY <1>2, <1>3, <1>4, <2>1, <3>1 DEF Outside
  <2>3. CASE \E p \in Subsegment.chunks : ChunkIsWritten(sheap, b, Subsegment, p)
    <3>1. b.at + b.size <= chunk_at
      BY <1>1, <1>3, <1>5, <2>3, ReachedBlocks
    <3>. QED
      BY <1>2, <1>3, <2>1, <3>1 DEF Outside
  <2>. QED
    BY <1>1, <1>5, <2>2, <2>3, TrueOfSubsegment
<1>6. ~HasPage(sheap, s.raw.first - HeaderLength(sheap.target))
  <2>1. s.raw.first - HeaderLength(sheap.target) = chunk_at
    BY <1>2, <1>3
  <2>. QED
    BY <1>1, <2>1
<1>7. IsReal(sheap, s)
  BY <1>2, <1>5, <1>6 DEF IsReal
<1>. QED
  BY <1>1, <1>7 DEF RealInv

LEMMA LfhBlockIsReal ==
    ASSUME SegmentHeapInv, ~thrown, RealInv, sheap.damaged = {}, VisitLfhBlock
    PROVE  \A s \in found' : IsReal(sheap, s)
<1>1. PICK t \in AllSubsegments, n \in Nat : n < t.count /\ found' = found \union {LfhBlockOf(sheap, t, n)}
  BY LfhBlockFound
<1>2. PICK i \in Buckets : \E slot \in SlotsOf(i) : t \in SubsegmentsOf(slot)
  BY DEF AllSubsegments, AllSlots
<1>3. PICK j \in DOMAIN sheap.buckets[i].slots : t \in SubsegmentsOf(sheap.buckets[i].slots[j])
  BY <1>2 DEF SlotsOf
<1>. DEFINE place == t.address + t.first + n * t.size
            used == 2 * (n % 16) \in t.bits[n \div 16 + 1]
<1>4. n \in 0..(t.count - 1)
  BY <1>1, SlotsAreLists DEF AllSubsegments, AllSlots
<1>5. i \in {m \in DOMAIN sheap.buckets : sheap.buckets[m].enabled}
  BY SegmentHeapLaidOut, SequencesAreLists DEF SegmentHeapIsLaidOut, Buckets
<1>6. IF used
      THEN \E b \in BlocksOf(sheap, "segment_lfh_entry") : LfhBlockIsWritten(sheap, b, sheap.buckets[i].slots[j], t, n)
      ELSE NotInUse(sheap, place, t.size)
  BY <1>3, <1>4, <1>5, SegmentHeapLaidOut DEF SegmentHeapIsLaidOut, SegmentHeapIsTrue
<1>. PICK s : s = LfhBlockOf(sheap, t, n)
  OBVIOUS
<1>7. s.state = (IF used THEN "allocated" ELSE "free") /\ s.raw = [first |-> place, size |-> t.size]
  BY DEF LfhBlockOf, LfhBlock, SegmentBlock
<1>. HIDE DEF place
<1>8. CASE used
  <2>1. PICK b \in BlocksOf(sheap, "segment_lfh_entry") : LfhBlockIsWritten(sheap, b, sheap.buckets[i].slots[j], t, n)
    BY <1>6, <1>8
  <2>2. b \in sheap.blocks /\ Shows(sheap, s, b)
    BY <2>1, LfhBlockRecovered DEF BlocksOf
  <2>3. s.state = "allocated"
    BY <1>7, <1>8
  <2>. QED
    BY <1>1, <2>2, <2>3 DEF RealInv, IsReal
<1>9. CASE ~used
  <2>1. NotInUse(sheap, place, t.size) /\ s.state = "free"
    BY <1>6, <1>7, <1>9
  <2>. QED
    BY <1>1, <1>7, <2>1 DEF RealInv, IsReal, NotInUse
<1>. QED
  BY <1>8, <1>9

LEMMA ChildIsInTree ==
    ASSUME NEW h, NEW node, InTree(h, node), NEW n \in ChildrenOf(h, node)
    PROVE  InTree(h, n)
BY DEF InTree

LEMMA LargeIsReal ==
    ASSUME SegmentHeapInv, ~thrown, RealInv, sheap.damaged = {}, VisitLarge
    PROVE  /\ \A s \in found' : IsReal(sheap, s)
           /\ \A node \in Elements(nodes)' : InTree(sheap, node)
<1>1. part = "large" /\ nodes # <<>> /\ nodes \in Seq(Nodes(sheap)) /\ \A n \in Elements(nodes) : InTree(sheap, n)
  BY DEF VisitLarge, SegmentHeapInv, TreeInv, RealInv
<1>. DEFINE node == nodes[Len(nodes)]
            rest == SubSeq(nodes, 1, Len(nodes) - 1)
<1>2. node \in Nodes(sheap) /\ rest \in Seq(Nodes(sheap)) /\ Elements(nodes) = {node} \union Elements(rest)
  BY <1>1, FrontAndLast
<1>3. \/ found' = found \union {LargeBlock(sheap, sheap.large[node])} /\ nodes' = rest \o Children(sheap.large[node])
      \/ found' = found /\ nodes' = nodes
  BY DEF VisitLarge, Report
<1>. HIDE DEF node, rest
<1>4. InTree(sheap, node)
  BY <1>1, <1>2
<1>5. IsReal(sheap, LargeBlock(sheap, sheap.large[node]))
  <2>1. PICK b \in BlocksOf(sheap, "segment_large_entry") : LargeIsWritten(sheap, b, node)
    BY <1>2, <1>4, SegmentHeapLaidOut DEF SegmentHeapIsLaidOut, SegmentHeapIsTrue
  <2>2. b \in sheap.blocks /\ Shows(sheap, LargeBlock(sheap, sheap.large[node]), b)
    BY <2>1, LargeRecovered DEF BlocksOf
  <2>3. LargeBlock(sheap, sheap.large[node]).state = "allocated"
    BY <2>2 DEF Shows
  <2>. QED
    BY <2>2, <2>3 DEF IsReal
<1>6. \A n \in ChildrenOf(sheap, node) : InTree(sheap, n)
  BY <1>4, ChildIsInTree
<1>7. Elements(nodes)' = Elements(nodes')
  BY DEF Elements
<1>8. CASE nodes' = nodes
  BY <1>1, <1>3, <1>5, <1>8 DEF RealInv, Elements
<1>9. CASE nodes' = rest \o Children(sheap.large[node])
  <2>1. Elements(nodes') = Elements(rest) \union ChildrenOf(sheap, node)
    BY <1>2, <1>9, ChildrenAreLinked, Concatenated
  <2>. QED
    BY <1>1, <1>2, <1>3, <1>5, <1>6, <1>7, <2>1 DEF RealInv
<1>. QED
  BY <1>3, <1>8, <1>9

LEMMA RootIsInTree ==
    ASSUME NEW h, h.root # 0
    PROVE  InTree(h, h.root)
BY DEF InTree

LEMMA RealStep == ASSUME SegmentHeapInv, RealInv, [ReadersNext]_readers PROVE RealInv'
<1>1. CASE UNCHANGED svars
  BY <1>1 DEF svars, RealInv, Elements, Subsegment
<1>2. CASE SegmentNext
  <2>1. SUFFICES ASSUME sheap.damaged = {} PROVE RealInv'
    BY <1>2, FoundGrows DEF RealInv
  <2>2. sheap' = sheap /\ ~thrown /\ (\A s \in found : IsReal(sheap, s)) /\ SegmentHeapIsLaidOut(sheap)
    BY <1>2, <2>1, FoundGrows, SegmentHeapLaidOut DEF RealInv, SegmentNext, VisitRange, EndRanges, EnterSubsegment,
       VisitChunk, VisitLostChunk, EndSubsegment, EndSubsegments, TakeBucket, TakeSlot, VisitLfhBlock,
       EndLfhSubsegment, EndBuckets, VisitLarge, EndLarge, InSubsegment, InLfh
  <2>3. CASE VisitRange
    <3>1. part = "backend" /\ part' = part /\ index' = index + 1 /\ index \in Nat
      BY <2>2, <2>3 DEF VisitRange, SegmentHeapInv, RangesInv
    <3>2. index' # 0
      BY <3>1
    <3>. QED
      BY <2>1, <2>2, <2>3, <3>1, <3>2, RangeIsReal DEF RealInv
  <2>4. CASE EndRanges
    BY <2>2, <2>4 DEF EndRanges, RealInv, SegmentHeapInv, ChunksInv
  <2>5. CASE EnterSubsegment
    <3>1. /\ part = "vs" /\ part' = part /\ index' = index /\ index <= Len(sheap.vs) /\ found' = found
          /\ chunk_at' = FirstChunk(sheap, Subsegment)
      BY <2>5 DEF EnterSubsegment
    <3>2. chunk_at' \in Subsegment.chunks
      BY <2>2, <3>1, WhereChunksAre DEF SubsegmentIsLaidOut
    <3>. QED
      BY <2>2, <3>1, <3>2 DEF RealInv, Subsegment
  <2>6. CASE VisitChunk
    <3>1. /\ InSubsegment /\ part' = part /\ index' = index /\ part = "vs" /\ HasPage(sheap, chunk_at)
          /\ chunk_at' = AfterChunk(sheap, chunk_at) /\ chunk_at < SubsegmentEnd(sheap, Subsegment)
      BY <2>6 DEF VisitChunk, InSubsegment, AfterChunk
    <3>2. chunk_at \in Subsegment.chunks /\ SubsegmentIsLaidOut(sheap, Subsegment)
      BY <2>1, <2>2, <3>1, TrueOfSubsegment
    <3>3. chunk_at' \in Subsegment.chunks \/ chunk_at' >= SubsegmentEnd(sheap, Subsegment)
      BY <2>1, <3>1, <3>2 DEF SubsegmentIsLaidOut, IsIntact
    <3>4. \A s \in found' : IsReal(sheap, s)
      BY <2>1, <2>2, <2>6, ChunkIsReal
    <3>. QED
      BY <2>2, <3>1, <3>3, <3>4 DEF RealInv, Subsegment
  <2>7. CASE VisitLostChunk
    <3>1. \A s \in found' : IsReal(sheap, s)
      BY <2>1, <2>2, <2>7, LostRestIsReal
    <3>2. part = "vs" /\ part' = part /\ chunk_at' = 0
      BY <2>7 DEF VisitLostChunk, InSubsegment, NextSubsegment
    <3>. QED
      BY <2>2, <3>1, <3>2 DEF RealInv
  <2>8. CASE EndSubsegment
    BY <2>2, <2>8 DEF EndSubsegment, InSubsegment, NextSubsegment, RealInv
  <2>9. CASE EndSubsegments \/ TakeBucket \/ TakeSlot \/ EndLfhSubsegment \/ EndLarge
    <3>1. part' \in {"lfh", "done"} /\ found' = found
      BY <2>9 DEF EndSubsegments, TakeBucket, TakeSlot, EndLfhSubsegment, EndLarge, InLfh
    <3>. QED
      BY <2>2, <3>1 DEF RealInv
  <2>10. CASE VisitLfhBlock
    <3>1. \A s \in found' : IsReal(sheap, s)
      BY <2>1, <2>2, <2>10, LfhBlockIsReal
    <3>2. part' = "lfh"
      BY <2>10 DEF VisitLfhBlock, InLfh
    <3>. QED
      BY <2>2, <3>1, <3>2 DEF RealInv
  <2>11. CASE EndBuckets
    <3>1. part' = "large" /\ found' = found /\ nodes' = IF sheap.root = 0 THEN <<>> ELSE <<sheap.root>>
      BY <2>11 DEF EndBuckets
    <3>2. \A n \in Elements(nodes)' : sheap.root # 0 /\ n = sheap.root
      BY <3>1 DEF Elements
    <3>3. \A n \in Elements(nodes)' : InTree(sheap, n)
      BY <3>2, RootIsInTree
    <3>. QED
      BY <2>2, <3>1, <3>3 DEF RealInv
  <2>12. CASE VisitLarge
    <3>1. (\A s \in found' : IsReal(sheap, s)) /\ \A n \in Elements(nodes)' : InTree(sheap, n)
      BY <2>1, <2>2, <2>12, LargeIsReal
    <3>2. part' = "large"
      BY <2>12 DEF VisitLarge
    <3>. QED
      BY <2>2, <3>1, <3>2 DEF RealInv
  <2>. QED
    BY <1>2, <2>3, <2>4, <2>5, <2>6, <2>7, <2>8, <2>9, <2>10, <2>11, <2>12 DEF SegmentNext
<1>. QED
  BY <1>1, <1>2 DEF ReadersNext, ReadNt, ReadSegment, readers

(* In a segment heap that is not damaged every block that is reported is   *)
(* real: nothing passes for allocated that is not, and nothing for free    *)
(* that the program uses, but for LFH blocks behind a lost chunk header.   *)
THEOREM SegmentBlocksAreReal == ReadersSpec => []SegmentShownReal
<1>1. ReadersInit => RealInv
  BY DEF ReadersInit, SegmentInit, RealInv
<1>2. RealInv => SegmentShownReal
  BY DEF RealInv, SegmentShownReal
<1>. QED
  BY <1>1, <1>2, RealStep, SegmentInvariance, PTL DEF ReadersSpec

-------------------------------------------------------------------------------
(* No block that a reader can get to is lost, of either kind of heap, and  *)
(* it is shown with the address and the size the program knows.            *)
THEOREM NoBlockIsLost == ReadersSpec => []BlocksShown
BY NoNtBlockIsLost, NoSegmentBlockIsLost, PTL DEF BlocksShown

(* Nothing false is reported of either kind of heap if nothing in it was   *)
(* overwritten: what is shown as allocated the program has, and no range   *)
(* of a segment heap that is shown as free holds a block, but for the      *)
(* exceptions that the two parts name.                                     *)
THEOREM NothingFalseIsReported == ReadersSpec => []BlocksReal
BY NtBlocksAreReal, SegmentBlocksAreReal, PTL DEF BlocksReal
===============================================================================
