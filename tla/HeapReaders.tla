----------------------------- MODULE HeapReaders ------------------------------
(***************************************************************************)
(* process_heaps reads the heaps of a process one after another, in the    *)
(* order of the PEB: here an NT heap and a segment heap.  An exception out *)
(* of one reader leaves the loop over the heaps, and with it the heaps     *)
(* that come later are lost.                                               *)
(***************************************************************************)
EXTENDS NtHeap, SegmentHeap

CONSTANT Processes  \* the processes: [nt, segment, first], first is "nt" or "segment"

ASSUME ProcessesAssumption == \A p \in Processes : IsLaidOut(p.nt) /\ SegmentHeapIsLaidOut(p.segment)

VARIABLE first      \* which of the two heaps has the index 0

readers == <<vars, svars, first>>

ReadersInit ==
    \E p \in Processes :
        /\ first = p.first
        /\ Init(p.nt)
        /\ SegmentInit(p.segment)

(* The reader of `other' has come to its end, or comes later.              *)
Before(other) ==
    \/ first # other
    \/ IF other = "nt" THEN Done ELSE SegmentDone

ReadNt == Before("segment") /\ Next /\ UNCHANGED <<svars, first>>

ReadSegment == Before("nt") /\ SegmentNext /\ UNCHANGED <<vars, first>>

ReadersNext == ReadNt \/ ReadSegment

ReadersSpec == ReadersInit /\ [][ReadersNext]_readers /\ WF_readers(ReadersNext)

-------------------------------------------------------------------------------
(* No block is lost that the reader could get to.                          *)
BlocksShown == NtBlocksShown /\ SegmentBlocksShown

(* Nothing is reported as allocated that the program did not allocate, and *)
(* nothing as free that it did, with the exceptions the parts name.        *)
BlocksReal == ShownBlocksAreReal /\ SegmentShownReal

Stopped == failed \/ thrown \/ (Done /\ SegmentDone)

(* All heaps are read or an exception says that they are not, unless the   *)
(* header of a block says that it has no size; an undamaged NT heap whose  *)
(* field is in the dump is read to its end.                                *)
ReadingEnds ==
    /\ heap.damaged = {} /\ ~FieldMissing(heap) /\ first = "nt" => <>Done
    /\ /\ \A a \in DOMAIN heap.header : heap.header[a].size > 0
       /\ \A a \in DOMAIN sheap.chunk : sheap.chunk[a].size > 0
       => <>Stopped
===============================================================================
