---------------------------- MODULE MCHeapReaders -----------------------------
(***************************************************************************)
(* Every case of an NT heap beside the usual segment heap, and every case  *)
(* of a segment heap beside the usual NT heap.                             *)
(***************************************************************************)
EXTENDS HeapListing, TLC

N == INSTANCE NtHeapCases
S == INSTANCE SegmentHeapCases

UsualNt == N!HeapOf(N!Usual)
UsualSegment == S!SegmentHeapOf(S!Usual)

Process(n, s, f) == [nt |-> n, segment |-> s, first |-> f]

MCProcesses ==
    {Process(n, UsualSegment, "nt") : n \in N!MCNtHeaps}
    \union {Process(UsualNt, s, "segment") : s \in S!MCSegmentHeaps}
    \union {Process(UsualNt, UsualSegment, f) : f \in {"nt", "segment"}}

(* The requests of the program have headers as the allocator writes them.  *)
ASSUME RequestsAreWritten == N!RequestsAreWritten
===============================================================================
