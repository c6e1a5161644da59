----------------------------- MODULE HeapEntryMap -----------------------------
(***************************************************************************)
(* process_heaps::add_heap_entry and the std::map it fills.                *)
(*                                                                         *)
(* The map is keyed by the last address of an entry, so the key is a       *)
(* function of the entry and the map is the set of its entries.  The       *)
(* blocks of the dump are added in whatever order the heap walkers come    *)
(* across them, once or again; the code looks at ONE neighbour only, the   *)
(* lower bound of the new block's first address.                           *)
(***************************************************************************)
EXTENDS HeapRanges

CONSTANT Dumps      \* the sets of blocks a dump may hold

ASSUME DumpsAssumption ==
    \A D \in Dumps :
        /\ \A b \in D : b.first \in Nat /\ b.size \in Nat
        /\ WellNested(D)

VARIABLES
    dump,           \* the blocks of the dump that is analysed
    added,          \* the blocks add_heap_entry was called with
    entries,        \* the std::map
    failed          \* add_heap_entry threw: "due existing entry already existing"

vars == <<dump, added, entries, failed>>

Init ==
    /\ dump \in Dumps
    /\ added = {}
    /\ entries = {}
    /\ failed = FALSE

(***************************************************************************)
(* Slips that add_heap_entry could have had.  They are no part of the      *)
(* specification: each stands in for the definition named in its comment   *)
(* to show that a property below would notice it.                          *)
(***************************************************************************)
(* Containing: an equal range stays, the later report is dropped.          *)
SlipContainingStrict(e) ==
    {h \in LowerBound(entries, e.first) : Contains(h, e) /\ ~Contains(e, h)}
(* Contained: the second test left out.                                    *)
SlipContainedNone(e) == {}

(***************************************************************************)
(* The three ways through add_heap_entry.                                  *)
(***************************************************************************)
Containing(e) == {h \in LowerBound(entries, e.first) : Contains(h, e)}
Contained(e)  == {h \in LowerBound(entries, e.first) : Contains(e, h)}

(* "don't add containing entry"                                            *)
SkipContainer(e) ==
    /\ Containing(e) = {}
    /\ Contained(e) # {}
    /\ UNCHANGED <<entries, failed>>

(* "remove containing entry", then emplace under the new key.              *)
Emplace(e) ==
    LET kept == entries \ Containing(e) IN
    /\ Containing(e) # {} \/ Contained(e) = {}
    /\ IF \E k \in kept : LastAddress(k) = LastAddress(e)
       THEN entries' = kept /\ failed' = TRUE
       ELSE entries' = kept \union {e} /\ UNCHANGED failed

AddHeapEntry(e) ==
    /\ ~failed
    /\ added' = added \union {e}
    /\ SkipContainer(e) \/ Emplace(e)
    /\ UNCHANGED dump

Next == \E e \in dump : AddHeapEntry(e)

Spec == Init /\ [][Next]_vars

-------------------------------------------------------------------------------
(* The map holds blocks of the dump that were added, nothing else.         *)
TypeOK ==
    /\ added \subseteq dump
    /\ entries \subseteq added
    /\ failed \in BOOLEAN

(* No two entries of the map share a byte: without it the lower bound of   *)
(* an address need not be the entry that holds it, and every later lookup  *)
(* by address (the allocation graph, the diff filter) may miss.            *)
EntriesApart == \A a, b \in entries : a = b \/ Apart(a, b)

(* Whatever the order of the calls, the ranges in the map are the          *)
(* innermost of all ranges added so far: none is lost, and none that has   *)
(* another one inside it survives, although a container of many blocks is  *)
(* met by only one of them.                                                *)
RangeOf(b) == <<b.first, b.size>>
Innermost(B) == {b \in B : \A c \in B : Contains(b, c) => Contains(c, b)}
EntriesAreInnermost ==
    {RangeOf(e) : e \in entries} = {RangeOf(b) : b \in Innermost(added)}

(* The throw in add_heap_entry is never reached.                           *)
NeverFails == ~failed

(* What the graph and the diff filter take the list of allocations for:    *)
(* the innermost ranges of all that was reported, apart from each other,   *)
(* got without the exception.                                              *)
EntriesRight == EntriesApart /\ EntriesAreInnermost /\ NeverFails

(* Looking an address up by lower_bound, as match_crt_entry and the graph  *)
(* do, finds the entry that holds it if there is one.                      *)
LookupFindsOwner ==
    \A e \in entries, address \in {LastAddress(b) : b \in dump} \union {b.first : b \in dump} :
        ContainsAddress(e, address) => LowerBound(entries, address) = {e}

(* An entry leaves the map only for one that lies in it, which takes its   *)
(* place in the same step.                                                 *)
ReplacedByInner ==
    [][\A e \in entries \ entries' :
          \E n \in entries' \ entries : Contains(e, n)]_vars

(* The keyed map with its single lookup implements the abstract list.      *)
Abstract == INSTANCE InnermostAllocations WITH reported <- added, visible <- entries
ImplementsInnermost == Abstract!Spec
===============================================================================
