--------------------------- MODULE AllEntries_proofs ---------------------------
(***************************************************************************)
(* Proofs about HeapEntryMap for every set of well-nested dumps, and about *)
(* the walk over all heaps of a dump that calls it.                        *)
(*                                                                         *)
(* The crux is that add_heap_entry looks at a single neighbour.  If the    *)
(* map is disjoint, an entry that contains the new block can only be the   *)
(* lower bound of the block's first address (ContainerIsLowerBound); and   *)
(* if no entry contains the block but some lie in it, the lower bound is   *)
(* one of those (InnerLowerBound).  Everything else follows.               *)
(*                                                                         *)
(* The walk over all heaps of a dump is, to the map of add_heap_entry, one *)
(* order of calls among others.  What is shown of the map for every        *)
(* order of calls holds of all_entries, for any number of heaps of any     *)
(* type and any debug CRT list.                                            *)
(*                                                                         *)
(* What the walk has passed is the invariant WalkInv; at its end all that  *)
(* the heaps report has been added, and from that and CrtAssumption follow *)
(* the three things validate_crt_entries relies on.                        *)
(***************************************************************************)
EXTENDS AllEntries, TLAPS, WellFoundedInduction

Block(b) == b.first \in Nat /\ b.size \in Nat

(* The last address is a number that is not below the first.               *)
LEMMA LastAddressNat ==
    ASSUME NEW b, Block(b)
    PROVE  LastAddress(b) \in Nat /\ LastAddress(b) >= b.first
BY SMT DEF Block, LastAddress

(* A non-empty set of blocks at or above an address has a lower bound.     *)
LEMMA LowerBoundExists ==
    ASSUME NEW M, \A b \in M : Block(b),
           NEW address \in Nat,
           NEW i \in M, LastAddress(i) >= address
    PROVE  \E h \in M : /\ h \in LowerBound(M, address)
                        /\ LastAddress(h) <= LastAddress(i)
<1> DEFINE keys == {LastAddress(b) : b \in {c \in M : LastAddress(c) >= address}}
<1>1. keys \subseteq Nat /\ LastAddress(i) \in keys
  BY LastAddressNat
<1>2. PICK k \in keys : \A l \in keys : ~(<<l, k>> \in OpToRel(<, Nat))
  BY <1>1, WFMin, NatLessThanWellFounded
<1>3. \A l \in keys : k <= l
  <2> HIDE DEF keys
  <2> SUFFICES ASSUME NEW l \in keys, l < k PROVE FALSE
    BY <1>1
  <2>1. <<l, k>> \in OpToRel(<, Nat)
    BY <1>1 DEF OpToRel
  <2> QED
    BY <1>2, <2>1
<1>4. PICK h \in M : LastAddress(h) >= address /\ LastAddress(h) = k
  OBVIOUS
<1> QED
  BY <1>1, <1>3, <1>4 DEF LowerBound

(* In a map whose entries are apart, the entry that contains a block is    *)
(* the only lower bound of the block's first address.                      *)
LEMMA ContainerIsLowerBound ==
    ASSUME NEW M, \A b \in M : Block(b),
           \A a, b \in M : a = b \/ Apart(a, b),
           NEW e, Block(e),
           NEW c \in M, Contains(c, e), LastAddress(e) <= LastAddress(c)
    PROVE  LowerBound(M, e.first) = {c}
<1>1. /\ LastAddress(e) \in Nat /\ LastAddress(e) >= e.first
      /\ \A b \in M : LastAddress(b) \in Nat /\ LastAddress(b) >= b.first
  BY LastAddressNat
<1>2. LastAddress(c) >= e.first
  BY <1>1 DEF Block
<1>3. \A b \in M : LastAddress(b) >= e.first => LastAddress(c) <= LastAddress(b)
  BY <1>1 DEF Block, Apart, Contains
<1>4. \A b \in LowerBound(M, e.first) : b = c
  BY <1>1, <1>2 DEF Block, Apart, LowerBound, Contains
<1>5. c \in LowerBound(M, e.first)
  BY <1>2, <1>3 DEF LowerBound
<1> QED
  BY <1>4, <1>5

(* If some entry lies in a new block and no entry contains it, then the    *)
(* lower bound of the block's first address lies in the block.             *)
LEMMA InnerLowerBound ==
    ASSUME NEW D, \A b \in D : Block(b), WellNested(D),
           NEW M \in SUBSET D,
           NEW e \in D, \A c \in M : ~Contains(c, e),
           NEW i \in M, Contains(e, i)
    PROVE  \E h \in LowerBound(M, e.first) : Contains(e, h)
<1>1. /\ e.first \in Nat
      /\ \A b \in D : LastAddress(b) \in Nat /\ LastAddress(b) >= b.first
      /\ \A b \in D : b.first \in Nat
  BY LastAddressNat DEF Block
<1>2. LastAddress(i) >= e.first /\ LastAddress(i) <= LastAddress(e)
  <2>1. LastAddress(i) <= LastAddress(e)
    BY DEF WellNested
  <2>2. i.first >= e.first
    BY DEF Contains
  <2> QED
    BY <1>1, <2>1, <2>2
<1>3. PICK h \in M : h \in LowerBound(M, e.first) /\ LastAddress(h) <= LastAddress(i)
  BY <1>1, <1>2, LowerBoundExists
<1>4. LastAddress(h) >= e.first
  BY <1>3 DEF LowerBound
<1>5. ~Apart(e, h)
  <2>1. h.first <= LastAddress(e)
    BY <1>1, <1>2, <1>3
  <2> QED
    BY <1>1, <1>4, <2>1 DEF Apart
<1>6. Contains(e, h)
  BY <1>5 DEF WellNested
<1> QED
  BY <1>3, <1>6

-------------------------------------------------------------------------------
(***************************************************************************)
(* The inductive invariant.  TypeOK, EntriesApart and NeverFails are not   *)
(* inductive on their own: that an entry that is not met by the single     *)
(* lookup does not matter needs to know that the map is disjoint AND that  *)
(* all of it comes from a well-nested dump.                                *)
(***************************************************************************)
Covered == \A b \in added : \E e \in entries : Contains(b, e)
Minimal == \A e \in entries, b \in added : Contains(e, b) => Contains(b, e)

IInv ==
    /\ TypeOK
    /\ dump \in Dumps
    /\ EntriesApart
    /\ NeverFails
    /\ Covered
    /\ Minimal

(* The empty map satisfies the invariant.                                  *)
LEMMA InitIInv == Init => IInv
BY DEF Init, IInv, TypeOK, EntriesApart, NeverFails, Covered, Minimal

(* What a step finds in the map: a container that is the one lower bound   *)
(* and makes way; or no container but something inside, and then nothing   *)
(* changes; or neither, and then the block is apart from every entry.      *)
FoundContainer(e) ==
    \E c \in entries :
        /\ Contains(c, e)
        /\ LastAddress(e) <= LastAddress(c)
        /\ Containing(e) = {c}
        /\ \A k \in entries \ {c} : Apart(k, e)

FoundInner(e) ==
    /\ Containing(e) = {}
    /\ \E i \in Contained(e) : i \in entries /\ Contains(e, i) /\ ~Contains(i, e)
    /\ \A k \in entries : ~Contains(k, e)

FoundNone(e) ==
    /\ Containing(e) = {}
    /\ Contained(e) = {}
    /\ \A k \in entries : Apart(k, e) /\ ~Contains(k, e) /\ ~Contains(e, k)

(* One lookup is enough: the map holds a container of the new block, or a  *)
(* block inside it, or nothing that shares a byte with it.                 *)
LEMMA Cases ==
    ASSUME IInv, NEW e \in dump
    PROVE  FoundContainer(e) \/ FoundInner(e) \/ FoundNone(e)
<1>1. /\ \A b \in dump : Block(b)
      /\ WellNested(dump)
      /\ entries \subseteq dump
  BY DumpsAssumption DEF IInv, TypeOK, Block
<1>2. /\ \A b \in dump : LastAddress(b) \in Nat /\ LastAddress(b) >= b.first
      /\ \A b \in dump : b.first \in Nat
  BY <1>1, LastAddressNat DEF Block
<1>3. \A a, b \in entries : a = b \/ Apart(a, b)
  BY DEF IInv, EntriesApart
<1>4. LowerBound(entries, e.first) \subseteq entries
  BY DEF LowerBound
<1>5. CASE \E c \in entries : Contains(c, e)
  <2>1. PICK c \in entries : Contains(c, e)
    BY <1>5
  <2>2. LastAddress(e) <= LastAddress(c)
    BY <1>1, <2>1 DEF WellNested
  <2>3. LowerBound(entries, e.first) = {c}
    BY <1>1, <1>3, <2>1, <2>2, ContainerIsLowerBound
  <2>4. Containing(e) = {c}
    BY <2>1, <2>3 DEF Containing
  <2>5. \A k \in entries \ {c} : Apart(k, e)
    <3> SUFFICES ASSUME NEW k \in entries \ {c} PROVE Apart(k, e)
      OBVIOUS
    <3>1. Apart(k, c)
      BY <1>3
    <3>2. c.first <= e.first
      BY <1>1, <2>1 DEF Contains, Block
    <3> QED
      BY <1>1, <1>2, <2>2, <3>1, <3>2 DEF Apart
  <2> QED
    BY <2>1, <2>2, <2>4, <2>5 DEF FoundContainer
<1>6. CASE /\ ~\E c \in entries : Contains(c, e)
           /\ \E i \in entries : Contains(e, i)
  <2>1. PICK h \in LowerBound(entries, e.first) : Contains(e, h)
    BY <1>1, <1>6, InnerLowerBound
  <2> QED
    BY <1>4, <1>6, <2>1 DEF FoundInner, Containing, Contained
<1>7. CASE \A k \in entries : ~Contains(k, e) /\ ~Contains(e, k)
  <2>1. \A k \in entries : Apart(k, e)
    BY <1>1, <1>7 DEF WellNested
  <2> QED
    BY <1>4, <1>7, <2>1 DEF FoundNone, Containing, Contained
<1> QED
  BY <1>5, <1>6, <1>7

(***************************************************************************)
(* Preservation.  Each of the three cases fixes the new map.               *)
(***************************************************************************)
LEMMA AddedEntries ==
    ASSUME IInv, NEW e \in dump, AddHeapEntry(e)
    PROVE  /\ failed' = FALSE
           /\ dump' = dump
           /\ added' = added \union {e}
           /\ \/ /\ FoundInner(e)
                 /\ entries' = entries
              \/ \E c \in entries :
                    /\ Contains(c, e)
                    /\ LastAddress(e) <= LastAddress(c)
                    /\ \A k \in entries \ {c} : Apart(k, e)
                    /\ entries' = (entries \ {c}) \union {e}
              \/ /\ FoundNone(e)
                 /\ entries' = entries \union {e}
<1>1. failed = FALSE /\ dump' = dump /\ added' = added \union {e}
  BY DEF IInv, NeverFails, TypeOK, AddHeapEntry
<1>2. /\ entries \subseteq dump
      /\ \A b \in dump : LastAddress(b) \in Nat /\ LastAddress(b) >= b.first
      /\ \A b \in dump : b.first \in Nat
  BY DumpsAssumption, LastAddressNat DEF IInv, TypeOK, Block
<1>3. \A k \in entries : Apart(k, e) => LastAddress(k) # LastAddress(e)
  BY <1>2 DEF Apart
<1>4. CASE FoundInner(e)
  <2>1. ~Emplace(e)
    BY <1>4 DEF FoundInner, Emplace
  <2> QED
    BY <1>1, <1>4, <2>1 DEF AddHeapEntry, SkipContainer
<1>5. CASE FoundContainer(e)
  <2>1. PICK c \in entries : /\ Contains(c, e)
                             /\ LastAddress(e) <= LastAddress(c)
                             /\ Containing(e) = {c}
                             /\ \A k \in entries \ {c} : Apart(k, e)
    BY <1>5 DEF FoundContainer
  <2>2. Emplace(e)
    BY <2>1 DEF AddHeapEntry, SkipContainer
  <2>3. ~\E k \in entries \ {c} : LastAddress(k) = LastAddress(e)
    BY <1>3, <2>1
  <2>4. entries' = (entries \ {c}) \union {e} /\ failed' = failed
    BY <2>1, <2>2, <2>3 DEF Emplace
  <2> QED
    BY <1>1, <2>1, <2>4
<1>6. CASE FoundNone(e)
  <2>1. Emplace(e)
    BY <1>6 DEF AddHeapEntry, SkipContainer, FoundNone
  <2>2. ~\E k \in entries : LastAddress(k) = LastAddress(e)
    BY <1>3, <1>6 DEF FoundNone
  <2>3. entries' = entries \union {e} /\ failed' = failed
    BY <1>6, <2>1, <2>2 DEF Emplace, FoundNone
  <2> QED
    BY <1>1, <1>6, <2>3
<1> QED
  BY Cases, <1>4, <1>5, <1>6

(* Containment of ranges is transitive.                                    *)
LEMMA ContainsTransitive ==
    ASSUME NEW a, NEW b, NEW c, Block(a), Block(b), Block(c),
           Contains(a, b), Contains(b, c)
    PROVE  Contains(a, c)
BY DEF Contains, End, Block

(* Blocks of a well-nested dump that are apart do not contain each other.  *)
LEMMA ApartNotContained ==
    ASSUME IInv, NEW a \in dump, NEW b \in dump, Apart(a, b)
    PROVE  ~Contains(a, b) /\ ~Contains(b, a)
BY DumpsAssumption, LastAddressNat DEF IInv, Apart, WellNested, Block, Contains

(* Every call of add_heap_entry preserves the invariant.                   *)
LEMMA NextIInv == IInv /\ [Next]_vars => IInv'
<1> SUFFICES ASSUME IInv, [Next]_vars PROVE IInv'
  OBVIOUS
<1>1. CASE UNCHANGED vars
  BY <1>1 DEF vars, IInv, TypeOK, EntriesApart, NeverFails, Covered, Minimal
<1>2. CASE Next
  <2>1. PICK e \in dump : AddHeapEntry(e)
    BY <1>2 DEF Next
  <2>2. /\ failed' = FALSE
        /\ dump' = dump
        /\ added' = added \union {e}
    BY <2>1, AddedEntries
  <2>3. /\ \A b \in dump : Block(b)
        /\ \A a, b \in dump : Contains(a, b) \/ Contains(b, a) \/ Apart(a, b)
        /\ entries \subseteq added /\ added \subseteq dump
        /\ \A a, b \in entries : a = b \/ Apart(a, b)
        /\ Covered /\ Minimal
    BY DumpsAssumption DEF IInv, TypeOK, EntriesApart, Block, WellNested
  <2>4. \A b \in dump : Contains(b, b)
    BY <2>3 DEF Contains, End, Block
  <2>5. \A a, b \in dump : Apart(a, b) => Apart(b, a) /\ ~Contains(a, b) /\ ~Contains(b, a)
    BY <2>3, LastAddressNat, DumpsAssumption DEF IInv, Apart, WellNested, Block, Contains
  <2>6. CASE FoundInner(e) /\ entries' = entries
    <3>1. PICK i \in entries : Contains(e, i) /\ ~Contains(i, e)
      BY <2>6 DEF FoundInner
    <3>2. \A k \in entries : ~Contains(k, e)
      BY <2>6 DEF FoundInner
    <3>3. Covered'
      BY <2>2, <2>3, <2>6, <3>1 DEF Covered
    <3>4. Minimal'
      BY <2>2, <2>3, <2>6, <3>2 DEF Minimal
    <3> QED
      BY <2>2, <2>3, <2>6, <3>3, <3>4 DEF IInv, TypeOK, EntriesApart, NeverFails
  <2>7. CASE \E c \in entries :
               /\ Contains(c, e)
               /\ LastAddress(e) <= LastAddress(c)
               /\ \A k \in entries \ {c} : Apart(k, e)
               /\ entries' = (entries \ {c}) \union {e}
    <3>1. PICK c \in entries :
               /\ Contains(c, e)
               /\ LastAddress(e) <= LastAddress(c)
               /\ \A k \in entries \ {c} : Apart(k, e)
               /\ entries' = (entries \ {c}) \union {e}
      BY <2>7
    <3>2. TypeOK'
      BY <2>2, <2>3, <3>1 DEF TypeOK
    <3>3. EntriesApart'
      BY <2>3, <2>5, <3>1 DEF EntriesApart
    <3>4. Covered'
      <4> SUFFICES ASSUME NEW b \in added'
                   PROVE  \E n \in entries' : Contains(b, n)
        BY DEF Covered
      <4>1. CASE b = e
        BY <2>4, <3>1, <4>1
      <4>2. CASE b \in added
        <5>1. PICK n \in entries : Contains(b, n)
          BY <2>3, <4>2 DEF Covered
        <5>2. CASE n = c
          BY <2>3, <3>1, <4>2, <5>1, <5>2, ContainsTransitive
        <5> QED
          BY <3>1, <5>1, <5>2
      <4> QED
        BY <2>2, <4>1, <4>2
    <3>5. Minimal'
      <4> SUFFICES ASSUME NEW n \in entries', NEW b \in added', Contains(n, b)
                   PROVE  Contains(b, n)
        BY DEF Minimal
      <4>1. CASE n = e /\ b \in added
        <5>1. Contains(c, b)
          BY <2>3, <3>1, <4>1, ContainsTransitive
        <5>2. Contains(b, c)
          BY <2>3, <4>1, <5>1 DEF Minimal
        <5> QED
          BY <2>3, <3>1, <4>1, <5>2, ContainsTransitive
      <4>2. CASE n \in entries \ {c} /\ b = e
        BY <2>3, <2>5, <3>1, <4>2
      <4>3. CASE n \in entries \ {c} /\ b \in added
        BY <2>3, <4>3 DEF Minimal
      <4>4. CASE n = e /\ b = e
        BY <4>4
      <4> QED
        BY <2>2, <3>1, <4>1, <4>2, <4>3, <4>4
    <3> QED
      BY <2>2, <3>2, <3>3, <3>4, <3>5 DEF IInv, NeverFails
  <2>8. CASE FoundNone(e) /\ entries' = entries \union {e}
    <3>1. \A k \in entries : Apart(k, e) /\ ~Contains(k, e) /\ ~Contains(e, k)
      BY <2>8 DEF FoundNone
    <3>2. TypeOK'
      BY <2>2, <2>3, <2>8 DEF TypeOK
    <3>3. EntriesApart'
      BY <2>3, <2>5, <2>8, <3>1 DEF EntriesApart
    <3>4. Covered'
      BY <2>2, <2>3, <2>4, <2>8 DEF Covered
    <3>5. Minimal'
      <4> SUFFICES ASSUME NEW n \in entries', NEW b \in added', Contains(n, b)
                   PROVE  Contains(b, n)
        BY DEF Minimal
      <4>1. CASE n = e /\ b \in added
        <5>1. PICK k \in entries : Contains(b, k)
          BY <2>3, <4>1 DEF Covered
        <5>2. Contains(e, k)
          BY <2>3, <4>1, <5>1, ContainsTransitive
        <5> QED
          BY <3>1, <5>2
      <4>2. CASE n \in entries /\ b = e
        BY <3>1, <4>2
      <4>3. CASE n \in entries /\ b \in added
        BY <2>3, <4>3 DEF Minimal
      <4>4. CASE n = e /\ b = e
        BY <4>4
      <4> QED
        BY <2>2, <2>8, <4>1, <4>2, <4>3, <4>4
    <3> QED
      BY <2>2, <3>2, <3>3, <3>4, <3>5 DEF IInv, NeverFails
  <2> QED
    BY <2>1, <2>6, <2>7, <2>8, AddedEntries
<1> QED
  BY <1>1, <1>2

-------------------------------------------------------------------------------
(***************************************************************************)
(* The theorems.                                                           *)
(***************************************************************************)
THEOREM Invariance == Spec => []IInv
BY InitIInv, NextIInv, PTL DEF Spec

(* The map of add_heap_entry only ever holds blocks it was called with.    *)
THEOREM TypeCorrect == Spec => []TypeOK
<1>1. IInv => TypeOK
  BY DEF IInv
<1> QED
  BY Invariance, <1>1, PTL

(* However the walkers order their calls, no two entries of the map        *)
(* overlap.                                                                *)
THEOREM EntriesStayApart == Spec => []EntriesApart
<1>1. IInv => EntriesApart
  BY DEF IInv
<1> QED
  BY Invariance, <1>1, PTL

(* emplace never meets an existing key: the throw in add_heap_entry is     *)
(* unreachable for well-nested dumps.                                      *)
THEOREM AddNeverFails == Spec => []NeverFails
<1>1. IInv => NeverFails
  BY DEF IInv
<1> QED
  BY Invariance, <1>1, PTL

(* The map holds exactly the innermost ranges among those added.           *)
THEOREM InnermostEntries == Spec => []EntriesAreInnermost
<1>1. IInv => EntriesAreInnermost
  <2> SUFFICES ASSUME IInv PROVE EntriesAreInnermost
    OBVIOUS
  <2>1. /\ \A b \in added : Block(b)
        /\ entries \subseteq added
        /\ Covered /\ Minimal
    BY DumpsAssumption DEF IInv, TypeOK, Block
  <2>2. entries \subseteq Innermost(added)
    BY <2>1 DEF Minimal, Innermost
  <2>3. ASSUME NEW b \in Innermost(added)
        PROVE  \E e \in entries : RangeOf(e) = RangeOf(b)
    <3>1. PICK e \in entries : Contains(b, e)
      BY <2>1 DEF Innermost, Covered
    <3>2. Contains(e, b)
      BY <2>1, <3>1 DEF Innermost
    <3>3. e.first = b.first /\ e.size = b.size
      BY <2>1, <3>1, <3>2 DEF Contains, End, Block, Innermost
    <3> QED
      BY <3>3 DEF RangeOf
  <2> QED
    BY <2>2, <2>3 DEF EntriesAreInnermost
<1> QED
  BY Invariance, <1>1, PTL

(* A lower_bound lookup by any address of an entry returns that entry.     *)
THEOREM LookupIsExact == Spec => []LookupFindsOwner
<1>1. IInv => LookupFindsOwner
  <2> SUFFICES ASSUME IInv,
                      NEW e \in entries,
                      NEW address \in {LastAddress(b) : b \in dump} \union {b.first : b \in dump},
                      ContainsAddress(e, address)
               PROVE  LowerBound(entries, address) = {e}
    BY DEF LookupFindsOwner
  <2> DEFINE byte == [first |-> address, size |-> 1]
  <2>1. /\ \A b \in entries : Block(b)
        /\ \A a, b \in entries : a = b \/ Apart(a, b)
        /\ address \in Nat
    BY DumpsAssumption, LastAddressNat DEF IInv, TypeOK, EntriesApart, Block
  <2>2. Block(byte) /\ Contains(e, byte) /\ LastAddress(byte) <= LastAddress(e)
    BY <2>1 DEF Block, Contains, ContainsAddress, LastAddress, End
  <2>3. LowerBound(entries, byte.first) = {e}
    <3> HIDE DEF byte
    <3> QED
      BY <2>1, <2>2, ContainerIsLowerBound
  <2> QED
    BY <2>3
<1> QED
  BY Invariance, <1>1, PTL

(* An entry gives way only to one inside it.                               *)
THEOREM OnlyReplacedByInner == Spec => ReplacedByInner
<1>1. IInv /\ [Next]_vars =>
        [\A e \in entries \ entries' : \E n \in entries' \ entries : Contains(e, n)]_vars
  <2> SUFFICES ASSUME IInv, NEW e \in dump, AddHeapEntry(e)
               PROVE  \A x \in entries \ entries' :
                          \E n \in entries' \ entries : Contains(x, n)
    BY DEF Next
  <2>1. ~Apart(e, e)
    BY DumpsAssumption, LastAddressNat DEF IInv, Apart, Block
  <2>2. CASE entries' = entries \/ entries' = entries \union {e}
    BY <2>2
  <2>3. CASE \E c \in entries : /\ Contains(c, e)
                                /\ \A k \in entries \ {c} : Apart(k, e)
                                /\ entries' = (entries \ {c}) \union {e}
    <3>1. PICK c \in entries : /\ Contains(c, e)
                               /\ \A k \in entries \ {c} : Apart(k, e)
                               /\ entries' = (entries \ {c}) \union {e}
      BY <2>3
    <3>2. \A x \in entries \ entries' : x = c /\ c # e
      BY <3>1
    <3>3. c # e => e \notin entries
      BY <2>1, <3>1
    <3>4. e \in entries'
      BY <3>1
    <3> QED
      BY <3>1, <3>2, <3>3, <3>4
  <2>4. \/ entries' = entries \/ entries' = entries \union {e}
        \/ \E c \in entries : /\ Contains(c, e)
                              /\ \A k \in entries \ {c} : Apart(k, e)
                              /\ entries' = (entries \ {c}) \union {e}
    BY AddedEntries
  <2> QED
    BY <2>2, <2>3, <2>4
<1> QED
  BY Invariance, <1>1, PTL DEF Spec, ReplacedByInner

(* The keyed map with a single lookup per call refines the abstract list   *)
(* that compares a new block with every visible one.                       *)
THEOREM Refinement == Spec => ImplementsInnermost
<1>1. Init => Abstract!Init
  BY DEF Init, Abstract!Init
<1>2. IInv /\ [Next]_vars => [Abstract!Next]_(Abstract!vars)
  <2> SUFFICES ASSUME IInv, NEW e \in dump, AddHeapEntry(e)
               PROVE  Abstract!Report(e)
    BY DEF Next, Abstract!Next, vars, Abstract!vars
  <2> USE DEF Abstract!StrictlyInside, Abstract!Contains, Abstract!End, Contains, End
  <2>1. /\ e \in dump
        /\ added' = added \union {e}
        /\ UNCHANGED dump
    BY DEF AddHeapEntry
  <2>2. /\ \A b \in dump : Block(b)
        /\ entries \subseteq dump
        /\ \A a, b \in entries : a = b \/ Apart(a, b)
    BY DumpsAssumption DEF IInv, TypeOK, EntriesApart, Block
  <2>3. entries' = IF \E v \in entries : Abstract!StrictlyInside(v, e)
                   THEN entries
                   ELSE {v \in entries : ~Abstract!Contains(v, e)} \union {e}
    <3>1. CASE FoundInner(e) /\ entries' = entries
      BY <3>1 DEF FoundInner
    <3>2. CASE \E c \in entries :
                 /\ Contains(c, e)
                 /\ LastAddress(e) <= LastAddress(c)
                 /\ \A k \in entries \ {c} : Apart(k, e)
                 /\ entries' = (entries \ {c}) \union {e}
      <4>1. PICK c \in entries :
                 /\ Contains(c, e)
                 /\ \A k \in entries \ {c} : Apart(k, e)
                 /\ entries' = (entries \ {c}) \union {e}
        BY <3>2
      <4>2. \A k \in entries \ {c} : ~Contains(k, e) /\ ~Contains(e, k)
        BY <2>2, <4>1, ApartNotContained
      <4> QED
        BY <4>1, <4>2
    <3>3. CASE FoundNone(e) /\ entries' = entries \union {e}
      BY <3>3 DEF FoundNone
    <3> QED
      BY <3>1, <3>2, <3>3, AddedEntries
  <2> QED
    BY <2>1, <2>3 DEF Abstract!Report
<1>3. UNCHANGED vars => UNCHANGED Abstract!vars
  BY DEF vars, Abstract!vars
<1> QED
  BY Invariance, <1>1, <1>2, <1>3, PTL DEF Spec, ImplementsInnermost, Abstract!Spec

-------------------------------------------------------------------------------

(* The stages of a heap, and what they leave for the next.                 *)
Kinds ==
    {"memory_range", "nt_heap_lfh_entry", "nt_heap_segment_entry", "nt_heap_virtual_entry",
     "segment_backend_entry", "segment_entry", "segment_lfh_entry", "segment_large_entry",
     "dph_entry", "dph_virtual_entry"}

LEMMA StagesAreFew ==
    ASSUME NEW type \in {"nt_heap", "segment_heap", "dph_heap"}
    PROVE  StagesOf(type) \in Seq(Kinds) /\ Len(StagesOf(type)) \in 1..4
<1>1. CASE type = "nt_heap"
  BY <1>1 DEF StagesOf, Kinds
<1>2. CASE type = "segment_heap"
  BY <1>2 DEF StagesOf, Kinds
<1>3. CASE type = "dph_heap"
  BY <1>3 DEF StagesOf, Kinds
<1> QED
  BY <1>1, <1>2, <1>3

WalkTypes == WalkTypeOK /\ stages \in Seq(Kinds)

(* The walk begins before the first heap.                                  *)
LEMMA InitWalkTypes == InitWalk => WalkTypes
<1> SUFFICES ASSUME InitWalk PROVE WalkTypes
  OBVIOUS
<1>1. heap \in Heaps /\ Len(heap.types) \in Nat
  BY TypesAssumption DEF InitWalk
<1>2. "memory_range" \in Kinds
  BY DEF Kinds
<1>3. stages \in Seq(Kinds) /\ Len(stages) = 1 /\ Head(stages) = "memory_range"
  BY <1>2 DEF InitWalk
<1> QED
  BY <1>1, <1>3 DEF InitWalk, WalkTypes, WalkTypeOK

(* Every step of the walk stays with the heaps and stages of its dump.     *)
LEMMA NextWalkTypes == WalkTypes /\ [NextWalk]_allVars => WalkTypes'
<1> SUFFICES ASSUME WalkTypes, [NextWalk]_allVars PROVE WalkTypes'
  OBVIOUS
<1>1. CASE UNCHANGED allVars
  <2>1. /\ heap' = heap /\ heap_index' = heap_index /\ stages' = stages
        /\ todo' = todo /\ lfh_data' = lfh_data
    BY <1>1 DEF allVars, walk
  <2>2. BlocksOf(Head(stages), heap_index)' = BlocksOf(Head(stages), heap_index)
    BY <2>1 DEF BlocksOf
  <2> QED
    BY <2>1, <2>2 DEF WalkTypes, WalkTypeOK
<1>2. ASSUME NEW b \in todo, Visit(b)
      PROVE  WalkTypes'
  BY <1>2 DEF Visit, WalkTypes, WalkTypeOK, BlocksOf
<1>3. CASE NextStage
  <2>1. stages' \in Seq(Kinds) /\ Len(stages') \in 1..4
    BY <1>3 DEF NextStage, WalkTypes, WalkTypeOK
  <2>2. UNCHANGED <<heap, heap_index>> /\ todo' = BlocksOf(Head(stages)', heap_index)
    BY <1>3 DEF NextStage
  <2>4. BlocksOf(Head(stages), heap_index)' = BlocksOf(Head(stages)', heap_index)
    BY <2>2 DEF BlocksOf
  <2>3. lfh_data' \subseteq SubsegmentsOf(heap, heap_index)
    BY <1>3 DEF NextStage, WalkTypes, WalkTypeOK
  <2> QED
    BY <2>1, <2>2, <2>3, <2>4 DEF WalkTypes, WalkTypeOK
<1>4. CASE NextHeap
  <2>1. heap \in Heaps /\ heap_index' = heap_index + 1 /\ heap' = heap /\ heap_index < Len(heap.types)
        /\ heap_index \in 0..Len(heap.types)
    BY <1>4 DEF NextHeap, WalkTypes, WalkTypeOK
  <2>2. /\ heap.types \in Seq({"nt_heap", "segment_heap", "dph_heap"})
        /\ Len(heap.types) \in Nat
    BY <2>1, TypesAssumption
  <2>3. heap_index' \in 1..Len(heap.types)
    BY <2>1, <2>2
  <2>4. heap.types[heap_index'] \in {"nt_heap", "segment_heap", "dph_heap"}
    BY <2>2, <2>3
  <2>5. stages' \in Seq(Kinds) /\ Len(stages') \in 1..4
    BY <1>4, <2>4, StagesAreFew DEF NextHeap
  <2>6. todo' = BlocksOf(Head(stages)', heap_index') /\ lfh_data' = {}
    BY <1>4 DEF NextHeap
  <2>7. BlocksOf(Head(stages), heap_index)' = BlocksOf(Head(stages)', heap_index')
    BY <2>1 DEF BlocksOf
  <2> QED
    BY <2>1, <2>2, <2>3, <2>5, <2>6, <2>7 DEF WalkTypes, WalkTypeOK
<1>5. CASE Finished
  BY <1>1, <1>5 DEF Finished
<1> QED
  BY <1>1, <1>2, <1>3, <1>4, <1>5 DEF NextWalk

(* The walk goes through the heaps and stages of its dump and no others.   *)
THEOREM WalkTypeCorrect == WalkSpec => []WalkTypeOK
<1>1. WalkTypes => WalkTypeOK
  BY DEF WalkTypes
<1> QED
  BY InitWalkTypes, NextWalkTypes, <1>1, PTL DEF WalkSpec

-------------------------------------------------------------------------------
(***************************************************************************)
(* What the walk has passed.  A stage comes once for each heap, and its    *)
(* blocks are either in todo, or ahead, or have been passed to             *)
(* add_heap_entry; so what is in the list at the end is all of what the    *)
(* heaps report, and nothing that was passed too early or under the wrong  *)
(* subsegments.                                                            *)
(***************************************************************************)
Ahead(b) ==
    \/ b \in todo
    \/ b.heap = heap_index /\ \E k \in 2..Len(stages) : stages[k] = b.kind
    \/ b.heap > heap_index

Counted ==
    \A b \in heap.blocks :
        Considered(b, SubsegmentsOf(heap, b.heap)) => Ahead(b) \/ EntryOf(heap, b) \subseteq added

(* The segment stage of an NT heap has the subsegments of that heap, since *)
(* it only ever comes right behind the stage that collects them.           *)
SubsegmentsKnown ==
    /\ stages[1] = "nt_heap_segment_entry" => lfh_data = SubsegmentsOf(heap, heap_index)
    /\ \A k \in 2..Len(stages) :
          stages[k] = "nt_heap_segment_entry" => stages[k - 1] = "nt_heap_lfh_entry"

(* The memory ranges come first, and a range that holds a block of a heap  *)
(* has made way for it.                                                    *)
RangesFirst ==
    /\ heap_index = 0 => stages = <<"memory_range">> /\ \A e \in added : e.kind = "memory_range"
    /\ heap_index > 0 => \A k \in 1..Len(stages) : stages[k] # "memory_range"

RangesGiveWay ==
    \A n \in entries, e \in added :
        n.kind = "memory_range" /\ e.kind # "memory_range" => ~Contains(n, e)

WalkInv ==
    /\ WalkTypes
    /\ IInv
    /\ dump = Reported(heap)
    /\ Counted
    /\ SubsegmentsKnown
    /\ RangesFirst
    /\ RangesGiveWay


(* The debug CRT's list has one block at most at an address.               *)
LEMMA CrtBlocks ==
    ASSUME NEW h \in Heaps
    PROVE  /\ \A c \in h.crt : /\ Block(c) /\ Block(c.user)
                               /\ c.first < c.user.first /\ End(c.user) < End(c)
                               /\ LastAddress(c) \in Nat
                               /\ c.first <= LastAddress(c) /\ LastAddress(c.user) <= LastAddress(c)
           /\ \A c, d \in h.crt : LastAddress(c) = LastAddress(d) => c = d
<1>1. ASSUME NEW c \in h.crt
      PROVE  /\ Block(c) /\ Block(c.user)
             /\ c.first < c.user.first /\ End(c.user) < End(c)
  BY <1>1, CrtAssumption DEF Block
<1>2. ASSUME NEW c \in h.crt
      PROVE  /\ LastAddress(c) \in Nat
             /\ c.first <= LastAddress(c) /\ LastAddress(c.user) <= LastAddress(c)
  BY <1>1, SMT DEF Block, LastAddress, End
<1>3. ASSUME NEW c \in h.crt, NEW d \in h.crt, LastAddress(c) = LastAddress(d)
      PROVE  c = d
  <2> SUFFICES ASSUME c # d PROVE FALSE
    OBVIOUS
  <2>1. Apart(c, d)
    BY CrtAssumption
  <2> QED
    BY <1>1, <1>2, <1>3, <2>1 DEF Apart, Block
<1> QED
  BY <1>1, <1>2, <1>3

LEMMA LowerBoundOne ==
    ASSUME NEW h \in Heaps, NEW address,
           NEW c \in LowerBound(h.crt, address), NEW d \in LowerBound(h.crt, address)
    PROVE  c = d
<1>1. /\ c \in h.crt /\ d \in h.crt
      /\ LastAddress(c) <= LastAddress(d) /\ LastAddress(d) <= LastAddress(c)
  BY DEF LowerBound
<1> QED
  BY <1>1, CrtBlocks

(* A block adds one entry at most.                                         *)
LEMMA EntryOfOne ==
    ASSUME NEW h \in Heaps, NEW b, NEW x \in EntryOf(h, b), NEW y \in EntryOf(h, b)
    PROVE  x = y
<1>1. \A c, d \in MatchCrtEntry(h, b) : c = d
  BY LowerBoundOne DEF MatchCrtEntry
<1> QED
  BY <1>1 DEF EntryOf

(* Every entry bears the kind of the block it is for.                      *)
LEMMA EntryOfKind ==
    ASSUME NEW h, NEW b, NEW x \in EntryOf(h, b)
    PROVE  x.kind = b.kind
BY DEF EntryOf, RawEntry, CrtEntry

LEMMA InitWalkInv == InitWalk => WalkInv
<1> SUFFICES ASSUME InitWalk PROVE WalkInv
  OBVIOUS
<1>1. WalkTypes
  BY InitWalkTypes
<1>2. IInv
  BY HeapsAssumption, InitIInv DEF InitWalk, Init
<1>3. heap \in Heaps /\ heap_index = 0 /\ stages = <<"memory_range">> /\ Len(stages) = 1 /\ stages[1] = "memory_range"
  BY DEF InitWalk
<1>4. Counted
  <2> SUFFICES ASSUME NEW b \in heap.blocks PROVE Ahead(b)
    BY DEF Counted
  <2>1. CASE b.kind = "memory_range"
    BY <2>1, BlocksAssumption, <1>3 DEF Ahead, InitWalk, BlocksOf
  <2>2. CASE b.kind # "memory_range"
    <3>1. b.heap \in 1..Len(heap.types) /\ Len(heap.types) \in Nat
      BY <2>2, BlocksAssumption, TypesAssumption, <1>3
    <3> QED
      BY <3>1, <1>3 DEF Ahead
  <2> QED
    BY <2>1, <2>2
<1>5. SubsegmentsKnown
  BY <1>3 DEF SubsegmentsKnown
<1>6. RangesFirst /\ RangesGiveWay /\ dump = Reported(heap)
  BY <1>3 DEF InitWalk, RangesFirst, RangesGiveWay
<1> QED
  BY <1>1, <1>2, <1>4, <1>5, <1>6 DEF WalkInv

(* The visit of a block passes on what the block adds to the list; the     *)
(* walk knows the subsegments that it needs for that.                      *)
LEMMA ConsideredRight ==
    ASSUME WalkInv, NEW b \in todo
    PROVE  Considered(b, SubsegmentsOf(heap, b.heap)) <=> Considered(b, lfh_data)
<1>1. b.kind = stages[1] /\ b.heap = heap_index
  BY DEF WalkInv, WalkTypes, WalkTypeOK, BlocksOf
<1>2. CASE b.kind = "nt_heap_segment_entry"
  BY <1>1, <1>2 DEF WalkInv, SubsegmentsKnown
<1>3. CASE b.kind # "nt_heap_segment_entry"
  BY <1>3 DEF Considered
<1> QED
  BY <1>2, <1>3

(* What a step adds are entries of one block of the current stage.         *)
LEMMA VisitAdds ==
    ASSUME WalkInv, NEW b \in todo, Visit(b)
    PROVE  /\ UNCHANGED <<heap, heap_index, stages, lfh_data>>
           /\ todo' = todo \ {b}
           /\ \/ /\ Contribution(b) = {}
                 /\ UNCHANGED vars
              \/ \E e \in EntryOf(heap, b) :
                    /\ Considered(b, lfh_data)
                    /\ e \in dump
                    /\ AddHeapEntry(e)
                    /\ added' = added \union EntryOf(heap, b)
           /\ [Next]_vars
<1>1. UNCHANGED <<heap, heap_index, stages, lfh_data>> /\ todo' = todo \ {b}
  BY DEF Visit
<1>2. ASSUME NEW e \in Contribution(b), AddHeapEntry(e)
      PROVE  /\ e \in EntryOf(heap, b)
             /\ Considered(b, lfh_data)
             /\ e \in dump
             /\ added' = added \union EntryOf(heap, b)
  <2>1. e \in EntryOf(heap, b) /\ Considered(b, lfh_data)
    BY <1>2 DEF Contribution
  <2>2. EntryOf(heap, b) = {e}
    BY <2>1, EntryOfOne DEF WalkInv, WalkTypes, WalkTypeOK
  <2>3. b \in heap.blocks /\ Considered(b, SubsegmentsOf(heap, b.heap))
    BY <2>1, ConsideredRight DEF WalkInv, WalkTypes, WalkTypeOK, BlocksOf
  <2>4. e \in dump
    BY <2>1, <2>3 DEF WalkInv, Reported
  <2> QED
    BY <1>2, <2>1, <2>2, <2>4 DEF AddHeapEntry
<1>3. (Contribution(b) = {} /\ UNCHANGED vars) \/ \E e \in Contribution(b) : AddHeapEntry(e)
  BY DEF Visit
<1>4. [Next]_vars
  BY <1>2, <1>3 DEF Next
<1> QED
  BY <1>1, <1>2, <1>3, <1>4

(* To the map the walk is one order of calls of add_heap_entry with blocks *)
(* of the dump.                                                            *)
LEMMA WalkStep == WalkInv /\ [NextWalk]_allVars => [Next]_vars
<1> SUFFICES ASSUME WalkInv, [NextWalk]_allVars PROVE [Next]_vars
  OBVIOUS
<1>1. CASE UNCHANGED allVars \/ Finished
  BY <1>1 DEF allVars, Finished
<1>2. ASSUME NEW b \in todo, Visit(b)
      PROVE  [Next]_vars
  BY <1>2, VisitAdds
<1>3. CASE NextStage
  BY <1>3 DEF NextStage
<1>4. CASE NextHeap
  BY <1>4 DEF NextHeap
<1> QED
  BY <1>1, <1>2, <1>3, <1>4 DEF NextWalk

(* A visited block is counted, and those still ahead are unchanged.        *)
LEMMA VisitCounted ==
    ASSUME WalkInv, NEW b \in todo, Visit(b)
    PROVE  Counted'
<1>1. /\ UNCHANGED <<heap, heap_index, stages, lfh_data>>
      /\ todo' = todo \ {b}
      /\ added \subseteq added'
  BY VisitAdds DEF vars
<1>2. Considered(b, lfh_data) => EntryOf(heap, b) \subseteq added'
  <2> SUFFICES ASSUME Considered(b, lfh_data) PROVE EntryOf(heap, b) \subseteq added'
    OBVIOUS
  <2>1. CASE Contribution(b) = {}
    BY <2>1 DEF Contribution
  <2>2. CASE added' = added \union EntryOf(heap, b)
    BY <2>2
  <2> QED
    BY <2>1, <2>2, VisitAdds
<1>3. \A d \in heap.blocks : Ahead(d) /\ d # b => Ahead(d)'
  BY <1>1 DEF Ahead
<1>4. \A d \in heap.blocks :
         Considered(d, SubsegmentsOf(heap, d.heap)) => Ahead(d)' \/ EntryOf(heap, d) \subseteq added'
  <2> SUFFICES ASSUME NEW d \in heap.blocks, Considered(d, SubsegmentsOf(heap, d.heap)), ~Ahead(d)'
               PROVE  EntryOf(heap, d) \subseteq added'
    OBVIOUS
  <2>1. CASE d = b
    BY <2>1, <1>2, ConsideredRight
  <2>2. CASE d # b
    BY <2>2, <1>1, <1>3 DEF WalkInv, Counted
  <2> QED
    BY <2>1, <2>2
<1>5. heap' = heap
  BY <1>1
<1> QED
  BY <1>4, <1>5 DEF Counted, Considered, SubsegmentsOf, EntryOf, MatchCrtEntry

(* Only the memory ranges of the first stage add memory ranges, and a      *)
(* block of a heap takes the place of the range that holds it.             *)
LEMMA VisitRanges ==
    ASSUME WalkInv, NEW b \in todo, Visit(b), IInv'
    PROVE  RangesFirst' /\ RangesGiveWay'
<1>1. UNCHANGED <<heap, heap_index, stages>>
  BY VisitAdds
<1>2. CASE UNCHANGED vars
  BY <1>1, <1>2 DEF WalkInv, RangesFirst, RangesGiveWay, vars
<1>3. ASSUME NEW e \in EntryOf(heap, b), e \in dump, AddHeapEntry(e)
      PROVE  RangesFirst' /\ RangesGiveWay'
  <2>1. e.kind = b.kind
    BY EntryOfKind
  <2>2. b.kind = Head(stages)
    BY DEF WalkInv, WalkTypes, WalkTypeOK, BlocksOf
  <2>3. added' = added \union {e}
    BY <1>3 DEF AddHeapEntry
  <2>4. RangesFirst'
    <3>1. heap_index = 0 => e.kind = "memory_range"
      BY <2>1, <2>2 DEF WalkInv, RangesFirst
    <3> QED
      BY <1>1, <2>3, <3>1 DEF WalkInv, RangesFirst
  <2>5. CASE e.kind = "memory_range"
    <3>1. heap_index = 0
      <4>1. stages[1] = "memory_range" /\ 1 \in 1..Len(stages)
        BY <2>1, <2>2, <2>5 DEF WalkInv, WalkTypes, WalkTypeOK
      <4>2. heap_index \in Nat
        BY TypesAssumption DEF WalkInv, WalkTypes, WalkTypeOK
      <4> QED
        BY <4>1, <4>2 DEF WalkInv, RangesFirst
    <3>2. \A d \in added' : d.kind = "memory_range"
      BY <1>1, <2>4, <3>1 DEF RangesFirst
    <3> QED
      BY <2>4, <3>2 DEF RangesGiveWay
  <2>6. CASE e.kind # "memory_range"
    <3>1. /\ \A k \in entries, d \in added : k.kind = "memory_range" /\ d.kind # "memory_range" => ~Contains(k, d)
          /\ entries \subseteq dump /\ IInv
      BY DEF WalkInv, RangesGiveWay, IInv, TypeOK
    <3>2. \A k \in entries' : k = e \/ (k \in entries /\ ~Contains(k, e))
      <4>1. CASE FoundInner(e) /\ entries' = entries
        BY <4>1 DEF FoundInner
      <4>2. ASSUME NEW c \in entries,
                   \A k \in entries \ {c} : Apart(k, e),
                   entries' = (entries \ {c}) \union {e}
            PROVE  \A k \in entries' : k = e \/ (k \in entries /\ ~Contains(k, e))
        BY <1>3, <3>1, <4>2, ApartNotContained
      <4>3. CASE FoundNone(e) /\ entries' = entries \union {e}
        BY <4>3 DEF FoundNone
      <4> QED
        BY <1>3, <3>1, <4>1, <4>2, <4>3, AddedEntries
    <3>3. RangesGiveWay'
      BY <2>3, <2>6, <3>1, <3>2 DEF RangesGiveWay
    <3> QED
      BY <2>4, <3>3
  <2> QED
    BY <2>5, <2>6
<1> QED
  BY <1>2, <1>3, VisitAdds

LEMMA VisitWalkInv ==
    ASSUME WalkInv, NEW b \in todo, Visit(b)
    PROVE  WalkInv'
<1>1. NextWalk
  BY DEF NextWalk
<1>2. WalkTypes'
  BY <1>1, NextWalkTypes DEF WalkInv
<1>3. IInv'
  BY <1>1, WalkStep, NextIInv DEF WalkInv
<1>4. /\ UNCHANGED <<heap, heap_index, stages, lfh_data>>
      /\ dump' = dump
  <2>1. CASE UNCHANGED vars
    BY <2>1, VisitAdds DEF vars
  <2>2. ASSUME NEW e, AddHeapEntry(e)
        PROVE  dump' = dump
    BY <2>2 DEF AddHeapEntry
  <2> QED
    BY <2>1, <2>2, VisitAdds
<1>5. SubsegmentsKnown'
  BY <1>4 DEF WalkInv, SubsegmentsKnown, SubsegmentsOf
<1>6. dump' = Reported(heap)'
  BY <1>4 DEF WalkInv, Reported, EntryOf, MatchCrtEntry, Considered, SubsegmentsOf
<1> QED
  BY <1>2, <1>3, <1>5, <1>6, VisitCounted, VisitRanges DEF WalkInv

(* At the end of a stage nothing of it is ahead any more.                  *)
LEMMA NextStageWalkInv ==
    ASSUME WalkInv, NextStage
    PROVE  WalkInv'
<1>1. /\ UNCHANGED <<vars, heap, heap_index>>
      /\ todo = {} /\ Len(stages) > 1
      /\ stages' = Tail(stages) /\ todo' = BlocksOf(Head(stages'), heap_index)
      /\ lfh_data' = IF Head(stages) = "nt_heap_lfh_entry" THEN SubsegmentsOf(heap, heap_index) ELSE lfh_data
  BY DEF NextStage
<1>2. WalkTypes' /\ IInv'
  BY WalkStep, NextWalkTypes, NextIInv DEF NextWalk, WalkInv
<1>3. /\ stages \in Seq(Kinds) /\ Len(stages) \in Nat
      /\ Len(stages') = Len(stages) - 1
      /\ \A k \in 1..Len(stages') : stages'[k] = stages[k + 1]
      /\ Head(stages) = stages[1] /\ Head(stages') = stages[2]
  BY <1>1 DEF WalkInv, WalkTypes
<1>4. Counted'
  <2>1. \A d \in heap.blocks : Ahead(d) => Ahead(d)'
    <3> SUFFICES ASSUME NEW d \in heap.blocks, Ahead(d)
                 PROVE  d \in todo' \/ (d.heap = heap_index /\ \E k \in 2..Len(stages') : stages'[k] = d.kind)
                        \/ d.heap > heap_index
      BY <1>1 DEF Ahead
    <3>1. CASE d.heap > heap_index
      BY <3>1
    <3>2. ASSUME d.heap = heap_index, NEW k \in 2..Len(stages), stages[k] = d.kind
          PROVE  d \in todo' \/ (d.heap = heap_index /\ \E l \in 2..Len(stages') : stages'[l] = d.kind)
      <4>1. CASE k = 2
        BY <1>1, <1>3, <3>2, <4>1 DEF BlocksOf
      <4>2. CASE k # 2
        <5>1. k - 1 \in 2..Len(stages') /\ stages'[k - 1] = d.kind
          BY <1>3, <3>2, <4>2
        <5> QED
          BY <3>2, <5>1
      <4> QED
        BY <4>1, <4>2
    <3> QED
      BY <1>1, <3>1, <3>2 DEF Ahead
  <2> QED
    BY <1>1, <2>1 DEF WalkInv, Counted, Considered, SubsegmentsOf, EntryOf, MatchCrtEntry, vars
<1>5. SubsegmentsKnown'
  <2>1. stages'[1] = "nt_heap_segment_entry" => lfh_data' = SubsegmentsOf(heap, heap_index)
    <3> SUFFICES ASSUME stages'[1] = "nt_heap_segment_entry" PROVE lfh_data' = SubsegmentsOf(heap, heap_index)
      OBVIOUS
    <3>1. 1 \in 1..Len(stages') /\ 2 \in 2..Len(stages) /\ stages[2] = "nt_heap_segment_entry"
      BY <1>1, <1>3
    <3>2. stages[1] = "nt_heap_lfh_entry"
      BY <3>1 DEF WalkInv, SubsegmentsKnown
    <3> QED
      BY <1>1, <1>3, <3>2
  <2>2. ASSUME NEW k \in 2..Len(stages'), stages'[k] = "nt_heap_segment_entry"
        PROVE  stages'[k - 1] = "nt_heap_lfh_entry"
    <3>1. k + 1 \in 2..Len(stages) /\ stages[k + 1] = "nt_heap_segment_entry"
          /\ stages'[k - 1] = stages[k] /\ (k + 1) - 1 = k
      BY <1>3, <2>2
    <3> QED
      BY <3>1 DEF WalkInv, SubsegmentsKnown
  <2>3. SubsegmentsOf(heap, heap_index)' = SubsegmentsOf(heap, heap_index)
    BY <1>1 DEF SubsegmentsOf
  <2> QED
    BY <2>1, <2>2, <2>3 DEF SubsegmentsKnown
<1>6. RangesFirst'
  <2>1. heap_index # 0
    BY <1>1 DEF WalkInv, RangesFirst
  <2>2. \A k \in 1..Len(stages') : stages'[k] # "memory_range"
    <3>1. heap_index > 0
      BY <2>1, TypesAssumption DEF WalkInv, WalkTypes, WalkTypeOK
    <3> QED
      BY <1>3, <3>1 DEF WalkInv, RangesFirst
  <2> QED
    BY <1>1, <2>1, <2>2 DEF RangesFirst
<1>7. RangesGiveWay' /\ dump' = Reported(heap)'
  BY <1>1 DEF WalkInv, RangesGiveWay, vars, Reported, EntryOf, MatchCrtEntry, Considered, SubsegmentsOf
<1> QED
  BY <1>2, <1>4, <1>5, <1>6, <1>7 DEF WalkInv

(* How the stages of a heap begin and follow each other.                   *)
LEMMA StagesOrder ==
    ASSUME NEW type \in {"nt_heap", "segment_heap", "dph_heap"}
    PROVE  /\ Head(StagesOf(type)) = StagesOf(type)[1]
           /\ StagesOf(type)[1] # "nt_heap_segment_entry"
           /\ \A k \in 2..Len(StagesOf(type)) :
                 StagesOf(type)[k] = "nt_heap_segment_entry" => StagesOf(type)[k - 1] = "nt_heap_lfh_entry"
           /\ \A k \in 1..Len(StagesOf(type)) : StagesOf(type)[k] # "memory_range"
<1>1. CASE type = "nt_heap"
  BY <1>1 DEF StagesOf
<1>2. CASE type = "segment_heap"
  BY <1>2 DEF StagesOf
<1>3. CASE type = "dph_heap"
  BY <1>3 DEF StagesOf
<1> QED
  BY <1>1, <1>2, <1>3

(* A heap begins with all of its blocks ahead.                             *)
LEMMA NextHeapWalkInv ==
    ASSUME WalkInv, NextHeap
    PROVE  WalkInv'
<1>1. /\ UNCHANGED <<vars, heap>>
      /\ todo = {} /\ Len(stages) = 1 /\ heap_index < Len(heap.types)
      /\ heap_index' = heap_index + 1
      /\ stages' = StagesOf(heap.types[heap_index'])
      /\ todo' = BlocksOf(Head(stages'), heap_index')
  BY DEF NextHeap
<1>2. WalkTypes' /\ IInv'
  BY WalkStep, NextWalkTypes, NextIInv DEF NextWalk, WalkInv
<1>3. /\ heap \in Heaps /\ heap_index \in Nat /\ Len(heap.types) \in Nat
      /\ heap_index' \in 1..Len(heap.types)
      /\ heap.types[heap_index'] \in {"nt_heap", "segment_heap", "dph_heap"}
  BY <1>1, TypesAssumption DEF WalkInv, WalkTypes, WalkTypeOK
<1>4. /\ Len(stages') \in Nat
      /\ Head(stages') = stages'[1]
      /\ stages'[1] # "nt_heap_segment_entry"
      /\ \A k \in 2..Len(stages') :
            stages'[k] = "nt_heap_segment_entry" => stages'[k - 1] = "nt_heap_lfh_entry"
      /\ \A k \in 1..Len(stages') : stages'[k] # "memory_range"
  <2> DEFINE type == heap.types[heap_index']
  <2>1. type \in {"nt_heap", "segment_heap", "dph_heap"} /\ stages' = StagesOf(type)
    BY <1>1, <1>3
  <2> HIDE DEF type
  <2>2. Len(StagesOf(type)) \in Nat
    BY <2>1, StagesAreFew
  <2>3. /\ Head(StagesOf(type)) = StagesOf(type)[1]
        /\ StagesOf(type)[1] # "nt_heap_segment_entry"
        /\ \A k \in 2..Len(StagesOf(type)) :
              StagesOf(type)[k] = "nt_heap_segment_entry" => StagesOf(type)[k - 1] = "nt_heap_lfh_entry"
        /\ \A k \in 1..Len(StagesOf(type)) : StagesOf(type)[k] # "memory_range"
    BY <2>1, StagesOrder
  <2> QED
    BY <2>1, <2>2, <2>3
<1>5. Counted'
  <2>1. \A d \in heap.blocks : Ahead(d) => Ahead(d)'
    <3> SUFFICES ASSUME NEW d \in heap.blocks, Ahead(d)
                 PROVE  d \in todo' \/ (d.heap = heap_index' /\ \E k \in 2..Len(stages') : stages'[k] = d.kind)
                        \/ d.heap > heap_index'
      BY DEF Ahead
    <3>1. d.heap > heap_index
      BY <1>1 DEF Ahead
    <3>2. /\ d.heap \in Nat
          /\ d.heap # 0 => \E k \in 1..Len(StagesOf(heap.types[d.heap])) : StagesOf(heap.types[d.heap])[k] = d.kind
      BY <1>3, BlocksAssumption
    <3>3. CASE d.heap > heap_index'
      BY <3>3
    <3>4. CASE d.heap = heap_index'
      <4>1. PICK k \in 1..Len(stages') : stages'[k] = d.kind
        BY <1>1, <1>3, <3>2, <3>4
      <4>2. CASE k = 1
        BY <1>1, <1>4, <3>4, <4>1, <4>2 DEF BlocksOf
      <4>3. CASE k # 1
        <5>1. k \in 2..Len(stages')
          BY <1>4, <4>3
        <5> QED
          BY <3>4, <4>1, <5>1
      <4> QED
        BY <4>2, <4>3
    <3> QED
      BY <1>1, <1>3, <3>1, <3>2, <3>3, <3>4
  <2> QED
    BY <1>1, <2>1 DEF WalkInv, Counted, Considered, SubsegmentsOf, EntryOf, MatchCrtEntry, vars
<1>6. SubsegmentsKnown'
  BY <1>4 DEF SubsegmentsKnown
<1>7. RangesFirst'
  BY <1>1, <1>3, <1>4 DEF RangesFirst
<1>8. RangesGiveWay' /\ dump' = Reported(heap)'
  BY <1>1 DEF WalkInv, RangesGiveWay, vars, Reported, EntryOf, MatchCrtEntry, Considered, SubsegmentsOf
<1> QED
  BY <1>2, <1>5, <1>6, <1>7, <1>8 DEF WalkInv

LEMMA NextWalkInv == WalkInv /\ [NextWalk]_allVars => WalkInv'
<1> SUFFICES ASSUME WalkInv, [NextWalk]_allVars PROVE WalkInv'
  OBVIOUS
<1>1. CASE UNCHANGED allVars
  <2>1. /\ UNCHANGED <<heap, heap_index, stages, todo, lfh_data>> /\ UNCHANGED <<dump, added, entries, failed>>
    BY <1>1 DEF allVars, walk, vars
  <2>2. WalkTypes' /\ IInv'
    BY WalkStep, NextWalkTypes, NextIInv DEF WalkInv
  <2>3. Counted'
    BY <2>1 DEF WalkInv, Counted, Ahead, Considered, SubsegmentsOf, EntryOf, MatchCrtEntry
  <2>4. SubsegmentsKnown' /\ RangesFirst' /\ RangesGiveWay'
    BY <2>1 DEF WalkInv, SubsegmentsKnown, SubsegmentsOf, RangesFirst, RangesGiveWay
  <2>5. dump' = Reported(heap)'
    BY <2>1 DEF WalkInv, Reported, Considered, SubsegmentsOf, EntryOf, MatchCrtEntry
  <2> QED
    BY <2>2, <2>3, <2>4, <2>5 DEF WalkInv
<1>2. CASE Finished
  BY <1>1, <1>2 DEF Finished
<1> QED
  BY <1>1, <1>2, VisitWalkInv, NextStageWalkInv, NextHeapWalkInv DEF NextWalk

(* The invariant of the walk over all heaps, in any number and of any      *)
(* type, whatever order the blocks of a stage are in.                      *)
THEOREM WalkInvariance == WalkSpec => []WalkInv
BY InitWalkInv, NextWalkInv, PTL DEF WalkSpec

(* all_entries is an order of calls of add_heap_entry: none is made with   *)
(* what the heaps of the dump do not report.                               *)
LEMMA WalkImplementsMap == WalkSpec => Spec
<1>1. InitWalk => Init
  BY HeapsAssumption DEF InitWalk, Init
<1> QED
  BY <1>1, WalkInvariance, WalkStep, PTL DEF WalkSpec, Spec

(* all_entries never throws, and the map it returns holds the innermost    *)
(* ranges of what the heaps reported, none overlapping another.            *)
THEOREM WalkIsSafe == WalkSpec => []EntriesRight
BY WalkImplementsMap, EntriesStayApart, InnermostEntries, AddNeverFails, PTL
   DEF EntriesRight

LEMMA DoneIsAll ==
    ASSUME WalkInv, Done
    PROVE  /\ added = Reported(heap)
           /\ heap \in Heaps /\ IInv /\ RangesGiveWay
           /\ \A b \in heap.blocks :
                 Considered(b, SubsegmentsOf(heap, b.heap)) => EntryOf(heap, b) \subseteq added
<1>1. \A b \in heap.blocks : ~Ahead(b)
  <2> SUFFICES ASSUME NEW b \in heap.blocks, Ahead(b) PROVE FALSE
    OBVIOUS
  <2>1. b.heap > Len(heap.types) /\ Len(heap.types) \in Nat
    BY TypesAssumption DEF Ahead, Done, WalkInv, WalkTypes, WalkTypeOK
  <2> QED
    BY <2>1, BlocksAssumption DEF WalkInv, WalkTypes, WalkTypeOK
<1>2. \A b \in heap.blocks :
          Considered(b, SubsegmentsOf(heap, b.heap)) => EntryOf(heap, b) \subseteq added
  BY <1>1 DEF WalkInv, Counted
<1>3. added \subseteq Reported(heap)
  BY DEF WalkInv, IInv, TypeOK
<1>4. Reported(heap) \subseteq added
  BY <1>2 DEF Reported
<1> QED
  BY <1>2, <1>3, <1>4 DEF WalkInv, WalkTypes, WalkTypeOK

(* all_entries loses nothing between the stages and heaps and takes        *)
(* nothing for an allocation that is none: add_heap_entry is called with   *)
(* what the heaps report only, and at the end it was with all of it.       *)
THEOREM ReportsStayExact == WalkSpec => []ReportedExactly
<1>1. WalkInv => ReportedExactly
  BY DoneIsAll DEF ReportedExactly, WalkInv, IInv, TypeOK
<1> QED
  BY <1>1, WalkInvariance, PTL

-------------------------------------------------------------------------------
(***************************************************************************)
(* How the CRT's list and the blocks meet.  The two lists look a block's   *)
(* CRT entry up by different tests; by CrtAssumption both find the one CRT *)
(* block that lies in the block, and nothing else.                         *)
(***************************************************************************)
LEMMA BlockFacts ==
    ASSUME NEW h \in Heaps, NEW b \in h.blocks
    PROVE  /\ Block(b) /\ Block(b.raw)
           /\ Contains(b.raw, b) /\ LastAddress(b) <= LastAddress(b.raw)
BY BlocksAssumption DEF Block

LEMMA MatchInside ==
    ASSUME NEW h \in Heaps, NEW b \in h.blocks, NEW c \in MatchCrtEntry(h, b)
    PROVE  c \in h.crt /\ Contains(b, c)
<1>1. c \in LowerBound(h.crt, b.first) /\ Match(c, b) \in {"block_match", "block_contains"}
  BY DEF MatchCrtEntry
<1>2. c \in h.crt
  BY <1>1 DEF LowerBound
<1>3. Block(c) /\ Block(b)
  BY <1>2, CrtBlocks, BlockFacts
<1> QED
  BY <1>1, <1>2, <1>3 DEF Match, Contains, End, Block

(* A CRT block in a block of a heap is the one that the block matches.     *)
LEMMA OwnerMatches ==
    ASSUME NEW h \in Heaps, NEW b \in h.blocks, HeapBlock(h, b),
           NEW c \in h.crt, Contains(b, c)
    PROVE  MatchCrtEntry(h, b) = {c}
<1>1. /\ Block(b) /\ Block(b.raw) /\ Block(c)
      /\ Contains(b.raw, b)
      /\ c.size > 0
      /\ \A d \in h.crt : Block(d)
  <2>1. Block(c.user) /\ c.first < c.user.first /\ End(c.user) < End(c) /\ Block(c)
    BY CrtBlocks
  <2>2. c.size > 0
    BY <2>1 DEF End, Block
  <2> QED
    BY <2>2, CrtBlocks, BlockFacts
<1>2. LastAddress(c) \in Nat /\ LastAddress(c) >= b.first /\ LastAddress(c) <= LastAddress(b.raw)
  BY <1>1, SMT DEF Block, LastAddress, Contains, End
<1>3. PICK d \in h.crt : d \in LowerBound(h.crt, b.first) /\ LastAddress(d) <= LastAddress(c)
  <2>1. b.first \in Nat
    BY <1>1 DEF Block
  <2> QED
    BY <1>1, <1>2, <2>1, LowerBoundExists
<1>4. d = c
  <2> SUFFICES ASSUME d # c PROVE FALSE
    OBVIOUS
  <2>1. Apart(b.raw, d)
    BY CrtAssumption
  <2>2. /\ LastAddress(d) \in Nat /\ d.first <= LastAddress(d)
        /\ LastAddress(d) >= b.first /\ b.first >= b.raw.first
        /\ LastAddress(b.raw) \in Nat
    BY <1>1, <1>3, CrtBlocks, LastAddressNat DEF LowerBound, Contains
  <2> QED
    BY <1>1, <1>2, <1>3, <2>1, <2>2 DEF Apart, Block
<1>5. Match(c, b) \in {"block_match", "block_contains"}
  BY DEF Match
<1>6. c \in MatchCrtEntry(h, b)
  BY <1>3, <1>4, <1>5 DEF MatchCrtEntry, HeapBlock
<1>7. \A x \in MatchCrtEntry(h, b) : x = c
  BY <1>3, <1>4, LowerBoundOne DEF MatchCrtEntry
<1> QED
  BY <1>6, <1>7

(* all_free_entries finds the same block.                                  *)
LEMMA FreedInside ==
    ASSUME NEW h \in Heaps, NEW b \in h.blocks, NEW c \in h.crt
    PROVE  ContainsAddress(b.raw, c.user.first) <=> Contains(b, c)
<1>1. /\ Block(b) /\ Block(b.raw) /\ Block(c) /\ Block(c.user)
      /\ Contains(b.raw, b)
      /\ c.first < c.user.first /\ End(c.user) < End(c)
  BY CrtBlocks, BlockFacts
<1>2. ASSUME Contains(b, c) PROVE ContainsAddress(b.raw, c.user.first)
  BY <1>1, <1>2 DEF Block, Contains, ContainsAddress, End
<1>3. ASSUME ContainsAddress(b.raw, c.user.first) PROVE ~Apart(b.raw, c)
  BY <1>1, <1>3, SMT DEF Block, ContainsAddress, End, Apart, LastAddress
<1>4. Contains(b, c) \/ Apart(b.raw, c)
  BY CrtAssumption
<1> QED
  BY <1>2, <1>3, <1>4

(* Every allocated block is in exactly one of the two lists.               *)
THEOREM LiveOrFree == WalkSpec => []LiveXorFree
<1>1. ASSUME WalkInv, Done, NEW b \in heap.blocks, Accountable(b)
      PROVE  (EntryOf(heap, b) \intersect added # {}) # ListedFree(heap, b)
  <2>1. /\ b.kind \notin {"memory_range", "segment_large_entry"} /\ b.state = "allocated"
        /\ ~HoldsSubsegment(b, SubsegmentsOf(heap, b.heap))
    BY <1>1 DEF Accountable
  <2>2. HeapBlock(heap, b) /\ Considered(b, SubsegmentsOf(heap, b.heap))
    BY <2>1 DEF HeapBlock, Considered
  <2>3. EntryOf(heap, b) \subseteq added /\ heap \in Heaps
    BY <1>1, <2>2, DoneIsAll
  <2>4. ListedFree(heap, b) <=> FreedCrt(heap, b) # {}
    BY <2>1 DEF ListedFree
  <2>5. \A c \in heap.crt : ContainsAddress(b.raw, c.user.first) <=> Contains(b, c)
    BY <2>3, FreedInside
  <2>6. FreedCrt(heap, b) = {c \in heap.crt : ~c.block_use /\ Contains(b, c)}
    BY <2>5 DEF FreedCrt
  <2>7. ASSUME NEW c \in heap.crt, Contains(b, c)
        PROVE  EntryOf(heap, b) # {} <=> FreedCrt(heap, b) = {}
    <3>1. MatchCrtEntry(heap, b) = {c}
      BY <2>2, <2>3, <2>7, OwnerMatches
    <3>2. \A d \in heap.crt : Contains(b, d) => d = c
      BY <2>2, <2>3, <2>7, CrtAssumption
    <3>3. CASE c.block_use
      <4>1. CrtEntry(b, c) \in EntryOf(heap, b)
        BY <3>1, <3>3 DEF EntryOf
      <4>2. FreedCrt(heap, b) = {}
        BY <2>6, <3>2, <3>3
      <4> QED
        BY <4>1, <4>2
    <3>4. CASE ~c.block_use
      <4>1. EntryOf(heap, b) = {}
        BY <3>1, <3>4 DEF EntryOf
      <4>2. c \in FreedCrt(heap, b)
        BY <2>6, <2>7, <3>4
      <4> QED
        BY <4>1, <4>2
    <3> QED
      BY <3>3, <3>4
  <2>8. ASSUME ~\E c \in heap.crt : Contains(b, c)
        PROVE  EntryOf(heap, b) # {} <=> FreedCrt(heap, b) = {}
    <3>1. MatchCrtEntry(heap, b) = {}
      BY <2>3, <2>8, MatchInside
    <3>2. RawEntry(b) \in EntryOf(heap, b)
      BY <3>1 DEF EntryOf
    <3> QED
      BY <2>6, <2>8, <3>2
  <2>9. EntryOf(heap, b) # {} <=> FreedCrt(heap, b) = {}
    BY <2>7, <2>8
  <2>10. EntryOf(heap, b) \intersect added = EntryOf(heap, b)
    BY <2>3
  <2> QED
    BY <2>4, <2>9, <2>10
<1>2. WalkInv => LiveXorFree
  BY <1>1 DEF LiveXorFree
<1> QED
  BY <1>2, WalkInvariance, PTL

(* What lies in an entry lies in the block that the entry is for.          *)
LEMMA EntryInBlock ==
    ASSUME NEW h \in Heaps, NEW b \in h.blocks, NEW e \in EntryOf(h, b)
    PROVE  Block(e) /\ Contains(b, e)
<1>1. CASE e = RawEntry(b)
  BY <1>1, BlockFacts DEF RawEntry, Contains, End, Block
<1>2. ASSUME NEW c \in MatchCrtEntry(h, b), e = CrtEntry(b, c)
      PROVE  Block(e) /\ Contains(b, e)
  <2>1. c \in h.crt /\ Contains(b, c)
    BY MatchInside
  <2>2. Block(c) /\ Block(c.user) /\ Block(b) /\ c.first < c.user.first /\ End(c.user) < End(c)
    BY <2>1, CrtBlocks, BlockFacts
  <2>3. e.first = c.user.first /\ e.size = c.user.size
    BY <1>2 DEF CrtEntry
  <2> QED
    BY <2>1, <2>2, <2>3 DEF Contains, End, Block
<1> QED
  BY <1>1, <1>2 DEF EntryOf

(* An allocation of a heap is in the list, or is there with what has been  *)
(* made in it; the memory range it is in does not stand for it.            *)
THEOREM AllocationsShown == WalkSpec => []HeapBlocksShown
<1>1. ASSUME WalkInv, Done, NEW e \in added, e.kind # "memory_range"
      PROVE  \E n \in entries : n.kind # "memory_range" /\ Contains(e, n)
  <2>1. added = Reported(heap) /\ heap \in Heaps /\ IInv /\ RangesGiveWay
    BY <1>1, DoneIsAll
  <2>2. PICK n \in entries : Contains(e, n)
    BY <2>1 DEF IInv, Covered
  <2>3. n.kind # "memory_range"
    <3> SUFFICES ASSUME n.kind = "memory_range" PROVE FALSE
      OBVIOUS
    <3>1. n \in Reported(heap) /\ e \in Reported(heap)
      BY <2>1 DEF IInv, TypeOK
    <3>2. PICK r \in heap.blocks : n \in EntryOf(heap, r)
      BY <3>1 DEF Reported
    <3>3. PICK b \in heap.blocks : e \in EntryOf(heap, b)
      BY <3>1 DEF Reported
    <3>4. r.kind = "memory_range" /\ b.kind # "memory_range"
      BY <1>1, <3>2, <3>3, EntryOfKind
    <3>5. n = RawEntry(r)
      BY <3>2, <3>4 DEF EntryOf, MatchCrtEntry
    <3>6. Block(r) /\ Block(b) /\ Block(e) /\ Contains(b, e) /\ n.first = r.first /\ n.size = r.size
      BY <2>1, <3>3, <3>5, BlockFacts, EntryInBlock DEF RawEntry
    <3>7. Contains(b, r)
      BY <2>2, <3>6 DEF Contains, End, Block
    <3>8. Contains(r, b)
      BY <2>1, <3>4, <3>7, RangesAssumption
    <3>9. Contains(n, e)
      BY <3>6, <3>8 DEF Contains, End, Block
    <3> QED
      BY <1>1, <2>1, <3>9 DEF RangesGiveWay
  <2> QED
    BY <2>2, <2>3
<1>2. WalkInv => HeapBlocksShown
  BY <1>1 DEF HeapBlocksShown
<1> QED
  BY <1>2, WalkInvariance, PTL

(* The user data of a CRT block has nothing but itself inside it: no block *)
(* of a heap, and no other block of the CRT's.                             *)
LEMMA NothingInUserData ==
    ASSUME NEW h \in Heaps, NEW c \in h.crt, NEW b \in h.blocks,
           NEW e \in EntryOf(h, b), Contains(c.user, e)
    PROVE  Contains(e, c.user)
<1>1. /\ Block(c) /\ Block(c.user) /\ Block(b) /\ Block(b.raw)
      /\ c.first < c.user.first /\ End(c.user) < End(c)
      /\ Contains(b.raw, b) /\ LastAddress(b) <= LastAddress(b.raw)
  BY CrtBlocks, BlockFacts
<1>2. CASE e = RawEntry(b)
  <2>1. e.first = b.first /\ e.size = b.size
    BY <1>2 DEF RawEntry
  <2>2. Contains(c.user, b)
    BY <2>1 DEF Contains, End
  <2>3. ~Contains(b, c)
    BY <1>1, <2>2 DEF Contains, End, Block
  <2>4. ~Apart(b.raw, c)
    <3>1. /\ b.first >= c.first /\ b.first < End(c) /\ b.raw.first <= b.first
          /\ b.first <= LastAddress(b.raw)
      <4>1. b.first >= c.first /\ b.first < End(c) /\ b.raw.first <= b.first
        BY <1>1, <2>2 DEF Contains, End, Block
      <4>2. LastAddress(b) \in Nat /\ LastAddress(b) >= b.first /\ LastAddress(b.raw) \in Nat
        BY <1>1, LastAddressNat
      <4> QED
        BY <1>1, <4>1, <4>2 DEF Block
    <3>2. b.first <= LastAddress(c) /\ LastAddress(c) \in Nat /\ LastAddress(b.raw) \in Nat
      BY <1>1, <3>1, LastAddressNat, SMT DEF LastAddress, End, Block
    <3> QED
      BY <1>1, <3>1, <3>2 DEF Apart, Block
  <2> QED
    BY <2>3, <2>4, CrtAssumption
<1>3. ASSUME NEW d \in MatchCrtEntry(h, b), e = CrtEntry(b, d)
      PROVE  Contains(e, c.user)
  <2>1. d \in h.crt
    BY MatchInside
  <2>2. e.first = d.user.first /\ e.size = d.user.size
    BY <1>3 DEF CrtEntry
  <2>3. d = c
    <3> SUFFICES ASSUME d # c PROVE FALSE
      OBVIOUS
    <3>1. Apart(c, d)
      BY <2>1, CrtAssumption
    <3>2. /\ Block(d) /\ Block(d.user) /\ d.first < d.user.first /\ End(d.user) < End(d)
          /\ LastAddress(d) \in Nat /\ LastAddress(d.user) <= LastAddress(d)
          /\ LastAddress(c) \in Nat /\ LastAddress(c.user) <= LastAddress(c)
      BY <2>1, CrtBlocks
    <3>3. d.user.first >= c.user.first /\ End(d.user) <= End(c.user)
      BY <2>2 DEF Contains, End
    <3>4. d.user.first <= LastAddress(d) /\ d.user.first <= LastAddress(c)
      BY <1>1, <3>2, <3>3, SMT DEF LastAddress, End, Block
    <3> QED
      BY <1>1, <3>1, <3>2, <3>3, <3>4 DEF Apart, Block
  <2> QED
    BY <1>1, <2>2, <2>3 DEF Contains, End, Block
<1> QED
  BY <1>2, <1>3 DEF EntryOf

LEMMA UsedFound ==
    ASSUME WalkInv, Done, NEW c \in heap.crt, c.block_use
    PROVE  Found(entries, c)
<1>1. added = Reported(heap) /\ heap \in Heaps /\ IInv
  BY DoneIsAll
<1>2. PICK b \in heap.blocks : HeapBlock(heap, b) /\ Contains(b, c)
  BY <1>1, CrtAssumption
<1>3. CrtEntry(b, c) \in EntryOf(heap, b)
  BY <1>1, <1>2, OwnerMatches DEF EntryOf
<1>4. CrtEntry(b, c) \in added
  BY <1>2, <1>3, DoneIsAll DEF HeapBlock
<1>5. PICK n \in entries : Contains(CrtEntry(b, c), n)
  BY <1>1, <1>4 DEF IInv, Covered
<1>6. PICK d \in heap.blocks : n \in EntryOf(heap, d)
  <2>1. n \in Reported(heap)
    BY <1>1 DEF IInv, TypeOK
  <2> QED
    BY <2>1 DEF Reported
<1>7. Contains(c.user, n) /\ Contains(n, c.user)
  <2>1. Contains(c.user, n)
    BY <1>5 DEF CrtEntry, Contains, End
  <2> QED
    BY <1>1, <1>6, <2>1, NothingInUserData
<1>8. Block(n) /\ Block(c.user)
  BY <1>1, <1>6, CrtBlocks, EntryInBlock
<1>9. n.first = c.user.first /\ n.size = c.user.size
  BY <1>7, <1>8 DEF Contains, End, Block
<1>10. LowerBound(entries, c.user.first) = {n}
  <2>1. \A e \in entries : Block(e)
    BY <1>1, DumpsAssumption DEF IInv, TypeOK, Block
  <2>2. \A x, y \in entries : x = y \/ Apart(x, y)
    BY <1>1 DEF IInv, EntriesApart
  <2>3. LastAddress(c.user) <= LastAddress(n)
    BY <1>8, <1>9, SMT DEF LastAddress, Block
  <2> QED
    BY <1>7, <1>8, <2>1, <2>2, <2>3, ContainerIsLowerBound
<1>11. Match(c.user, n) = "block_match"
  BY <1>9 DEF Match
<1> QED
  BY <1>10, <1>11 DEF Found

(* What is in the list of free entries at or below the user data of a CRT  *)
(* block contains it.                                                      *)
LEMMA FreeEntryAbove ==
    ASSUME NEW h \in Heaps, NEW c \in h.crt, NEW e \in FreeEntries(h),
           LastAddress(e) >= c.user.first, LastAddress(e) <= LastAddress(c.user)
    PROVE  Contains(e, c.user)
<1>1. /\ Block(c) /\ Block(c.user)
      /\ c.first < c.user.first /\ End(c.user) < End(c)
      /\ LastAddress(c) \in Nat /\ LastAddress(c.user) <= LastAddress(c) /\ LastAddress(c.user) \in Nat
  BY CrtBlocks, LastAddressNat
<1>2. PICK b \in h.blocks : e \in IF b.state = "free" THEN {RawEntry(b)} ELSE {CrtEntry(b, d) : d \in FreedCrt(h, b)}
  BY DEF FreeEntries
<1>3. /\ Block(b) /\ Block(b.raw)
      /\ Contains(b.raw, b) /\ LastAddress(b) <= LastAddress(b.raw)
      /\ LastAddress(b) \in Nat /\ LastAddress(b.raw) \in Nat /\ LastAddress(b) >= b.first
  BY BlockFacts, LastAddressNat
<1>4. CASE e = RawEntry(b)
  <2>1. e.first = b.first /\ e.size = b.size
    BY <1>4 DEF RawEntry
  <2>2. LastAddress(e) = LastAddress(b)
    BY <2>1 DEF LastAddress
  <2>3. ~Apart(b.raw, c)
    <3>1. b.raw.first <= b.first
      BY <1>3 DEF Contains
    <3> QED
      BY <1>1, <1>3, <2>2, <3>1 DEF Apart, Block
  <2>4. Contains(b, c)
    BY <2>3, CrtAssumption
  <2> QED
    BY <1>1, <1>3, <2>1, <2>4 DEF Contains, End, Block
<1>5. ASSUME NEW d \in FreedCrt(h, b), e = CrtEntry(b, d)
      PROVE  Contains(e, c.user)
  <2>1. d \in h.crt
    BY DEF FreedCrt
  <2>2. e.first = d.user.first /\ e.size = d.user.size
    BY <1>5 DEF CrtEntry
  <2>3. d = c
    <3> SUFFICES ASSUME d # c PROVE FALSE
      OBVIOUS
    <3>1. Apart(c, d)
      BY <2>1, CrtAssumption
    <3>2. /\ Block(d) /\ Block(d.user) /\ d.first < d.user.first
          /\ LastAddress(d) \in Nat /\ LastAddress(d.user) <= LastAddress(d)
          /\ LastAddress(d.user) \in Nat /\ LastAddress(d.user) >= d.user.first
      BY <2>1, CrtBlocks, LastAddressNat
    <3>3. LastAddress(e) = LastAddress(d.user)
      BY <2>2 DEF LastAddress
    <3> QED
      BY <1>1, <3>1, <3>2, <3>3 DEF Apart, Block
  <2> QED
    BY <1>1, <2>2, <2>3 DEF Contains, End, Block
<1> QED
  BY <1>2, <1>4, <1>5

LEMMA FreedFound ==
    ASSUME NEW h \in Heaps, NEW c \in h.crt, ~c.block_use,
           NEW b \in h.blocks, HeapBlock(h, b), Contains(b, c), b.kind # "segment_large_entry"
    PROVE  Found(FreeEntries(h), c)
<1>1. ListedFree(h, b) /\ b.state # "free" /\ c \in FreedCrt(h, b)
  <2>1. c \in FreedCrt(h, b)
    BY FreedInside DEF FreedCrt
  <2>2. b.state = "allocated"
    BY DEF HeapBlock, Considered
  <2> QED
    BY <2>1, <2>2 DEF HeapBlock, Considered, ListedFree
<1>2. CrtEntry(b, c) \in FreeEntries(h)
  BY <1>1 DEF FreeEntries
<1>3. Block(c.user) /\ LastAddress(CrtEntry(b, c)) = LastAddress(c.user) /\ LastAddress(c.user) >= c.user.first
      /\ c.user.first \in Nat
  <2>1. Block(c.user)
    BY CrtBlocks
  <2> QED
    BY <2>1, LastAddressNat DEF CrtEntry, LastAddress, Block
<1>4. \A e \in FreeEntries(h) : Block(e)
  <2> SUFFICES ASSUME NEW e \in FreeEntries(h) PROVE Block(e)
    OBVIOUS
  <2>1. PICK d \in h.blocks : e \in IF d.state = "free" THEN {RawEntry(d)} ELSE {CrtEntry(d, x) : x \in FreedCrt(h, d)}
    BY DEF FreeEntries
  <2>2. \A x \in FreedCrt(h, d) : Block(x.user)
    BY CrtBlocks DEF FreedCrt
  <2> QED
    BY <2>1, <2>2, BlockFacts DEF RawEntry, CrtEntry, Block
<1>5. PICK e \in FreeEntries(h) :
         e \in LowerBound(FreeEntries(h), c.user.first) /\ LastAddress(e) <= LastAddress(CrtEntry(b, c))
  BY <1>2, <1>3, <1>4, LowerBoundExists
<1>6. Contains(e, c.user)
  BY <1>3, <1>5, FreeEntryAbove DEF LowerBound
<1>7. Match(c.user, e) \in {"block_match", "block_contains"}
  BY <1>6 DEF Match
<1> QED
  BY <1>5, <1>7 DEF Found

(* Every block of the CRT's list is found by its address: what the CRT     *)
(* uses in the list of allocations, whichever heap and stage reports it,   *)
(* and what it has freed and still holds in the list of free entries.      *)
THEOREM EveryCrtBlockFound == WalkSpec => []CrtBlocksFound
<1>1. ASSUME WalkInv, Done, NEW c \in heap.crt, ~c.block_use,
             \A b \in Owners(c) : b.kind # "segment_large_entry"
      PROVE  Found(FreeEntries(heap), c)
  <2>1. heap \in Heaps
    BY <1>1, DoneIsAll
  <2>2. PICK b \in heap.blocks : HeapBlock(heap, b) /\ Contains(b, c)
    BY <2>1, CrtAssumption
  <2>3. Contains(b.raw, c)
    <3>1. Block(b) /\ Block(b.raw) /\ Block(c) /\ Contains(b.raw, b)
      BY <2>1, CrtBlocks, BlockFacts
    <3> QED
      BY <2>2, <3>1 DEF Contains, End, Block
  <2>4. b.kind # "segment_large_entry"
    BY <1>1, <2>2, <2>3 DEF Owners, HeapBlock
  <2> QED
    BY <1>1, <2>1, <2>2, <2>4, FreedFound
<1>2. WalkInv => CrtBlocksFound
  BY <1>1, UsedFound DEF CrtBlocksFound
<1> QED
  BY <1>2, WalkInvariance, PTL
===============================================================================
