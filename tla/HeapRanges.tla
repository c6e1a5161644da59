------------------------------ MODULE HeapRanges ------------------------------
(***************************************************************************)
(* The address-range arithmetic that the heap analysis of DbgHelpUtils is  *)
(* built on.  A block is a record with a first address and a size in       *)
(* bytes (user_address() and user_requested_size() in the source), and     *)
(* possibly more fields.  A size of zero is legal: malloc(0) and           *)
(* HeapAlloc(.., 0) return blocks whose requested size is zero.            *)
(***************************************************************************)
EXTENDS Naturals

End(b) == b.first + b.size

(* get_last_address: a zero-size block is given the one byte it starts at. *)
LastAddress(b) == b.first + (IF b.size = 0 THEN 1 ELSE b.size) - 1

(* process_heaps::does_entry_contain_entry.                                *)
Contains(c, b) == b.first >= c.first /\ End(b) <= End(c)

(* process_heaps::contains_address.                                        *)
ContainsAddress(b, address) == address >= b.first /\ address < End(b)

(***************************************************************************)
(* heap_match_utils::does_memory_match_to_range.  The five results are     *)
(* tried in this order; the first whose test holds is returned.            *)
(***************************************************************************)
MatchResult == {"block_match", "block_contains", "user_contains_block",
                "block_partially_contains", "block_no_match"}

Match(user, block) ==
    IF user.first = block.first /\ user.size = block.size
        THEN "block_match"
    ELSE IF Contains(block, user)
        THEN "block_contains"
    ELSE IF Contains(user, block)
        THEN "user_contains_block"
    ELSE IF user.first < End(block) /\ End(user) > block.first
        THEN "block_partially_contains"
    ELSE "block_no_match"

(* std::map::lower_bound on a map keyed by last address: the element with  *)
(* the smallest key that is not below address, as a set of zero or one     *)
(* elements (end() is the empty set).                                      *)
LowerBound(map, address) ==
    {b \in map : /\ LastAddress(b) >= address
                 /\ \A c \in map : LastAddress(c) >= address
                                      => LastAddress(b) <= LastAddress(c)}

(* process_heaps::is_lfh_subsegment_in_entry: b is the internal allocation *)
(* that a subsegment, one of those whose entries begin at starts, is       *)
(* carved from.                                                            *)
HoldsSubsegment(b, starts) ==
    b.internal /\ \E s \in starts : s > b.raw.first /\ s < b.raw.first + b.raw.size

(***************************************************************************)
(* How the blocks of one dump lie to each other.                           *)
(***************************************************************************)

(* No byte in common, a zero-size block counting as one byte.              *)
Apart(a, b) == LastAddress(a) < b.first \/ LastAddress(b) < a.first

(***************************************************************************)
(* An allocator only hands out memory it owns: blocks, the segments they   *)
(* are carved from and the regions these are committed in either nest or   *)
(* have nothing in common.  The second conjunct excludes one legal corner: *)
(* a zero-size block that starts exactly where another block ends is       *)
(* contained in it by the test of Contains, yet not by its last address.   *)
(***************************************************************************)
WellNested(blocks) ==
    \A a, b \in blocks :
        /\ Contains(a, b) \/ Contains(b, a) \/ Apart(a, b)
        /\ Contains(a, b) => LastAddress(b) <= LastAddress(a)
===============================================================================
