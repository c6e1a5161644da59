----------------------------- MODULE ValidateDump -----------------------------
(***************************************************************************)
(* ValidateHeapEntries: the test program that reads two dumps of one run   *)
(* of AllocationSetupTests and judges by the allocations that program says *)
(* it made whether the lists of process_heaps are right.  The first dump   *)
(* is judged by itself, the second one with the first as its base.         *)
(*                                                                         *)
(* A dump that is judged has beside its lists                              *)
(*   claims    the result set: [pointer, size, allocated]                  *)
(*   bytes     for each pointer, the pieces its bytes are read in: do they *)
(*             begin with the fake offset, are the others the fill         *)
(*             character, are there more of them than the offset has       *)
(*   crt       the blocks of the debug CRT: [first, user, block_use,       *)
(*             request]; empty when the program does not use it            *)
(*   matches   what match_crt_entry reported while the heaps were walked   *)
(*   system    the addresses of allocations the graph marks as the         *)
(*             system's                                                    *)
(* and an entry has a range, check, that its allocation lies in.           *)
(***************************************************************************)
EXTENDS Statistics

VARIABLE test   \* validate_dump_file; None when the lists have other users

R == INSTANCE HeapRanges

ASSUME VerdictAssumption == None # "passed"

testVars == <<vars, statVars, test>>

Steps == <<"entries", "free_entries", "base", "entries", "free_entries", "judge">>
Collected == <<"all", "all_free", "base", "diff", "diff_free", "judge">>

(* The process_heaps the program looks at, a new one for each file.        *)
Judged == IF test.file = 1 THEN BaseDump ELSE Dump
Step == Steps[test.step]
Judging == test # None /\ test.verdict = None

RangeOf(e) == [first |-> e.block, size |-> e.size]
Key(e) == R!LastAddress(RangeOf(e))
Ranges(map) == {RangeOf(e) : e \in map}

(* make_allocation_map leaves out what has no address.                     *)
Taken(list, found) == {i \in DOMAIN found : list = "entries" => found[i].block # 0}

(* make_allocation_map, make_free_allocation_map: of entries with one last *)
(* address the first stays.                                                *)
MapOf(list, found) ==
    {found[i] : i \in {j \in Taken(list, found) :
                          \A k \in Taken(list, found) : k < j => Key(found[k]) # Key(found[j])}}

(* The dumps of a test program: no list has a byte of the process twice,   *)
(* and the bytes of an allocation are told piece by piece.                 *)
ASSUME TestDumpsAssumption ==
    \A c \in Contents : "claims" \in DOMAIN c[Dump] =>
       \A h \in Heaps :
          /\ \A list \in Lists : \A i, j \in DOMAIN c[h][list] :
                /\ c[h][list][i].block \in Nat /\ c[h][list][i].size \in Nat
                /\ i # j => R!Apart(RangeOf(c[h][list][i]), RangeOf(c[h][list][j]))
          /\ \A a \in c[h].claims :
                /\ a.pointer \in Nat /\ a.size \in Nat
                /\ c[h].bytes[a.pointer] \in Seq([offset : BOOLEAN, filled : BOOLEAN, long : BOOLEAN])
          /\ \A x \in c[h].crt : x.user.first \in Nat /\ x.user.size \in Nat

-------------------------------------------------------------------------------
UsesCrt == content[Judged].crt # {}

Held(map, a) ==
    {e \in map : a.pointer >= e.check.first /\ a.pointer + a.size <= e.check.first + e.check.size}

(* find_if in the difference of the dumps, then in all of the dump.        *)
Found(a) == IF Held(test.diff, a) # {} THEN Held(test.diff, a) ELSE Held(test.all, a)

(* find_if takes the first by last address.                                *)
FirstFound(a) == CHOOSE e \in Found(a) : \A f \in Found(a) : Key(e) <= Key(f)

Covers(e, range) == R!Match(range, RangeOf(e)) \in {"block_match", "block_contains"}

(* Slip for PieceAccepted: the offset is looked for although it is not to. *)
SlipPieceAccepted(p) == p.filled /\ (p.offset <=> p.long)

(* A piece of the stream that is longer than the fake offset must begin    *)
(* with it, each piece anew, unless the check is skipped; all other bytes  *)
(* must be the fill character.                                             *)
PieceAccepted(p) == p.filled /\ (p.offset <=> (p.long /\ ~test.skip_fake_offset_check))

BytesAccepted(a) ==
    \A i \in DOMAIN content[Judged].bytes[a.pointer] : PieceAccepted(content[Judged].bytes[a.pointer][i])

Excused(a) == ~UsesCrt /\ IsAddressFiltered(Judged, a.pointer, a.size)

NotFound(a) == a.allocated /\ (test.diff = {} \/ (Found(a) = {} /\ ~Excused(a)))

(* validate_allocations: an allocation the program has freed may be found  *)
(* or not; one it has not freed must be found, as large as it is, with a   *)
(* stack trace when one is expected, and with the bytes written into it.   *)
AllocationAccepted(a) ==
    a.allocated =>
       /\ ~NotFound(a)
       /\ Found(a) # {} =>
             LET e == FirstFound(a) IN
             /\ Covers(e, [first |-> a.pointer, size |-> a.size])
             /\ test.stacktrace => e.stack # <<>>
             /\ BytesAccepted(a)

(* it_closest is read although it may be the end of the map.               *)
ReadsEnd(a) ==
    NotFound(a) /\ test.diff # {} /\ R!LowerBound(Ranges(test.diff), a.pointer) = {}

(* validate_crt_entries: the blocks of the CRT that the base dump does not *)
(* have, by one lookup in the lists of their kind.                         *)
CrtEntries ==
    {c \in content[Judged].crt :
        base[Judged] # None =>
           ~\E d \in content[base[Judged]].crt : d.first = c.first /\ d.request = c.request}

InMap(map, c) ==
    \E r \in R!LowerBound(Ranges(map), c.user.first) : R!Match(c.user, r) \in {"block_match", "block_contains"}

CrtAccepted(c) ==
    IF c.block_use THEN InMap(test.diff, c) \/ InMap(test.all, c)
    ELSE InMap(test.diff_free, c) \/ InMap(test.all_free, c)

(* validate_allocation_graph_entries_are_not_marked_system: the graph has  *)
(* a node for each entry of the difference of the dumps.                   *)
GraphAccepts(a) ==
    a.allocated =>
       (\E e \in ToSet(cache[Judged]["entries"]) : e.block = a.pointer) /\ a.pointer \notin content[Judged].system

(* on_process_heap_match_crt_entry.                                        *)
MatchesAccepted(h) ==
    content[h].matches \intersect {"user_contains_block", "block_partially_contains"} = {}

(* make_allocation_map fails the file for an allocation without an address;*)
(* its first call goes over all of the list.                               *)
AddressesAccepted(h) == \A e \in ToSet(content[h]["entries"]) : e.block # 0

Successful ==
    /\ AddressesAccepted(Judged)
    /\ MatchesAccepted(Judged) /\ (base[Judged] # None => MatchesAccepted(base[Judged]))
    /\ \A a \in content[Judged].claims : AllocationAccepted(a) /\ GraphAccepts(a)
    /\ \A c \in CrtEntries : CrtAccepted(c)

-------------------------------------------------------------------------------
TestBegin ==
    /\ Judging /\ Step \in Lists
    /\ Begin(Judged, Step)
    /\ UNCHANGED <<statVars, test>>

TestResume ==
    /\ Judging
    /\ Resume
    /\ UNCHANGED <<statVars, test>>

Collect ==
    /\ Judging /\ loop # None /\ loop.done
    /\ test' = [test EXCEPT ![Collected[test.step]] = MapOf(Step, loop.shown), !.step = @ + 1]
    /\ loop' = None
    /\ UNCHANGED <<content, base, filters, cache, whole, statVars>>

(* make_base_heap: only the second file has a base.  When it cannot be     *)
(* opened any more the file counts as passed.                              *)
MakeBaseHeap ==
    /\ Judging /\ Step = "base"
    /\ \/ /\ test.file = 1
          /\ test' = [test EXCEPT !.step = @ + 1]
          /\ UNCHANGED vars
       \/ /\ test.file = 2
          /\ SetBaseDiffFilter
          /\ test' = [test EXCEPT !.step = @ + 1]
       \/ /\ test.file = 2
          /\ test' = [test EXCEPT !.verdict = "passed"]
          /\ UNCHANGED vars
    /\ UNCHANGED statVars

Judge ==
    /\ Judging /\ Step = "judge"
    /\ \E verdict \in IF \E a \in content[Judged].claims : ReadsEnd(a) THEN {"failed", "crashed"}
                      ELSE {IF Successful THEN "passed" ELSE "failed"} :
          test' = [test EXCEPT !.verdict = verdict]
    /\ UNCHANGED <<vars, statVars>>

(* The second file is opened if the first one passed.                      *)
OpenSecond ==
    /\ test # None /\ test.file = 1 /\ test.verdict = "passed"
    /\ test' = [test EXCEPT !.file = 2, !.step = 1, !.verdict = None]
    /\ filters' = [h \in Heaps |-> Empty]
    /\ cache' = [h \in Heaps |-> Empty]
    /\ whole' = [h \in Heaps |-> [list \in Lists |-> TRUE]]
    /\ UNCHANGED <<content, base, loop, statVars>>

(* main returns.                                                           *)
Exit ==
    /\ test # None /\ test.verdict # None
    /\ test.file = 2 \/ test.verdict # "passed"
    /\ UNCHANGED testVars

InitTest ==
    /\ InitStatistics
    /\ \/ "claims" \notin DOMAIN content[Dump] /\ test = None
       \/ /\ "claims" \in DOMAIN content[Dump]
          /\ test \in [file : {1}, step : {1}, stacktrace : BOOLEAN, skip_fake_offset_check : BOOLEAN,
                       all : {{}}, all_free : {{}}, diff : {{}}, diff_free : {{}}, verdict : {None}]

NextTest ==
    \/ test = None /\ NextStatistics /\ UNCHANGED test
    \/ TestBegin \/ TestResume \/ Collect \/ MakeBaseHeap \/ Judge \/ OpenSecond \/ Exit

TestSpec ==
    InitTest /\ [][NextTest]_testVars
             /\ WF_testVars(test = None /\ CacheStep /\ Resume /\ UNCHANGED test) /\ WF_testVars(TestResume)

-------------------------------------------------------------------------------
(* What the verdict is about, told from the dumps alone.                   *)
Claimed(h) == {a \in content[h].claims : a.allocated}
Listed(h, a) == {e \in ToSet(content[h]["entries"]) : e.block = a.pointer /\ e.size >= a.size}
Filled(h, a) == \A p \in ToSet(content[h].bytes[a.pointer]) : p.filled

(* A new allocation with the place and the size of one of the base dump,   *)
(* and no request number to tell them apart.                               *)
Reused(h, a) ==
    /\ h = Dump
    /\ \E e \in Listed(h, a), f \in ToSet(content[BaseDump]["entries"]) : Same(e, f)

(* An allocation no entry is found for, at the place and of the size of a  *)
(* block the base dump lists, used or free: when there is no CRT, nothing  *)
(* is asked of it but a node of the graph.                                 *)
Overlooked(h, a) ==
    /\ h = Dump /\ content[h].crt = {}
    /\ Held(ToSet(content[h]["entries"]), a) = {}
    /\ \E list \in Lists : \E f \in ToSet(content[BaseDump][list]) : f.block = a.pointer /\ f.size = a.size

(* A block of the CRT that the base dump has too: nothing is asked of it.  *)
Known(h, c) ==
    h = Dump /\ \E d \in content[BaseDump].crt : d.first = c.first /\ d.request = c.request

CrtList(c) == IF c.block_use THEN "entries" ELSE "free_entries"

(* The bytes of an allocation are as AllocationSetupTests writes them, in  *)
(* one piece: the program looks for the fake offset in every further piece *)
(* that is long enough to have one.                                        *)
Written(h, a) ==
    LET pieces == content[h].bytes[a.pointer] IN
    /\ Filled(h, a) /\ pieces[1].offset = (pieces[1].long /\ ~test.skip_fake_offset_check)
    /\ Len(pieces) = 1

(* The lists, the bytes and the graph are what the program made them.      *)
Faithful(h) ==
    /\ \A a \in Claimed(h) :
          /\ {e \in ToSet(content[h]["entries"]) : Held({e}, a) # {}} = Listed(h, a)
          /\ \E e \in Listed(h, a) : e.size = a.size /\ (test.stacktrace => e.stack # <<>>)
          /\ Written(h, a)
          /\ a.pointer \notin content[h].system
    /\ \A c \in content[h].crt : \E e \in ToSet(content[h][CrtList(c)]) : RangeOf(e) = c.user
    /\ AddressesAccepted(h)
    /\ content[h].matches \subseteq {"block_match", "block_contains", "block_no_match"}

(* A file that was looked at, and not let pass because its base was gone.  *)
Checked == test # None /\ test.verdict # None /\ Step = "judge"

(* The verdict can be relied on: a file passes only if every allocation    *)
(* the program still held is in the lists with its bytes, or overlooked    *)
(* because the base dump has a block of its place and size, every CRT      *)
(* block new to the dump is in the list of its kind, and no allocation is  *)
(* at address 0; and it does pass if nothing is amiss, unless an           *)
(* allocation took the place of one of the base dump that it cannot be     *)
(* told from.                                                              *)
VerdictRight ==
    Checked =>
      /\ test.verdict = "passed" =>
            /\ \A a \in Claimed(Judged) :
                  /\ Overlooked(Judged, a) \/ (Listed(Judged, a) # {} /\ Filled(Judged, a))
                  /\ ~Reused(Judged, a)
            /\ \A c \in {d \in content[Judged].crt : ~Known(Judged, d)} :
                  \E e \in ToSet(content[Judged][CrtList(c)]) : R!Contains(RangeOf(e), c.user)
            /\ 0 \notin {e.block : e \in ToSet(content[Judged]["entries"])}
      /\ (Faithful(Judged) /\ ~\E a \in Claimed(Judged) : Reused(Judged, a)) =>
            test.verdict = "passed"
===============================================================================
