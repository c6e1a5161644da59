----------------------------- MODULE MemoryWalker -----------------------------
(* mini_dump_memory_walker and mini_dump_memory_stream: the memory of the      *)
(* process as a dump shows it.  A byte comes from the stack of the thread the  *)
(* walker was made for, from the memory lists of the dump or from the files of *)
(* the modules, which are loaded when a read first needs them.                 *)
(*                                                                             *)
(* Addresses are numbers of a fixed width: sums wrap around as they do in the  *)
(* code.  What a read delivers is not data but the places it was read from, in *)
(* the dump or in the file of a module, and BytesAreTrue compares them with    *)
(* what is stored there.                                                       *)
EXTENDS Naturals, Sequences, FiniteSetsExt

CONSTANTS Top,      \* the largest address, numeric_limits<uint64_t>::max()
          Dumps,    \* the dumps that may be opened, see DumpsAssumption
          Lengths,  \* the lengths clients ask for
          MaxCalls  \* bound on the calls of the clients

Address == 0 .. Top
Wrap(n) == n % (Top + 1)
Minus(m, n) == Wrap(m + Top + 1 - n)

(* A range of memory in the dump: size bytes from start on, at position at of  *)
(* its file.  The header of the file, where no range begins, takes no room.    *)
IsRange(r) == /\ r.start \in Address /\ r.size \in Address /\ r.at \in Nat
              /\ r.start + r.size <= Top
RangesApart(rs) ==
  \A i, j \in DOMAIN rs : i # j => \/ rs[i].start + rs[i].size <= rs[j].start
                                   \/ rs[j].start + rs[j].size <= rs[i].start
(* A module and the length of its file, which may be more or less than that of *)
(* its image and is 0 where the symbol engine finds no file.                   *)
IsModule(m) == /\ m.base \in Address \ {0} /\ m.size \in Address
               /\ m.length \in Address /\ m.valid \in BOOLEAN
               /\ m.base + m.size <= Top /\ m.base + m.length <= Top

ASSUME DumpsAssumption ==
  /\ Top \in Nat /\ MaxCalls \in Nat /\ Lengths \subseteq Address \ {0}
  /\ \A d \in Dumps :
       /\ d.length \in Nat
       /\ IsRange(d.stack)
       /\ \A l \in {d.list, d.list64} :
            /\ l.found \in BOOLEAN
            /\ \A i \in DOMAIN l.ranges : IsRange(l.ranges[i]) /\ l.ranges[i].size > 0
            /\ RangesApart(l.ranges)
       /\ \A ms \in {d.modules, d.unloaded} : \A i \in DOMAIN ms : IsModule(ms[i])
       /\ \A i, j \in DOMAIN d.modules : i # j => d.modules[i].base # d.modules[j].base

VARIABLES dump,     \* the dump that was opened; its file has dump.length bytes
          files,    \* loaded_pe_files_: [base, length] of the files loaded so far
          lasts,    \* loaded_module_range_: last address of a file |-> its base
          symbols,  \* bases of the modules whose symbols were asked for
          stream,   \* a mini_dump_memory_stream
          pc,       \* "idle", "reading" while a stream is read, "thrown"
          left,     \* what the last read of the stream has not delivered yet
          out,      \* where the bytes of the stream were read, from its start on
          answer,   \* what the last call without a stream returned
          culprit,  \* the address whose read threw
          calls     \* number of calls so far

vars == <<dump, files, lasts, symbols, stream, pc, left, out, answer, culprit, calls>>
loadVars == <<files, lasts, symbols>>
streamVars == <<stream, left, out>>

-----------------------------------------------------------------------------
(* range_units.h; range_union answers the length that is left, or None.  The   *)
(* Slips here and below are no part of the program: they are mistakes it might *)
(* have had, and each shows that a property would notice.                      *)
None == Top + 1
limit_range(start, length) == IF start > Top - length THEN Top - start ELSE length
validate_range(start, length) == start <= Top - length
range_contains(rs, rl, start, length) ==
  start >= rs /\ Wrap(start + length) <= Wrap(rs + rl)
range_union(rs, rl, start, length) ==
  IF ~range_contains(rs, rl, start, 1) THEN None
  ELSE IF Wrap(start + length) >= Wrap(rs + rl) THEN Minus(rs + rl, start)
  ELSE length

-----------------------------------------------------------------------------
(* A pointer is a position in the dump (0) or in the file of the module with   *)
(* that base.  A source answers with a pointer and the bytes behind it, with   *)
(* Null and what it leaves in the caller's variable for the size, or with      *)
(* Fails: it throws, at the address that many bytes on.                        *)
Null == [in |-> None, at |-> 0]
Fails == [in |-> None, at |-> 1]
Pointer(in, at) == [in |-> in, at |-> at]
Found(memory, size) == [memory |-> memory, size |-> size]

(* mini_dump::rva32 and rva64 throw for a range that does not end in the file. *)
(* The difference they compare with wraps around for a range longer than the   *)
(* whole file, which passes.                                                   *)
rva32(r) == r.size > dump.length \/ r.at + r.size <= dump.length

get_stack_memory(a, length) ==
  LET s == dump.stack
      n == range_union(s.start, s.size, a, length)
  IN  IF s.size = 0 \/ n = None THEN Found(Null, length)
      ELSE Found(Pointer(0, s.at + Minus(a, s.start)), n)

(* The first range, by address, that ends behind the address: upper_bound.     *)
upper_bound(ranges, a) ==
  LET behind == {i \in DOMAIN ranges : a < ranges[i].start + ranges[i].size}
  IN  {i \in behind : \A j \in behind : ranges[i].start <= ranges[j].start}

list_find_any(ranges, a, length) ==
  LET n == limit_range(a, length)
      hits == {i \in upper_bound(ranges, a) :
                 range_union(ranges[i].start, ranges[i].size, a, n) # None}
  IN  IF n = 0 \/ hits = {} THEN Found(Null, n)
      ELSE LET r == ranges[CHOOSE i \in hits : TRUE]
           IN  IF ~rva32(r) THEN Found(Fails, 0)
               ELSE Found(Pointer(0, r.at + a - r.start), range_union(r.start, r.size, a, n))

(* Slip for get_list_memory: the size that was asked for is taken for granted. *)
SlipUnchecked(list, a, size) ==
  Found(IF list.found THEN list_find_any(list.ranges, a, size).memory ELSE Null, size)
(* get_memory_range_for_address: a pointer into the first range, and the size  *)
(* of as many ranges as follow one another without a gap, up to the first byte *)
(* that none is found for.  A range that throws on the way leaves nothing of   *)
(* what was found before it.                                                   *)
Gaps(list, a, size) ==
  {n \in 0 .. size :
     n = size \/ list_find_any(list.ranges, Wrap(a + n), size - n).memory \in {Null, Fails}}
get_list_memory(list, a, size) ==
  LET n == Min(Gaps(list, a, size))
      behind == list_find_any(list.ranges, Wrap(a + n), size - n).memory
  IN  IF ~list.found THEN Found(Null, size)
      ELSE IF size = 0 THEN Found(Null, 0)
      ELSE IF n < size /\ behind = Fails THEN Found(Fails, n)
      ELSE Found(list_find_any(list.ranges, a, size).memory, n)

(* find_loaded_pe_file: the file whose last address is the next one from a on, *)
(* if it does not begin behind a.                                              *)
find_loaded_pe_file(fs, ls, a) ==
  LET behind == {l \in DOMAIN ls : a <= l}
  IN  IF behind = {} THEN {}
      ELSE {f \in fs : f.base = ls[Min(behind)] /\ f.base <= a}

get_memory_from_pe_file(fs, ls, a, length) ==
  LET n == IF length > 0 THEN limit_range(a, length) ELSE 0
      hits == {f \in find_loaded_pe_file(fs, ls, a) :
                 range_union(f.base, f.length, a, n) # None}
  IN  IF (length > 0 /\ n = 0) \/ hits = {} THEN Found(Null, length)
      ELSE LET f == CHOOSE g \in hits : TRUE
           IN  Found(Pointer(f.base, a - f.base), range_union(f.base, f.length, a, n))

-----------------------------------------------------------------------------
(* module_list_stream and unloaded_module_list_stream: the first module of the *)
(* list that is found for an address, as a set.                                *)
First(ms, hits) == {ms[i] : i \in {j \in hits : \A k \in hits : j <= k}}
find_module(a) ==
  First(dump.modules, {i \in DOMAIN dump.modules :
    LET m == dump.modules[i] IN a >= m.base /\ a < m.base + m.size})
find_unloaded_module(a) ==
  First(dump.unloaded, {i \in DOMAIN dump.unloaded :
    LET m == dump.unloaded[i] IN m.base >= a /\ a < m.base + m.size})

(* load_pe_file: what loading the file of the module with address a does.  The *)
(* maps keep what they have under a key.  An unloaded module's file is never   *)
(* loaded: load_unloaded_module wants its path to be empty and to exist.       *)
Bases(ms) == {m.base : m \in ms}
NoLoad == [files |-> files, lasts |-> lasts, symbols |-> symbols,
           loaded |-> FALSE, throws |-> FALSE, at |-> 0]
Throwing(a) == [NoLoad EXCEPT !.throws = TRUE, !.at = a]
load_pe_file(a) ==
  LET ms == find_module(a)
      on_disk == {m \in ms : m.length > 0}
      known == symbols \cup Bases(ms)
  IN  IF on_disk = {}
      THEN [NoLoad EXCEPT !.symbols = known \cup Bases(find_unloaded_module(a))]
      ELSE LET m == CHOOSE x \in on_disk : TRUE
               last == m.base + m.length - 1
           IN  IF find_loaded_pe_file(files, lasts, m.base) # {} \/ ~m.valid
               THEN [Throwing(a) EXCEPT !.symbols = known]
               ELSE [files |-> IF m.base \in Bases(files) THEN files
                               ELSE files \cup {[base |-> m.base, length |-> m.length]},
                     lasts |-> [l \in DOMAIN lasts \cup {last} |->
                                  IF l \in DOMAIN lasts THEN lasts[l] ELSE m.base],
                     symbols |-> known, loaded |-> TRUE, throws |-> FALSE, at |-> 0]

(* Slip for from_modules: the file is loaded without a look at those loaded.   *)
SlipLoadAlways(a, size, enable) ==
  LET load == IF enable THEN load_pe_file(a) ELSE NoLoad
  IN  [got |-> get_memory_from_pe_file(load.files, load.lasts, a, size), load |-> load]
(* The last source of every read: the files, and those it may load first.  The *)
(* answer comes with what loading did.                                         *)
from_modules(a, size, enable) ==
  LET direct == get_memory_from_pe_file(files, lasts, a, size)
      load == IF direct.memory = Null /\ enable THEN load_pe_file(a) ELSE NoLoad
  IN  [got |-> IF load.loaded THEN get_memory_from_pe_file(load.files, load.lasts, a, size)
               ELSE direct,
       load |-> load]

(* The answer of a source that is asked for address a and needs no loading.    *)
Direct(got, a) ==
  [got |-> got, load |-> IF got.memory = Fails THEN Throwing(Wrap(a + got.size)) ELSE NoLoad]

get_process_memory_range(a, size, enable) ==
  LET s == get_stack_memory(a, size)
      l == get_list_memory(dump.list, a, size)
      l64 == get_list_memory(dump.list64, a, size)
  IN  IF s.memory # Null THEN Direct(s, a)
      ELSE IF l.memory # Null THEN Direct(l, a)
      ELSE IF l64.memory # Null THEN Direct(l64, a)
      ELSE LET m == from_modules(a, size, enable)
           IN  IF m.got.memory = Null THEN [m EXCEPT !.got = Found(Null, size)] ELSE m

(* find_memory_range asks the same sources, but each for the size the one      *)
(* before has left in max_size.                                                *)
find_memory_range(a, size, enable) ==
  LET s == get_stack_memory(a, size)
      l == get_list_memory(dump.list, a, s.size)
      l64 == get_list_memory(dump.list64, a, l.size)
  IN  IF s.memory # Null THEN Direct(s, a)
      ELSE IF l.memory # Null THEN Direct(l, a)
      ELSE IF l64.memory # Null THEN Direct(l64, a)
      ELSE from_modules(a, l64.size, enable)

(* Slip for do_read_process_memory: the ranges are gathered, as for a stream,  *)
(* though their bytes are copied from one pointer on.                          *)
SlipReadGathered(a, size, enable) ==
  LET s == get_stack_memory(a, size)
      l == get_list_memory(dump.list, a, size)
      l64 == get_list_memory(dump.list64, a, size)
  IN  IF s.memory # Null THEN Direct(s, a)
      ELSE IF l.memory # Null THEN Direct(l, a)
      ELSE IF l64.memory # Null THEN Direct(l64, a)
      ELSE from_modules(a, size, enable)
(* do_read_process_memory takes what one range has. *)
do_read_process_memory(a, size, enable) ==
  LET s == get_stack_memory(a, size)
      l == list_find_any(dump.list.ranges, a, size)
      l64 == list_find_any(dump.list64.ranges, a, size)
  IN  IF s.memory # Null THEN Direct(s, a)
      ELSE IF dump.list.found /\ l.memory # Null THEN Direct(l, a)
      ELSE IF dump.list64.found /\ l64.memory # Null THEN Direct(l64, a)
      ELSE from_modules(a, size, enable)

-----------------------------------------------------------------------------
NoStream == [start |-> 0, current |-> 0, end |-> 0, memory |-> Null, end_memory |-> 0]
NoAnswer == [call |-> "none", address |-> 0, asked |-> 0, memory |-> Null, size |-> 0]

Init ==
  /\ dump \in Dumps
  /\ files = {} /\ lasts = <<>> /\ symbols = {}
  /\ stream = NoStream /\ left = 0 /\ out = <<>>
  /\ pc = "idle" /\ answer = NoAnswer /\ culprit = 0 /\ calls = 0

eof(s) == s.memory = Null \/ s.current = s.end
(* The range at hand is used up, the stream is not.                            *)
at_seam(s) == ~eof(s) /\ s.memory.at = s.end_memory

(* The caller takes up the answer of a source; an exception leaves all calls.  *)
Loading(load) ==
  /\ files' = load.files /\ lasts' = load.lasts /\ symbols' = load.symbols
  /\ culprit' = IF load.throws THEN load.at ELSE culprit

Call == pc = "idle" /\ calls < MaxCalls /\ calls' = calls + 1

(* get_process_memory_stream and the constructor of the stream *)
OpenStream(a, size) ==
  /\ Call
  /\ \E r \in {get_process_memory_range(a, size, TRUE)} :
         /\ Loading(r.load)
         /\ pc' = IF r.load.throws THEN "thrown" ELSE "idle"
         /\ stream' = IF r.load.throws THEN stream
                      ELSE [start |-> a, current |-> a, end |-> Wrap(a + size),
                            memory |-> r.got.memory,
                            end_memory |-> r.got.memory.at + r.got.size]
  /\ left' = 0 /\ out' = <<>>
  /\ UNCHANGED <<dump, answer>>

(* read and skip: process_data begins *)
BeginRead(length) ==
  /\ Call
  /\ pc' = "reading" /\ left' = length
  /\ UNCHANGED <<dump, loadVars, stream, out, answer, culprit>>

(* one turn of the loop of process_data: what the range at hand has, and then  *)
(* the range behind it if the stream goes on                                   *)
Chunk ==
  /\ pc = "reading" /\ left > 0 /\ ~eof(stream)
  /\ \E copy_length \in {Min({left, stream.end_memory - stream.memory.at})} :
     \E moved \in {[stream EXCEPT !.current = Wrap(@ + copy_length),
                                   !.memory.at = @ + copy_length]} :
         /\ left' = left - copy_length
         /\ out' = out \o [i \in 1 .. copy_length |->
                             Pointer(stream.memory.in, stream.memory.at + i - 1)]
         /\ IF ~at_seam(moved)
            THEN stream' = moved /\ UNCHANGED <<loadVars, culprit, pc>>
            ELSE \E r \in {get_process_memory_range(moved.current, Minus(moved.end, moved.current), TRUE)} :
                 /\ Loading(r.load)
                 /\ pc' = IF r.load.throws THEN "thrown" ELSE pc
                 /\ stream' = IF r.load.throws THEN moved
                              ELSE [moved EXCEPT !.memory = r.got.memory,
                                                 !.end_memory = r.got.memory.at + r.got.size]
  /\ UNCHANGED <<dump, answer, calls>>

EndRead ==
  /\ pc = "reading" /\ (left = 0 \/ eof(stream))
  /\ pc' = "idle"
  /\ UNCHANGED <<dump, loadVars, streamVars, answer, culprit, calls>>

(* A call that is answered at once.                                            *)
Answered(call, a, asked, r, memory, size) ==
  /\ Call
  /\ Loading(r.load)
  /\ pc' = IF r.load.throws THEN "thrown" ELSE "idle"
  /\ answer' = IF r.load.throws THEN NoAnswer
               ELSE [call |-> call, address |-> a, asked |-> asked,
                     memory |-> memory, size |-> size]
  /\ UNCHANGED <<dump, streamVars>>

FindRange(a, size) ==
  \E r \in {find_memory_range(a, size, TRUE)} :
    Answered("find", a, size, r, r.got.memory, IF r.got.memory = Null THEN 0 ELSE r.got.size)

(* read_process_memory, the callback of the stack walk and of the symbol       *)
(* engine; it does not load modules while the symbol engine is loading one     *)
ReadProcess(a, size, enable) ==
  \E r \in {IF validate_range(a, size) THEN do_read_process_memory(a, size, enable)
            ELSE [got |-> Found(Null, 0), load |-> NoLoad]} :
    Answered("read", a, size, r, r.got.memory, IF r.got.memory = Null THEN 0 ELSE r.got.size)

(* get_module_base_routine: 0 where no module is found *)
ModuleBase(a) ==
  LET ms == find_module(a)
      us == IF ms = {} THEN find_unloaded_module(a) ELSE ms
      r == [load |-> [NoLoad EXCEPT !.symbols = symbols \cup Bases(us)]]
  IN  Answered("base", a, 0, r, Null, IF us = {} THEN 0 ELSE Max(Bases(us)))

Stopped == (pc = "thrown" \/ (pc = "idle" /\ calls = MaxCalls)) /\ UNCHANGED vars

Next ==
  \/ \E a \in Address, n \in Lengths : \/ OpenStream(a, n)
                                       \/ FindRange(a, n)
                                       \/ \E enable \in BOOLEAN : ReadProcess(a, n, enable)
  \/ \E n \in Lengths : BeginRead(n)
  \/ \E a \in Address : ModuleBase(a)
  \/ Chunk
  \/ EndRead
  \/ Stopped

Spec == Init /\ [][Next]_vars

-----------------------------------------------------------------------------
(* The type invariant.                                                         *)
TypeOK ==
  /\ \A f \in files : f.base \in Address /\ f.length \in Address
  /\ DOMAIN lasts \subseteq Address /\ \A l \in DOMAIN lasts : lasts[l] \in Bases(files)
  /\ symbols \subseteq Address
  /\ pc \in {"idle", "reading", "thrown"}
  /\ left \in Address /\ calls \in 0 .. MaxCalls /\ culprit \in Address
  /\ stream.current \in Address /\ stream.end \in Address
  /\ stream.memory # Null => stream.memory.at <= stream.end_memory

(* What the dump itself holds, whatever the walker knows of it.                *)
Holds(r, a) == r.start <= a /\ a < r.start + r.size
ListHolds(l, a) == l.found /\ \E i \in DOMAIN l.ranges : Holds(l.ranges[i], a)
InDump(a) == Holds(dump.stack, a) \/ ListHolds(dump.list, a) \/ ListHolds(dump.list64, a)
InFile(f, a) == f.base <= a /\ a < f.base + f.length
Listed(l) == {l.ranges[i] : i \in DOMAIN l.ranges}
(* A range whose bytes the dump has; where the stack lies was asked of rva32   *)
(* when the thread was read.                                                   *)
DumpRanges == {dump.stack} \cup {r \in Listed(dump.list) \cup Listed(dump.list64) : rva32(r)}
(* Where the byte of an address is stored.                                     *)
StoredAt(p, a) == \/ p.in = 0 /\ \E r \in DumpRanges : Holds(r, a) /\ p.at = r.at + a - r.start
                  \/ \E f \in files : p.in = f.base /\ InFile(f, a) /\ p.at = a - f.base
ReachesTop(a, size) == a + size > Top

(* Every byte a stream delivers is the byte of its address, across the ranges  *)
(* and sources the stream runs through and the files loaded meanwhile.  Not    *)
(* for streams that reach the top address, where the sums of range_contains    *)
(* wrap around.                                                                *)
BytesAreTrue ==
  stream.start <= stream.end =>
    \A i \in 1 .. Len(out) : StoredAt(out[i], stream.start + i - 1)

(* They are if ranges that follow each other in memory do so in the dump.      *)
StoredInOrder(l) ==
  \A i, j \in DOMAIN l.ranges :
    l.ranges[i].start + l.ranges[i].size = l.ranges[j].start
      => l.ranges[i].at + l.ranges[i].size = l.ranges[j].at
OrderedBytesAreTrue ==
  StoredInOrder(dump.list) /\ StoredInOrder(dump.list64) => BytesAreTrue

(* A read is short only at the end of the stream or at a byte that the dump    *)
(* does not have.                                                              *)
ShortOnlyAtGaps ==
  pc = "idle" /\ left > 0 /\ stream.start < stream.end /\ stream.current # stream.end
    => ~InDump(stream.current)

(* A client that takes a stream to its end has the bytes of the range, if the  *)
(* dump has them: no wrong ones, and none left out.                            *)
StreamsTrue == OrderedBytesAreTrue /\ ShortOnlyAtGaps

(* What find_memory_range promises can be read, and is not cut off with the    *)
(* end of the dump as far as rva32 can tell: lfh_segment, the stack traces of  *)
(* allocations and the search for pointers go by it.                           *)
FoundIsReadable ==
  answer.call = "find" /\ ~ReachesTop(answer.address, answer.asked) =>
    \A a \in answer.address .. answer.address + answer.size - 1 :
      (\E r \in DumpRanges : Holds(r, a)) \/ \E f \in files : InFile(f, a)

(* A plain read gives bytes of the range it was asked for, and true ones.      *)
ReadIsTrue ==
  answer.call = "read" =>
    /\ answer.size <= answer.asked
    /\ \A i \in 0 .. answer.size - 1 :
         StoredAt([answer.memory EXCEPT !.at = @ + i], answer.address + i)

(* The two calls that answer at once, find_memory_range and a plain read,      *)
(* agree with the dump.                                                        *)
AnswersTrue == TypeOK /\ FoundIsReadable /\ ReadIsTrue

(* Reading throws only at an address that a memory list has in a range that    *)
(* the file of the dump is cut off in; or for one of an image that the dump    *)
(* does not have, behind the end of the file that was loaded over the base of  *)
(* its module, or whose file is no PE file.  (Where the dump has both lists,   *)
(* find_memory_range does not look into the second one, see there.)            *)
CutOff(a) ==
  \E l \in {dump.list, dump.list64} : l.found /\ \E r \in Listed(l) : Holds(r, a) /\ ~rva32(r)
ImageCutOff(a) ==
  /\ ~InDump(a) \/ (dump.list.found /\ dump.list64.found)
  /\ \E i \in DOMAIN dump.modules :
       LET m == dump.modules[i]
       IN  /\ m.base <= a /\ a < m.base + m.size
           /\ ~m.valid \/ \E f \in files : InFile(f, m.base) /\ ~InFile(f, a)
ThrowsOnlyBehindFile == pc = "thrown" => CutOff(culprit) \/ ImageCutOff(culprit)

(* A module is told only for the addresses of its image.                       *)
ModuleHoldsAddress ==
  answer.call = "base" /\ answer.size # 0 =>
    \E ms \in {dump.modules, dump.unloaded} : \E i \in DOMAIN ms :
      ms[i].base = answer.size /\ answer.address \in ms[i].base .. ms[i].base + ms[i].size - 1
=============================================================================
