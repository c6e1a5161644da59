------------------------------ MODULE StreamLists -----------------------------
(* What MiniDumper shows of the streams that are lists: ranges of memory,      *)
(* threads with their stacks, modules, handles; of each the entries the        *)
(* filters of the command line select, one after another.                      *)
(*                                                                             *)
(* A stream is [type, outside, entries]; outside, it lies beyond the end of    *)
(* the file.  An entry of memory is [start, size, at], a thread is             *)
(* [id, stack, frames], at 0 where its stack is only in the memory lists; a    *)
(* module has its name besides what MemoryWalker knows of it, a handle         *)
(* [name].  A frame is the sequence of its variables,                          *)
(* [parameter, register, data, address, size].  The variables of a stack are   *)
(* read with the walker of MemoryWalker.                                       *)
EXTENDS MemoryWalker, Texts
LOCAL INSTANCE SequencesExt

VARIABLES
  options,  \* the command line: [filters, hex, limit, symbols, parameters, locals, ...]
  listing,  \* [state, stream, next, thread, todo]: the loop under way
  shown     \* what the log has

listVars == <<options, listing, shown>>

NotListing == [state |-> "none", stream |-> [type |-> "none", outside |-> FALSE, entries |-> <<>>],
           next |-> 1, thread |-> 0, todo |-> <<>>]

-----------------------------------------------------------------------------
(* Filters are "name=value"; ill is a text without its name or its value, and  *)
(* bad a value that is no number or range where one is wanted.                 *)
filter_values(name) == {f.value : f \in {g \in options.filters : g.name = name}}
(* vector_to_hash_set throws for these.                                        *)
Numbers(name) == \E f \in options.filters : f.name = name /\ f.bad
FilterThrows(type) ==
  \/ type \in {"memory", "memory64"} /\ (Numbers("memory_area") \/ Numbers("memory_range"))
  \/ type = "threads" /\ Numbers("thread_id")
  \/ type = "modules" /\ Numbers("module_base")

hex_dump_memory_size(size) ==
  LET limit == from_wstring(options.limit) % Width
  IN  IF limit > 0 THEN Min({limit, size}) ELSE size

(* The list as the stream object has it: sorted by address, and of two entries *)
(* with one start the first.  Those of a Memory64List lie one behind another.  *)
build_memory_address_ranges(s) ==
  LET es == s.entries
      rva[i \in 1 .. Len(es) + 1] ==
        IF i = 1 THEN s.base ELSE rva[i - 1] + es[i - 1].size
      at(i) == IF s.type = "memory64" THEN rva[i] ELSE es[i].at
      kept == {i \in DOMAIN es : \A j \in 1 .. i - 1 : es[j].start # es[i].start}
      Rank(i) == Cardinality({j \in kept : es[j].start <= es[i].start})
  IN  [k \in 1 .. Cardinality(kept) |->
        LET i == CHOOSE j \in kept : Rank(j) = k IN [es[i] EXCEPT !.at = at(i)]]
EntriesOf(s) ==
  IF s.type \in {"memory", "memory64"} THEN build_memory_address_ranges(s)
  ELSE s.entries

(* find_address_range: the range that has all of it, as a set.                 *)
find_address_range(list, a, size) ==
  {list.ranges[i] : i \in {j \in upper_bound(list.ranges, a) :
     validate_range(a, size) /\ range_contains(list.ranges[j].start, list.ranges[j].size, a, size)}}

-----------------------------------------------------------------------------
(* A line of the log, with the places of the bytes printed below it.           *)
Line(what, i, start, bytes) ==
  [what |-> what, i |-> i, start |-> start, bytes |-> bytes, size |-> <<>>]
BytesFrom(at, n) == [i \in 1 .. n |-> Pointer(0, at + i - 1)]
Entry == EntriesOf(listing.stream)[listing.next]
More == listing.state = "list" /\ listing.next <= Len(EntriesOf(listing.stream))
Step == listing' = [listing EXCEPT !.next = @ + 1]
Failed == listing' = [listing EXCEPT !.state = "failed"]
Skip == Step /\ UNCHANGED shown
walkerVars == <<dump, loadVars, streamVars, pc, answer, culprit, calls>>
Unchanged == UNCHANGED <<walkerVars, options>>

(* The first of a std::set of ranges that begins in the entry.                 *)
FirstRange(e) ==
  LET hits == {r \in filter_values("memory_range") : range_contains(e.start, e.size, r.start, 1)}
  IN  {r \in hits : \A q \in hits : r.start < q.start \/ (r.start = q.start /\ r.size <= q.size)}
SelectsMemory(e) ==
  \/ filter_values("memory_area") = {} /\ filter_values("memory_range") = {}
  \/ \E a \in filter_values("memory_area") : range_contains(e.start, e.size, a, 1)
  \/ FirstRange(e) # {}

(* Slip for ShowMemory: a range is shown from the start of the entry on.       *)
SlipShowMemory ==
  /\ More /\ listing.stream.type \in {"memory", "memory64"}
  /\ \E e \in {Entry} : \E chosen \in {FirstRange(e)} :
     LET r == CHOOSE q \in chosen : TRUE
         n == IF chosen # {} THEN range_union(e.start, e.size, r.start, r.size)
              ELSE IF options.hex THEN hex_dump_memory_size(e.size) ELSE 0
     IN  IF ~SelectsMemory(e) THEN Skip
         ELSE IF (chosen # {} \/ options.hex) /\ ~rva32(e)
         THEN Failed /\ shown' = Append(shown, Line("cut", listing.next, e.start, <<>>))
         ELSE /\ Step
              /\ shown' = Append(shown, [Line("entry", listing.next, e.start, BytesFrom(e.at, n))
                                           EXCEPT !.size = to_wstring(e.size)])
  /\ Unchanged
(* One turn of dump_mini_dump_memory_list_stream_data, and of the one for      *)
(* Memory64List: a range of the user, cut at the end of the entry; else the    *)
(* entry, up to the limit, if memory is to be dumped at all.                   *)
ShowMemory ==
  /\ More /\ listing.stream.type \in {"memory", "memory64"}
  /\ \E e \in {Entry} : \E chosen \in {FirstRange(e)} :
     LET r == CHOOSE q \in chosen : TRUE
         from == IF chosen # {} THEN r.start ELSE e.start
         n == IF chosen # {} THEN range_union(e.start, e.size, r.start, r.size)
              ELSE IF options.hex THEN hex_dump_memory_size(e.size) ELSE 0
     IN  IF ~SelectsMemory(e) THEN Skip
         ELSE IF (chosen # {} \/ options.hex) /\ ~rva32(e)
         THEN Failed /\ shown' = Append(shown, Line("cut", listing.next, e.start, <<>>))
         ELSE /\ Step
              /\ shown' = Append(shown, [Line("entry", listing.next, from, BytesFrom(e.at + (from - e.start), n))
                                           EXCEPT !.size = to_wstring(e.size)])
  /\ Unchanged

(* module_list_stream and handle_data_stream: by name, or by base.             *)
SelectsModule(m) ==
  LET names == filter_values("module")
      bases == filter_values("module_base")
  IN  \/ names = {} /\ bases = {}
      \/ \E p \in names : wildcard_match(m.name, p)
      \/ m.base \in bases
SelectsHandle(h) ==
  LET types == filter_values("type")
  IN  types # {} => \E p \in types : wildcard_match(h.name, p)
ShowNamed ==
  /\ More /\ listing.stream.type \in {"modules", "handles"}
  /\ IF IF listing.stream.type = "modules" THEN SelectsModule(Entry) ELSE SelectsHandle(Entry)
     THEN Step /\ shown' = Append(shown, Line("entry", listing.next, 0, <<>>))
     ELSE Skip
  /\ Unchanged

-----------------------------------------------------------------------------
(* stream_thread: the stack of a thread, as a set: in the thread list, or,     *)
(* where that has none, in the first of the memory lists there is.             *)
StackOf(t) ==
  IF t.stack.at # 0 THEN {t.stack}
  ELSE IF dump.list.found THEN find_address_range(dump.list, t.stack.start, t.stack.size)
  ELSE IF dump.list64.found THEN find_address_range(dump.list64, t.stack.start, t.stack.size)
  ELSE {}
SelectsThread(t) ==
  filter_values("thread_id") # {} => t.id \in filter_values("thread_id")

(* What hex_dump_stack has to show of a stack: a line for each frame and the   *)
(* variables of it that are asked for, parameters first.                       *)
Wanted(v) == IF v.parameter THEN options.parameters ELSE options.locals
Frames(frames) ==
  FlattenSeq([f \in DOMAIN frames |->
    <<[frame |-> TRUE, f |-> f]>>
      \o [i \in DOMAIN SelectSeq(frames[f], Wanted) |->
            [frame |-> FALSE, f |-> f, v |-> SelectSeq(frames[f], Wanted)[i]]]])

(* One turn of dump_mini_dump_thread_list_stream_data, up to the stack.  The   *)
(* memory walker of a stack has files of its own; a stack beyond the end of    *)
(* the file throws before the filter is asked.                                 *)
ShowThread ==
  /\ More /\ listing.stream.type = "threads"
  /\ \E t \in {Entry} : \E stack \in {StackOf(t)} :
     LET r == CHOOSE q \in stack : TRUE
         at == r.at + t.stack.start - r.start
         n == IF stack # {} /\ options.hex THEN hex_dump_memory_size(t.stack.size) ELSE 0
     IN  IF stack # {} /\ ~rva32(r)
         THEN Failed /\ UNCHANGED <<shown, dump, files, lasts>>
         ELSE IF ~SelectsThread(t) THEN Skip /\ UNCHANGED <<dump, files, lasts>>
         ELSE IF stack # {} /\ options.symbols
         THEN /\ listing' = [listing EXCEPT !.next = @ + 1, !.thread = listing.next,
                                            !.state = "frames", !.todo = Frames(t.frames)]
              /\ shown' = Append(shown, Line("entry", listing.next, t.stack.start, <<>>))
              /\ dump' = [dump EXCEPT !.stack = [t.stack EXCEPT !.at = at]]
              /\ files' = {} /\ lasts' = <<>>
         ELSE /\ Step
              /\ shown' = Append(shown, Line("entry", listing.next, t.stack.start,
                                             IF n = 0 THEN <<>> ELSE BytesFrom(at, n)))
              /\ UNCHANGED <<dump, files, lasts>>
  /\ UNCHANGED <<symbols, streamVars, pc, answer, culprit, calls, options>>

(* The next line of a stack: a frame, or a variable that has no memory.        *)
Todo == Head(listing.todo)
Done1 == listing' = [listing EXCEPT !.todo = Tail(@)]
ShowFrame ==
  /\ listing.state = "frames" /\ listing.todo # <<>>
  /\ \/ /\ Todo.frame
        /\ shown' = Append(shown, Line("frame", Todo.f, 0, <<>>))
     \/ /\ ~Todo.frame
        /\ ~Todo.v.data
        /\ shown' = Append(shown, Line(IF Todo.v.register THEN "register" ELSE "unknown", Todo.f, 0, <<>>))
  /\ Done1 /\ Unchanged

(* A variable in memory: its stream is opened and read, which Chunk and        *)
(* EndRead do.                                                                 *)
ShowVariable ==
  /\ listing.state = "frames" /\ listing.todo # <<>>
  /\ ~Todo.frame /\ Todo.v.data
  /\ \E v \in {Todo.v} : \E r \in {get_process_memory_range(v.address, v.size, TRUE)} :
     LET a == v.address
         size == v.size
     IN  /\ Loading(r.load)
         /\ IF r.load.throws
            THEN Failed /\ UNCHANGED <<stream, left, out, pc, shown>>
            ELSE IF r.got.memory = Null
            THEN /\ Done1 /\ shown' = Append(shown, Line("missing", Todo.f, a, <<>>))
                 /\ UNCHANGED <<stream, left, out, pc>>
            ELSE /\ listing' = [listing EXCEPT !.state = "value"]
                 /\ stream' = [start |-> a, current |-> a, end |-> Wrap(a + size), memory |-> r.got.memory,
                               end_memory |-> r.got.memory.at + r.got.size]
                 /\ left' = size /\ out' = <<>> /\ pc' = "reading"
                 /\ UNCHANGED shown
  /\ UNCHANGED <<dump, answer, calls, options>>
ReadVariable == listing.state = "value" /\ (Chunk \/ EndRead) /\ UNCHANGED listVars
ShowValue ==
  /\ listing.state = "value" /\ pc # "reading"
  /\ IF pc = "thrown" THEN Failed /\ UNCHANGED shown
     ELSE /\ listing' = [listing EXCEPT !.state = "frames", !.todo = Tail(@)]
          /\ shown' = Append(shown, Line("value", Todo.f, Todo.v.address, out))
  /\ stream' = NoStream /\ left' = 0 /\ out' = <<>> /\ pc' = "idle"
  /\ UNCHANGED <<dump, loadVars, answer, culprit, calls, options>>
EndStack ==
  /\ listing.state = "frames" /\ listing.todo = <<>>
  /\ listing' = [listing EXCEPT !.state = "list"]
  /\ Unchanged /\ UNCHANGED shown

NextListing ==
  \/ ShowMemory \/ ShowNamed \/ ShowThread
  \/ ShowFrame \/ ShowVariable \/ ReadVariable \/ ShowValue \/ EndStack
=============================================================================
