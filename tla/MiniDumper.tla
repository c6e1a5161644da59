------------------------------ MODULE MiniDumper ------------------------------
(* The main program of MiniDumper: the dump files of the command line, each    *)
(* with the base dump of the same rank, are opened one after another, and the  *)
(* streams asked for are shown.  The parts of a dump behind the streams (heaps,*)
(* symbols, addresses) have modules of their own; here one of them may throw.  *)
(*                                                                             *)
(* A dump file is [opens, kind, directory, length, streams, throws]: its       *)
(* header can be read; "user", "kernel" or "invalid" by its signature; the     *)
(* directory of streams lies inside the file; one of the later parts throws.   *)
EXTENDS StreamLists
LOCAL INSTANCE SequencesExt

CONSTANTS Scenes,   \* [paths, bases] of a command line
          Disk,     \* the dump file that has a name
          Commands  \* the other options of the command line

VARIABLES
  scene,
  app       \* [at, dumps, bases, k, base, requests, results, exit]: where the program
            \* is, the files and base dumps found, the rank of the file it is at and its
            \* base, the streams still asked for, what became of the files so far,
            \* [file, base, ok], and the exit status

dumperVars == <<scene, app, listVars>>
allVars == <<vars, dumperVars>>

DumpFiles == app.dumps
BaseFiles == app.bases
File == Disk[DumpFiles[app.k]]

Goto(place) == app' = [app EXCEPT !.at = place]
UnchangedBut(v) == UNCHANGED <<scene, options, files, lasts, symbols, streamVars, answer, culprit, calls, v>>

(* process_raw_options and the tests before the loop: a filter without a name  *)
(* or a value, or a size whose unit is unknown, ends the program.              *)
ProcessOptions ==
  /\ app.at = "start"
  /\ IF options.ill \/ from_wstring(options.limit) = Throws
     THEN app' = [app EXCEPT !.at = "ended", !.exit = "failure"]
     ELSE app' = [app EXCEPT !.at = "files",
                             !.dumps = enumerate_files(scene.paths, options.continue),
                             !.bases = enumerate_files(scene.bases, options.continue)]
  /\ UnchangedBut(<<listing, shown, dump, pc>>)

(* The streams asked for: all by index, or those by index and those by type.   *)
Requests(file) ==
  IF options.all THEN [i \in DOMAIN file.streams |-> [by |-> "index", value |-> i]]
  ELSE [i \in DOMAIN options.indexes |-> [by |-> "index", value |-> options.indexes[i]]]
         \o [i \in DOMAIN options.types |-> [by |-> "type", value |-> options.types[i]]]

(* What the stream objects of a dump know of its memory: the first list of a   *)
(* type is the one others look into.                                           *)
ListOf(file, type) ==
  LET i == SelectInSeq(file.streams, LAMBDA s : s.type = type)
  IN  IF i = 0 \/ ~file.directory THEN [found |-> FALSE, ranges |-> <<>>]
      ELSE [found |-> TRUE, ranges |-> build_memory_address_ranges(file.streams[i])]
MemoryOf(file) ==
  [length |-> file.length,
   stack |-> [start |-> 0, size |-> 0, at |-> 0], list |-> ListOf(file, "memory"),
   list64 |-> ListOf(file, "memory64"), unloaded |-> <<>>,
   modules |-> LET i == SelectInSeq(file.streams, LAMBDA s : s.type = "modules")
               IN  IF i = 0 \/ ~file.directory THEN <<>> ELSE file.streams[i].entries]

(* get_base_diff_dump_file: no base is fine, one that cannot be used throws.   *)
BaseThrows(base) ==
  base # <<>> /\ LET b == Disk[base[1]] IN ~(b.opens /\ b.directory /\ b.kind = "user")

(* Slip for NextFile: the base dump of the file before.                        *)
SlipNextFile ==
  /\ app.at = "files" /\ app.k < Len(DumpFiles)
  /\ LET k == app.k + 1
         file == Disk[DumpFiles[k]]
         base == IF k \in 2 .. Len(BaseFiles) + 1 THEN <<BaseFiles[k - 1]>> ELSE <<>>
         user == file.opens /\ file.kind = "user"
     IN  /\ app' = [app EXCEPT !.k = k, !.base = base, !.requests = Requests(file),
                               !.at = CASE ~file.opens \/ (user /\ BaseThrows(base)) -> "failed"
                                        [] user /\ ~BaseThrows(base) -> "streams"
                                        [] OTHER -> "header"]
         /\ dump' = MemoryOf(file)
  /\ listing' = NotListing /\ shown' = <<>>
  /\ UnchangedBut(<<pc>>)
(* A turn of the loop of main and the first half of process_dump_file.  A file *)
(* whose header cannot be read fails; of one that is no user mode dump only    *)
(* the header is shown.                                                        *)
NextFile ==
  /\ app.at = "files" /\ app.k < Len(DumpFiles)
  /\ LET k == app.k + 1
         file == Disk[DumpFiles[k]]
         base == IF k <= Len(BaseFiles) THEN <<BaseFiles[k]>> ELSE <<>>
         user == file.opens /\ file.kind = "user"
     IN  /\ app' = [app EXCEPT !.k = k, !.base = base, !.requests = Requests(file),
                               !.at = CASE ~file.opens \/ (user /\ BaseThrows(base)) -> "failed"
                                        [] user /\ ~BaseThrows(base) -> "streams"
                                        [] OTHER -> "header"]
         /\ dump' = MemoryOf(file)
  /\ listing' = NotListing /\ shown' = <<>>
  /\ UnchangedBut(<<pc>>)

Log(what, i) == shown' = Append(shown, Line(what, i, 0, <<>>))

(* The stream a request is for; 0 where there is none.                         *)
Served(request) ==
  IF ~File.directory THEN 0
  ELSE IF request.by = "index" THEN (IF request.value > Len(File.streams) THEN 0 ELSE request.value)
  ELSE SelectInSeq(File.streams, LAMBDA s : s.type = request.value)

(* Not the extended thread list: thread_ex_list_stream looks for a plain one   *)
(* from there on, of which the dumps have none, and reports it missing.        *)
IsList(type) == type \in {"memory", "memory64", "threads", "modules", "handles"}
(* dump_mini_dump_stream_index, dump_mini_dump_stream_type and the switch of   *)
(* dump_mini_dump_stream_data.  Of a dump without a directory an index is      *)
(* passed over, a type is not found.                                           *)
BeginStream ==
  /\ app.at = "streams" /\ app.requests # <<>>
  /\ \E request \in {Head(app.requests)} : \E i \in {Served(request)} :
     LET s == File.streams[i]
         passed == ~File.directory /\ request.by = "index"
     IN  /\ app' = [app EXCEPT !.requests = Tail(@),
                      !.at = IF passed THEN "streams"
                             ELSE IF i = 0 THEN "failed"
                             ELSE IF s.outside /\ (s.type # "unused" \/ options.streamhex) THEN "failed"
                             ELSE IF IsList(s.type) /\ FilterThrows(s.type) THEN "failed"
                             ELSE IF IsList(s.type) THEN "listing" ELSE "data"]
         /\ listing' = IF app'.at \in {"listing", "data"}
                       THEN [NotListing EXCEPT !.state = "list", !.stream = s] ELSE listing
         /\ IF app'.at \in {"listing", "data"} THEN Log("stream", i) ELSE UNCHANGED shown
  /\ UnchangedBut(<<dump, pc>>)

EndListing ==
  /\ app.at = "listing" /\ (listing.state = "failed" \/ (listing.state = "list" /\ ~More))
  /\ Goto(IF listing.state = "failed" THEN "failed" ELSE "data")
  /\ UnchangedBut(<<listing, shown, dump, pc>>)

(* All of the stream in hexadecimal: on demand, or because nothing else could  *)
(* be shown of it.                                                             *)
ShowData ==
  /\ app.at = "data"
  /\ IF options.streamhex \/ listing.stream.type = "unsupported" THEN Log("data", 0) ELSE UNCHANGED shown
  /\ Goto("streams")
  /\ UnchangedBut(<<listing, dump, pc>>)

(* The later parts of process_user_mode_dump, or the header alone, and what    *)
(* the loop makes of the answer.                                               *)
EndFile ==
  /\ \/ app.at \in {"header", "failed"}
     \/ app.at = "streams" /\ app.requests = <<>>
  /\ LET fails == app.at = "failed" \/ (app.at = "streams" /\ File.throws)
         stops == fails /\ ~options.continue
     IN  /\ app' = [app EXCEPT !.at = IF stops THEN "ended" ELSE "files",
                               !.exit = IF stops THEN "failure" ELSE @,
                               !.results = Append(@, [file |-> DumpFiles[app.k], base |-> app.base, ok |-> ~fails])]
  /\ UnchangedBut(<<listing, shown, dump, pc>>)

EndFiles ==
  /\ app.at = "files" /\ app.k = Len(DumpFiles)
  /\ app' = [app EXCEPT !.at = "ended", !.exit = "success"]
  /\ UnchangedBut(<<listing, shown, dump, pc>>)

-------------------------------------------------------------------------------
(* One run of the program, or the calls of other clients of the memory of one  *)
(* dump: those of MemoryWalker.                                                *)
Walking == app.at = "walker"
StartAt(place) ==
  app = [at |-> place, dumps |-> <<>>, bases |-> <<>>, k |-> 0, base |-> <<>>, requests |-> <<>>, results |-> <<>>, exit |-> "none"]
DumperInit ==
  /\ Init /\ listing = NotListing /\ shown = <<>>
  /\ \/ /\ StartAt("walker")
        /\ scene = CHOOSE s \in Scenes : TRUE
        /\ options = CHOOSE c \in Commands : TRUE
     \/ /\ StartAt("start") /\ dump = CHOOSE d \in Dumps : TRUE
        /\ scene \in Scenes /\ options \in Commands

DumperNext ==
  \/ Walking /\ Next /\ UNCHANGED dumperVars
  \/ app.at = "listing" /\ NextListing /\ UNCHANGED <<scene, app>>
  \/ ProcessOptions \/ NextFile \/ BeginStream \/ EndListing \/ ShowData \/ EndFile \/ EndFiles
  \/ app.at = "ended" /\ UNCHANGED allVars

DumperSpec == DumperInit /\ [][DumperNext]_allVars

-------------------------------------------------------------------------------
(* What a pattern matches, by where its letters end in the name; a star at its *)
(* end stands for one letter at least.                                         *)
Matches(name, pattern) ==
  \E ends \in [0 .. Len(pattern) -> 0 .. Len(name)] :
    /\ ends[0] = 0 /\ ends[Len(pattern)] = Len(name)
    /\ \A j \in DOMAIN pattern :
         IF pattern[j] = "*" THEN ends[j] >= ends[j - 1] + (IF j = Len(pattern) THEN 1 ELSE 0)
         ELSE /\ ends[j] = ends[j - 1] + 1
              /\ pattern[j] \in {"?", name[ends[j]]}
(* The files a list of paths stands for.                                       *)
Invalid(p) ==
  p.is \in {"other", "nowhere"} \/ (p.is = "absent" /\ {"*", "?"} \cap Range(p.name) = {})
Found1(p) ==
  CASE p.is = "file" -> <<p.dump>>
    [] p.is = "directory" -> FlattenSeq([i \in DOMAIN p.entries |->
         IF p.entries[i].regular THEN <<p.entries[i].dump>> ELSE <<>>])
    [] OTHER -> FlattenSeq([i \in DOMAIN p.entries |->
         IF p.entries[i].regular /\ Matches(p.entries[i].name, p.name)
         THEN <<p.entries[i].dump>> ELSE <<>>])
FilesMeant(paths) ==
  FlattenSeq([i \in DOMAIN paths |->
    IF Invalid(paths[i]) \/ (~options.continue /\ \E j \in 1 .. i : Invalid(paths[j]))
    THEN <<>> ELSE Found1(paths[i])])

(* Why a dump of a user's process fails: its base, the parts behind the        *)
(* streams, or a stream asked for that is not there, lies outside the file,    *)
(* has a filter that is no value, or something outside the file to show.       *)
Usable(name) == LET d == Disk[name] IN d.opens /\ d.directory /\ d.kind = "user"
Beyond(file, e) == e.size <= file.length /\ e.at + e.size > file.length
Malformed(names) == \E f \in options.filters : f.name \in names /\ f.bad
Has(name, Holds1(_)) == \E f \in options.filters : f.name = name /\ Holds1(f.value)
Unfiltered(names) == ~\E f \in options.filters : f.name \in names
Inside(a, e) == e.start <= a /\ a < e.start + e.size
Ranged(e) == Has("memory_range", LAMBDA r : Inside(r.start, e))
MemoryChosen(e) ==
  \/ Unfiltered({"memory_area", "memory_range"})
  \/ Has("memory_area", LAMBDA a : Inside(a, e))
  \/ Ranged(e)
(* An entry as the file has it, one of a Memory64List behind those before it.  *)
Stored(s, i) ==
  IF s.type = "memory" THEN s.entries[i]
  ELSE [s.entries[i] EXCEPT !.at = s.base + FoldSet(LAMBDA j, n : n + s.entries[j].size, 0, 1 .. i - 1)]
FirstOfStart(s) ==
  {i \in DOMAIN s.entries : \A j \in 1 .. i - 1 : s.entries[j].start # s.entries[i].start}
StreamFails(file, s) ==
  \/ s.outside /\ (s.type # "unused" \/ options.streamhex)
  \/ s.type = "modules" /\ Malformed({"module_base"})
  \/ s.type = "threads" /\ Malformed({"thread_id"})
  \/ s.type = "threads" /\ \E i \in DOMAIN s.entries :
       s.entries[i].stack.at # 0 /\ Beyond(file, s.entries[i].stack)
  \/ /\ s.type \in {"memory", "memory64"}
     /\ \/ Malformed({"memory_area", "memory_range"})
        \/ \E i \in FirstOfStart(s) : LET e == Stored(s, i)
             IN  MemoryChosen(e) /\ (options.hex \/ Ranged(e)) /\ Beyond(file, e)
RequestFails(file, r) ==
  CASE r.by = "index" -> /\ file.directory
                         /\ r.value > Len(file.streams) \/ StreamFails(file, file.streams[r.value])
    [] r.by = "type" -> ~file.directory \/
         LET found == {i \in DOMAIN file.streams : file.streams[i].type = r.value}
         IN  found = {} \/ StreamFails(file, file.streams[Min(found)])
FileFails(file, base) ==
  \/ ~file.opens
  \/ file.kind = "user" /\
       (file.throws \/ (base # <<>> /\ ~Usable(base[1]))
         \/ \E i \in DOMAIN Requests(file) : RequestFails(file, Requests(file)[i]))
(* Reading a variable may fail as well, where a module has no good file or the *)
(* file of the dump ends in a range of memory.                                 *)
ReadMayFail(file) ==
  options.symbols /\ \E i \in DOMAIN file.streams :
    LET s == file.streams[i]
    IN  \E j \in DOMAIN s.entries :
          \/ s.type = "modules" /\ (~s.entries[j].valid \/ s.entries[j].length < s.entries[j].size)
          \/ s.type \in {"memory", "memory64"} /\ Beyond(file, Stored(s, j))

(* Every file the paths stand for is processed once, in their order, with the  *)
(* base dump of its own rank, and fails if and only if something of what was   *)
(* asked for cannot be had; the exit status is that of a failure if and only   *)
(* if the command line is bad or a file failed and errors are to stop the run. *)
(* This is main's loop, process_dump_file and what they call; a run over many  *)
(* dumps is compared with its base dumps by these ranks.                       *)
FilesProcessed ==
  ~Walking =>
    LET meant == FilesMeant(scene.paths)
        bases == FilesMeant(scene.bases)
        failed == {i \in DOMAIN app.results : ~app.results[i].ok}
    IN  /\ \A i \in DOMAIN app.results :
             LET r == app.results[i]
                 fails == FileFails(Disk[r.file], r.base)
             IN  /\ i <= Len(meant) /\ r.file = meant[i]
                 /\ r.base = IF i <= Len(bases) THEN <<bases[i]>> ELSE <<>>
                 /\ r.ok => ~fails
                 /\ ~r.ok => fails \/ ReadMayFail(Disk[r.file])
        /\ app.exit = "success" => Len(app.results) = Len(meant)
        /\ app.at = "ended" =>
             (app.exit = "failure" <=>
                options.ill \/ options.limit.label = Unknown \/ (failed # {} /\ ~options.continue))

(* The lines of the stream that was listed last, of one kind.                  *)
LinesOf(what) ==
  LET begin == Max({i \in DOMAIN shown : shown[i].what = "stream"})
  IN  SelectSeq(SubSeq(shown, begin, Len(shown)), LAMBDA l : l.what = what)
(* How many bytes --limit leaves of a number of them.                          *)
Limited(size) ==
  LET bytes == (options.limit.count * Scale(IF options.limit.label = Bare THEN 0 ELSE options.limit.unit)) % Width
  IN  IF bytes = 0 THEN size ELSE Min({bytes, size})
(* A line shows an entry of memory: the lowest range of the user that begins   *)
(* in it, up to the end of the entry, or else the entry from its start on.     *)
MemoryTrue(e, line) ==
  LET ranges == {f.value : f \in {g \in options.filters : g.name = "memory_range" /\ Inside(g.value.start, e)}}
      start == IF ranges = {} THEN e.start ELSE Min({r.start : r \in ranges})
      size == IF ranges = {} THEN (IF options.hex THEN Limited(e.size) ELSE 0)
              ELSE Min({e.start + e.size - start} \cup {r.size : r \in {q \in ranges : q.start = start}})
  IN  /\ line.start = start /\ Len(line.bytes) = size
      /\ \A i \in DOMAIN line.bytes : line.bytes[i] = Pointer(0, e.at + (start - e.start) + i - 1)
      /\ line.size.count * Scale(line.size.unit) <= e.size
      /\ e.size < (line.size.count + 1) * Scale(line.size.unit)
      /\ line.size.unit < Units => e.size < Scale(line.size.unit + 1)
Chosen(s, i) ==
  LET e == s.entries[i]
  IN  CASE s.type \in {"memory", "memory64"} -> i \in FirstOfStart(s) /\ MemoryChosen(e)
        [] s.type = "modules" -> \/ Unfiltered({"module", "module_base"})
                                 \/ Has("module", LAMBDA p : Matches(e.name, p))
                                 \/ Has("module_base", LAMBDA b : b = e.base)
        [] s.type = "handles" -> Unfiltered({"type"}) \/ Has("type", LAMBDA p : Matches(e.name, p))
        [] s.type = "threads" -> Unfiltered({"thread_id"}) \/ Has("thread_id", LAMBDA t : t = e.id)
        [] OTHER -> FALSE
VariablesOf(t, Holds1(_)) ==
  FoldSet(LAMBDA f, n : n + Cardinality({i \in DOMAIN t.frames[f] : Holds1(t.frames[f][i])}), 0, DOMAIN t.frames)
Asked(v) == (v.parameter /\ options.parameters) \/ (~v.parameter /\ options.locals)

(* A stream that was listed to its end has shown the entries the filters       *)
(* select, each once and in order: memory by address, with the bytes of its    *)
(* range and no other, other entries as they are stored; and below a thread    *)
(* whose stack the dump has, a line for each frame and for each variable that  *)
(* was asked for.  These are the loops of dump_mini_dump_memory.cpp, _thread,  *)
(* _module and _app_info and the walk over the stack they call.                *)
ListsShown ==
  app.at = "data" /\ listing.state = "list" =>
    LET s == listing.stream
        lines == LinesOf("entry")
        chosen == {i \in DOMAIN s.entries : Chosen(s, i)}
    IN  /\ Len(lines) = Cardinality(chosen)
        /\ s.type \in {"modules", "handles", "threads"} =>
             /\ {lines[k].i : k \in DOMAIN lines} = chosen
             /\ \A k, l \in DOMAIN lines : k < l => lines[k].i < lines[l].i
        /\ s.type \in {"memory", "memory64"} =>
             /\ \A i \in chosen : \E k \in DOMAIN lines : MemoryTrue(Stored(s, i), lines[k])
             /\ \A k, l \in DOMAIN lines : k < l => lines[k].start < lines[l].start
        /\ s.type = "threads" =>
             LET walked == {i \in chosen : options.symbols /\ StackOf(s.entries[i]) # {}}
                 Total(Of(_)) == FoldSet(LAMBDA i, n : n + Of(s.entries[i]), 0, walked)
             IN  /\ Len(LinesOf("frame")) = Total(LAMBDA t : Len(t.frames))
                 /\ Len(LinesOf("value")) + Len(LinesOf("missing"))
                      = Total(LAMBDA t : VariablesOf(t, LAMBDA v : Asked(v) /\ v.data))
                 /\ Len(LinesOf("register"))
                      = Total(LAMBDA t : VariablesOf(t, LAMBDA v : Asked(v) /\ ~v.data /\ v.register))
=============================================================================
