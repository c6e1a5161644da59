---------------------------- MODULE MCMemoryWalker ----------------------------
(* Small dumps for MemoryWalker, and small runs of MiniDumper.                 *)
EXTENDS MiniDumper
R(start, size, at) == [start |-> start, size |-> size, at |-> at]
M(base, size, len) == [base |-> base, size |-> size, length |-> len, valid |-> TRUE]
List(ranges) == [found |-> TRUE, ranges |-> ranges]
NoList == [found |-> FALSE, ranges |-> <<>>]
NoStack == R(0, 0, 0)
Dump(stack, list, list64, modules, unloaded) ==
  [length |-> 9, stack |-> stack, list |-> list, list64 |-> list64, modules |-> modules, unloaded |-> unloaded]

(* The stack is part of the memory list, whose descriptors are in any order    *)
(* but stored in the order of addresses, and a module begins where it ends.    *)
Mini == Dump(R(1, 2, 0), List(<<R(3, 2, 2), R(1, 2, 0)>>), NoList, <<M(5, 3, 2)>>, <<>>)
(* All memory, with a gap and with part of an image.                           *)
Full == Dump(NoStack, NoList, List(<<R(1, 1, 0), R(2, 1, 1), R(4, 2, 2)>>), <<M(5, 2, 2)>>, <<>>)
(* Both lists, and two modules whose files lie side by side.                   *)
Both == Dump(NoStack, List(<<R(2, 1, 0)>>), List(<<R(3, 2, 1)>>), <<M(5, 2, 2), M(7, 2, 2)>>, <<>>)
(* A file that is longer than its image and reaches into the next one.         *)
Long == Dump(NoStack, NoList, NoList, <<M(2, 2, 4), M(4, 3, 3)>>, <<M(8, 1, 1)>>)
(* A module without a file, and one whose file is no PE file.                  *)
Lost == Dump(NoStack, NoList, List(<<R(1, 2, 0)>>),
             <<M(3, 2, 0), [M(5, 2, 2) EXCEPT !.valid = FALSE]>>, <<M(7, 2, 2)>>)
(* Adjacent ranges that are stored in another order than that of addresses.    *)
Unordered == Dump(NoStack, List(<<R(3, 2, 0), R(1, 2, 2)>>), NoList, <<>>, <<>>)
(* The file ends before a range that follows another one and in a range of the *)
(* other list; or a range is longer than the whole file, which passes.         *)
Torn == [Dump(R(5, 1, 2), List(<<R(1, 2, 0), R(3, 1, 5), R(6, 2, 2)>>), List(<<R(4, 1, 2), R(5, 2, 4)>>), <<>>, <<>>)
         EXCEPT !.length = 5]
Longer == [Dump(NoStack, List(<<R(1, 1, 0), R(2, 4, 1)>>), NoList, <<M(6, 2, 1)>>, <<>>) EXCEPT !.length = 3]
MCDumps == {Mini, Full, Both, Long, Lost, Unordered, Torn, Longer}

-------------------------------------------------------------------------------
Stream(type, entries) == [type |-> type, outside |-> FALSE, entries |-> entries, base |-> 0]
Stream64(base, entries) == [Stream("memory64", entries) EXCEPT !.base = base]
Outside(type) == [Stream(type, <<>>) EXCEPT !.outside = TRUE]
Named(m, name) == [base |-> m.base, size |-> m.size, length |-> m.length, valid |-> m.valid, name |-> name]
Thread(id, stack, frames) == [id |-> id, stack |-> stack, frames |-> frames]
InMemory(parameter, a, size) ==
  [parameter |-> parameter, register |-> FALSE, data |-> TRUE, address |-> a, size |-> size]
InRegister == [parameter |-> FALSE, register |-> TRUE, data |-> FALSE, address |-> 0, size |-> 0]
Lost1 == [InRegister EXCEPT !.register = FALSE, !.parameter = TRUE]
File1(streams) ==
  [opens |-> TRUE, kind |-> "user", directory |-> TRUE, length |-> 20, streams |-> streams, throws |-> FALSE]

Handles == Stream("handles", <<[name |-> <<"f">>], [name |-> <<"f", "i">>], [name |-> <<"i">>]>>)
(* A small dump: descriptors in any order, two of them with one start.         *)
Small == File1(<<
  Stream("memory", <<R(4, 2, 4), R(1, 3, 1), R(4, 1, 9)>>),
  Stream("threads", <<Thread(1, R(6, 1, 12), <<<<InMemory(TRUE, 6, 1), Lost1>>, <<InMemory(FALSE, 2, 3), InRegister>>>>),
                      Thread(2, R(2, 2, 0), <<<<InMemory(FALSE, 0, 1)>>>>),
                      Thread(3, R(8, 1, 0), <<<<>>>>)>>),
  Stream("modules", <<Named(M(7, 2, 2), <<"m", "i">>), Named(M(9, 0, 0), <<"i">>)>>),
  Handles, Outside("unused"), Stream("unsupported", <<>>)>>)
(* All memory, and a module whose file ends before its image does.             *)
Whole == File1(<<
  Stream64(2, <<R(1, 5, 0), R(6, 1, 0), R(6, 1, 0)>>),
  Stream("modules", <<Named(M(7, 2, 1), <<"m">>)>>),
  Stream("threads", <<Thread(1, R(4, 2, 0), <<<<InMemory(TRUE, 6, 2)>>>>), Thread(2, R(1, 1, 0), <<<<InMemory(FALSE, 7, 2)>>>>)>>),
  Stream("threads_ex", <<Thread(1, R(4, 2, 3), <<>>)>>)>>)
(* Parts of these lie behind the end of the file.                              *)
Short == [File1(<<Stream("memory", <<R(2, 4, 8), R(6, 2, 19)>>), Handles,
                  Stream("threads", <<Thread(1, R(2, 2, 0), <<>>), Thread(2, R(6, 2, 19), <<>>)>>)>>)
          EXCEPT !.kind = "user"]
Cut == File1(<<Outside("handles"), Handles>>)
(* The file ends in a range of memory that only a variable reaches into.       *)
Gone == File1(<<Stream("threads", <<Thread(1, R(2, 2, 8), <<<<InMemory(TRUE, 3, 2), InMemory(FALSE, 5, 2)>>>>)>>),
                Stream("memory", <<R(4, 2, 10), R(6, 2, 19)>>)>>)
MCDisk == [small |-> Small, whole |-> Whole, short |-> Short, cut |-> Cut, gone |-> Gone,
           broken |-> [Small EXCEPT !.opens = FALSE], kernel |-> [Small EXCEPT !.kind = "kernel"],
           invalid |-> [Small EXCEPT !.kind = "invalid"],
           bare |-> [Small EXCEPT !.directory = FALSE], throws |-> [Whole EXCEPT !.throws = TRUE]]

At(name) == [is |-> "file", dump |-> name, name |-> <<>>, entries |-> <<>>]
Dir == <<[regular |-> TRUE, name |-> <<"d", "a">>, dump |-> "short"],
         [regular |-> FALSE, name |-> <<"d", "b">>, dump |-> "whole"],
         [regular |-> TRUE, name |-> <<"d">>, dump |-> "cut"],
         [regular |-> TRUE, name |-> <<"b", "d", "a">>, dump |-> "bare"]>>
Directory == [At("none") EXCEPT !.is = "directory", !.entries = Dir]
Pattern(name) == [At("none") EXCEPT !.is = "absent", !.name = name, !.entries = Dir]
Wrong(is) == [Pattern(<<"d", "*">>) EXCEPT !.is = is]
Scene(paths, bases) == [paths |-> paths, bases |-> bases]
MCScenes == {
  Scene(<<At("small")>>, <<>>),
  Scene(<<At("whole")>>, <<>>),
  Scene(<<At("gone")>>, <<>>),
  Scene(<<Pattern(<<"d", "*">>), At("small")>>, <<At("whole"), At("small")>>),
  Scene(<<Pattern(<<"*", "d", "?">>), Wrong("other"), At("throws")>>, <<Wrong("nowhere"), At("short")>>),
  Scene(<<Directory, Pattern(<<"d">>), At("kernel")>>, <<At("small"), At("broken")>>),
  Scene(<<At("invalid"), At("broken"), At("bare"), At("small")>>, <<At("bare"), At("kernel"), At("cut"), At("cut"), At("cut")>>)}

Text(count, label, unit) == [count |-> count, label |-> label, unit |-> unit]
Filter(name, value) == [name |-> name, value |-> value, bad |-> FALSE]
Bad(name) == [name |-> name, value |-> 0, bad |-> TRUE]
Interval(start, size) == [start |-> start, size |-> size]
Plain == [filters |-> {}, ill |-> FALSE, hex |-> FALSE, limit |-> Text(0, Bare, 0), symbols |-> FALSE,
          parameters |-> FALSE, locals |-> FALSE, continue |-> TRUE, all |-> TRUE, indexes |-> <<>>,
          types |-> <<>>, streamhex |-> FALSE]
MCFilters == {
  {Filter("memory_area", 2), Filter("thread_id", 1), Filter("type", <<"*", "i">>)},
  {Filter("memory_range", Interval(2, 5)), Filter("memory_range", Interval(3, 1)), Filter("module", <<"?", "i">>)},
  {Filter("memory_range", Interval(2, 1)), Filter("memory_range", Interval(2, 5)), Filter("memory_area", 6)},
  {Filter("module_base", 9), Filter("module", <<"m", "*">>), Filter("type", <<"f", "*">>), Filter("type", <<"i">>)},
  {Bad("thread_id"), Filter("memory_area", 5)}, {Bad("memory_area")}, {Bad("module_base"), Filter("thread_id", 3)}}
Limits == {Text(0, Bare, 0), Text(2, Bare, 0), Text(1, "k", 1), Text(4, "m", 2)}
MCCommands ==
  {[Plain EXCEPT !.filters = f, !.hex = h, !.limit = l, !.continue = c] :
     f \in MCFilters \cup {{}}, h \in BOOLEAN, l \in Limits, c \in BOOLEAN}
  \cup {[Plain EXCEPT !.filters = f, !.symbols = TRUE, !.parameters = p, !.locals = l] :
     f \in MCFilters \cup {{}}, p, l \in BOOLEAN}
  \cup {[Plain EXCEPT !.all = FALSE, !.indexes = i, !.types = t, !.hex = TRUE, !.continue = c, !.streamhex = s] :
     i \in {<<>>, <<2, 1>>, <<5>>, <<4, 8>>}, t \in {<<>>, <<"handles", "handles">>, <<"memory64">>, <<"threads_ex">>},
     c, s \in BOOLEAN}
  \cup {[Plain EXCEPT !.ill = TRUE], [Plain EXCEPT !.limit = Text(3, Unknown, 0)]}
=============================================================================
