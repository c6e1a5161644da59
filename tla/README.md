# DbgHelpUtils: specifications, checks and proofs

DbgHelpUtils reads Windows minidumps. The library opens a dump, gives access to
its streams and to the memory of the process, rebuilds the process heaps from
that memory, and analyses them: which allocations are live, how they point to
each other, what differs between two dumps. MiniDumper is the command line
program over it, ValidateHeapEntries the test program.

This directory holds TLA+ modules of the parts of it that decide something, the
TLC configurations that check them on small dumps, and proofs of the most
important properties for dumps of any size.

    tlc -config MCAllEntries.cfg MCAllEntries.tla       # any run below
    tlapm AllEntries_proofs.tla                         # any *_proofs module

Contents: [the system](#the-system-and-its-parts), [modules](#modules-and-the-code),
[runs](#runs), [fairness](#fairness), [proofs](#what-is-proved),
[disagreements with the code](#where-code-and-documentation-disagree),
[boundaries of the code](#boundaries-of-the-code-the-models-show),
[what is missing](#what-is-not-modelled), [plan](#plan).

## The system and its parts

Everything runs on one thread. What makes the program hard is not interleaving
but order: caches that are filled on the way, maps whose lookups are right only
for what was inserted before, loops that have to end over data of a damaged
process, recursion that is cut off and taken up again, lazily run coroutines
whose caller may stop in the middle, and callbacks out of `dbghelp.dll` in the
middle of calls into it.

| Part | State it keeps | Operations | Correct if |
|---|---|---|---|
| `process_heaps`, list of allocations | a `std::map` by last address | `all_entries`, `all_free_entries`, `add_heap_entry`, `match_crt_entry` | the list holds the innermost blocks, each once; a block is in exactly one of the two lists; building it does not throw |
| `process_heaps`, caches | entry and free caches, filter caches, base dump | `entries`, `free_entries` (generators), `set_base_diff_filter`, `clear_base_diff_filter`, `is_address_filtered` | a loop shows the exact difference to the base dump that is set |
| `process_heap_entry` | ranges, request number, stack trace | `user_address`, `contains_address`, `operator==` | two dumps agree on what the same allocation is |
| statistics views | entries by address, buckets | `enumerate`, the views, sorting | every entry is in one row; rows are in order |
| `process_heap_graph` | nodes, references by node index, node cache | `generate_graph` and its steps | references lead to nodes that exist, both ways; the filter removes what the system holds and nothing else |
| graph display (MiniDumper) | stack of display states, printed nodes, call depth | `generate_display_node_and_print`, `display_node`, `continue_display_node` | every reference is shown, no node twice, the display ends |
| `mini_dump_memory_walker` | stack, memory lists, loaded files | `get_process_memory_range`, `find_memory_range`, `read_process_memory`, `load_pe_file`, `get_module_base_routine` | bytes are those of the address; what the dump has is found |
| `mini_dump_memory_stream` | position, range at hand, end | constructor, `read`, `skip`, `find_pattern` | reads go on over the seams of ranges, and end |
| memory lists, module lists | sorted ranges (never change) | `find_any_address_range`, `find_module` | the range or module that holds the address |
| `pe_file`, `pe_file_memory_mapping` | files by base, ranges by last address | `load_pe_file`, `find_loaded_pe_file` | a file that was loaded is found |
| list and tree walkers (`list_entry_walker`, `rtl_rb_tree_walker`, `rtl_balanced_links_walker`, the lists of `crt_heap` and `dph_heap`) | the position, or a stack of them | `entries` | every entry once; ends unless links are cyclic |
| `cache_manager`, type caches | one cache per type name; fields found in a type | `get_cache`, `has_cache`, `setup_globals`, `find_field_in_type` | what is found in a cache was filled completely and is what was asked for |
| NT heap readers (`nt_heap`, `heap_segment`, `lfh_segment`, `heap_entry`, ...) | position, uncommitted ranges | generators of blocks | the blocks of the heap, in bounds |
| segment heap readers (`segment_heap`, `heap_vs_subsegment`, `heap_lfh_subsegment`, ...) | page ranges, bitmaps | generators of blocks | the same |
| debug page heap reader (`dph_heap`) | position in lists and a tree | generators | the same |
| debug CRT reader (`crt_heap`) | position | generator of blocks, filter by a base dump | every block once; ends |
| symbol engine, memory walkers that share it | dbghelp session, modules, types, download state, one global callback | load modules, look up types, walk stacks, show downloads | each image is the dump's, each type the module's; a callback finds a walker that lives |
| type information and type walking | types come to, addresses found, calls | gathering pointers, showing variables, types and memory, reading fields | what can be reached is found and shown with the values of the memory; ends |
| process environment block | field offsets | accessors of heaps, TEB, globals | field reads by type information |
| `mini_dump` and its streams | mapped file | signature, directory, index of streams | a damaged dump fails and is not shown |
| stack dumps, stack traces | none | walk and print | done by `dbghelp.dll` |
| units, text, file system helpers | none | sizes, masks, enumeration of files | a text says the value it stands for; a file is enumerated once |
| MiniDumper | options | the loop over files, one function per view | every file is processed with its own base dump; filters select what they say |
| ValidateHeapEntries | what the allocating program logged | checks of one dump and of two | the verdict is right |

How they work on each other: the symbol engine and the type information need
memory and get it from the memory walker through callbacks; the walker asks the
symbol engine for the file of a module that a read runs into and loads it, in
the middle of that read. The heap readers go through memory streams of the
walker, and get the layout of the system's structures from cached types.
`process_heaps` runs the heap readers of every heap of the process, and hands
the blocks on to `add_heap_entry`; its generators are run by the graph, by the
statistics, by the test program and by MiniDumper, which also sets the base
dump. The graph takes the allocations once and looks them up by address from
then on; the display takes the finished graph and looks nodes up by index.

`PROJECT.json` has the same list with the state of each part, and the hazards
of the code line by line with the properties that speak of them.

## Modules and the code

`A <- B` reads: B EXTENDS A. `MC...` modules give the constants of the module they
are named for, `..._proofs` hold its theorems.

    HeapRanges <- HeapEntryMap <- AllEntries
    HeapRanges <- InnermostAllocations      (abstract: HeapEntryMap implements it,
                                             AllEntries implements both)
    HeapRanges <- HeapGraph
    ProcessHeapsCache <- Statistics <- ValidateDump

    HeapEntry, HeapRanges <- NtHeap
    NtHeap, SegmentHeap <- HeapReaders <- HeapListing

    MemoryWalker, Texts <- StreamLists <- MiniDumper

    TypeTable <- PointerGather <- VariableDump
    TypeTable <- FieldAccess, TypeDump, AddressDump
    VariableDump, FieldAccess, TypeDump, AddressDump <- TypeWalk

    GraphDisplay, ListWalkers, SymbolEngine stand alone.

Modules that work on each other are composed in one state machine: what a part
is asked and what it answers is then what the other part does, not an
assumption. Where a module takes the work of another one as input, its
properties are checked over all inputs the other one can give.

### Lists of allocations

**HeapRanges** is the address arithmetic shared by all: `get_last_address.h`
(an empty block has its first address as last one), containment as
`does_entry_contain_entry` computes it, `lower_bound` by last address, and
`does_memory_match_to_range` of two ranges. `WellNested` is what the real blocks of a dump
satisfy: any two nest or are apart.

**InnermostAllocations** is what the list of allocations promises, without a
map: blocks are reported in any order; a new one is shown unless it contains
one that is shown, and hides those that contain it.

**HeapEntryMap** is `process_heaps::add_heap_entry`. `entries` is the
`std::map` keyed by last address; since the key is a function of the entry, the
map is the set of its entries. `AddHeapEntry` has the ways of the code: the
container that is skipped, the container that is erased first, the `emplace`
that must not meet its key, and the exception (`failed`). `added` is history.

**AllEntries** extends it by the walk of `all_entries`: memory ranges, then heap
by heap the stages of its type (`StagesOf`), each block tested as its stage
tests it (`Considered`), matched with the debug CRT (`EntryOf`,
`match_crt_entry`), and passed on to `AddHeapEntry`. `lfh_data` is what the LFH
stage of an NT heap hands to its segment stage; with that of another heap, or with none, an
internal block would be added that is no allocation, which `ReportedExactly` says never
happens. `FreeEntries` is `all_free_entries`, which changes no state and so is an operator. The blocks a
heap reader yields are input; that it yields one twice is not excluded where the code does not.
`Finished` is the list that was returned.

**ProcessHeapsCache** is `entries`, `free_entries` and the caches, for a dump and
its base dump. The generators are modelled resumption by resumption: `Begin`,
`Resume` (skip, yield and store, replay), `Finish`, and `Abandon` for a loop
left early, whose half-filled cache stays: no caller in this repository leaves one, but the
generator lets it, so the model and the proofs do as well. Entries are the same (`Same`) by place, size and
request number, as `process_heap_entry::operator==` compares them, and
`IsAddressFiltered` asks for place and size. The history `made` says which
allocation of the program an entry stands for, which the code cannot see.

**Statistics** extends it by `process_heaps_statistics`: the loops `enumerate` runs
over both lists (`TakeTable`), and the views built of them: rows by size, by range
of sizes, by stack trace and by the place in the application (`Rows`), with counts, sums
(`Columns`) and the order asked for (`Sorted`). The views read what the loops
left in the caches, which is why they belong here.

**ValidateDump** extends that by the test program: `validate_dump_file` of the first
dump, and of the second one with the first as its base. It runs the loops over the
lists as any other caller (`TestBegin`, `TestResume`, `Collect`), sets the base dump
(`MakeBaseHeap`) and gives its verdict (`Judge`), with each of its assertions as a
part of the verdict; an allocation at address 0 is left out of its maps and fails the file
(`Taken`, `AddressesAccepted`). `OpenSecond` opens both dumps anew, with empty caches.

### Readers of heaps

**HeapEntry** is the arithmetic of `heap_entry`: from seven bits of unused bytes,
an end gap in a stack trace header, or a word at the end of the block it
recovers where the user data begins and how much was asked for. It has no
state. `Constructed` says that the constructor neither divides by zero nor
throws in `validate_entry`. `WrittenFor` is what Windows writes for a request, as
far as the code relies on it, and so is not taken from the sources.

**NtHeap** reads one NT heap. `VisitUncommitted`, `VisitUnreadable`, `VisitEntry`
and `EndSegment` are the ways through the loop of `heap_segment::entries`;
`TakeRecord` is a turn of the loop of `build_subsegments` together with the
entries of the subsegment it keeps; `NextZone` begins the next zone, for which
the code walks all segments again; the virtual blocks and the free list come last. A
header is a record of the fields the code uses, after decoding; addresses are bytes,
and memory is present or missing by granules. Next to what the dump has, a heap
carries what is really in it (`blocks`, `damaged`, the places of its entries),
which only the properties use. Lists of segments, zones and uncommitted ranges
are sequences: following their links is ListWalkers'. `IsLaidOut` says how Windows lays such a heap
out, as far as the reader relies on it; HeapReaders assumes it of its input.

**SegmentHeap** reads one segment heap: the page range descriptors of its segments
with the search for the first descriptor of a range, the chunks of the variable size
subsegments with their padding and unused bytes, the subsegments of the LFH bucket by
bucket and slot by slot with the bits of their bitmaps, and the tree of large allocations. Each may meet
a page that is missing or a field that is damaged, where the code ends a loop, goes on
with a default, or throws. `SegmentHeapIsLaidOut` says what the reader relies on here.

**HeapReaders** is one process with an NT heap and a segment heap, read in the order of
the PEB; an exception out of one reader loses the heaps behind it. **HeapListing** is
the other caller of the readers, MiniDumper's listing with hex dumps: LFH subsegments
are read first, kept, and printed when the entry they lie in comes by.
`NtHeapCases` and `SegmentHeapCases` hold the heaps the run reads.

**ListWalkers** is the following of links, in one machine for five walks: rings of
`LIST_ENTRY` with plain and coded links, red-black trees, balanced links, the CRT's
list of blocks with its filter, and page heap's ranges. With a base dump the CRT's list is
walked in both dumps, the base's first, unless the dump's own list is not in use
(`StartUnused`). A graph is a total function
of links over nodes that may be missing; no walk remembers where it has been.

### Graph of allocations

**HeapGraph** is `generate_graph`. `work` is the order in which globals, threads,
CRT blocks and heap structures are collected, part by part (`Collect`, `NextPart`), then references are
linked node by node (`LinkNode`, with the skip of `find_pattern`), nodes pruned
(`Prune`), system nodes gathered in rounds with `result_cache` (`Gather`,
`GatherAgain`), marked (`MarkGathered`) and removed (`RemoveSystem`). Where the
code marks a copy of a node, the model marks nothing. The type information
(where pointers are in a structure) is input.

**GraphDisplay** is the recursion of `display_node`/`continue_display_node` and
the loop of `generate_display_node_and_print` that takes it up again. `depth`
is `call_depth`; when a call reaches the limit all calls return at once, which
is `depth' = 1` with the saved states left on `node_stack`. The histories
`expanded`, `started`, `shown`, `lost` record what was displayed.

### Memory, streams and the main program

**MemoryWalker** is the reading part of the walker and its streams. A source
answers with a position and a size; `get_process_memory_range` and
`find_memory_range` differ, as in the code, in the size they pass on to the
next source. A stream is read in `Chunk`s, one turn of the loop of
`process_data` each, and the fetch at a seam may load a file
(`load_pe_file`) or throw. The file of a dump has a length: `rva32` throws for a range that
does not end in it, and with it go the ranges of the same read that were found before, but lets a
range pass that is longer than the whole file, where the difference it compares with wraps. The range of a
stack is tested in that way once, when its thread is read. What is read is recorded as positions (`out`), which
`StoredAt` compares with where the byte of the address is stored. Addresses
wrap around at `Top` as 64-bit sums do in `range_units.h`.

**Texts** are the pure parts: `to_wstring` and `from_wstring` of sizes with their loss of
digits and 64-bit overflow, `wildcard_match`, and `enumerate_files` over paths with
masks, missing directories and entries that are no dumps. **StreamLists** is the listing
of memory, threads with stacks, modules and handles, each with its filters, and the
ranges `--memory_range` cuts out; variables of a stack are read with the walker of
MemoryWalker while it lists. **MiniDumper** is the main program over both: the loop over the
files with the base dump of the same rank, `mini_dump::open_mini_dump` with every way to
fail, the streams asked for, and the exit status.

### Symbols and types

**SymbolEngine** is the engine that the walker of a dump and that of its base dump share.
`loads` is the stack of loads; in a load the ways to an image are tried in turn
(`WayOpens`, `WayFails`, `NoWayOpens`), and each may read memory through the callback
(`DbgHelpReads`) or throw. `walkers` opens and closes walkers in the order the commands nest them,
`callback` is the one global pointer. `request` is what a reader wants: a type, a
filled cache (`setup_globals`, which creates the entry before it fills it), or a stack
walk, whose frames give parameters and local variables, with registers as slices of a
thread's context in the width their number says. The modules that are still to be loaded for a
lookup are places in the dump (`todo`); of those with the name asked for the first is taken
(`Named`, `find_module`). What the symbol server does while a load runs is an actor of its own (`activity`):
it begins an activity, which may be the download of a file or not, gets on with it, and ends it, one
at a time. The engine has only the lines of the log, and those of all activities end alike; it follows them with
`StartDownload`, `DownloadPercent` and `DownloadComplete`. That activities do not nest, and that each has its
closing line, is assumed of the server. Files of the search path are matched with the image by checksum. What
`dbghelp.dll` does itself is external, given by constants.

**TypeTable** is what the symbol files say of types and what the memory holds, and the
reading of numbers from a limited stream. Over it: **PointerGather** collects
every pointer reachable from a structure (`gather_all_pointers_from_symbol`);
**VariableDump** shows a variable, its recursion as a stack of calls each with its own
stream; **FieldAccess** finds a field by a path of names and reads it (`stream_utils`,
`find_field_in_type` with what a type remembers); **TypeDump** shows the layout of types,
each once; **AddressDump** shows memory as numbers, texts or bytes, at an address that is given
with "-", "!" or both, taken apart in the order of the code (`Place`). **TypeWalk** is one
process that does such jobs one at a time.

Definitions whose name begins with `Slip` are no part of the specifications.
Each is a mistake its neighbour could have, and shows that a property would
notice: `PROJECT.json` lists which takes whose place.

## Runs

Every run of the first table passes. Runs of one machine share its state space, so a
run may cover several modules. Deadlock is checked where the machine goes on
for ever or has an explicit last step (`all_entries`, `process_heaps_cache`, `memory_walker`,
`symbol_engine`); the others stop when the work is done.

| Run | What it covers | Why the bounds are enough |
|---|---|---|
| `all_entries` | Dumps of one heap of each type, of two heaps, and of a heap in the memory of a block of another one, with every combination of free, plain, CRT-used and CRT-freed blocks, in every order within a stage | every stage of every heap type has a block, the LFH subsegment has its internal block, two NT heaps have one each whose entries may all be free, a large and a virtual block fill their memory range; `add_heap_entry` looks at one neighbour, and a container, a part and one beside it are there. The theorems cover all sizes. |
| `process_heaps_cache` | every history of two blocks between two dumps with and without request numbers, all orders of loops, early exits, setting and clearing the base; larger lists for the tables; the test program over two dumps as claimed or with one thing wrong in claims, bytes, CRT blocks, matches or marks | two blocks let a filter hold one and not the other; the two lists and the two dumps are all there are. Sizes lie on both sides of the width of a range (`RangeSize` = 4), stacks go through the system and two places of the program. Every assertion of the test program has a case that breaks it alone. |
| `heap_graph` | three allocations that point to each other in chains and cycles, a global variable of the program, of a system module or of a filtered type, a heap structure beside, in, or with a pointer in an allocation, each option | three allocations are the shortest chain with a middle, and a cycle of three decides the rounds of pass one. Options other than the default are combined with the structure inside an allocation, where the most marks meet. A pointer has `PointerSize` = 2 cells, so a pattern can lie across two. |
| `graph_display` | all graphs of four nodes with up to two references each, and call depths 2 to 6 | four nodes hold a diamond with a tail; a chain of four needs five calls, so the limits lie on both sides |
| `memory_walker` | eight dumps, three calls each with every address and two lengths: stack inside of a list, lists with gaps, both lists, files next to each other, files longer and shorter than the image, missing and bad files, ranges stored in another order, files cut off in a range, in one behind it or in one of the other list, a range longer than its file; and runs of MiniDumper over files, masks, missing paths, base dumps, damaged dumps and every filter | a read of 4 crosses two seams; the third call (`MaxCalls`) sees files the first two loaded. `Top` = 9 keeps the top address in reach. Two dumps with two base dumps are where the pairing can slip. A size has two units above the byte and wraps at `Width` = 64. |
| `heap_readers` | about 1,900 processes: NT heaps, x86 and x64, with and without stack traces, beside a usual segment heap; and segment heaps beside a usual NT heap; each with pages missing, with requests of all kinds of sizes, or with one damaged header; read by the analysis and listed | a header can be missing or damaged before, in and behind each internal block, in each segment, and in virtual and large blocks; requests lie on both sides of every case of `get_unused_bytes` that a real header reaches; a bitmap goes over two words on two pages |
| `list_walkers` | every structure of a head and up to three nodes whose links lead to any of them, to the head or to 0, with any node missing, for the five walks; with a base dump's list for the CRT, sound or cyclic, and the dump's own in use or not | three nodes hold a cycle that misses the head, a shared node and a tail; `MaxPending` = 4 bounds the stack of a tree walk, which a cycle fills |
| `symbol_engine` | three phases of commands over two files and a base dump, with an application, a library in two versions, a module that cannot be loaded and an unloaded one; every way to an image, downloads and other activities of the symbol server, exceptions, stack walks | two walkers (`MaxWalkers`) are the most the commands nest; three requests (`MaxRequests`) are a failed one, one after it and one that finds what they left; a byte has two values, so a register's parts differ |
| `type_walk` | two tables of types: lists, base classes, static members, arrays of structures and of pointers, pointers to pointers, nested structures, bit fields; pointers without a type, and to such; memory with cycles, with a gap in a structure, with missing parts and that ends in a structure; addresses shown in every way, with and without a size, and asked for with the separators in the wrong order | `MaxCount` = 2 elements are a first and a last; two nodes make a cycle; a text of `MaxText` = 2 has a first row and a rest; `MaxSize` = 12 stands for 2^64-1: it is more than the memory has, so numbers and texts have to end without it, while a hex dump without a size goes through the rows of all of it, of which most are empty. That this is practically endless in the code is outside of the bound |

These three end with a counterexample, see [below](#where-code-and-documentation-disagree):
`all_entries_large`, `memory_walker_unloaded`, `symbol_engine_types`.

What the properties say is in the comments over them. Some are conjunctions of parts
that fail for different reasons: `EntriesRight` (the list is innermost, apart and never
throws), `FilterRight` (`AddressFilterIsRight`, `NewAllocationsShown`), `StatisticsTrue`
(`EachInOneRow`, `CallsitesCommon`, `InOrder`), `GraphSound` (`ReferencesPaired`,
`GraphNeverThrows`), `MarksRight` (`FilterExact`, `CrtAllocationsKept`), `StreamsTrue`
(`OrderedBytesAreTrue`, `ShortOnlyAtGaps`), `AnswersTrue` (`TypeOK`, `FoundIsReadable`,
`ReadIsTrue`), `BlocksShown` (`NtBlocksShown`, `SegmentBlocksShown`),
`BlocksReal` (`ShownBlocksAreReal`, `SegmentShownReal`),
`DataShown` (`TypesShown`, `AddressShown`),
`CallbacksSafe` (`NeverReentered`, `CallbackLives`). Most are comparisons of
what a long order of steps left with a formula over the input: `EndedIsExact` with the
difference of the dumps, `FilterExact` with what the system can reach, `GatherExact` with the
closure of the pointers, `EachDeliveredOnce` with reachability, `VerdictRight` with the
claims, `FilesProcessed` with the ranks of the files.

## Fairness

The program has one thread, so a step that can be taken is taken: weak fairness
of the whole next-state relation in `HeapGraph`, `GraphDisplay`, `HeapReaders` and
`HeapListing`, `ListWalkers` and `TypeWalk`. In `ProcessHeapsCache` and what extends it
only the resumption of a generator is fair (`Resume`, and `TestResume` where the test
program runs it): a loop body returns to its generator, but nobody has to begin a loop,
and any may be left early. `HeapEntryMap`, `AllEntries`, `MemoryWalker` with what
extends it, and `SymbolEngine` have no fairness and no liveness property.

`ReadingEnds` leaves out headers of size 0, at which a free block really is yielded
forever; `StopsUnlessCyclic` says exactly which structures a walk does not end on, a base
dump's cyclic list only if the dump's own list is in use. `WalksEnd` is about the loops of
`AddressDump` for a size that can be counted to.

## What is proved

The theorems hold for every value of the constants that satisfies the
assumptions in the modules, not only for the dumps of the runs.

* **AllEntries_proofs**, first about HeapEntryMap: types, disjointness, that the exception cannot be reached, that the
  entries are the innermost blocks, and two more: `LookupFindsOwner` (a lookup by `lower_bound` finds the block that holds
  an address) and `ReplacedByInner` (an entry leaves only for one inside of it). The
  inductive invariant adds two facts to disjointness. `Covered`: every block
  added so far contains an entry, so nothing is lost although most of the
  containers of a block are never compared with it. `Minimal`: an entry
  contains another added block only if that block contains it too. With them,
  the one neighbour that is compared is the only entry that can be related to
  the new block: in a set of disjoint entries, sorted by last address, any entry
  that contains or is contained in the block is, or hides behind, the lower
  bound of its first address. Theorem `Refinement`: the map implements
  `InnermostAllocations`.
  Assumption: the blocks of a dump are well-nested. This includes that an empty
  block does not begin exactly where another one ends: its last address, by
  `get_last_address.h`, would be the same as its first.
  Then about AllEntries: the walk over all heaps is an order of calls of
  `add_heap_entry` (lemma `WalkImplementsMap`), so all of the above holds for the list
  of any dump whose reported blocks are well-nested (`WalkIsSafe`). `WalkTypeCorrect` is
  the type invariant of the walk itself, for heaps of the three types.
  `ReportsStayExact` says what those calls are made with: of any dump, however many heaps
  and in whatever order a stage yields its blocks, with what the heaps report and nothing else (`ReportedExactly`).
  At last the end of the walk, from `WalkInv`. `NothingIsLeftOut`: of every block that a stage
  considers, its entry was added, or the block is ahead of the walk (`Counted`). It needs
  `SubsegmentsKnown`: the segment stage of an NT heap only ever runs on the LFH data of that
  heap. `AllocationsShown`: since a memory range comes before all blocks, one that holds a
  block has made way for it (`RangesGiveWay`). `EveryCrtBlockFound` puts these together with
  `InnermostEntries`: the entry that is made of the block around a CRT block is not contained by
  nor contains another one, so it is shown, and a lookup by the user's address finds it; the other
  half is about `FreeEntries`. `LiveOrFree` compares the two tests of the CRT's list,
  which look up different addresses.
  Assumptions: a block is reported by a stage of its heap (`BlocksAssumption`), and none goes
  beyond the memory range it is in (`RangesAssumption`). `CrtAssumption` is how the debug CRT uses a heap: its blocks are whole
  allocations of their own, with a header before and a gap behind the user data, and it
  makes no heap in its own memory. The first matters: with two CRT blocks in one
  allocation, `match_crt_entry` takes one of them and the other is not found.
* **ProcessHeapsCache_proofs**: `CachesStayExact` and `FilterStaysRight`, for lists of every
  length, whoever runs the loops (MiniDumper, the statistics or the test program,
  through `TestSpec`), and `CacheTypeCorrect`. The invariant (`CacheInv`) says what a
  cache can hold: a filter cache nothing or the whole list of the base dump
  (`FilterCache`), a cache that no loop fills nothing or the whole difference
  (`FullCache`), and one that is being filled what its loop has shown of the places it has
  passed (`FillingLoop`); a replay stands within its cache (`ReplayingLoop`). `Picks` carries
  the order and the "each once". `Stored` adds that caches have entries of their own list
  even when a loop was left early, which `is_address_filtered` needs; `LoopCollects` ties the test
  program to its loops. Assumptions: entries are what `AllFound` collects
  (`ContentsAssumption`), and `MadeAssumption`, which is about the program and not
  this code: an allocation looks the same in both dumps, and the debug CRT gives no
  request number twice.
  `VerdictCorrect` is about the test program, for every pair of dumps. `CollectInv` says what it
  has after each step: nobody but it runs loops, and it leaves none early (`WholeLoops`), so
  the maps it makes are the lists and their differences, less what has no address (`CollectedLists`); the graph's nodes are those of
  the cache the loop left (`CachedForGraph`); and who gets to the second file has passed the first (`FirstPassed`).
  When it judges a dump that has an address for each allocation (`ReadyToJudge`) the verdict is a formula
  over the dumps; any other fails. As entries do not
  overlap, the first entry found is the only one that has the allocation, so each assertion
  is about the entry the program made. In one direction, `HeldAllocationsAreThere` and `NewCrtBlocksAreThere`; in
  the other, `CleanIsSuccessful`. Assumption (`TestDumpsAssumption`): no list of a test
  program's dump has a byte twice, which is what AllEntries proves of the list of allocations. The statement
  excepts what the program cannot see, `Overlooked` and `Reused`, see
  [below](#boundaries-of-the-code-the-models-show).
  `StatisticsCorrect` is about the tables MiniDumper prints of what its loops collect: every
  entry is counted in one row, a row's total is the sum of what is counted in it, a call site
  named for a row is on the stacks of all its entries, and rows and entries are in the order
  asked for. The invariant (`StatisticsInv`) says that a table is one of the list it was made from
  (`TakenRight`, `ViewRight`); that such a table is right (`TableIsRight`, `TablesAreTrue`) is about no step. A row is
  what has one key (`KeysPartition`). The sums are folds over sets: such a fold is one value of
  a recursive function (`Sums`), and that there is one is shown without an induction rule,
  by the least number of elements at which there is none (`SumsExist`); what it adds up to, in the same
  way (`SumsAddUp`). Assumptions: a list has no block twice, and sizes are numbers (`EntriesAssumption`); the columns a
  view sorts by are those it has (`ViewsAssumption`).
* **HeapGraph_proofs**: `GraphStaysSound` (references paired, no exception) and
  `GraphTypeCorrect`, for any scene. The invariant says for each stage which nodes may have references
  yet (only those before the cursor), that indices stay those of the nodes
  (`NodesOK`, `Appending`), that after pruning every reference is paired
  (`Linked`), and that the cache names only nodes that exist (`Gathering`).
  That a node with a mark is always one that references were taken out of is
  where `result_cache`, written by the predicate of `remove_if`, is needed.
  `MarksStayRight` states what the passes come to: what is filtered is exactly what the system holds.
  `MarksInv` relates the marks of each stage with the formula at the end. While nodes
  are collected an allocation has a mark only if something marks it (`Marks`), and what
  is still to mark is in `work` (`Performed`, by the parts of `WorkLeft`). A location that
  `ignored` has is skipped by later structures, which is right only since whoever put it there
  has marked what it points to. Globals mark when they are linked, so `HeldSoFar` counts
  those before the cursor. The rounds of pass one mark no allocation that is not marked yet, so none has to
  be a fixed point. Assumption (`LayoutAssumption`): allocations and CRT blocks are apart, as the
  theorems about AllEntries say, a structure that has a pointer in an allocation lies in its
  user data, and two globals at one address are of one type.
  About the display (`GraphDisplay`): types and call depth, `StatesStayPath`,
  `NodesDescendedOnce`, `NothingIsLostWithinDepth`, `LabelsAreTrueWithinDepth`.
  The invariant ties the stack to the marks: the states form a path of distinct
  nodes, every node that was descended into is printed, and the depth never
  exceeds the path. The bound needs the pigeonhole principle: a path of
  distinct nodes is no longer than the number of nodes (`PathIsShort`).
  `EveryReferenceDisplayed` holds without that bound, for every call depth from 3 on: whatever the limit
  cuts off below, each node is displayed once at the left margin with all of its references.
  `RootInv` follows the state at the left margin through all the times
  `node_stack` is saved and taken up again: it has no limit on its references,
  all it has passed were displayed, and every other node is in the queue or done. Assumption: the order
  of the display lists every node (`IsScene`).

* **HeapReaders_proofs**, first about one entry: `RequestRecovered`. Of every header the allocator writes
  (`WrittenFor`), with or without a stack trace header, x86 or x64, `heap_entry`
  recovers the address and the size of the request, its user data lies in the block, and its
  constructor returns. The proof goes through the cases of `get_unused_bytes`: which
  of them a written header reaches, and what each computes there. It rests on
  `WrittenFor` only: a one-granule x86 entry with unused bytes, which the allocator
  does not write, divides by zero.
  Then about the readers, `NoBlockIsLost`, of two theorems. `NoNtBlockIsLost` is
  for NT heaps of any number of segments, zones, records and
  blocks, whatever the dump lacks, and whatever damaged headers say. If the reader comes to
  its end, every block of the program that no missing or damaged header is before (`Reachable`) was
  reported, with its address and size if the dump has what says so, and stays
  in the list when what holds a subsegment is filtered out. The invariant has three parts.
  `SegmentsInv`: as long as no header on the way was missing or damaged, the walk stands at an entry or at an
  uncommitted range, so that none is stepped over; all entries passed in that way are
  collected. `LfhInv`: of the records the current zone has passed (`Taken`), and of those of
  all earlier zones, the blocks are reported; this needs that the gathering walk was complete when a record is
  looked at, since a subsegment counts only with the internal entry it lies in.
  `VirtualInv` is about the end. The filter is where the parts meet: a block of the program that seemed to hold a
  subsegment would vanish, so a segment block or an LFH block that is not internal is safe, and a virtual block is since no
  record leads into it.
  Assumption: the heap is laid out as Windows does it (`IsLaidOut`, of which TLC evaluates that all
  heaps of the run are). Entries and uncommitted ranges follow each other to the end of the segment; the headers
  of the program's blocks are as written; a subsegment begins in an internal entry, and its
  records say where and how far apart the blocks are; no record, be it a stale one, is of memory that is now a virtual
  block. What a damaged header says, and what stale records lead to otherwise, is left open.
  `NoSegmentBlockIsLost` is the same for segment heaps of any number of ranges, subsegments, buckets, slots
  and large allocations. For each kind of block a lemma says that the reader gets back what the
  allocator wrote (`RangeRecovered`, `ChunkRecovered`, `LfhBlockRecovered`, `LargeRecovered`), where a padding
  in front of the data and a count of unused bytes behind it have to be told from the data.
  The invariant (`SegmentHeapInv`) says of each part what was read. `ChunksInv`: in a subsegment whose headers were
  intact so far the walk stands at a chunk, and those before it are reported; without the condition
  it would not be inductive, since the size in a damaged header leads anywhere. `BucketsInv`: a subsegment of the LFH
  is ahead in the bucket, in its slot or in the list, or its blocks are reported as far as the words of its
  bitmap are in the dump; `MaskAt` ties the mask, the word and the index of the block
  together. `TreeInv`: the nodes visited and those on the stack are closed under children, so with an empty stack everything
  in the tree was visited. Assumption: `SegmentHeapIsLaidOut`, of which TLC evaluates that all heaps of
  the run are. Chunks follow each other to the end of a subsegment; the words, bits and counts that say how a block
  lies in its memory are as written; a block that has no padding but begins like one is told apart as ambiguous,
  as is a padded block of variable size, where the code reads a member before it is initialised.

  The other way round, `NothingFalseIsReported` (`BlocksReal`), again of two theorems, for heaps in which no header was
  overwritten. `NtBlocksAreReal`: what an NT heap shows as allocated is a block of the program that can be reached, with its
  address and size, or the block of the heap itself at address 0, or an internal block that is apart from
  everything else that is shown. Its invariant (`NtRealInv`) says where each block came from (`SegmentSource`, `LfhSource`,
  `VirtualSource`): that the walk stands where an entry or a range begins with all headers before it intact, and that
  a record was kept only if its first entry is in an internal block that the walk came by. From there on it is about the heap
  alone: of the entries in front of a block of the LFH, the internal one it lies in is the last (`Holder`), so that the record that was kept is
  the record of that block; and an internal block in which a block of the LFH lies is filtered out, so that what is left of them
  is apart, although the data of a block may reach into the header behind it (`Within`, `ApartInTheHeap`).
  `SegmentBlocksAreReal`: a block a segment heap shows as allocated is one of the program or holds a subsegment, and no
  block of the program has a byte in what is shown as free, but LFH blocks behind a lost chunk header (`RealInv`; the rest of
  a subsegment behind such a header needs `SegmentHeapInv`, to know where the walk stands).
  Assumptions, `NtHeapIsTrue` and `SegmentHeapIsTrue`, parts of the two above for heaps that are not damaged: what
  a header says is true. Entries do not reach into each other; whatever is in use is a block of the program, or internal, or holds
  a subsegment; in what is free there is none; virtual blocks have their memory for themselves. Two parts are about more than that. The
  block of the heap itself is smaller than any address in the heap, since the reader shows it at address 0. And where the
  entries of an LFH subsegment are in the dump and look used, so is the header of its user data if it says where the entries are:
  with that header alone missing, the code takes the place and the distance of the entries from other fields, and nothing
  is said of what it finds there.
* **ListWalkers_proofs**: for structures of every size, `WalkIsSearch`: the walk stands where a
  search of the links that remembers nothing else would stand; and `WalkDeliversEach`: a walk
  that ends has delivered each entry that can be come by, none twice if one way
  leads to each. The invariant is that of every search: links of what was visited lead to what
  was visited or is pending. What is reached is the least closed set of nodes, so no
  induction over paths is needed.
* **SymbolEngine_proofs**: `CallbacksStaySafe`, `ReadersStayComplete`, `DownloadStaysTrue`, for every
  number of walkers, dumps and commands. One invariant holds the stack of
  loads to at most one (`OneLoad`); another the callback to a walker that lives, and every
  unfinished cache to the request that fills it (`WalkersInv`); a third (`DownloadOk`) what the engine
  knows of a download, and what it shows, to the activity the symbol server is at.
  A fourth (`LibraryInv`) is about what the engine shares between two dumps, for `LibraryTypesStayRight` and
  `ImagesStayMatched`. `ModulesOk`: what is kept under a path is about a module of that name, of one of the
  two dumps, and the file taken for it has its checksum, although the callback may answer for the
  other dump. `SetupOk`: until the user asks for types, the cache of types
  has only what readers have asked for, each in the module it named. A request of the user's fills it with
  answers of any module, which is why the property ends there (`phase`).
  Assumptions: a type is looked for in one module by all readers (`ReadersAssumption`); and in a process a
  module that is loaded again is the one it was, a version has one checksum, and no other
  module was at the address of a reader's library (`CommandsAssumption`).
  `VariablesShownOnce` is about the variables of a frame, of any number of symbols. They are a fold over
  these; `GathersExist` and `FrameVariables` do for it what `SumsExist` and `SumsAddUp` do for
  sums. In between (`SymbolOk`) both lists show the symbols seen so far: one is passed over only if its place is
  in the list (`FoundAtPlace`), which is where `is_already_found`, that compares a register
  or an offset only for some kinds, needs that a symbol has one kind (`FramesAssumption`).

* **TypeWalk_proofs**: `FieldsAreRight`, for every table of types, memory and order of questions. The invariant
  (`FieldsInv`) says that what a type remembers of a name is what would be found now, so the rest is about no step.
  A name is right if there is a chain of members, each in the structure of the one before (`Ways`): the loop goes
  the one way there is (`WayIsFollowed`), and where it finds something there is a way (`FoundIsOnWay`). The structures
  it comes to are a recursive function; that there is one is shown as for the folds above (`RunsExist`).
  Then one lemma for each function that reads, the bits with their arithmetic (`BitsOfWord`).
  Two things the code lets through are left out by the property, as no caller does them: the element behind the
  last one of an array, and bits in a structure that does not lie at the beginning.
  Assumption (`FieldsAssumption`): a name is that of one member of a structure.
  `DataIsShown` is for every table of types, too, and for every address that is asked for. A type is shown from a
  list of calls. The invariant (`Walked`) says that what follows a visited type is visited or in the list, so at the
  end the visited types are closed; and that what is visited or in the list lies within as many steps as types were
  visited (`LaidGrows`, `ReachedGrows`), which is why the number of types is depth enough for the reference.
  The four loops that print memory have one invariant (`PrintedOk`): what is printed are the
  elements behind the address, all of them held and none past the end, and the stream stands behind the last one.
  Assumptions: the sizes that are asked for are numbers and an element is one or two units long (`RequestsAssumption`).
  `GatheringIsExact` is about the pointers of any number of structures. What is in a structure is given by its parts
  at every depth; as types are nested (`TypesNested`), these are closed under going in (`PartsClosed`). The
  invariant (`GatherInv`) says of the calls to come that each is for a part of a place that may be gone
  through, of each address found that the field it was found in is such a part, and of each pointer in a place that
  must be gone through that it has been dealt with, or lies in a part that a call to come goes into, or in a
  place still to be taken up. When no call and no place is left, this is the property. The two sets of places differ in
  what was come to through a pointer without a type: nothing is looked for in it (`void*`), unless the
  same field is also read as a pointer with one.
  Assumptions: no type is a part of itself (`ScenesAssumption`); elements have a length, an array has no
  more than `MaxCount` of them, and a job begins with its first structure (`GatherAssumption`).
  `DumpIsRight` is about a variable of any type. Each call owes lines (`Owes`): its own, those under its
  type, and those of what the pointers of the outermost type lead to. The invariant (`DumpInv`) says that the lines
  printed and those owed by the calls to come are the lines asked for (`Asked`), so that at the end they are the lines
  printed. A step keeps it because what a call owes is its line and what the calls it makes owe (`CallOwes`);
  the first call owes all (`RootOwes`). The address and the stream of a call are moved on separately: the stream is at the
  address or has come to its end (`StreamOk`), so what is read is what lies there (`CallValues`). Which
  types have lines is closed under going in, by the same lemmas as the parts above (`WithinCloses`).
  A pointer past a gap of the memory is not followed although the dump has it: the stream of the
  variable does not come over the gap (`Reached`; a scene of the run has such a memory).
  Assumptions (`DumpAssumption`): only a structure has members; a type asked for by its name is
  no array of structures and no pointer to one.

* **MemoryWalker_proofs**: `AnswersStayTrue`, `StreamsStayTrue` and `ThrowsStayBehindFiles`, for
  every dump and every order of reads, streams and loads. Below the top address the sums that wrap
  are plain ones, so each source answers for the addresses it has and for no others; a file that
  was loaded stays. From there the invariant (`IInv`) says of a stream where it is in its
  range, that what was delivered is true, that the bytes at hand are the next ones and end
  inside of it (`AtHand`), and that without such bytes it is at its end or before a gap (`GapOrEnd`).
  That several ranges are one piece (`OrderedBytes`) is an induction over their bytes, done by the
  first byte that would be wrong. The exception comes of a range that is cut off (`CutOff`), and then of the first one that a read comes to; or of
  an image (`ImageCutOff`), which needs that the file found for the base of a
  module is also the one found for the address behind its end (`SameFile`).
  Assumptions (`DumpsAssumption`): ranges of a list are not empty and do not overlap, modules
  have different bases, nothing reaches over the top address, and nobody asks for 0 bytes.
  The theorems are about the walker and its clients (`Spec`); that MiniDumper uses it in this
  way is checked by the run, whose specification composes both.

Only model-checked, and why:

* All liveness (`LoopsEnd`, `GraphFinishes`, `DisplayEnds`, `ReadingEnds`, `StopsUnlessCyclic`,
  `WalksEnd`), which is out of the prover's reach.
* What is said with concatenated and filtered sequences (`ListsShown`, `FilesProcessed`), whose
  operators the prover does not know.
* `ListingRight`, the listing of the heaps. Its reference is what the allocator wrote block by block, and what
  it prints depends on the order of one loop in another. The blocks of the readers are an assumption of AllEntries.

## Where code and documentation disagree

Each of these is a run that TLC ends with a counterexample.

| Run | What the code does |
|---|---|
| `all_entries_large` | A block the debug CRT has freed but holds, in a large allocation of a segment heap, is in neither list; the test program asserts all CRT blocks are found. |
| `memory_walker_unloaded` | An address below an unloaded module is said to be in it, and one inside is not. |
| `symbol_engine_types` | "Search all currently loaded symbols" stops at the first module that lacks the type: what the first one answers is cached under the name of the type alone. |

Three more were met on the way and have no run of their own, since what they
contradict is a name or an intention and not a statement of the repository:

* Of two adjacent pointers the graph misses the second: a hit of `find_pattern` skips one
  byte more than the pointer (`process_heap_graph.cpp:215`). The model links as the code does.
* NT blocks outside of the CRT's list are looked up by the address of their header and never
  marked (`process_heap_graph.cpp:736`).
* `[self]` compares a node index with the alternative of a variant
  (`dump_mini_dump_heap_graph.cpp:537`).

## Boundaries of the code the models show

None of these is a statement of the repository that fails; each is a place where a
property had to name a condition, or where a model does something a reader would not
expect. They are kept here because a change of the code would meet them.

**Lists and readers.** The block of an
NT heap itself is reported as an allocation at address 0 (`is_heap_allocation`
leaves its user address 0), and so is an internal block if none of the blocks
in it is found. One unreadable header ends the walk over its segment; the rest
is reported as an uncommitted range. An unreadable `FirstAllocationOffset`, and a
header that leaves its block, throw out of the reader and hide all heaps behind
this one. A block whose stack trace header or end word is missing is reported
with a wrong address or size (`Complete` in NtHeap). Pass one, "gather
all the system nodes" in the code's comment, does not enter allocations that are
already marked as the system's. "Already logged children" is printed of nodes
that the call depth made the display pass over (`LabelsTrueWithinDepth` says
when the label is true). A read over adjacent ranges that the dump stores in
another order delivers wrong bytes, so that `OrderedBytesAreTrue` has to ask for
the order. `find_memory_range` passes a size of 0 on behind a memory list
without the address, so that of two lists it never looks into the second: a dump that had
both could throw for an address the second one holds (`ThrowsOnlyBehindFile` says so). A read that comes to a
range behind the end of a truncated file throws, though its first bytes are there (`CutOff`). A stack range seems to contain the top address
(`FoundIsReadable` and the guard of `BytesAreTrue`). An address behind the end
of a file throws at its second read (`ThrowsOnlyBehindFile`).
The rest of a variable size subsegment behind a lost chunk header is reported free although
LFH blocks in it are allocated. The tree walker on a cyclic tree grows its stack without
bound. `heap_vs_entry.h:101` declares `front_padding_size_` before `size_` and so reads an
uninitialised `size_`. The user sizes of LFH, large and page entries are unguarded
subtractions. A segment heap's free entries never look at large allocations. The CRT's
`is_filtered` ignores the block use. `crt_heap::setup_globals` gets a cache without filling it
when the CRT heap is not in use.

**Listing.** A subsegment is printed under its internal entry, which is not hex dumped then;
the warning about subsegments left over never comes. In a segment heap a
chunk that holds an LFH subsegment is hex dumped although its blocks are dumped again. An
entry of size 0 is printed forever.

**Statistics and verdict.** Percentages are NaN when nothing is allocated; the end of a range
is exclusive; a range of 0 would divide by zero. The verdict is sound and complete but for
two cases. An address used again with the same size and no debug CRT (`Reused`) passes
`validate_allocations` with a warning, and fails at the check of the graph
(`ValidateHeapEntries.cpp:573`), against the comment at line 379. And if the dump's list has an entry
at the address that is too small for the allocation, and the base dump's lists have a block of the place and size
of the allocation, the allocation counts as filtered and the graph has its node: the file
passes, though no entry holds the allocation (`Overlooked`). The fake offset is looked for in
every piece a stream delivers (line 440). A neighbour is read at `end()` (lines 377, 396; the model
says "crashed"). A base dump that cannot be opened lets the file pass (line 645).

**Symbol engine.** Modules are kept by path and types by name, for the dump, its base and
all users of the engine, which is why `LibraryTypesRight` asks that the dumps agree. Closing
any walker clears the callback; the walker of the base dump, while it is open, answers
reads for the main dump. A load that returns 0 with no error counts as loaded. With
`throw_on_error` a load stops at the first way that fails. `load_unloaded_module` asks for an empty path
that exists. A checksum of 0 accepts any file. `loading_module_` is reset before the search for the
file. In 32-bit contexts registers such as R8 and the second byte of one throw out of DbgHelp's
callback and end the dump. The name of a download stays until the closing tag, whatever
that closes: another activity within a download would be taken for its end. The
process parameters of the PEB are set from the field of the heaps.

**Types.** An address is gathered once, with the type of the pointer that came first; if that has
no type, what lies there is not gone through, though a later pointer may have one.
`ignore_pointers` holds addresses of fields but is compared with values of pointers. Base
classes are neither walked nor shown, static members of nested structures would be
laid out at their base. The length in bytes that limits a pointee is used as a number of
elements; the limit of the stream hides it, and makes a `char*` show one character. An index
equal to the count of an array is accepted (`stream_utils.cpp:118`). A nested bit field loses the offset of
its structure (`stream_utils.cpp:281`). A bit field as wide as the type that is read is shifted by its
width. The cache of fields is keyed by a view of the caller's string. `name()` remembers "none"
before it throws, so it throws once. `--address` without size and type asks for 2^64-1 bytes, and a hex
dump goes on with empty rows behind the memory, for practically ever. A `!` before the `-` of an address is not seen.

**MiniDumper.** `*` at the end of a mask has to match a letter. With "continue on errors" a
missing dump shifts the pairing with base dumps; without it, an invalid path ends the run with
success. An invalid signature counts as success. Of two memory entries with the same start only the
first is listed. A range asked for counts only in the entry its start lies in, and of several that
begin in one entry the lowest is shown. A filter value that cannot be parsed fails when a stream
uses it. 5 % is printed as ".5", sizes from 2^63 on are negative, and "16eb" is no limit.
`dump_mini_dump_app_info.cpp:207` prints an entry of the wrong index. `thread_ex_list_stream.cpp:13` looks for the
plain thread list, so an extended one is never found. `mini_dump.cpp:118` subtracts sizes
that wrap when data is longer than the file.

## What is not modelled

Input where a model needs it, and not a model of its own: what `dbghelp.dll` answers
(symbols, types, frames), the file system, the mapped file, and what the allocating
test program did.

Left out, because nothing is decided there or it is wording: the printing of headers,
system information, contexts of threads, TEBs, handles' details, miscellaneous and unloaded
module streams; texts of types, values, stack traces and rows; the totals of a heap; times and other
bases of units; MiniDumper's parsing of options as far as it only sets one.

Left out although it decides something: the section layout of PE files (files are laid out like
their images) and `unload_pe_file`, which has no caller; `find_memory_range_if`, whose stream is
limited to one character already; the fields of page heap entries and the reading of stack
traces behind a UST header; `is_valid` of heaps and the decoding of their headers, which is done
before a model's header begins; `ranges()` of memory streams; source server lookups. AllocationSetupTests,
scripts and vendored files are no part of the program.

## Plan

Done: the lists of allocations with their abstract specification and proofs; the caches, statistics and
the test program over them, with proofs for the caches; graph and display with proofs; memory walker with proofs, streams and
main program; NT and segment heaps with their listing; list walkers and the symbol engine with proofs; types.

What is left, in the order of what matters:

1. Blocks in bounds and apart for both types of heap, as a theorem from `NoBlockIsLost` and `NothingFalseIsReported`: it
   is the assumption of HeapEntryMap (`WellNested`).
2. The fields of page heap entries and UST headers as input of HeapReaders, and the section layout
   of PE files in MemoryWalker.
