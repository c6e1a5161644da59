---------------------------- MODULE SymbolEngine -----------------------------
(***************************************************************************)
(* symbol_engine and the memory walkers that share it.  A dump is          *)
(* processed with one engine and one cache of types; the heap commands     *)
(* open the walker of the dump and, behind it, the one of the dump it is   *)
(* compared with, on the same engine.  Every walker asks the engine for    *)
(* types and loads the modules of its own dump first; DbgHelp reads the    *)
(* memory of "the" process through one global pointer to a walker.         *)
(* DbgHelp itself (what a file provides, which local symbols a frame has)  *)
(* is given by the constants.                                              *)
(***************************************************************************)
EXTENDS Naturals, Sequences, FiniteSets, SequencesExt

CONSTANTS
    Commands,       \* what one start of the program is given: [main, base] dumps, base <<>> when there is none
    Readers,        \* the setup_globals functions
    TypesOf,        \* reader -> the sequence of [module, type] it asks for
    UserTypes,      \* the [module, type] the user asks for; module 0 when none is named
    Frames,         \* frames of a stack [type, context, base, symbols]: the symbols of the frame and of the inlined scope
    FilesOf,        \* module name -> the files of that name on the search path, each [valid, sum]
    Percents,       \* the progress a download may report
    ByteValues,     \* bound: the number of values of a byte
    MaxWalkers,     \* bound: walkers alive at once
    MaxRequests,    \* bound: requests per dump
    None            \* no value

ASSUME ByteValuesAssumption == ByteValues \in Nat \ {0, 1}

(***************************************************************************)
(* The registers a local variable may be kept in or be addressed by        *)
(* (get_registry_value_info).  A register is a part of one of the          *)
(* machine's, [file, bytes]: EAX is [file |-> "A", bytes |-> 4].  A        *)
(* context is the contents of the machine's registers by their file.       *)
(***************************************************************************)
General == {"A", "B", "C", "D"}

Pointers == {"SP", "BP", "SI", "DI"}

Numbered == {"R8", "R9", "R10", "R11", "R12", "R13", "R14", "R15"}

(* The contexts of a 32 bit process, dumped natively or under WOW64, have  *)
(* the same registers; none has the second byte or the byte of a pointer.  *)
Known32(r) ==
    \/ r.file \in General /\ r.bytes \in {1, 2, 4}
    \/ r.file \in Pointers /\ r.bytes \in {2, 4}

Known64(r) ==
    \/ Known32(r)
    \/ r.file \in General \union Pointers /\ r.bytes = 8
    \/ r.file \in Numbered /\ r.bytes \in {1, 2, 4, 8}

IsKnown(type, r) == IF type = "x64" THEN Known64(r) ELSE Known32(r)

(* make_register_value: the low bytes.  Values(b) is the number of values  *)
(* that many bytes have.                                                   *)
Values(bytes) ==
    LET word == ByteValues * ByteValues
        dword == word * word IN
    CASE bytes = 1 -> ByteValues [] bytes = 2 -> word [] bytes = 4 -> dword [] bytes = 8 -> dword * dword

RegisterValue(context, r) == context[r.file] % Values(r.bytes)

(* Addresses have 64 bits.                                                 *)
Sum64(a, b) == (a + b) % Values(8)

(***************************************************************************)
(* The machine's registers have 64 bits; a symbol that lies in one names   *)
(* it.  DbgHelp gives a symbol of one index one kind of place.             *)
(***************************************************************************)
InRegister(s) == s.kind \in {"regrel", "register"}

AtOffset(s) == s.kind \in {"regrel", "framerel"}

ASSUME FramesAssumption ==
    /\ Len(Frames) \in Nat /\ DOMAIN Frames = 1..Len(Frames)
    /\ \A i \in DOMAIN Frames :
          LET f == Frames[i] IN
          /\ \A r \in General \union Pointers \union Numbered : f.context[r] \in 0..Values(8) - 1
          /\ Len(f.symbols) \in Nat /\ DOMAIN f.symbols = 1..Len(f.symbols)
          /\ \A s, t \in ToSet(f.symbols) :
                /\ s.parameter \in BOOLEAN
                /\ InRegister(s) => s.register # None
                /\ s.index = t.index => s.kind = t.kind

(***************************************************************************)
(* Readers ask for types by the module and the name; no two of them ask    *)
(* two modules for a type of one name.                                     *)
(***************************************************************************)
ASSUME ReadersAssumption ==
    \A r \in Readers :
        /\ Len(TypesOf[r]) \in Nat \ {0} /\ DOMAIN TypesOf[r] = 1..Len(TypesOf[r])
        /\ \A i \in DOMAIN TypesOf[r] :
              /\ TypesOf[r][i] = [module |-> TypesOf[r][i].module, type |-> TypesOf[r][i].type]
              /\ TypesOf[r][i].module # 0
              /\ \A q \in Readers : \A j \in DOMAIN TypesOf[q] :
                    TypesOf[q][j].type = TypesOf[r][i].type => TypesOf[q][j].module = TypesOf[r][i].module

IsLibrary(n) == \E r \in Readers : \E i \in DOMAIN TypesOf[r] : TypesOf[r][i].module = n

(***************************************************************************)
(* In a process a module that is loaded again is the one it was; a version *)
(* has one checksum; a library a reader needs is loaded, and no other      *)
(* module ever was at its address.                                         *)
(***************************************************************************)
Modules(pair) == ToSet(pair.main) \union ToSet(pair.base)

IsProcess(dump) ==
    /\ \A m, k \in ToSet(dump) :
          /\ m.name = k.name => m.version = k.version
          /\ m.base = k.base /\ IsLibrary(m.name) => k.name = m.name
    /\ dump # <<>> => \A r \in Readers : \A i \in DOMAIN TypesOf[r] :
          \E m \in ToSet(dump) : m.name = TypesOf[r][i].module

ASSUME CommandsAssumption ==
    \A c \in Commands :
        /\ Len(c) \in Nat \ {0} /\ DOMAIN c = 1..Len(c)
        /\ \A f \in DOMAIN c :
              /\ c[f].main # <<>> /\ IsProcess(c[f].main) /\ IsProcess(c[f].base)
              /\ \A m, k \in Modules(c[f]) :
                    m.name = k.name /\ m.version = k.version => m.sum = k.sum
              /\ \A m \in Modules(c[f]) : DOMAIN FilesOf[m.name] \subseteq Nat

(***************************************************************************)
(* A dump is a sequence of modules [name, base, version, sum, pdb, opens,  *)
(* images, types, unloaded].  `opens' are the ways to load the module that *)
(* succeed on the symbol path, `images' those that succeed once the        *)
(* headers of the image are read from the dump; `sum' is the checksum of   *)
(* the image, 0 when it has none.                                          *)
(***************************************************************************)
VARIABLES
    command,    \* the files given
    file,       \* the file being processed; 0 when the program has ended
    phase,      \* 1 streams, 2 heaps, 3 the types and symbols asked for
    walkers,    \* the live walkers, oldest first: [of, types]
    callback,   \* g_callback: the place in `walkers', or 0
    modules,    \* modules_: name -> [module, image, file]
    found,      \* cache_type_info_: type -> the image it was found in, or None
    caches,     \* {<<"main" or "base", reader, "partial" or "full">>}
    loads,      \* load_module calls under way, innermost last
    loading,    \* loading_module_
    activity,   \* of the symbol server, in DbgHelp's log [open, file, percent]
    download,   \* [engine, module, percent]: downloading_module_name_, and what the user is shown
    request,    \* what a walker is asked for
    todo,       \* places in the dump of the modules load_module is still to be called for
    scan,       \* modules a type is still to be looked for in; None before the search
    answer,     \* of the last lookup: the image or None
    frame,      \* the variables of the last frame
    requests    \* number of requests made in this dump

asked == <<request, todo, scan, answer>>
engine == <<modules, found, loads, loading, activity, download>>
vars == <<command, file, phase, walkers, callback, engine, caches, asked, frame, requests>>

DumpOf(w) == command[file][walkers[w].of]

(* modules_ is a map ordered by the path of the module. *)
Names == DOMAIN modules
ByName == SetToSortSeq(Names, <)

With(f, k, v) == [x \in DOMAIN f \union {k} |-> IF x = k THEN v ELSE f[x]]

(* std::map::insert leaves an entry that is there. *)
Kept(f, k, v) == IF k \in DOMAIN f THEN f ELSE With(f, k, v)

(***************************************************************************)
(* The ways a module is loaded, in the order the code tries them; those    *)
(* with the PDB's signature need a valid record, an unloaded module has no *)
(* record at all.                                                          *)
(***************************************************************************)
Ways(m) ==
    IF m.unloaded THEN <<"default">>
    ELSE (IF m.pdb THEN <<"debug_dirs", "pdb_guid">> ELSE <<>>) \o <<"cv_misc", "default">>

(* CBA_READ_MEMORY forbids the walker to load modules while one is being   *)
(* loaded.                                                                 *)
ReadLoadsModules == ~loading


Request(kind, w, n, t, throw, r) ==
    [kind |-> kind, walker |-> w, module |-> n, type |-> t, throw |-> throw, reader |-> r]

NothingAsked == Request("none", 0, 0, None, FALSE, None)

NoActivity == [open |-> FALSE, file |-> None, percent |-> None]

NoDownload == [engine |-> None, module |-> None, percent |-> None]

NoFrame == [of |-> 0, locals |-> <<>>, parameters |-> <<>>]

Init ==
    /\ command \in Commands
    /\ file = 1
    /\ phase = 1
    /\ walkers = <<>>
    /\ callback = 0
    /\ modules = <<>>
    /\ found = <<>>
    /\ caches = {}
    /\ loads = <<>>
    /\ loading = FALSE
    /\ activity = NoActivity
    /\ download = NoDownload
    /\ request = NothingAsked
    /\ todo = {}
    /\ scan = None
    /\ answer = None
    /\ frame = NoFrame
    /\ requests = 0

Idle == file # 0 /\ request.kind = "none"

(***************************************************************************)
(* The commands                                                            *)
(***************************************************************************)
(* A walker sets the callback to itself.  The walk of a stack has a walker *)
(* of its own; the heaps of the dump are there before those of the base    *)
(* dump; the value of a symbol is shown with a second walker.              *)
OpenWalker(of) ==
    /\ Idle
    /\ Len(walkers) < IF phase = 1 THEN 1 ELSE MaxWalkers
    /\ of = "base" => phase = 2 /\ walkers # <<>> /\ command[file].base # <<>>
    /\ walkers' = Append(walkers, [of |-> of, types |-> <<>>])
    /\ callback' = Len(walkers) + 1
    /\ UNCHANGED <<command, file, phase, engine, caches, asked, frame, requests>>

SlipCleared == callback

Cleared == 0

CloseWalker ==
    /\ Idle
    /\ walkers # <<>>
    /\ walkers' = Front(walkers)
    /\ callback' = Cleared
    /\ caches' = IF Last(walkers).of = "base" THEN {c \in caches : c[1] # "base"} ELSE caches
    /\ UNCHANGED <<command, file, phase, engine, asked, frame, requests>>

NextPhase ==
    /\ Idle
    /\ walkers = <<>>
    /\ phase < 3
    /\ phase' = phase + 1
    /\ UNCHANGED <<command, file, walkers, callback, engine, caches, asked, frame, requests>>

SlipFreshCaches == caches

(* process_user_mode_dump has an engine and a cache of its own.            *)
FreshCaches == {}

NextFile ==
    /\ file' = IF file < Len(command) THEN file + 1 ELSE 0
    /\ phase' = 1
    /\ walkers' = <<>>
    /\ callback' = 0
    /\ modules' = <<>>
    /\ found' = <<>>
    /\ caches' = FreshCaches
    /\ loads' = <<>>
    /\ loading' = FALSE
    /\ activity' = NoActivity
    /\ download' = NoDownload
    /\ request' = NothingAsked
    /\ todo' = {}
    /\ scan' = None
    /\ answer' = None
    /\ frame' = NoFrame
    /\ requests' = 0
    /\ UNCHANGED command

EndFile ==
    /\ Idle
    /\ walkers = <<>>
    /\ phase = 3
    /\ NextFile

FirstOf(places) == {i \in places : \A j \in places : i <= j}

(* find_module: among the modules, and then among the unloaded ones.       *)
Named(w, n) ==
    LET named(unloaded) ==
            {i \in DOMAIN DumpOf(w) : DumpOf(w)[i].name = n /\ DumpOf(w)[i].unloaded = unloaded}
    IN  FirstOf(IF named(FALSE) # {} THEN named(FALSE) ELSE named(TRUE))

Requested(r) ==
    /\ Idle
    /\ requests < MaxRequests
    /\ requests' = requests + 1
    /\ request' = r
    /\ answer' = None
    /\ scan' = None
    /\ UNCHANGED <<command, file, phase, walkers, callback, engine>>

(* The modules a lookup loads: every one of the list, or the named one.    *)
ToLoad(w, n) ==
    IF n = 0 THEN {i \in DOMAIN DumpOf(w) : ~DumpOf(w)[i].unloaded} ELSE Named(w, n)

SlipUserPhase == 2

(* The user's types come after the heaps.                                  *)
UserPhase == 3

(* mini_dump_memory_walker::get_type_info for the user.                    *)
AskType(w, t) ==
    /\ phase = UserPhase
    /\ w = Len(walkers)
    /\ t \notin DOMAIN walkers[w].types
    /\ Requested(Request("type", w, t.module, t.type, FALSE, None))
    /\ todo' = ToLoad(w, t.module)
    /\ UNCHANGED <<caches, frame>>

(* symbol_walk, get_symbol_info and module_types load the same modules and *)
(* leave the search to DbgHelp.                                            *)
AskSymbols(w, n) ==
    /\ phase = UserPhase
    /\ w = Len(walkers)
    /\ Requested(Request("symbols", w, n, None, FALSE, None))
    /\ todo' = ToLoad(w, n)
    /\ UNCHANGED <<caches, frame>>

(***************************************************************************)
(* setup_globals of a reader: the entry of the cache is there before it is *)
(* filled.  Readers of the dump work while the base dump's walker is open. *)
(***************************************************************************)
SetupGlobals(w, r) ==
    /\ phase = 2
    /\ \A state \in {"partial", "full"} : <<walkers[w].of, r, state>> \notin caches
    /\ caches' = caches \union {<<walkers[w].of, r, "partial">>}
    /\ Requested(Request("setup", w, TypesOf[r][1].module, TypesOf[r][1].type, TRUE, r))
    /\ todo' = Named(w, TypesOf[r][1].module)
    /\ UNCHANGED frame

(* A step of the stack walk of a thread, which forces the module of the    *)
(* instruction pointer to be loaded.                                       *)
WalkFrame(w, i) ==
    /\ phase = 1
    /\ w = Len(walkers)
    /\ Requested(Request("stack", w, DumpOf(w)[i].name, None, FALSE, None))
    /\ todo' = {i}
    /\ UNCHANGED <<caches, frame>>

(***************************************************************************)
(* Modules                                                                 *)
(***************************************************************************)
AlreadyLoaded ==
    /\ loads = <<>>
    /\ \E i \in FirstOf(todo) :
         /\ DumpOf(request.walker)[i].name \in Names
         /\ todo' = todo \ {i}
    /\ UNCHANGED <<command, file, phase, walkers, callback, engine, caches, request, scan, answer, frame, requests>>

Begin(m, throw) ==
    /\ loads' = Append(loads, [module |-> m, ways |-> Ways(m), throw |-> throw])
    /\ loading' = TRUE

LoadModule ==
    /\ loads = <<>>
    /\ \E i \in FirstOf(todo) :
         LET m == DumpOf(request.walker)[i] IN
         /\ m.name \notin Names
         /\ Begin(m, request.throw)
         /\ todo' = todo \ {i}
    /\ UNCHANGED <<command, file, phase, walkers, callback, modules, found, activity, download, caches, request, scan, answer, frame, requests>>

(***************************************************************************)
(* DbgHelp reads memory, in a load or in a stack walk: the walker behind   *)
(* the callback may load the module of the address, and the load may read  *)
(* again.                                                                  *)
(***************************************************************************)
DbgHelpReads ==
    /\ callback # 0
    /\ loads # <<>> \/ request.kind = "stack"
    /\ ReadLoadsModules
    /\ \E m \in ToSet(DumpOf(callback)) : m.name \notin Names /\ Begin(m, FALSE)
    /\ UNCHANGED <<command, file, phase, walkers, callback, modules, found, activity, download, caches, asked, frame, requests>>

Loaded == Last(loads)

(* A module of the same base that is loaded already: SymLoadModuleEx       *)
(* returns 0 without an error, which load_module takes as a success.       *)
Mapped(m) == {n \in Names : modules[n].image # None /\ modules[n].module.base = m.base}

ImageReadable(m) == callback # 0 /\ m \in ToSet(DumpOf(callback))

Succeeds(m, way) ==
    \/ way \in m.opens
    \/ way \in m.images /\ ImageReadable(m)
    \/ Mapped(m) # {}

ImageOf(m) == IF Mapped(m) = {} THEN m ELSE modules[CHOOSE n \in Mapped(m) : TRUE].image

SlipAccepts(sum, f) == sum = 0 \/ f.valid

(* find_file_in_path_callback.                                             *)
Accepts(sum, f) == sum = 0 \/ (f.valid /\ f.sum = sum)

(* load_module_image_path: the first file of the path that is accepted; it *)
(* is looked for once the module is loaded.                                *)
ImageFile(m, image) ==
    LET accepted == {i \in DOMAIN FilesOf[m.name] : Accepts(m.sum, FilesOf[m.name][i])} IN
    IF image = None \/ accepted = {} THEN None
    ELSE FilesOf[m.name][CHOOSE i \in accepted : \A j \in accepted : i <= j]

Done(image) ==
    /\ modules' = Kept(modules, Loaded.module.name,
                       [module |-> Loaded.module, image |-> image, file |-> ImageFile(Loaded.module, image)])
    /\ loads' = Front(loads)
    /\ loading' = FALSE
    /\ UNCHANGED <<command, file, phase, walkers, callback, found, activity, download, caches, asked, frame, requests>>

WayOpens ==
    /\ loads # <<>>
    /\ Succeeds(Loaded.module, Head(Loaded.ways))
    /\ Done(ImageOf(Loaded.module))

WayFails ==
    /\ loads # <<>>
    /\ ~Succeeds(Loaded.module, Head(Loaded.ways))
    /\ ~Loaded.throw
    /\ Len(Loaded.ways) > 1
    /\ loads' = [loads EXCEPT ![Len(loads)].ways = Tail(@)]
    /\ UNCHANGED <<command, file, phase, walkers, callback, modules, found, loading, activity, download, caches, asked, frame, requests>>

(* A module that cannot be loaded is kept without symbols.                 *)
NoWayOpens ==
    /\ loads # <<>>
    /\ ~Succeeds(Loaded.module, Head(Loaded.ways))
    /\ ~Loaded.throw
    /\ Len(Loaded.ways) = 1
    /\ Done(None)

(***************************************************************************)
(* What the symbol server does while DbgHelp loads a module, one activity  *)
(* after the other, comes to the engine as lines of a log: the start of an *)
(* activity, which need not be the download of a file, its progress, its   *)
(* end.  The engine knows the name of a download by the first line only,   *)
(* and lines of every activity end alike.                                  *)
(***************************************************************************)
StartDownload(n) ==
    IF download.engine # None \/ n = None THEN download
    ELSE [engine |-> n, module |-> n, percent |-> None]

DownloadPercent(p) ==
    IF download.engine = None THEN download ELSE [download EXCEPT !.percent = p]

(* Slip for DownloadComplete: the engine goes on with the name.            *)
SlipDownloadComplete ==
    IF download.engine = None THEN download ELSE [NoDownload EXCEPT !.engine = download.engine]

DownloadComplete ==
    IF download.engine = None THEN download ELSE NoDownload

BeginsActivity(n) ==
    /\ ~activity.open
    /\ activity' = [open |-> TRUE, file |-> n, percent |-> None]
    /\ download' = StartDownload(n)

Progresses(p) ==
    /\ activity.open
    /\ activity' = [activity EXCEPT !.percent = p]
    /\ download' = DownloadPercent(p)

EndsActivity ==
    /\ activity.open
    /\ activity' = NoActivity
    /\ download' = DownloadComplete

XmlLog ==
    /\ loads # <<>>
    /\ \/ \E n \in {None, Loaded.module.name} : BeginsActivity(n)
       \/ \E p \in Percents : Progresses(p)
       \/ EndsActivity
    /\ UNCHANGED <<command, file, phase, walkers, callback, modules, found, loads, loading, caches, asked, frame, requests>>

(***************************************************************************)
(* An exception leaves process_user_mode_dump: every object of the dump is *)
(* gone, the program goes on with the next file or ends.                   *)
(***************************************************************************)
LoadThrows ==
    /\ loads # <<>>
    /\ ~Succeeds(Loaded.module, Head(Loaded.ways))
    /\ Loaded.throw
    /\ NextFile

(***************************************************************************)
(* Types                                                                   *)
(***************************************************************************)
ReadyToLook == request.kind \in {"type", "setup"} /\ todo = {} /\ loads = <<>>

(* get_type_info: all modules in the order of their paths, or the one that *)
(* is named.                                                               *)
StartLookup ==
    /\ ReadyToLook
    /\ scan = None
    /\ scan' = IF request.module = 0 THEN ByName
               ELSE IF request.module \in Names THEN <<request.module>> ELSE <<>>
    /\ UNCHANGED <<command, file, phase, walkers, callback, engine, caches, request, todo, answer, frame, requests>>

LookedUp(n, t) == IF modules[n].image # None /\ t \in modules[n].image.types THEN modules[n].image ELSE None

(* load_type_info: what was found, or not found, under the name of a type  *)
(* is kept for every module.                                               *)
CachedType(n, t) == IF t \in DOMAIN found THEN found[t] ELSE LookedUp(n, t)

FoundIn(n, t) == CachedType(n, t)

FoundNext == scan # <<>> /\ FoundIn(Head(scan), request.type) # None

LookIn ==
    /\ ReadyToLook
    /\ scan # None /\ scan # <<>>
    /\ answer = None
    /\ LET result == FoundIn(Head(scan), request.type) IN
        /\ result = None => ~request.throw
        /\ answer' = result
        /\ found' = Kept(found, request.type, result)
        /\ scan' = IF result = None THEN Tail(scan) ELSE <<>>
    /\ UNCHANGED <<command, file, phase, walkers, callback, modules, loads, loading, activity, download, caches, request, todo, frame, requests>>

TypeIsMissing ==
    /\ ReadyToLook
    /\ scan # None
    /\ answer = None
    /\ request.throw
    /\ ~FoundNext
    /\ NextFile

Looked == ReadyToLook /\ scan = <<>> /\ (answer # None \/ ~request.throw)

Remembered ==
    walkers' = [walkers EXCEPT ![request.walker].types =
                   With(@, [module |-> request.module, type |-> request.type], answer)]

Answered ==
    /\ Looked
    /\ request.kind = "type"
    /\ Remembered
    /\ request' = NothingAsked
    /\ UNCHANGED <<command, file, phase, callback, engine, caches, todo, scan, answer, frame, requests>>

(* setup_globals goes on with the next type, or has filled the entry.      *)
Place == CHOOSE i \in DOMAIN TypesOf[request.reader] :
            TypesOf[request.reader][i] = [module |-> request.module, type |-> request.type]

NextType ==
    /\ Looked
    /\ request.kind = "setup"
    /\ Place < Len(TypesOf[request.reader])
    /\ Remembered
    /\ LET next == TypesOf[request.reader][Place + 1] IN
        /\ request' = [request EXCEPT !.module = next.module, !.type = next.type]
        /\ todo' = Named(request.walker, next.module)
    /\ scan' = None
    /\ answer' = None
    /\ UNCHANGED <<command, file, phase, callback, engine, caches, frame, requests>>

EndSetup ==
    /\ Looked
    /\ request.kind = "setup"
    /\ Place = Len(TypesOf[request.reader])
    /\ Remembered
    /\ caches' = (caches \ {<<walkers[request.walker].of, request.reader, "partial">>})
                    \union {<<walkers[request.walker].of, request.reader, "full">>}
    /\ request' = NothingAsked
    /\ UNCHANGED <<command, file, phase, callback, engine, todo, scan, answer, frame, requests>>

SymbolsShown ==
    /\ request.kind = "symbols"
    /\ todo = {}
    /\ loads = <<>>
    /\ request' = NothingAsked
    /\ UNCHANGED <<command, file, phase, walkers, callback, engine, caches, todo, scan, answer, frame, requests>>

(***************************************************************************)
(* Local variables.  A symbol is [index, local, null, parameter, kind,     *)
(* register, offset]; its kind tells where the value lies: "regrel"        *)
(* (register and offset), "register", "framerel" (offset), "static".       *)
(***************************************************************************)
ValueAt(f, s) ==
    LET value == IF InRegister(s) THEN RegisterValue(f.context, s.register) ELSE None
        start == IF s.kind = "regrel" THEN value ELSE f.base IN
    [register |-> IF InRegister(s) THEN s.register ELSE None,
     value |-> value,
     offset |-> IF AtOffset(s) THEN s.offset ELSE None,
     address |-> IF AtOffset(s) THEN Sum64(start, s.offset) ELSE None]

SlipAlreadyFound(variables, s) == \E v \in ToSet(variables) : v.index = s.index

AlreadyFound(variables, s) ==
    \E v \in ToSet(variables) :
        /\ v.index = s.index
        /\ InRegister(s) => v.at.register = s.register
        /\ AtOffset(s) => v.at.offset = s.offset

Wanted(s) == s.local /\ ~s.null

(* find_local_variable_callback for one symbol; None once a register is    *)
(* not known.                                                              *)
Variable(f, vs, s) ==
    LET list == IF s.parameter THEN "parameters" ELSE "locals" IN
    IF vs = None \/ ~Wanted(s) THEN vs
    ELSE IF AlreadyFound(vs[list], s) THEN vs
    ELSE IF InRegister(s) /\ ~IsKnown(f.type, s.register) THEN None
    ELSE [vs EXCEPT ![list] = Append(@, [index |-> s.index, at |-> ValueAt(f, s)])]

Variables(f) ==
    FoldLeft(LAMBDA vs, s : Variable(Frames[f], vs, s), [NoFrame EXCEPT !.of = f], Frames[f].symbols)

(* find_symbol_info: a frame of an unloaded module or of one without       *)
(* symbols has no variables; the others those of the frame and then those  *)
(* of the inlined scope.                                                   *)
HasVariables ==
    modules[request.module].image # None /\ ~modules[request.module].module.unloaded

AtFrame == request.kind = "stack" /\ todo = {} /\ loads = <<>>

FrameWalked(f) ==
    /\ AtFrame
    /\ frame' = IF HasVariables THEN Variables(f) ELSE NoFrame
    /\ frame' # None
    /\ request' = NothingAsked
    /\ UNCHANGED <<command, file, phase, walkers, callback, engine, caches, todo, scan, answer, requests>>

RegisterIsUnknown(f) ==
    /\ AtFrame
    /\ HasVariables
    /\ Variables(f) = None
    /\ NextFile

Ended == file = 0 /\ UNCHANGED vars

Next ==
    \/ \E of \in {"main", "base"} : OpenWalker(of)
    \/ CloseWalker
    \/ NextPhase
    \/ EndFile
    \/ \E w \in DOMAIN walkers :
        \/ \E t \in UserTypes : AskType(w, t)
        \/ \E t \in UserTypes : AskSymbols(w, t.module)
        \/ \E r \in Readers : SetupGlobals(w, r)
        \/ \E i \in DOMAIN DumpOf(w) : WalkFrame(w, i)
    \/ AlreadyLoaded \/ LoadModule \/ DbgHelpReads
    \/ XmlLog
    \/ WayOpens \/ WayFails \/ NoWayOpens \/ LoadThrows
    \/ StartLookup \/ LookIn \/ TypeIsMissing \/ Answered \/ NextType \/ EndSetup \/ SymbolsShown
    \/ \E f \in DOMAIN Frames : FrameWalked(f) \/ RegisterIsUnknown(f)
    \/ Ended

Spec == Init /\ [][Next]_vars
-----------------------------------------------------------------------------
(***************************************************************************)
(* Properties                                                              *)
(***************************************************************************)
(* SymLoadModuleEx is never entered again while it runs, although it reads *)
(* memory through a walker that loads modules to read them: load_module    *)
(* and the read callback agree on loading_module_.                         *)
NeverReentered == Len(loads) <= 1 /\ (loading <=> loads # <<>>)

(* g_callback, which the stack walk uses without a test, is the walker of  *)
(* the walk; and it never is a walker that is gone, however walkers are    *)
(* nested and whatever throws.                                             *)
CallbackLives ==
    /\ callback \in {0} \union DOMAIN walkers
    /\ request.kind = "stack" => callback = request.walker

(* DbgHelp calls back into the engine in the middle of its own calls: what *)
(* it finds there is a walker that lives, and never a second load.         *)
CallbacksSafe == NeverReentered /\ CallbackLives

(* No reader works with an entry of the cache that an exception left half  *)
(* filled: such an entry is gone before anyone asks for it.                *)
ReadersComplete ==
    \A c \in caches : c[3] = "partial" =>
        /\ request.kind = "setup"
        /\ request.reader = c[2]
        /\ walkers[request.walker].of = c[1]

(* Two dumps of one process: where both have a module it is the same.      *)
Agree(d, e) ==
    \A m \in ToSet(d), k \in ToSet(e) :
        /\ m.name = k.name => m.version = k.version
        /\ m.base = k.base => m.name = k.name

(* The types the readers of a dump work with are those of the module they  *)
(* named, in the version of that dump, although modules and types are kept *)
(* by the name alone and shared with the other dump and the user's types.  *)
LibraryTypesRight ==
    (request.kind = "setup" /\ answer # None /\ Agree(command[file].main, command[file].base)) =>
        /\ answer.name = request.module
        /\ request.type \in answer.types
        /\ \E m \in ToSet(DumpOf(request.walker)) : m.name = answer.name /\ m.version = answer.version

(* What is known of a place: the symbol with its register and offset.      *)
PlaceOf(index, at) == <<index, at.register, at.offset>>

SymbolPlace(s) ==
    <<s.index, IF InRegister(s) THEN s.register ELSE None, IF AtOffset(s) THEN s.offset ELSE None>>

ShownOnce(list, symbols) ==
    /\ \A i, j \in DOMAIN list : i # j => PlaceOf(list[i].index, list[i].at) # PlaceOf(list[j].index, list[j].at)
    /\ {PlaceOf(v.index, v.at) : v \in ToSet(list)} = {SymbolPlace(s) : s \in symbols}

LiesWhereFrameSays(f, at) ==
    /\ at.register # None =>
          /\ at.value \in 0..Values(at.register.bytes) - 1
          /\ \E high \in 0..Values(8) :
                f.context[at.register.file] = at.value + high * Values(at.register.bytes)
    /\ at.offset # None =>
          at.address = ((IF at.register = None THEN f.base ELSE at.value) + at.offset) % Values(8)

(* Every variable of a frame is shown once, in the list it belongs to, and *)
(* none is dropped for another of the same symbol; it lies where the frame *)
(* and the thread's registers, read in the width the symbol gives, say.    *)
VariablesOnce ==
    frame.of # 0 =>
        \A list \in {"locals", "parameters"} :
            LET f == Frames[frame.of] IN
            /\ ShownOnce(frame[list], {s \in ToSet(f.symbols) :
                             s.local /\ ~s.null /\ (s.parameter <=> list = "parameters")})
            /\ \A v \in ToSet(frame[list]) : LiesWhereFrameSays(f, v.at)

(* The file whose bytes stand in for the memory of a module is one of the  *)
(* very image of the dump, when the image has a checksum: of that of       *)
(* either dump, where they agree about the module.                         *)
ImagesMatch ==
    (file # 0 /\ Agree(command[file].main, command[file].base)) =>
        \A m \in ToSet(command[file].main) \union ToSet(command[file].base) :
            (m.name \in Names /\ m.sum # 0 /\ modules[m.name].file # None) =>
                modules[m.name].file.valid /\ modules[m.name].file.sum = m.sum

(* What the user is shown is the download the symbol server is at, with    *)
(* its latest progress, and nothing while it is at anything else: although *)
(* the lines of the log do not say which activity they are about, and the  *)
(* start of a download is overlooked if the one before seems to go on.     *)
DownloadShown ==
    /\ download.module = activity.file
    /\ download.percent = IF activity.file = None THEN None ELSE activity.percent

(* A type asked for without a module is found when a loaded module has it. *)
FoundInAnyModule ==
    (Looked /\ request.kind = "type" /\ request.module = 0 /\ answer = None) =>
        \A n \in Names : modules[n].image # None => request.type \notin modules[n].image.types
=============================================================================
