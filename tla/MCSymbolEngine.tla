--------------------------- MODULE MCSymbolEngine ----------------------------
(***************************************************************************)
(* An application (1) with a type of the name of one of the library's (2), *)
(* whose symbols need the memory of the dump; a module (3) that cannot be  *)
(* loaded and an unloaded one (4).  Two dumps of one process, a base dump  *)
(* of an older library, and a second file.                                 *)
(***************************************************************************)
EXTENDS SymbolEngine

App == [name |-> 1, base |-> 1, version |-> 1, sum |-> 0, pdb |-> TRUE, opens |-> {"default"}, images |-> {},
        types |-> {"heap", "app_type"}, unloaded |-> FALSE]
Lib == [name |-> 2, base |-> 2, version |-> 1, sum |-> 7, pdb |-> TRUE, opens |-> {}, images |-> {"debug_dirs"},
        types |-> {"heap", "entry"}, unloaded |-> FALSE]
OldLib == [Lib EXCEPT !.version = 0, !.sum = 5, !.opens = {"pdb_guid", "debug_dirs"}]
FoundLib == [Lib EXCEPT !.opens = {"debug_dirs"}]
OtherLib == [FoundLib EXCEPT !.base = 3]
Broken == [name |-> 3, base |-> 4, version |-> 1, sum |-> 3, pdb |-> FALSE, opens |-> {"pdb_guid"}, images |-> {},
           types |-> {}, unloaded |-> FALSE]
Gone == [name |-> 4, base |-> 5, version |-> 1, sum |-> 2, pdb |-> FALSE, opens |-> {"default"}, images |-> {},
         types |-> {"entry"}, unloaded |-> TRUE]

Pair(main, base) == [main |-> main, base |-> base]

MCCommands ==
    { <<Pair(<<App, FoundLib>>, <<FoundLib>>)>>,
      <<Pair(<<App, Lib, Broken>>, <<App, Lib>>)>>,
      <<Pair(<<FoundLib, Gone>>, <<OldLib>>), Pair(<<FoundLib>>, <<OtherLib>>)>>,
      <<Pair(<<OtherLib>>, <<App, FoundLib>>), Pair(<<App, [FoundLib EXCEPT !.types = {"heap"}]>>, <<>>)>> }

MCReaders == {"nt_heap", "entries"}

Type(n, t) == [module |-> n, type |-> t]

MCTypesOf ==
    [r \in MCReaders |-> IF r = "nt_heap" THEN <<Type(2, "heap"), Type(2, "entry")>> ELSE <<Type(2, "entry")>>]

MCUserTypes == {Type(0, "entry"), Type(0, "app_type"), Type(1, "heap"), Type(4, "entry")}

Reg(name, bytes) == [file |-> name, bytes |-> bytes]

NoReg == Reg("none", 0)

Symbol(index, kind, register, offset) ==
    [index |-> index, local |-> TRUE, null |-> FALSE, parameter |-> FALSE, kind |-> kind,
     register |-> register, offset |-> offset]

(* A byte has two values: a dword 16, a qword and an address 256.          *)
Contents(type) ==
    [r \in General \union Pointers \union Numbered |->
        IF type = "x64" THEN (IF r = "A" THEN 211 ELSE 252) ELSE (IF r = "A" THEN 11 ELSE 14)]

Frame(type, symbols) == [type |-> type, context |-> Contents(type), base |-> 100, symbols |-> symbols]

(* A symbol has one kind.  The inlined scope repeats symbols of the frame. *)
MCFrames ==
    << Frame("x64", << Symbol(1, "register", Reg("A", 8), 0), Symbol(2, "framerel", NoReg, 8),
                       Symbol(1, "register", Reg("A", 1), 0), Symbol(1, "register", Reg("A", 8), 0),
                       Symbol(2, "framerel", NoReg, 16), Symbol(3, "regrel", Reg("SP", 8), 8) >>),
       Frame("wow64", << [Symbol(1, "framerel", NoReg, 8) EXCEPT !.parameter = TRUE], Symbol(1, "framerel", NoReg, 8),
                         [Symbol(2, "static", NoReg, 0) EXCEPT !.null = TRUE],
                         [Symbol(3, "static", NoReg, 0) EXCEPT !.local = FALSE],
                         Symbol(4, "static", NoReg, 0), Symbol(4, "static", NoReg, 0), Symbol(5, "regrel", Reg("B", 4), 8),
                         Symbol(5, "regrel", Reg("BP", 4), 8), Symbol(5, "regrel", Reg("B", 4), 16) >>),
       Frame("x86", << Symbol(1, "register", Reg("A", 2), 0), Symbol(2, "register", Reg("SP", 2), 0) >>),
       Frame("x86", << Symbol(1, "register", Reg("A", 4), 0), Symbol(2, "register", Reg("R8", 8), 0) >>),
       Frame("x64", << Symbol(1, "register", Reg("R9", 4), 0), Symbol(2, "register", Reg("BP", 1), 0) >>) >>

(* The path has a file of another build, one that is damaged and the right *)
(* one.                                                                    *)
MCFilesOf ==
    [n \in 1..4 |-> << [valid |-> TRUE, sum |-> 5], [valid |-> FALSE, sum |-> 7], [valid |-> TRUE, sum |-> 7] >>]
=============================================================================
