------------------------------ MODULE MCTypeWalk ------------------------------
(***************************************************************************)
(* A list node (1) with a static member and a base class, and a holder     *)
(* (17) of items (11): an array of them, an array of pointers, an item in  *)
(* it, a pointer of two units to a pointer and one of no type.  Two nodes  *)
(* of which the second may be cut off by the end of the memory, a holder,  *)
(* a text.  In scenes of their own a heap (1) with counters (10) in it, of *)
(* which one has the name of one of the heap, an array of pointers, a      *)
(* static member and an instance of itself; and a chunk (17) of bit fields *)
(* in a structure and beside it.                                           *)
(***************************************************************************)
EXTENDS TypeWalk

Type(tag, type, length) ==
    [tag |-> tag, type |-> type, length |-> length, count |-> 0, children |-> <<>>, offset |-> None, text |-> FALSE,
     name |-> None, bits |-> None]
Member(type, offset) == [Type("data", type, 0) EXCEPT !.offset = offset]
Struct(length, children) == [Type("udt", 0, length) EXCEPT !.children = children]
Array(type, length, count) == [Type("array", type, length) EXCEPT !.count = count]

MCTypes ==
    << Struct(3, <<5, 2, 3, 4, 9>>), Member(6, 0), Member(7, 1), Type("data", 7, 0), [Type("baseclass", 11, 0) EXCEPT !.offset = 0],
       Type("pointer", 1, 1), Type("base", 0, 1), [Type("base", 0, 1) EXCEPT !.text = TRUE], Member(10, 2), Type("pointer", 8, 1),
       Struct(2, <<12, 13>>), Member(14, 0), Member(7, 1), Type("pointer", 7, 1),
       Array(11, 4, 2), Array(6, 2, 2), Struct(11, <<18, 25, 19, 20, 21>>),
       Member(15, 0), Member(16, 4), Member(11, 6), Member(22, 8), Type("pointer", 14, 2),
       Type("data", 17, 11), Type("pointer", 0, 1), Member(24, 10) >>

NodeA == 10
NodeB == 14
Holder == 20
Text == 32

(* What a cell of the holder or a link may hold: nothing, a structure, the *)
(* inside of one, an address that is not in the dump.                      *)
Memory(next, back, array, deep, cut) ==
    LET all ==
            (NodeA :> next @@ (NodeA + 1) :> 7 @@ (NodeA + 2) :> Text
             @@ NodeB :> back @@ (NodeB + 1) :> 8 @@ (NodeB + 2) :> Text + 1
             @@ Holder :> NodeA + 1 @@ (Holder + 1) :> 5 @@ (Holder + 2) :> 0 @@ (Holder + 3) :> 6
             @@ (Holder + 4) :> array @@ (Holder + 5) :> NodeB @@ (Holder + 6) :> Holder + 7 @@ (Holder + 7) :> 9
             @@ (Holder + 8) :> deep @@ (Holder + 9) :> 0 @@ (Holder + 10) :> NodeB + 1
             @@ Text :> 2 @@ (Text + 1) :> 3 @@ (Text + 2) :> 0)
    IN  [a \in DOMAIN all \ cut |-> all[a]]

Job(kind, roots) == [kind |-> kind, roots |-> roots, at |-> 1]
Dump(t, a, depth, options) == [kind |-> "dump", type |-> t, at |-> a, depth |-> depth, options |-> options]

MCJobs ==
    { Job("graph", <<Visit(1, NodeA, 0), Visit(17, Holder, 0), Visit(1, NodeB, 0)>>),
      Job("graph", <<Visit(17, Holder, 0), Visit(11, Holder - 2, 2), Visit(1, NodeA, 0)>>),
      Job("graph", <<Visit(18, Holder, 0), Visit(19, Holder, 4)>>),
      Job("areas", <<Visit(1, NodeB, 0), Visit(17, Holder, 0)>>) }
    \union {Dump(t, a, d, o) : t \in {1, 17}, a \in {NodeA, Holder}, d \in {0, 1}, o \in {"auto"}}
    \union {Dump(23, Holder, 0, o) : o \in {"auto", "none"}}
    \union {Dump(t, Holder, 0, "none") : t \in {1, 6, 15, 16, 22, 24}}
    \union {Dump(t, Text, 1, "auto") : t \in {7, 8}}

NodeScenes ==
    {[types |-> MCTypes, memory |-> Memory(next, back, array, deep, cut), jobs |-> MCJobs] :
        next \in {0, NodeA, NodeB, NodeB + 1}, back \in {0, NodeA, NodeB - 2}, array \in {NodeA, Holder + 6, 60},
        deep \in {Holder, NodeA}, cut \in {{}, {NodeB + 2}, {Holder + 5}, {Holder + 9}}}

(* A pointer to one without a type, and one without a type to where it is. *)
VoidTypes == [MCTypes EXCEPT ![22] = Type("pointer", 24, 2)]
VoidScenes ==
    {[types |-> VoidTypes, memory |-> Memory(next, back, NodeA, deep, {}),
      jobs |-> {j \in MCJobs : j.kind \in {"graph", "areas"}}] :
        next \in {0, Holder + 10, NodeB + 1}, back \in {0, Holder + 8}, deep \in {Holder + 5, Holder + 10, NodeA}}

(* A pointer to a structure that may lie behind a gap.                     *)
GapScenes ==
    {[types |-> [MCTypes EXCEPT ![24] = Type("pointer", 1, 1)], memory |-> Memory(next, 0, NodeA, Holder, cut),
      jobs |-> {Dump(17, Holder, d, "auto") : d \in {0, 1}}] :
        next \in {0, NodeB}, cut \in {{}, {Holder + 5}, {Holder + 10}, {NodeB + 1}}}

Named(name, type, offset) == [Member(type, offset) EXCEPT !.name = name]
Bits(name, first, count) == [Named(name, 22, 0) EXCEPT !.bits = [weight |-> 2 ^ first, values |-> 2 ^ count]]

HeapTypes ==
    << Struct(9, <<2, 3, 4, 5, 6, 7, 8>>), Named("Lock", 14, 0), Named("Counters", 10, 1), Named("Total", 22, 4),
       Named("Slots", 16, 5), Named("Base", 14, None), Named("Instance", 1, None), Named("Kept", 10, 6), Type("base", 0, 2),
       Struct(3, <<11, 12, 13>>), Named("Total", 22, 0), Named("Self", 15, 1), Named("Chunk", 17, 2),
       Type("pointer", 10, 1), Type("pointer", 1, 1), Array(14, 2, 2),
       Struct(1, <<18, 20>>), Named("Sizes", 19, 0), Struct(1, <<21, 23>>), Bits("Spare", 5, 1),
       Bits("Used", 1, 3), Type("base", 0, 1), Bits("Size", 4, 2) >>

HeapMemory(lock, cut) ==
    LET all == 10 :> lock @@ 11 :> 41 @@ 12 :> 10 @@ 13 :> 0 @@ 14 :> 26 @@ 15 :> 0 @@ 16 :> 17 @@ 17 :> 59 @@ 18 :> 6 @@ 19 :> 7
    IN  [a \in DOMAIN all \ cut |-> all[a]]

Ask(t, path, how, size, at) == [type |-> t, path |-> path, how |-> how, size |-> size, at |-> at, index |-> 0]
AskElement(path, i) == [Ask(1, path, "element", 1, 10) EXCEPT !.index = i]
FieldJob(asks) == [kind |-> "fields", asks |-> asks]
ShowAt(request) == [kind |-> "address", request |-> request]
Token(mark, value) == [mark |-> mark, value |-> value]
As(as, length, row) == [as |-> as, length |-> length, row |-> row]

HeapJobs ==
    { FieldJob({Ask(1, <<"Counters", "Total">>, "basic", 1, 10), Ask(1, <<"Total">>, "basic", 1, 10), Ask(10, <<"Total">>, "basic", 1, 16),
              Ask(1, <<"Counters", "Total">>, "offset", 1, 10), Ask(1, <<"Kept", "Self">>, "pointer", 1, 10)}),
      FieldJob({Ask(1, <<"Lock">>, "needed", 1, 10), Ask(1, <<"Lock">>, "pointer", 1, 10), Ask(1, <<"Lock", "Total">>, "basic", 1, 10),
              Ask(1, <<"Base">>, "offset", 1, 10), Ask(1, <<"None">>, "needed", 1, 10), Ask(1, <<"Total">>, "basic", 2, 10)}),
      FieldJob({AskElement(<<"Slots">>, 0), AskElement(<<"Slots">>, 1), AskElement(<<"Lock">>, 0), Ask(1, <<"Kept">>, "struct", 3, 10),
              Ask(22, <<"Total">>, "static", 1, 14), Ask(9, <<"Total">>, "static", 1, 19)}),
      FieldJob({Ask(17, <<"Sizes", "Used">>, "bits", 1, 17), Ask(17, <<"Sizes", "Size">>, "bits", 2, 17), Ask(17, <<"Spare">>, "bits", 1, 17),
              Ask(17, <<"Used">>, "bits", 1, 17), Ask(17, <<"Sizes">>, "bits", 1, 17), Ask(17, <<"Sizes">>, "struct", 1, 30)}) }
    \union {[kind |-> "types", type |-> t, debug |-> d] : t \in {1, 3, 10, 14, 17}, d \in BOOLEAN}
    \union {ShowAt(<<Token("", a)>> \o size \o <<Token("!", show)>>) :
                a \in {10, 13, 17, 30}, size \in {<<>>, <<Token("-", 2)>>, <<Token("-", 7)>>},
                show \in {As("str", 1, 0), As("astr", 1, 0), As("numbers", 1, 2), As("numbers", 2, 2)}}
    \union {ShowAt(<<Token("", a), Token("-", n)>>) : a \in {10, 16, 30}, n \in {1, 3, 5, 8}}
    \union {ShowAt(<<Token("", a)>>) : a \in {10, 17, 30}}
    \union {ShowAt(<<Token("", a), Token("!", As("str", 1, 0)), Token("-", 2)>>) : a \in {10, 17}}

HeapScenes ==
    {[types |-> HeapTypes, memory |-> HeapMemory(lock, cut), jobs |-> HeapJobs] :
        lock \in {0, 16}, cut \in {{}, {14}, {16}, {18}}}

MCScenes == NodeScenes \union VoidScenes \union GapScenes \union HeapScenes
===============================================================================
