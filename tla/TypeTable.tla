------------------------------ MODULE TypeTable -------------------------------
(***************************************************************************)
(* What the symbol files say of the types of a program, and the memory of  *)
(* the dump they are laid over: the common ground of PointerGather,        *)
(* VariableDump, FieldAccess, TypeDump and AddressDump.  Addresses,        *)
(* offsets and lengths count units of four bytes, so a pointer is one or   *)
(* two units long.                                                         *)
(*                                                                         *)
(* A type is [tag, type, length, count, children, offset, text, name,      *)
(* bits]: SymTag, the type it is of (0: none), its length (0: none), the   *)
(* elements of an array, its children, its offset in the parent (None for  *)
(* a static member), whether a base type is a character, the name of a     *)
(* member, and of a bit field the [weight, values] of its bits: what the   *)
(* first bit counts, and how many values they have; or None.               *)
(***************************************************************************)
EXTENDS Integers, Sequences, FiniteSets, SequencesExt

CONSTANTS
    Scenes,     \* [types, memory, jobs]: a table of types, the units in the dump, what is asked for
    Unit,       \* 2^32: what a unit counts up to
    None        \* no value

VARIABLES
    scene,
    job         \* [kind, ...]: what is asked for

Types == DOMAIN scene.types
Info(t) == scene.types[t]
Tag(t) == IF t = 0 THEN "null" ELSE Info(t).tag
TypeOf(t) == Info(t).type
Lasts(t) == t # 0 /\ Info(t).length > 0

(* can_dump_tag, of the children that lie in the structure: base classes   *)
(* and static members are left out.                                        *)
Dumpable == {"data", "enum", "array", "base", "pointer", "udt"}
LiesIn(type) == type.offset # None /\ type.tag \in Dumpable

(* The types that are nested no deeper than there are types: what lies in  *)
(* one, or is the type of a member or of the elements, is nested less.     *)
Nested(types) ==
    LET Inside(t) ==
            {c \in ToSet(types[t].children) : LiesIn(types[c])}
                \union (IF types[t].tag \in {"data", "array"} THEN {types[t].type} \ {0} ELSE {})
        within[d \in 0 .. Cardinality(DOMAIN types)] ==
            IF d = 0 THEN {}
            ELSE LET less == within[d - 1] IN {t \in DOMAIN types : Inside(t) \subseteq less}
    IN  within[Cardinality(DOMAIN types)]

(* DbgHelp knows no type of a structure, and a type is no part of itself.  *)
ASSUME ScenesAssumption ==
    /\ \A s \in Scenes : DOMAIN s.types \subseteq Nested(s.types)
    /\ \A s \in Scenes : \A t \in DOMAIN s.types :
        /\ s.types[t].tag = "udt" => s.types[t].type = 0
        /\ s.types[t].type \in {0} \union DOMAIN s.types
        /\ s.types[t].children \in Seq(DOMAIN s.types)
    /\ \A s \in Scenes : 0 \notin DOMAIN s.types /\ IsFiniteSet(DOMAIN s.types)

Children(t) == Info(t).children

(* The children that lie in the structure, in their order.                 *)
Members(t) ==
    LET first[i \in 0 .. Len(Children(t))] ==
            IF i = 0 THEN <<>>
            ELSE IF LiesIn(Info(Children(t)[i])) THEN Append(first[i - 1], Children(t)[i])
            ELSE first[i - 1]
    IN  first[Len(Children(t))]

-------------------------------------------------------------------------------
Readable(a) == a \in DOMAIN scene.memory

Number(a, n) == scene.memory[a] + (IF n = 2 THEN Unit * scene.memory[a + 1] ELSE 0)

(* get_process_memory_stream: it ends behind the length it was asked for,  *)
(* or where the memory does.                                               *)
StreamFor(a, length) == [at |-> a, end |-> a + length]
Eof(s) == s.at = s.end \/ ~Readable(s.at)

(* How far read and skip come of n units.                                  *)
Reach(s, n) ==
    LET most == IF s.end - s.at < n THEN s.end - s.at ELSE n
        gaps == {k \in 0 .. (most - 1) : ~Readable(s.at + k)}
    IN  IF gaps = {} THEN most ELSE CHOOSE k \in gaps : \A j \in gaps : k <= j

Skipped(s, n) == [s EXCEPT !.at = @ + Reach(s, n)]
CanRead(s, n) == Reach(s, n) = n
===============================================================================
