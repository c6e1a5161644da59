----------------------------- MODULE FieldAccess ------------------------------
(***************************************************************************)
(* stream_utils and symbol_type_info::find_field_in_type: how the readers  *)
(* of the system's structures get at a field, by a name that may lead      *)
(* through structures ("Counters.TotalSegments"), and what they read there. *)
(* Every type remembers what it was asked for.                             *)
(*                                                                         *)
(* An ask is [type, path, how, size, at, index]: the type and the parts of *)
(* the name, the function that is called, the length the caller reads with, *)
(* the address of the structure, and the element of an array.              *)
(***************************************************************************)
EXTENDS TypeTable

CONSTANT Throws     \* an exception in place of a value

VARIABLES
    cached,     \* cached_find_field_in_type_: <<type, path>> -> what was found
    answers     \* [ask, value] of what was asked so far

fieldVars == <<cached, answers>>

-------------------------------------------------------------------------------
(* What is asked for: a path of names, of a type, with one of the          *)
(* functions.  A member of a structure that has a name has it alone.       *)
Hows == {"pointer", "needed", "basic", "bits", "element", "offset", "struct", "static"}

ASSUME FieldsAssumption ==
    /\ None \notin Int /\ Throws \notin Int /\ None # Throws /\ Unit \in Nat
    /\ \A s \in Scenes :
        /\ \A a \in DOMAIN s.memory : s.memory[a] \in Nat
        /\ None \notin [type : DOMAIN s.types, offset : Nat] /\ None \notin [field : DOMAIN s.types, offset : Nat]
        /\ \A t \in DOMAIN s.types :
              /\ s.types[t].offset \in Nat \union {None} /\ s.types[t].length \in Nat /\ s.types[t].count \in Nat
              /\ s.types[t].bits # None => s.types[t].bits.weight \in Nat \ {0} /\ s.types[t].bits.values \in Nat \ {0}
              /\ \A i, j \in DOMAIN s.types[t].children :
                    LET a == s.types[t].children[i]
                        b == s.types[t].children[j]
                    IN  s.types[a].name = s.types[b].name => i = j \/ s.types[a].name = None
        /\ \A j \in s.jobs : "kind" \in DOMAIN j
        /\ \A j \in s.jobs : j.kind = "fields" =>
              \A ask \in j.asks :
                 /\ ask.type \in DOMAIN s.types /\ ask.how \in Hows
                 /\ ask.at \in Nat /\ ask.size \in Nat /\ ask.index \in Nat
                 /\ ask.path \in Seq({ask.path[k] : k \in DOMAIN ask.path}) \ {<<>>}
                 /\ \A k \in DOMAIN ask.path : ask.path[k] # None

(* The first of the members at some places among the children of t.        *)
FirstOf(t, places) == Children(t)[CHOOSE i \in places : \A j \in places : i <= j]

Called(t, name) == {i \in DOMAIN Children(t) : Info(Children(t)[i]).name = name}

(* The loop of find_field_in_type: the structure a part of the name leads  *)
(* into.  A member that has no type or no offset is passed over.           *)
Leading(t, name) ==
    {i \in Called(t, name) : TypeOf(Children(t)[i]) # 0 /\ Info(Children(t)[i]).offset # None}

Into(place, name) ==
    IF place = None THEN None
    ELSE IF Tag(place.type) # "udt" \/ Leading(place.type, name) = {} THEN None
    ELSE LET member == FirstOf(place.type, Leading(place.type, name))
         IN  [type |-> TypeOf(member), offset |-> place.offset + Info(member).offset]

FindFieldInType(t, path) ==
    LET reached[k \in 0 .. (Len(path) - 1)] ==
            IF k = 0 THEN [type |-> t, offset |-> 0] ELSE Into(reached[k - 1], path[k])
        place == reached[Len(path) - 1]
        name == path[Len(path)]
    IN  IF place = None THEN None
        ELSE IF Tag(place.type) # "udt" \/ Called(place.type, name) = {} THEN None
        ELSE [field |-> FirstOf(place.type, Called(place.type, name)), offset |-> place.offset]

(* Slip for Key: remembered by what is left of the name.                   *)
SlipKey(ask) == <<ask.type, <<ask.path[Len(ask.path)]>>>>

(* What set_find_field_in_type files an answer under.                      *)
Key(ask) == <<ask.type, ask.path>>

Remembered(ask) == <<ask.type, ask.path>> \in DOMAIN cached

LookUp(ask) ==
    IF Remembered(ask) THEN cached[<<ask.type, ask.path>>]
    ELSE FindFieldInType(ask.type, ask.path)

-------------------------------------------------------------------------------
ReadField(a, n) == IF n \in {1, 2} /\ CanRead(StreamFor(a, n), n) THEN Number(a, n) ELSE None

(* find_field_type_and_offset_in_type: where a member of a kind lies.      *)
Located(found, tag) ==
    IF found = None THEN None
    ELSE IF TypeOf(found.field) = 0 \/ Tag(TypeOf(found.field)) # tag \/ Info(found.field).offset = None THEN None
    ELSE [type |-> TypeOf(found.field), offset |-> Info(found.field).offset + found.offset]

PointerValue(ask, found) ==
    LET place == Located(found, "pointer") IN
    IF place = None THEN None ELSE ReadField(ask.at + place.offset, Info(place.type).length)

(* get_field_pointer: without a value, or null, there is nothing to go on  *)
(* with.                                                                   *)
NeededPointer(ask, found) ==
    LET value == PointerValue(ask, found) IN IF value = None THEN Throws ELSE IF value = 0 THEN Throws ELSE value

BasicValue(ask, found) ==
    LET place == Located(found, "base") IN
    IF place = None THEN None
    ELSE IF Info(place.type).length = ask.size THEN ReadField(ask.at + place.offset, ask.size) ELSE None

(* find_bit_data_field_value_in_type: the offset of the member alone is    *)
(* added to the address, so the structures on the way must lie at its      *)
(* beginning.                                                              *)
BitsValue(ask, found) ==
    IF found = None THEN None
    ELSE IF Tag(TypeOf(found.field)) # "base" \/ Info(found.field).offset = None \/ Info(found.field).bits = None THEN None
    ELSE IF Info(TypeOf(found.field)).length > ask.size THEN None
    ELSE LET bits == Info(found.field).bits
             value == ReadField(ask.at + Info(found.field).offset, ask.size)
         IN  IF value = None THEN None ELSE (value \div bits.weight) % bits.values

StructValue(ask, found) ==
    LET place == Located(found, "udt") IN
    IF place = None THEN None
    ELSE LET stream == StreamFor(ask.at + place.offset, Info(place.type).length)
         IN  IF Lasts(place.type) /\ CanRead(stream, Info(place.type).length)
             THEN [k \in 1 .. Info(place.type).length |-> scene.memory[stream.at + k - 1]]
             ELSE None

(* find_field_pointer_array_type_and_value: the element behind the last    *)
(* one is let through.                                                     *)
ElementValue(ask, found) ==
    LET place == Located(found, "array") IN
    IF place = None THEN None
    ELSE LET pointer == TypeOf(place.type) IN
         IF Tag(pointer) # "pointer" \/ ~Lasts(pointer) \/ TypeOf(pointer) = 0 \/ ask.index > Info(place.type).count THEN None
         ELSE ReadField(ask.at + place.offset + ask.index * Info(pointer).length, Info(pointer).length)

(* read_static_variable_machine_size_value: the type is that of a variable. *)
StaticValue(ask) ==
    LET value == ReadField(ask.at, Info(ask.type).length) IN IF value = None THEN Throws ELSE value

FieldOffset(found) ==
    IF found = None THEN Throws ELSE IF Info(found.field).offset = None THEN Throws
    ELSE found.offset + Info(found.field).offset

Value(v) == IF v \in {None, Throws} THEN v ELSE <<v>>

Answer(ask, found) ==
    CASE ask.how = "pointer" -> Value(PointerValue(ask, found))
      [] ask.how = "needed"  -> Value(NeededPointer(ask, found))
      [] ask.how = "basic"   -> Value(BasicValue(ask, found))
      [] ask.how = "bits"    -> Value(BitsValue(ask, found))
      [] ask.how = "element" -> Value(ElementValue(ask, found))
      [] ask.how = "offset"  -> Value(FieldOffset(found))
      [] ask.how = "struct"  -> StructValue(ask, found)

AskStatic ==
    /\ job.kind = "fields"
    /\ \E ask \in job.asks \ {a.ask : a \in answers} :
         /\ ask.how = "static"
         /\ answers' = answers \union {[ask |-> ask, value |-> Value(StaticValue(ask))]}
    /\ UNCHANGED <<scene, job, cached>>

AskField ==
    /\ job.kind = "fields"
    /\ \E ask \in job.asks \ {a.ask : a \in answers} :
         /\ ask.how # "static"
         /\ \E found \in {LookUp(ask)} :
              /\ answers' = answers \union {[ask |-> ask, value |-> Answer(ask, found)]}
              /\ cached' = [key \in DOMAIN cached \union {Key(ask)} |->
                                IF key \in DOMAIN cached THEN cached[key] ELSE found]
    /\ UNCHANGED <<scene, job>>

InitFields == cached = <<>> /\ answers = {}

NextFields == AskStatic \/ AskField

FieldsDone == job.kind = "fields" => {a.ask : a \in answers} = job.asks

-------------------------------------------------------------------------------
(* A way by a path of names is a chain of members, each in the structure   *)
(* that the one before it is an instance of.                               *)
IsWay(way, t, path) ==
    \A k \in DOMAIN path :
        LET inside == IF k = 1 THEN t ELSE TypeOf(way[k - 1]) IN
        /\ Tag(inside) = "udt"
        /\ way[k] \in ToSet(Children(inside)) /\ Info(way[k]).name = path[k]
        /\ k < Len(path) => Info(way[k]).offset # None

Ways(t, path) == {way \in [1 .. Len(path) -> Types] : IsWay(way, t, path)}

(* Where the structure lies that the last member of a way is in.           *)
Base(way) ==
    LET below[k \in 0 .. (Len(way) - 1)] == IF k = 0 THEN 0 ELSE below[k - 1] + Info(way[k]).offset
    IN  below[Len(way) - 1]

Held(at, n) == \A k \in 0 .. (n - 1) : Readable(at + k)
IsNumber(at, n) == n \in {1, 2} /\ Held(at, n)

(* The value of the bits from one weight on, for v one of their values.     *)
IsBits(v, bits, word) ==
    /\ v * bits.weight <= word % (bits.weight * bits.values)
    /\ word % (bits.weight * bits.values) < (v + 1) * bits.weight

Nothing(ask) == IF ask.how \in {"needed", "offset"} THEN Throws ELSE None

(* What is to be read of a member f in a structure that lies at an offset  *)
(* "base".  Two things are left open, which no caller comes to: the        *)
(* element behind the last one of an array, and bits in a structure that   *)
(* does not lie at the beginning.                                          *)
IsRight(value, ask, f, base) ==
    LET tag == Tag(f.type)
        at == ask.at + base + f.offset
        n == Info(f.type).length
        Shows(there, what) == value = IF there THEN what ELSE Nothing(ask)
    IN  CASE ask.how = "pointer" -> Shows(tag = "pointer" /\ IsNumber(at, n), <<Number(at, n)>>)
          [] ask.how = "needed" -> Shows(tag = "pointer" /\ IsNumber(at, n) /\ Number(at, n) # 0, <<Number(at, n)>>)
          [] ask.how = "basic" -> Shows(tag = "base" /\ n = ask.size /\ IsNumber(at, n), <<Number(at, n)>>)
          [] ask.how = "struct" -> Shows(tag = "udt" /\ n > 0 /\ Held(at, n), [k \in 1 .. n |-> scene.memory[at + k - 1]])
          [] ask.how = "offset" -> value = <<base + f.offset>>
          [] ask.how = "bits" ->
               \/ base # 0
               \/ IF tag = "base" /\ f.bits # None /\ n <= ask.size /\ IsNumber(at, ask.size)
                  THEN \E v \in 0 .. (f.bits.values - 1) : value = <<v>> /\ IsBits(v, f.bits, Number(at, ask.size))
                  ELSE value = None
          [] ask.how = "element" ->
               LET m == Info(TypeOf(f.type)).length
                   place == at + ask.index * m
               IN  IF tag # "array" THEN value = None
                   ELSE \/ ask.index = Info(f.type).count
                        \/ Shows(/\ Tag(TypeOf(f.type)) = "pointer" /\ TypeOf(TypeOf(f.type)) # 0
                                 /\ ask.index < Info(f.type).count /\ IsNumber(place, m),
                                 <<Number(place, m)>>)

(* Whatever was asked before, and in whatever order: a field that the type *)
(* does not have has no value, and of one that it has the value is what    *)
(* the memory holds where the field lies, if it is of the kind asked for   *)
(* and in the dump.                                                        *)
FieldsRight ==
    \A a \in answers : a.ask.how # "static" =>
        LET ways == Ways(a.ask.type, a.ask.path)
        IN  /\ ways = {} => a.value = Nothing(a.ask)
            /\ \A way \in ways :
                  LET f == Info(way[Len(way)])
                  IN  IF f.offset = None THEN a.value = Nothing(a.ask)
                      ELSE IsRight(a.value, a.ask, f, Base(way))
===============================================================================
