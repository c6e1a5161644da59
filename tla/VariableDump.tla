----------------------------- MODULE VariableDump -----------------------------
(***************************************************************************)
(* dump_variable_type_at and dump_variable_symbol_at: a variable is shown  *)
(* by its type, member by member, over a stream of the memory it lies in.  *)
(* Every call carries the address it shows and a stream; the two are moved *)
(* on separately.  A line of the output is a header (an address and a type *)
(* or member) and the values read for it.  Bit masks, and the value of an  *)
(* enumeration, which is not shown ("tbd"), are left out.                  *)
(***************************************************************************)
EXTENDS PointerGather

CONSTANT MaxText    \* limit_size of dump_string

VARIABLES
    calls,      \* the calls of dump_variable_symbol_at under way, next first
    headers,    \* the lines printed: <<address, type>>
    values      \* what was printed of memory: [at, length, limit, values]

dumpVars == <<calls, headers, values>>

(* Only a structure has members.  A type asked for by its name, which is   *)
(* shown as if it were inside of another, is no array of structures and no *)
(* pointer to one: those have no name.                                     *)
ASSUME DumpAssumption ==
    /\ MaxText \in Nat
    /\ \A s \in Scenes :
        /\ \A t \in DOMAIN s.types :
              /\ s.types[t].text \in BOOLEAN
              /\ \A c \in ToSet(s.types[t].children) :
                    LiesIn(s.types[c]) => s.types[t].tag = "udt" /\ s.types[c].tag = "data"
        /\ \A j \in s.jobs : j.kind = "dump" =>
              /\ j.type \in DOMAIN s.types /\ j.at \in Nat /\ j.depth \in Nat /\ j.options \in {"auto", "none"}
              /\ j.depth > 0 => \/ s.types[j.type].tag \in {"udt", "data"}
                                \/ s.types[j.type].type = 0 \/ s.types[s.types[j.type].type].tag # "udt"

Call(t, display, at, stream, depth, options) ==
    [type |-> t, display |-> display, at |-> at, stream |-> stream, depth |-> depth, options |-> options]

-------------------------------------------------------------------------------
(* The elements the print functions read from a stream before it ends.     *)
Read(stream, length, n) ==
    [k \in 1 .. (Reach(stream, n * length) \div length) |-> Number(stream.at + (k - 1) * length, length)]

Printed(at, stream, length, n, limit) ==
    {[at |-> at, length |-> length, limit |-> limit, values |-> Read(stream, length, n)]}

(* dump_array_inline with no size given takes the bytes of one element for *)
(* their number, dump_string what is up to the null.                       *)
Count(at, t) ==
    IF Info(t).text
    THEN CHOOSE n \in 0 .. MaxText :
            /\ \A k \in 0 .. (n - 1) : Readable(at + k) /\ scene.memory[at + k] # 0
            /\ n = MaxText \/ ~Readable(at + n) \/ scene.memory[at + n] = 0
    ELSE 4 * Reach(StreamFor(at, Info(t).length), Info(t).length)

Printable(t) == Lasts(t) /\ (Tag(t) = "base" \/ (Tag(t) = "pointer" /\ Info(t).length \in {1, 2}))

(* dump_pointer_memory_value: what the pointer points to, if the dump has  *)
(* it; a structure is gone into from the outermost one only.               *)
Target(p, stream) == Number(stream.at, Info(p).length)
Followed(p, stream) ==
    /\ Tag(p) = "pointer" /\ Info(p).length \in {1, 2} /\ CanRead(stream, Info(p).length)
    /\ Lasts(TypeOf(p)) /\ ~Eof(StreamFor(Target(p, stream), Info(TypeOf(p)).length))

(* The type whose value a call shows: that of a member, or its own.        *)
Shown(c) == IF Tag(c.type) = "data" THEN TypeOf(c.type) ELSE c.type

PointerCalls(c) ==
    LET p == Shown(c) IN
    IF Followed(p, c.stream) /\ Tag(TypeOf(p)) = "udt" /\ c.depth < 1
    THEN LET a == Target(p, c.stream)
         IN  <<Call(TypeOf(p), TypeOf(p), a, StreamFor(a, Info(TypeOf(p)).length), c.depth + 1, "auto")>>
    ELSE <<>>

(* Slip for ArrayCalls: one element too few.                               *)
SlipArrayCalls(c) ==
    LET e == TypeOf(Shown(c)) IN
    IF Tag(e) = "udt" /\ Lasts(e)
    THEN [i \in 1 .. (Info(Shown(c)).count - 1) |->
            LET before == (i - 1) * Info(e).length
            IN  Call(e, e, c.at + before, Skipped(c.stream, before), c.depth + 1, "auto")]
    ELSE <<>>

(* dump_udt_array.                                                         *)
ArrayCalls(c) ==
    LET e == TypeOf(Shown(c)) IN
    IF Tag(e) = "udt" /\ Lasts(e)
    THEN [i \in 1 .. Info(Shown(c)).count |->
            LET before == (i - 1) * Info(e).length
            IN  Call(e, e, c.at + before, Skipped(c.stream, before), c.depth + 1, "auto")]
    ELSE <<>>

(* dump_data_at and the switch of dump_variable_symbol_at: the calls made  *)
(* for the type,                                                           *)
ValueCalls(c) ==
    LET t == Shown(c) IN
    IF Tag(c.type) = "data" /\ Tag(t) = "udt"
    THEN <<Call(t, c.type, c.at, c.stream, c.depth + 1, c.options)>>
    ELSE IF Tag(t) = "pointer" THEN PointerCalls(c)
    ELSE IF Tag(t) = "array" THEN ArrayCalls(c)
    ELSE <<>>

(* and what they print of memory: a value of a base type,                  *)
BaseValues(c) ==
    LET t == Shown(c) IN
    IF Tag(t) = "base" /\ Lasts(t) THEN Printed(c.at, c.stream, Info(t).length, 1, 1) ELSE {}

(* the elements of an array,                                               *)
ArrayValues(c) ==
    LET t == Shown(c)
        inner == TypeOf(t)
    IN  IF Tag(t) = "array" /\ Printable(inner)
        THEN Printed(c.at, c.stream, Info(inner).length,
                     IF Info(t).count > 0 THEN Info(t).count ELSE Count(c.at, inner), Info(t).count)
        ELSE {}

(* a pointer and the value it points to.                                   *)
PointerValues(c) ==
    LET t == Shown(c) IN
    IF Tag(t) = "pointer" /\ Info(t).length \in {1, 2} /\ CanRead(c.stream, Info(t).length)
    THEN Printed(c.at, c.stream, Info(t).length, 1, 1)
         \union IF Followed(t, c.stream) /\ Printable(TypeOf(t))
                THEN LET a == Target(t, c.stream)
                         length == Info(TypeOf(t)).length
                     IN  Printed(a, StreamFor(a, length), length, Count(a, TypeOf(t)), 1)
                ELSE {}
    ELSE {}

ValuesOf(c) == BaseValues(c) \union ArrayValues(c) \union PointerValues(c)

(* The loop over the children.                                             *)
MemberCalls(c) ==
    LET members == Members(c.type)
    IN  [i \in DOMAIN members |->
            LET m == members[i]
            IN  Call(m, m, c.at + Info(m).offset, Skipped(c.stream, Info(m).offset), c.depth, "auto")]

Header(c) ==
    c.options = "auto" /\ (c.depth = 0 \/ Tag(c.type) = "udt" \/ Tag(TypeOf(c.type)) # "udt")

DumpVariable ==
    /\ calls # <<>>
    /\ LET c == Head(calls)
       IN  /\ calls' = ValueCalls(c) \o MemberCalls(c) \o Tail(calls)
           /\ headers' = IF Header(c) THEN headers \union {<<c.at, c.display>>} ELSE headers
           /\ values' = values \union ValuesOf(c)
    /\ UNCHANGED <<scene, job>>

(* dump_variable_type_at; a local variable of a frame is shown without a   *)
(* header.                                                                 *)
InitDump ==
    /\ headers = {} /\ values = {}
    /\ calls = IF job.kind # "dump" THEN <<>>
               ELSE LET stream == StreamFor(job.at, Info(job.type).length)
                    IN  IF ~Lasts(job.type) \/ Eof(stream) THEN <<>>
                        ELSE <<Call(job.type, job.type, job.at, stream, job.depth, job.options)>>

-------------------------------------------------------------------------------
(* What is shown at an address is what the memory has there, and no more   *)
(* of it than the type says: one value behind a pointer, the elements of   *)
(* an array.                                                               *)
ValuesTrue ==
    \A p \in values :
        /\ p.limit > 0 => Len(p.values) <= p.limit
        /\ \A k \in DOMAIN p.values : p.values[k] = Number(p.at + (k - 1) * p.length, p.length)

(* The parts of a type that have a line of their own: members, through the *)
(* structures and arrays of structures in it.                              *)
Lines(t) ==
    LET inner == TypeOf(t)
        MembersAt(u) == {<<Info(c).offset, c>> : c \in ToSet(Members(u))}
        element(a) == TypeOf(a)
        array == IF Tag(t) = "data" THEN inner ELSE t
    IN  MembersAt(t)
        \union (IF Tag(t) = "data" /\ Tag(inner) = "udt" THEN MembersAt(inner) ELSE {})
        \union (IF Tag(array) = "array" /\ Tag(element(array)) = "udt" /\ Lasts(element(array))
                THEN {<<i * Info(element(array)).length, element(array)>> : i \in Elements(array)}
                ELSE {})

LinesWithin[d \in 0 .. Cardinality(Types)] ==
    [t \in Types |->
        {<<0, t>>} \union
        IF d = 0 THEN {}
        ELSE UNION {{<<p[1] + q[1], q[2]>> : q \in LinesWithin[d - 1][p[2]]} : p \in Lines(t)}]

LinesAt(a, t) == {<<a + p[1], p[2]>> : p \in LinesWithin[Cardinality(Types)][t]}

(* Every part of the variable has its line, at the address it lies at, and *)
(* so has every part of what its own pointers point to; nothing else has.  *)
(* What lies behind a gap of the memory cannot be read.                    *)
Reached ==
    LET pointer(t) == IF Tag(t) = "data" THEN TypeOf(t) ELSE t
        own == {<<0, job.type>>} \union {<<Info(c).offset, c>> : c \in ToSet(Members(job.type))}
        led == {m \in own : Tag(pointer(m[2])) = "pointer" /\ Info(pointer(m[2])).length \in {1, 2}
                              /\ \A k \in 1 .. (m[1] + Info(pointer(m[2])).length) :
                                    k <= Info(job.type).length /\ Readable(job.at + (k - 1))}
    IN  {[at |-> Number(job.at + m[1], Info(pointer(m[2])).length), type |-> TypeOf(pointer(m[2]))] : m \in led}

LinesComplete ==
    job.kind = "dump" /\ calls = <<>> /\ Lasts(job.type) /\ Readable(job.at) =>
        headers = (LinesAt(job.at, job.type) \ (IF job.options = "auto" THEN {} ELSE {<<job.at, job.type>>}))
                    \union UNION {LinesAt(r.at, r.type) :
                                    r \in {x \in Reached : /\ job.depth = 0
                                                           /\ Tag(x.type) = "udt" /\ Lasts(x.type) /\ Readable(x.at)}}

(* The dump of a variable has the lines its type asks for and the values   *)
(* the memory has there.                                                   *)
DumpRight == ValuesTrue /\ LinesComplete
===============================================================================
