---------------------------- MODULE PointerGather -----------------------------
(***************************************************************************)
(* gather_all_pointers_from_symbol: every pointer that can be reached from *)
(* a structure through the pointers in it.  The graph calls it for each    *)
(* structure of the system and passes over the fields it knows already;    *)
(* process_environment_block gathers one set of addresses over all thread  *)
(* environment blocks.  The job is [kind, roots, at]; `at' is the root it    *)
(* has come to.                                                            *)
(***************************************************************************)
EXTENDS TypeTable

CONSTANT MaxCount   \* bound: the elements of an array

VARIABLES
    visits,     \* the calls of do_gather_all_pointers_from_symbol under way, next first
    pointers,   \* the address pointed to -> [base, offset, type]: where it was found
    work,       \* the address pointed to -> the type it is still to be gone through as
    ignored,    \* ignore_pointers
    areas       \* system_area_addresses

gatherVars == <<visits, pointers, work, ignored, areas>>

Visit(t, base, offset) == [type |-> t, base |-> base, offset |-> offset]

ASSUME GatherAssumption ==
    /\ MaxCount \in Nat
    /\ \A s \in Scenes :
        /\ \A t \in DOMAIN s.types : s.types[t].tag = "array" /\ s.types[t].type # 0 =>
              s.types[s.types[t].type].length > 0 /\ s.types[t].count <= MaxCount
        /\ \A j \in s.jobs : j.kind \in {"graph", "areas"} =>
              /\ {"kind", "roots", "at"} \subseteq DOMAIN j /\ j.at = 1
              /\ j.roots \in Seq([type : DOMAIN s.types, base : Nat, offset : Nat]) \ {<<>>}

-------------------------------------------------------------------------------
(* The calls a visit makes for the type of its type: an array for each of  *)
(* its elements.                                                           *)
SlipInner(v) ==
    IF Tag(v.type) = "array"
    THEN <<Visit(TypeOf(v.type), v.base, v.offset)>>
    ELSE IF Tag(v.type) = "data" THEN <<Visit(TypeOf(v.type), v.base, v.offset)>> ELSE <<>>

Inner(v) ==
    LET inner == TypeOf(v.type) IN
    IF inner = 0 THEN <<>>
    ELSE IF Tag(v.type) \in {"udt", "data"} THEN <<Visit(inner, v.base, v.offset)>>
    ELSE IF Tag(v.type) = "array" /\ Lasts(inner) /\ Info(v.type).count \in 1 .. MaxCount
    THEN [i \in 1 .. Info(v.type).count |-> Visit(inner, v.base, v.offset + (i - 1) * Info(inner).length)]
    ELSE <<>>

Outer(v) ==
    LET members == Members(v.type)
    IN  [i \in DOMAIN members |-> Visit(members[i], v.base + v.offset, Info(members[i]).offset)]

(* Slip for Found: an address that was gone through is taken up again.     *)
SlipFound(v) ==
    LET length == Info(v.type).length
        stream == StreamFor(v.base + v.offset, length)
    IN  IF Tag(v.type) # "pointer" \/ length \notin {1, 2} \/ ~CanRead(stream, length) THEN {}
        ELSE {Number(stream.at, length)} \ ({0} \union ignored \union DOMAIN work)

(* read_possible_pointer_type: what the pointer points to, if that is of   *)
(* interest, as a set.                                                     *)
Found(v) ==
    LET length == Info(v.type).length
        stream == StreamFor(v.base + v.offset, length)
    IN  IF Tag(v.type) # "pointer" \/ length \notin {1, 2} \/ ~CanRead(stream, length) THEN {}
        ELSE {Number(stream.at, length)} \ ({0} \union ignored \union DOMAIN pointers \union DOMAIN work)

With(f, k, v) == [x \in DOMAIN f \union {k} |-> IF x = k THEN v ELSE f[x]]

(* One call of do_gather_all_pointers_from_symbol up to the calls it makes. *)
DoGather ==
    /\ visits # <<>>
    /\ LET v == Head(visits)
           found == {a \in Found(v) : Readable(a)}
           inner == TypeOf(v.type)
       IN  /\ visits' = Inner(v) \o Outer(v) \o Tail(visits)
           /\ IF found = {} THEN UNCHANGED <<pointers, work>>
              ELSE \E a \in found :
                     /\ pointers' = With(pointers, a,
                            [base |-> v.base, offset |-> v.offset, type |-> IF inner # 0 THEN inner ELSE v.type])
                     /\ work' = IF inner # 0 THEN With(work, a, inner) ELSE work
    /\ UNCHANGED <<scene, job, ignored, areas>>

(* work.begin(): the lowest address is next.                               *)
FollowPointer ==
    /\ visits = <<>>
    /\ \E a \in DOMAIN work :
         /\ \A b \in DOMAIN work : a <= b
         /\ visits' = <<Visit(work[a], a, 0)>>
         /\ work' = [x \in DOMAIN work \ {a} |-> work[x]]
    /\ UNCHANGED <<scene, job, pointers, ignored, areas>>

Gathered == visits = <<>> /\ DOMAIN work = {}
Fields == {pointers[a].base + pointers[a].offset : a \in DOMAIN pointers}

(* The caller takes what was found and goes on with its next structure:    *)
(* the graph remembers the fields and starts from nothing, the system's    *)
(* areas are those found from all of them.                                 *)
NextRoot ==
    /\ job.kind \in {"graph", "areas"} /\ job.at <= Len(job.roots) /\ Gathered
    /\ job' = [job EXCEPT !.at = @ + 1]
    /\ visits' = IF job.at = Len(job.roots) THEN <<>> ELSE <<job.roots[job.at + 1]>>
    /\ \/ /\ job.kind = "graph"
          /\ ignored' = ignored \union Fields
          /\ pointers' = <<>>
          /\ UNCHANGED areas
       \/ /\ job.kind = "areas"
          /\ areas' = IF job.at = Len(job.roots) THEN areas \union DOMAIN pointers ELSE areas
          /\ UNCHANGED <<ignored, pointers>>
    /\ UNCHANGED <<scene, work>>

InitGather ==
    /\ pointers = <<>> /\ work = <<>> /\ ignored = {}
    /\ areas = IF job.kind = "areas" THEN {job.roots[i].base : i \in DOMAIN job.roots} ELSE {}
    /\ visits = IF job.kind \in {"graph", "areas"} THEN <<job.roots[1]>> ELSE <<>>

NextGather == DoGather \/ FollowPointer \/ NextRoot

GatherDone == job.kind \in {"graph", "areas"} => job.at > Len(job.roots)

-------------------------------------------------------------------------------
(* The parts of a type at every depth, as <<offset, type>>.                *)
Elements(t) == IF Info(t).count > 0 THEN 0 .. (Info(t).count - 1) ELSE {}
Direct(t) ==
    LET inner == TypeOf(t) IN
    {<<Info(c).offset, c>> : c \in ToSet(Members(t))}
        \union (IF inner # 0 /\ Tag(t) = "data" THEN {<<0, inner>>} ELSE {})
        \union (IF inner # 0 /\ Tag(t) = "array" THEN {<<i * Info(inner).length, inner>> : i \in Elements(t)} ELSE {})

PartsWithin[d \in 0 .. Cardinality(Types)] ==
    [t \in Types |->
        {<<0, t>>} \union
        IF d = 0 THEN {}
        ELSE UNION {{<<p[1] + q[1], q[2]>> : q \in PartsWithin[d - 1][p[2]]} : p \in Direct(t)}]

(* The pointers a structure at an address holds, as [at, type].            *)
PointersIn(a, t) ==
    {[at |-> a + p[1], type |-> p[2]] :
        p \in {q \in PartsWithin[Cardinality(Types)][t] :
                  /\ Tag(q[2]) = "pointer" /\ Info(q[2]).length \in {1, 2}
                  /\ \A k \in 1 .. Info(q[2]).length : Readable(a + q[1] + k - 1)}}

Pointer(f) == Number(f.at, Info(f.type).length)

(* What is found through a field is said to be stored there.               *)
LeadsTo(f, a) ==
    /\ f.at = pointers[a].base + pointers[a].offset /\ Pointer(f) = a
    /\ pointers[a].type = IF TypeOf(f.type) # 0 THEN TypeOf(f.type) ELSE f.type

(* When a gathering has come to its end, every pointer in the structure    *)
(* and in what was reached from it leads to an address that was found, or  *)
(* is null, not in the dump, or a field the graph knows; and every address *)
(* found is stored in the field it is said to be stored in.  What a        *)
(* pointer without a type leads to is not gone through; where the same     *)
(* field is also read with a type, it may be.                              *)
GatherExact ==
    job.kind \in {"graph", "areas"} /\ job.at <= Len(job.roots) /\ Gathered =>
        LET from == {[at |-> job.roots[i].base + job.roots[i].offset, type |-> job.roots[i].type] :
                        i \in IF job.kind = "areas" THEN 1 .. job.at ELSE {job.at}}
            Places(S) == from \union {[at |-> a, type |-> pointers[a].type] : a \in S}
            FieldsOf(places) == UNION {PointersIn(w.at, w.type) : w \in places}
            all == FieldsOf(Places(DOMAIN pointers))
            may == Places({a \in DOMAIN pointers : \E f \in all : LeadsTo(f, a) /\ TypeOf(f.type) # 0})
            must == Places({a \in DOMAIN pointers : \A f \in all : LeadsTo(f, a) => TypeOf(f.type) # 0})
        IN  /\ \A f \in FieldsOf(must) : Pointer(f) \in {0} \union ignored \union DOMAIN pointers \/ ~Readable(Pointer(f))
            /\ \A a \in DOMAIN pointers : \E f \in FieldsOf(may) : LeadsTo(f, a)
            /\ DOMAIN pointers \intersect ignored = {}
===============================================================================
