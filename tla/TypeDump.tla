------------------------------- MODULE TypeDump -------------------------------
(***************************************************************************)
(* dump_symbol_type: how a type is laid out.  Every type of the symbol     *)
(* file that is come to is shown once.  With debug_type_data the type of a *)
(* member is shown under it; without, the members of a structure in it.    *)
(* The types a type is nested in are left out.  The job is [kind, type,    *)
(* debug].                                                                 *)
(***************************************************************************)
EXTENDS TypeTable

VARIABLES
    shows,      \* the calls of do_dump_symbol_type under way, next first: [type, base]
    visited,    \* visited_types
    layout      \* the lines printed: <<type, offset or None>>

typeVars == <<shows, visited, layout>>

Show(t, base) == [type |-> t, base |-> base]
Shift(t) == IF Info(t).offset = None THEN 0 ELSE Info(t).offset

ASSUME ShownAssumption ==
    \A s \in Scenes : \A j \in s.jobs : j.kind = "types" => j.type \in DOMAIN s.types /\ j.debug \in BOOLEAN

-------------------------------------------------------------------------------
(* Slip for Below: the offset of the member is lost.                       *)
SlipBelow(s) ==
    LET inner == TypeOf(s.type) IN
    IF inner = 0 THEN <<>>
    ELSE IF job.debug THEN <<Show(inner, s.base + Shift(s.type))>>
    ELSE IF Tag(inner) # "udt" THEN <<>>
    ELSE [i \in DOMAIN Children(inner) |-> Show(Children(inner)[i], s.base)]

(* What is shown for the type of a member,                                 *)
Below(s) ==
    LET inner == TypeOf(s.type) IN
    IF inner = 0 THEN <<>>
    ELSE IF job.debug THEN <<Show(inner, s.base + Shift(s.type))>>
    ELSE IF Tag(inner) # "udt" THEN <<>>
    ELSE [i \in DOMAIN Children(inner) |-> Show(Children(inner)[i], s.base + Shift(s.type))]

(* and what follows for its own children.                                  *)
Beside(s) == [i \in DOMAIN Children(s.type) |-> Show(Children(s.type)[i], s.base)]

ShowType ==
    /\ shows # <<>>
    /\ LET s == Head(shows) IN
         IF s.type \in visited
         THEN shows' = Tail(shows) /\ UNCHANGED <<visited, layout>>
         ELSE /\ shows' = Below(s) \o Beside(s) \o Tail(shows)
              /\ visited' = visited \union {s.type}
              /\ layout' = layout \union
                     {<<s.type, IF Info(s.type).offset = None THEN None ELSE s.base + Info(s.type).offset>>}
    /\ UNCHANGED <<scene, job>>

InitTypes ==
    /\ visited = {} /\ layout = {}
    /\ shows = IF job.kind = "types" THEN <<Show(job.type, 0)>> ELSE <<>>

-------------------------------------------------------------------------------
(* The members at every depth: those of a structure and of the structures  *)
(* in it, as <<type, offset of what it is a member of>>.                   *)
LaidOutWithin[d \in 0 .. Cardinality(Types)] ==
    [t \in Types |->
        {<<t, 0>>} \union
        IF d = 0 THEN {}
        ELSE (UNION {LaidOutWithin[d - 1][c] : c \in ToSet(Children(t))})
             \union IF Tag(TypeOf(t)) # "udt" THEN {}
                    ELSE UNION {{<<q[1], Shift(t) + q[2]>> : q \in LaidOutWithin[d - 1][c]} : c \in ToSet(Children(TypeOf(t)))}]

(* All that can be come to through the types of members as well.           *)
ReachedWithin[d \in 0 .. Cardinality(Types)] ==
    IF d = 0 THEN {job.type}
    ELSE LET reached == ReachedWithin[d - 1]
         IN  reached \union UNION {ToSet(Children(t)) \union ({TypeOf(t)} \ {0}) : t \in reached}

(* Though a type that was come to is passed over when it is come to again, *)
(* nothing of a type goes unshown, and the offset shown for a member is    *)
(* one at which it lies in the type.                                       *)
TypesShown ==
    job.kind = "types" /\ shows = <<>> =>
        LET parts == LaidOutWithin[Cardinality(Types)][job.type]
            shown == {l[1] : l \in layout}
        IN  IF job.debug THEN shown = ReachedWithin[Cardinality(Types)]
            ELSE /\ shown = {p[1] : p \in parts}
                 /\ \A l \in layout :
                       \E p \in parts :
                          p[1] = l[1] /\ l[2] = IF Info(p[1]).offset = None THEN None ELSE p[2] + Info(p[1]).offset
===============================================================================
