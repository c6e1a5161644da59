---------------------------- MODULE TypeWalk_proofs -----------------------------
(***************************************************************************)
(* Proofs about TypeWalk for every table of types and every memory: what   *)
(* the readers are told of a field is right, whatever was asked before;    *)
(* what is shown of a type or of memory is all of it, and true; the        *)
(* pointers gathered are those that can be reached; and a variable is      *)
(* shown with every part of its type.                                      *)
(***************************************************************************)
EXTENDS TypeWalk, SequenceTheorems, FiniteSetTheorems, WellFoundedInduction, TLAPS

LEMMA LeastOf ==
    ASSUME NEW S \in SUBSET Nat, S # {}
    PROVE  \E n \in S : \A m \in S : n <= m
  <1>1. PICK n \in S : \A m \in S : ~(<<m, n>> \in OpToRel(<, Nat))
    BY NatLessThanWellFounded, WFMin
  <1>2. ASSUME NEW m \in S, m < n
        PROVE  FALSE
    <2>1. <<m, n>> \in OpToRel(<, Nat)
      BY <1>2 DEF OpToRel
    <2>. QED
      BY <1>1, <2>1
  <1>. QED
    BY <1>2

(* What is reached from a in n steps: were there no such function up to    *)
(* some k, the one up to the place before the least k would extend.        *)
Runs(f, a, step, n) == f = [k \in 0 .. n |-> IF k = 0 THEN a ELSE step[<<f[k - 1], k>>]]

LEMMA RunsExist ==
    ASSUME NEW S, NEW n \in Nat, NEW a \in S, NEW step \in [S \X (1 .. n) -> S]
    PROVE  \E f : Runs(f, a, step, n) /\ f \in [0 .. n -> S]
  <1>. DEFINE good(k) == \E f : Runs(f, a, step, k) /\ f \in [0 .. k -> S]
              bad == {k \in 0 .. n : ~good(k)}
  <1>1. good(0)
    <2>. DEFINE f == [k \in 0 .. 0 |-> a]
    <2>1. Runs(f, a, step, 0) /\ f \in [0 .. 0 -> S]
      BY DEF Runs
    <2>. QED
      BY <2>1
  <1>2. ASSUME NEW k \in 1 .. n, good(k - 1)
        PROVE  good(k)
    <2>1. PICK f : Runs(f, a, step, k - 1) /\ f \in [0 .. (k - 1) -> S]
      BY <1>2
    <2>. DEFINE g == [j \in 0 .. k |-> IF j = k THEN step[<<f[k - 1], k>>] ELSE f[j]]
    <2>2. g \in [0 .. k -> S]
      <3>1. step[<<f[k - 1], k>>] \in S
        BY <2>1
      <3>. QED
        BY <2>1, <3>1
    <2>3. \A j \in 0 .. k : g[j] = IF j = 0 THEN a ELSE step[<<g[j - 1], j>>]
      <3>1. \A j \in 0 .. (k - 1) : f[j] = IF j = 0 THEN a ELSE step[<<f[j - 1], j>>]
        BY <2>1 DEF Runs
      <3>2. g[0] = a
        <4>1. f[0] = a /\ 0 \in 0 .. k /\ 0 # k
          <5>. HIDE DEF g
          <5>1. 0 \in 0 .. (k - 1) /\ 0 \in 0 .. k /\ 0 # k
            OBVIOUS
          <5>. QED
            BY <3>1, <5>1
        <4>. QED
          BY <4>1
      <3>3. ASSUME NEW j \in 1 .. k
            PROVE  g[j] = step[<<g[j - 1], j>>]
        <4>1. g[j - 1] = f[j - 1]
          OBVIOUS
        <4>2. CASE j = k
          <5>1. g[j] = step[<<f[j - 1], j>>]
            BY <4>2
          <5>. HIDE DEF g
          <5>. QED
            BY <4>1, <5>1
        <4>3. CASE j # k
          <5>1. g[j] = f[j] /\ j \in 0 .. (k - 1) /\ j # 0
            BY <4>3
          <5>. QED
            BY <3>1, <4>1, <5>1
        <4>. QED
          BY <4>2, <4>3
      <3>. HIDE DEF g
      <3>. QED
        BY <3>2, <3>3
    <2>. HIDE DEF g
    <2>. QED
      BY <2>2, <2>3 DEF Runs
  <1>. HIDE DEF good
  <1>3. bad = {}
    <2>. SUFFICES ASSUME bad # {} PROVE FALSE
      OBVIOUS
    <2>1. PICK k \in bad : \A m \in bad : k <= m
      <3>1. bad \in SUBSET Nat
        OBVIOUS
      <3>. HIDE DEF bad
      <3>. QED
        BY <3>1, LeastOf
    <2>. QED
      BY <1>1, <1>2, <2>1
  <1>. QED
    BY <1>3 DEF good

-------------------------------------------------------------------------------
(* What is known of the types, and of what is asked for.                   *)
TypesOk ==
    /\ 0 \notin Types
    /\ None \notin [type : Types, offset : Nat] /\ None \notin [field : Types, offset : Nat]
    /\ \A t \in Types :
         /\ TypeOf(t) \in {0} \union Types
         /\ Children(t) \in Seq(Types)
         /\ Info(t).offset \in Nat \union {None} /\ Info(t).length \in Nat /\ Info(t).count \in Nat
         /\ Info(t).bits # None => Info(t).bits.weight \in Nat \ {0} /\ Info(t).bits.values \in Nat \ {0}
         /\ \A name : name # None => \A i, j \in Called(t, name) : i = j

AskOk(ask) ==
    /\ ask.type \in Types /\ ask.how \in Hows
    /\ ask.at \in Nat /\ ask.size \in Nat /\ ask.index \in Nat
    /\ Len(ask.path) \in Nat \ {0} /\ DOMAIN ask.path = 1 .. Len(ask.path)
    /\ \A k \in 1 .. Len(ask.path) : ask.path[k] # None

LEMMA SceneIsOk ==
    ASSUME scene \in Scenes
    PROVE  /\ TypesOk
           /\ job \in scene.jobs /\ job.kind = "fields" => \A ask \in job.asks : AskOk(ask)
  <1>1. TypesOk
    <2>1. ASSUME NEW t \in Types, NEW name, name # None, NEW i \in Called(t, name), NEW j \in Called(t, name)
          PROVE  i = j
      BY <2>1, FieldsAssumption DEF Types, Called, Info, Children
    <2>2. ASSUME NEW t \in Types
          PROVE  /\ TypeOf(t) \in {0} \union Types
                 /\ Children(t) \in Seq(Types)
                 /\ Info(t).offset \in Nat \union {None} /\ Info(t).length \in Nat /\ Info(t).count \in Nat
      BY ScenesAssumption, FieldsAssumption DEF Types, Info, Children, TypeOf
    <2>3. ASSUME NEW t \in Types, Info(t).bits # None
          PROVE  Info(t).bits.weight \in Nat \ {0} /\ Info(t).bits.values \in Nat \ {0}
      BY <2>3, FieldsAssumption DEF Types, Info
    <2>4. 0 \notin Types
      BY ScenesAssumption DEF Types
    <2>5. None \notin [type : Types, offset : Nat] /\ None \notin [field : Types, offset : Nat]
      BY FieldsAssumption DEF Types
    <2>. QED
      BY <2>1, <2>2, <2>3, <2>4, <2>5 DEF TypesOk
  <1>2. ASSUME job \in scene.jobs, job.kind = "fields", NEW ask \in job.asks
        PROVE  AskOk(ask)
    <2>1. /\ ask.type \in DOMAIN scene.types /\ ask.how \in Hows
          /\ ask.at \in Nat /\ ask.size \in Nat /\ ask.index \in Nat
          /\ ask.path \in Seq({ask.path[k] : k \in DOMAIN ask.path}) \ {<<>>}
          /\ \A k \in DOMAIN ask.path : ask.path[k] # None
      BY <1>2, FieldsAssumption
    <2>2. Len(ask.path) \in Nat \ {0} /\ DOMAIN ask.path = 1 .. Len(ask.path)
      BY <2>1
    <2>. QED
      BY <2>1, <2>2 DEF AskOk, Types
  <1>. QED
    BY <1>1, <1>2

LEMMA FirstIsMember ==
    ASSUME TypesOk, NEW t \in Types, NEW places \in SUBSET DOMAIN Children(t), places # {}
    PROVE  \E i \in places : /\ FirstOf(t, places) = Children(t)[i]
                             /\ Children(t)[i] \in Types /\ Children(t)[i] \in ToSet(Children(t))
  <1>1. Children(t) \in Seq(Types)
    BY DEF TypesOk
  <1>2. places \in SUBSET Nat
    BY <1>1
  <1>3. PICK i \in places : \A j \in places : i <= j
    BY <1>2, LeastOf
  <1>4. (CHOOSE k \in places : \A j \in places : k <= j) \in places
    BY <1>3
  <1>. DEFINE first == CHOOSE k \in places : \A j \in places : k <= j
  <1>5. FirstOf(t, places) = Children(t)[first] /\ first \in DOMAIN Children(t) /\ first \in places
    BY <1>4 DEF FirstOf
  <1>. HIDE DEF first
  <1>6. Children(t)[first] \in Types /\ Children(t)[first] \in ToSet(Children(t))
    BY <1>1, <1>5 DEF ToSet
  <1>. QED
    BY <1>5, <1>6

(* A name leads to no more than one member.                                *)
LEMMA OneIsCalled ==
    ASSUME TypesOk, NEW t \in Types, NEW name, name # None,
           NEW m \in ToSet(Children(t)), Info(m).name = name
    PROVE  /\ m \in Types
           /\ Called(t, name) # {} /\ m = FirstOf(t, Called(t, name))
           /\ TypeOf(m) # 0 /\ Info(m).offset # None =>
                 Leading(t, name) # {} /\ m = FirstOf(t, Leading(t, name))
  <1>1. PICK i \in DOMAIN Children(t) : m = Children(t)[i]
    BY DEF ToSet
  <1>2. i \in Called(t, name)
    BY <1>1 DEF Called
  <1>3. \A j \in Called(t, name) : j = i
    BY <1>2 DEF TypesOk
  <1>4. Called(t, name) \in SUBSET DOMAIN Children(t) /\ Leading(t, name) \subseteq Called(t, name)
    BY DEF Called, Leading
  <1>5. m = FirstOf(t, Called(t, name)) /\ m \in Types
    BY <1>1, <1>2, <1>3, <1>4, FirstIsMember
  <1>6. ASSUME TypeOf(m) # 0, Info(m).offset # None
        PROVE  Leading(t, name) # {} /\ m = FirstOf(t, Leading(t, name))
    <2>1. i \in Leading(t, name)
      BY <1>1, <1>2, <1>6 DEF Leading
    <2>. QED
      BY <1>1, <1>3, <1>4, <2>1, FirstIsMember
  <1>. QED
    BY <1>2, <1>5, <1>6

-------------------------------------------------------------------------------
(* The structures that find_field_in_type comes to.                        *)
Led(t, path) == CHOOSE f : f = [k \in 0 .. (Len(path) - 1) |->
                        IF k = 0 THEN [type |-> t, offset |-> 0] ELSE Into(f[k - 1], path[k])]

Places == {None} \union {[type |-> t, offset |-> o] : t \in Types, o \in Nat}

LEMMA IntoIsPlace ==
    ASSUME TypesOk, NEW place \in Places, NEW name
    PROVE  Into(place, name) \in Places
  <1>1. CASE place = None \/ Tag(place.type) # "udt" \/ Leading(place.type, name) = {}
    BY <1>1 DEF Into, Places
  <1>2. CASE place # None /\ Tag(place.type) = "udt" /\ Leading(place.type, name) # {}
    <2>1. place.type \in Types /\ place.offset \in Nat
      BY <1>2 DEF Places
    <2>2. Leading(place.type, name) \in SUBSET DOMAIN Children(place.type)
      BY DEF Leading, Called
    <2>3. PICK i \in Leading(place.type, name) :
             /\ FirstOf(place.type, Leading(place.type, name)) = Children(place.type)[i]
             /\ Children(place.type)[i] \in Types
      BY <1>2, <2>1, <2>2, FirstIsMember
    <2>. DEFINE m == FirstOf(place.type, Leading(place.type, name))
    <2>4. m \in Types /\ TypeOf(m) \in Types /\ Info(m).offset \in Nat
      BY <2>3 DEF Leading, TypesOk
    <2>5. Into(place, name) = [type |-> TypeOf(m), offset |-> place.offset + Info(m).offset]
      BY <1>2 DEF Into
    <2>. HIDE DEF m
    <2>6. place.offset + Info(m).offset \in Nat
      BY <2>1, <2>4
    <2>. QED
      BY <2>4, <2>5, <2>6 DEF Places
  <1>. QED
    BY <1>1, <1>2

LEMMA LedIs ==
    ASSUME TypesOk, NEW t \in Types, NEW path, Len(path) \in Nat \ {0}
    PROVE  /\ Led(t, path)[0] = [type |-> t, offset |-> 0]
           /\ \A k \in 1 .. (Len(path) - 1) : Led(t, path)[k] = Into(Led(t, path)[k - 1], path[k])
           /\ \A k \in 0 .. (Len(path) - 1) : Led(t, path)[k] \in Places
  <1>. DEFINE n == Len(path) - 1
              a == [type |-> t, offset |-> 0]
              step == [x \in Places \X (1 .. n) |-> Into(x[1], path[x[2]])]
              body(f, k) == IF k = 0 THEN a ELSE Into(f[k - 1], path[k])
  <1>1. n \in Nat /\ a \in Places /\ step \in [Places \X (1 .. n) -> Places]
    <2>1. \A x \in Places \X (1 .. n) : Into(x[1], path[x[2]]) \in Places
      BY IntoIsPlace
    <2>. QED
      BY <2>1 DEF Places
  <1>2. \A x \in Places, k \in 1 .. n : step[<<x, k>>] = Into(x, path[k])
    OBVIOUS
  <1>. HIDE DEF n, a, step
  <1>3. PICK f : Runs(f, a, step, n) /\ f \in [0 .. n -> Places]
    BY <1>1, RunsExist
  <1>4. \A k \in 0 .. n : (IF k = 0 THEN a ELSE step[<<f[k - 1], k>>]) = body(f, k)
    <2>1. ASSUME NEW k \in 1 .. n
          PROVE  step[<<f[k - 1], k>>] = Into(f[k - 1], path[k])
      <3>1. f[k - 1] \in Places
        BY <1>1, <1>3
      <3>. QED
        BY <1>2, <3>1
    <2>. QED
      BY <1>1, <2>1
  <1>5. f = [k \in 0 .. n |-> body(f, k)]
    <2>. HIDE DEF body
    <2>. QED
      BY <1>3, <1>4 DEF Runs
  <1>. DEFINE g == Led(t, path)
  <1>6. g = [k \in 0 .. n |-> body(g, k)]
    BY <1>5 DEF Led, n, a
  <1>. HIDE DEF g
  <1>7. g[0] = a /\ \A k \in 1 .. n : g[k] = Into(g[k - 1], path[k])
    <2>1. \A k \in 0 .. n : g[k] = body(g, k)
      <3>. HIDE DEF body
      <3>. QED
        BY <1>6
    <2>. QED
      BY <1>1, <2>1
  <1>8. \A k \in 0 .. n : g[k] \in Places
    <2>. DEFINE bad == {k \in 0 .. n : g[k] \notin Places}
    <2>. SUFFICES ASSUME bad # {} PROVE FALSE
      OBVIOUS
    <2>1. PICK k \in bad : \A m \in bad : k <= m
      <3>1. bad \in SUBSET Nat
        OBVIOUS
      <3>. HIDE DEF bad
      <3>. QED
        BY <3>1, LeastOf
    <2>2. k # 0
      BY <1>1, <1>7
    <2>3. k - 1 \in 0 .. n /\ k - 1 \notin bad
      BY <1>1, <2>1, <2>2
    <2>4. g[k - 1] \in Places /\ g[k] = Into(g[k - 1], path[k])
      BY <1>1, <1>7, <2>2, <2>3
    <2>. QED
      BY <2>4, IntoIsPlace
  <1>. QED
    BY <1>7, <1>8 DEF n, a, g

LEMMA FoundIs ==
    ASSUME NEW t, NEW path
    PROVE  LET place == Led(t, path)[Len(path) - 1]
               name == path[Len(path)]
           IN  FindFieldInType(t, path) =
                  IF place = None THEN None
                  ELSE IF Tag(place.type) # "udt" \/ Called(place.type, name) = {} THEN None
                  ELSE [field |-> FirstOf(place.type, Called(place.type, name)), offset |-> place.offset]
  BY DEF FindFieldInType, Led

(* The offsets of the structures on a way.                                 *)
LEMMA BasesAre ==
    ASSUME TypesOk, NEW n \in Nat \ {0}, NEW way \in [1 .. n -> Types],
           \A k \in 1 .. (n - 1) : Info(way[k]).offset # None
    PROVE  \E b : /\ b[0] = 0 /\ \A k \in 1 .. (n - 1) : b[k] = b[k - 1] + Info(way[k]).offset
                  /\ \A k \in 0 .. (n - 1) : b[k] \in Nat
                  /\ Base(way) = b[n - 1] /\ Base(way) \in Nat
  <1>. DEFINE l == n - 1
              step == [x \in Nat \X (1 .. l) |-> x[1] + Info(way[x[2]]).offset]
              body(f, k) == IF k = 0 THEN 0 ELSE f[k - 1] + Info(way[k]).offset
              g == CHOOSE f : f = [k \in 0 .. l |-> body(f, k)]
  <1>0. Len(way) = n
    OBVIOUS
  <1>1. \A k \in 1 .. l : Info(way[k]).offset \in Nat
    BY DEF TypesOk
  <1>2. l \in Nat /\ 0 \in Nat
    OBVIOUS
  <1>3. step \in [Nat \X (1 .. l) -> Nat]
    <2>. HIDE DEF l
    <2>1. \A x \in Nat \X (1 .. l) : x[1] + Info(way[x[2]]).offset \in Nat
      <3>1. ASSUME NEW a \in Nat, NEW k \in 1 .. l
            PROVE  a + Info(way[k]).offset \in Nat
        BY <1>1
      <3>. QED
        BY <3>1
    <2>. QED
      BY <2>1
  <1>4. \A x \in Nat, k \in 1 .. l : step[<<x, k>>] = x + Info(way[k]).offset
    OBVIOUS
  <1>5. Base(way) = g[l]
    BY <1>0 DEF Base
  <1>. HIDE DEF l, step
  <1>6. PICK f : Runs(f, 0, step, l) /\ f \in [0 .. l -> Nat]
    BY <1>2, <1>3, RunsExist
  <1>7. \A k \in 0 .. l : (IF k = 0 THEN 0 ELSE step[<<f[k - 1], k>>]) = body(f, k)
    <2>1. ASSUME NEW k \in 1 .. l
          PROVE  step[<<f[k - 1], k>>] = f[k - 1] + Info(way[k]).offset
      <3>1. f[k - 1] \in Nat
        BY <1>2, <1>6
      <3>. QED
        BY <1>4, <3>1
    <2>. QED
      BY <1>2, <2>1
  <1>8. f = [k \in 0 .. l |-> body(f, k)]
    <2>. HIDE DEF body
    <2>. QED
      BY <1>6, <1>7 DEF Runs
  <1>9. g = [k \in 0 .. l |-> body(g, k)]
    BY <1>8
  <1>. HIDE DEF g
  <1>10. \A k \in 0 .. l : g[k] = body(g, k)
    <2>. HIDE DEF body
    <2>. QED
      BY <1>9
  <1>11. g[0] = 0 /\ \A k \in 1 .. l : g[k] = g[k - 1] + Info(way[k]).offset
    BY <1>2, <1>10
  <1>12. \A k \in 0 .. l : g[k] \in Nat
    <2>. DEFINE bad == {k \in 0 .. l : g[k] \notin Nat}
    <2>. SUFFICES ASSUME bad # {} PROVE FALSE
      OBVIOUS
    <2>1. PICK k \in bad : \A m \in bad : k <= m
      <3>1. bad \in SUBSET Nat
        OBVIOUS
      <3>. HIDE DEF bad
      <3>. QED
        BY <3>1, LeastOf
    <2>2. k # 0
      BY <1>2, <1>11
    <2>3. k - 1 \in 0 .. l /\ k - 1 \notin bad
      BY <1>2, <2>1, <2>2
    <2>4. g[k - 1] \in Nat /\ g[k] = g[k - 1] + Info(way[k]).offset /\ Info(way[k]).offset \in Nat
      BY <1>1, <1>2, <1>11, <2>2, <2>3
    <2>. QED
      BY <2>4
  <1>. QED
    BY <1>2, <1>5, <1>11, <1>12 DEF l

(* find_field_in_type goes the way there is, if there is one,              *)
LEMMA WayIsFollowed ==
    ASSUME TypesOk, NEW t \in Types, NEW path, Len(path) \in Nat \ {0}, DOMAIN path = 1 .. Len(path),
           \A k \in 1 .. Len(path) : path[k] # None, NEW way \in Ways(t, path)
    PROVE  /\ FindFieldInType(t, path) = [field |-> way[Len(way)], offset |-> Base(way)]
           /\ way[Len(way)] \in Types /\ Base(way) \in Nat
  <1>. DEFINE n == Len(path)
              at(k) == IF k = 1 THEN t ELSE TypeOf(way[k - 1])
              led == Led(t, path)
  <1>1. n \in Nat \ {0} /\ way \in [1 .. n -> Types] /\ Len(way) = n
    BY DEF Ways
  <1>2. ASSUME NEW k \in 1 .. n
        PROVE  /\ Tag(at(k)) = "udt" /\ at(k) \in Types
               /\ way[k] \in ToSet(Children(at(k))) /\ Info(way[k]).name = path[k] /\ path[k] # None
               /\ k < n => Info(way[k]).offset # None
    <2>1. /\ Tag(at(k)) = "udt"
          /\ way[k] \in ToSet(Children(at(k))) /\ Info(way[k]).name = path[k]
          /\ k < n => Info(way[k]).offset # None
      BY DEF Ways, IsWay
    <2>2. at(k) \in Types
      <3>1. CASE k = 1
        BY <3>1
      <3>2. CASE k # 1
        <4>1. k - 1 \in 1 .. n
          BY <1>1, <3>2
        <4>2. way[k - 1] \in Types
          BY <1>1, <4>1
        <4>3. TypeOf(way[k - 1]) \in {0} \union Types /\ at(k) = TypeOf(way[k - 1])
          BY <3>2, <4>2 DEF TypesOk
        <4>4. at(k) # 0
          BY <2>1 DEF Tag
        <4>. QED
          BY <4>3, <4>4
      <3>. QED
        BY <3>1, <3>2
    <2>. QED
      BY <2>1, <2>2
  <1>. HIDE DEF n
  <1>3. PICK b : /\ b[0] = 0 /\ \A k \in 1 .. (n - 1) : b[k] = b[k - 1] + Info(way[k]).offset
                 /\ \A k \in 0 .. (n - 1) : b[k] \in Nat
                 /\ Base(way) = b[n - 1] /\ Base(way) \in Nat
    <2>1. \A k \in 1 .. (n - 1) : k \in 1 .. n /\ k < n
      BY <1>1
    <2>2. \A k \in 1 .. (n - 1) : Info(way[k]).offset # None
      BY <1>2, <2>1
    <2>. QED
      BY <1>1, <2>2, BasesAre
  <1>4. /\ led[0] = [type |-> t, offset |-> 0]
        /\ \A k \in 1 .. (n - 1) : led[k] = Into(led[k - 1], path[k])
    BY LedIs DEF n
  <1>5. ASSUME NEW k \in 1 .. n, led[k - 1] = [type |-> at(k), offset |-> b[k - 1]]
        PROVE  /\ led[k - 1] # None
               /\ k < n => led[k] = [type |-> TypeOf(way[k]), offset |-> b[k]]
    <2>1. /\ Tag(at(k)) = "udt" /\ at(k) \in Types
          /\ way[k] \in ToSet(Children(at(k))) /\ Info(way[k]).name = path[k] /\ path[k] # None
          /\ k < n => Info(way[k]).offset # None
      BY <1>2
    <2>2. led[k - 1] # None
      <3>1. b[k - 1] \in Nat
        BY <1>1, <1>3
      <3>. HIDE DEF led, at
      <3>. QED
        BY <1>5, <2>1, <3>1 DEF TypesOk
    <2>3. ASSUME k < n
          PROVE  led[k] = [type |-> TypeOf(way[k]), offset |-> b[k]]
      <3>1. k + 1 \in 1 .. n /\ at(k + 1) = TypeOf(way[k]) /\ k \in 1 .. (n - 1)
        BY <1>1, <2>3
      <3>2. TypeOf(way[k]) # 0
        BY <1>2, <3>1 DEF TypesOk
      <3>. HIDE DEF at, led
      <3>3. Leading(at(k), path[k]) # {} /\ way[k] = FirstOf(at(k), Leading(at(k), path[k]))
        BY <2>1, <2>3, <3>2, OneIsCalled
      <3>4. Into(led[k - 1], path[k]) = [type |-> TypeOf(way[k]), offset |-> b[k - 1] + Info(way[k]).offset]
        BY <1>5, <2>1, <2>2, <3>3 DEF Into
      <3>. QED
        BY <1>3, <1>4, <3>1, <3>4
    <2>. QED
      BY <2>2, <2>3
  <1>6. \A k \in 1 .. n : led[k - 1] = [type |-> at(k), offset |-> b[k - 1]]
    <2>. DEFINE bad == {k \in 1 .. n : led[k - 1] # [type |-> at(k), offset |-> b[k - 1]]}
    <2>. SUFFICES ASSUME bad # {} PROVE FALSE
      OBVIOUS
    <2>1. PICK k \in bad : \A m \in bad : k <= m
      <3>1. bad \in SUBSET Nat
        OBVIOUS
      <3>. HIDE DEF bad
      <3>. QED
        BY <3>1, LeastOf
    <2>2. k # 1
      BY <1>3, <1>4
    <2>3. k - 1 \in 1 .. n /\ k - 1 \notin bad /\ k - 1 < n
      BY <1>1, <2>1, <2>2
    <2>. DEFINE j == k - 1
    <2>4. j \in 1 .. n /\ j < n /\ led[j - 1] = [type |-> at(j), offset |-> b[j - 1]]
      BY <2>3
    <2>. HIDE DEF j
    <2>5. led[j] = [type |-> TypeOf(way[j]), offset |-> b[j]]
      BY <1>5, <2>4
    <2>6. at(k) = TypeOf(way[k - 1])
      BY <2>2
    <2>. QED
      BY <2>5, <2>6 DEF j
  <1>7. /\ led[n - 1] # None /\ led[n - 1] = [type |-> at(n), offset |-> b[n - 1]]
        /\ Tag(at(n)) = "udt" /\ at(n) \in Types /\ way[n] \in Types
        /\ Called(at(n), path[n]) # {} /\ way[n] = FirstOf(at(n), Called(at(n), path[n]))
    <2>1. n \in 1 .. n
      BY <1>1
    <2>2. led[n - 1] # None /\ led[n - 1] = [type |-> at(n), offset |-> b[n - 1]]
      BY <1>5, <1>6, <2>1
    <2>3. /\ Tag(at(n)) = "udt" /\ at(n) \in Types
          /\ way[n] \in ToSet(Children(at(n))) /\ Info(way[n]).name = path[n] /\ path[n] # None
      BY <1>2, <2>1
    <2>. HIDE DEF at, led
    <2>4. /\ way[n] \in Types
          /\ Called(at(n), path[n]) # {} /\ way[n] = FirstOf(at(n), Called(at(n), path[n]))
      BY <2>3, OneIsCalled
    <2>. QED
      BY <2>2, <2>3, <2>4
  <1>8. FindFieldInType(t, path) =
           IF led[n - 1] = None THEN None
           ELSE IF Tag(led[n - 1].type) # "udt" \/ Called(led[n - 1].type, path[n]) = {} THEN None
           ELSE [field |-> FirstOf(led[n - 1].type, Called(led[n - 1].type, path[n])), offset |-> led[n - 1].offset]
    BY FoundIs DEF n
  <1>. HIDE DEF at, led
  <1>. QED
    BY <1>1, <1>3, <1>7, <1>8

(* and where it finds something there is a way.                            *)
LEMMA FoundIsOnWay ==
    ASSUME TypesOk, NEW t \in Types, NEW path, Len(path) \in Nat \ {0}, DOMAIN path = 1 .. Len(path),
           \A k \in 1 .. Len(path) : path[k] # None, FindFieldInType(t, path) # None
    PROVE  Ways(t, path) # {}
  <1>. DEFINE n == Len(path)
              led == Led(t, path)
              places(k) == IF k = n THEN Called(led[k - 1].type, path[k]) ELSE Leading(led[k - 1].type, path[k])
              way == [k \in 1 .. n |-> FirstOf(led[k - 1].type, places(k))]
  <1>1. n \in Nat \ {0}
    OBVIOUS
  <1>2. /\ led[0] = [type |-> t, offset |-> 0]
        /\ \A k \in 1 .. (n - 1) : led[k] = Into(led[k - 1], path[k])
        /\ \A k \in 0 .. (n - 1) : led[k] \in Places
    BY LedIs
  <1>3. /\ led[n - 1] # None
        /\ Tag(led[n - 1].type) = "udt" /\ Called(led[n - 1].type, path[n]) # {}
    BY FoundIs
  <1>. HIDE DEF n, led
  <1>4. \A k \in 0 .. (n - 1) : led[k] # None
    <2>. SUFFICES ASSUME NEW k \in 0 .. (n - 1), led[k] = None
                  PROVE  FALSE
      OBVIOUS
    <2>. DEFINE bad == {j \in 0 .. (n - 1) : j > k /\ led[j] # None}
    <2>1. n - 1 \in bad
      BY <1>1, <1>3
    <2>2. PICK j \in bad : \A m \in bad : j <= m
      <3>1. bad \in SUBSET Nat
        OBVIOUS
      <3>. HIDE DEF bad
      <3>. QED
        BY <2>1, <3>1, LeastOf
    <2>3. j \in 1 .. (n - 1) /\ j - 1 \in 0 .. (n - 1) /\ j - 1 >= k /\ j - 1 \notin bad
      BY <1>1, <2>2
    <2>4. led[j - 1] = None
      BY <2>3
    <2>5. led[j] = Into(None, path[j])
      BY <1>2, <2>3, <2>4
    <2>6. led[j] = None
      BY <2>5 DEF Into
    <2>. QED
      BY <2>2, <2>6
  <1>5. ASSUME NEW k \in 1 .. n
        PROVE  /\ led[k - 1].type \in Types /\ Tag(led[k - 1].type) = "udt"
               /\ places(k) \in SUBSET DOMAIN Children(led[k - 1].type) /\ places(k) # {}
               /\ k < n => led[k].type = TypeOf(way[k])
    <2>1. k - 1 \in 0 .. (n - 1)
      BY <1>1
    <2>2. led[k - 1] # None /\ led[k - 1].type \in Types
      BY <1>2, <1>4, <2>1 DEF Places
    <2>3. places(k) \in SUBSET DOMAIN Children(led[k - 1].type)
      BY DEF Called, Leading
    <2>4. CASE k = n
      BY <1>3, <2>2, <2>3, <2>4
    <2>5. CASE k # n
      <3>1. k \in 1 .. (n - 1)
        BY <1>1, <2>5
      <3>2. led[k] = Into(led[k - 1], path[k]) /\ led[k] # None
        BY <1>2, <1>4, <3>1
      <3>3. places(k) = Leading(led[k - 1].type, path[k])
        BY <2>5
      <3>4. way[k] = FirstOf(led[k - 1].type, Leading(led[k - 1].type, path[k]))
        BY <3>3
      <3>. HIDE DEF places, way
      <3>5. /\ Tag(led[k - 1].type) = "udt" /\ Leading(led[k - 1].type, path[k]) # {}
            /\ led[k].type = TypeOf(way[k])
        BY <2>2, <3>2, <3>4 DEF Into
      <3>. QED
        BY <2>2, <2>3, <3>3, <3>5
    <2>. QED
      BY <2>4, <2>5
  <1>6. ASSUME NEW k \in 1 .. n
        PROVE  /\ way[k] \in Types /\ way[k] \in ToSet(Children(led[k - 1].type)) /\ Info(way[k]).name = path[k]
               /\ k < n => Info(way[k]).offset # None
    <2>1. PICK i \in places(k) : /\ FirstOf(led[k - 1].type, places(k)) = Children(led[k - 1].type)[i]
                                 /\ Children(led[k - 1].type)[i] \in Types
                                 /\ Children(led[k - 1].type)[i] \in ToSet(Children(led[k - 1].type))
      <3>. HIDE DEF places
      <3>. QED
        BY <1>5, FirstIsMember
    <2>2. way[k] = Children(led[k - 1].type)[i]
      BY <2>1
    <2>3. i \in Called(led[k - 1].type, path[k]) /\ (k < n => i \in Leading(led[k - 1].type, path[k]))
      BY <2>1 DEF Leading
    <2>. HIDE DEF way, places
    <2>4. Info(way[k]).name = path[k] /\ (k < n => Info(way[k]).offset # None)
      BY <2>2, <2>3 DEF Called, Leading
    <2>. QED
      BY <2>1, <2>2, <2>4
  <1>7. way \in [1 .. n -> Types]
    <2>. HIDE DEF places
    <2>1. \A k \in 1 .. n : FirstOf(led[k - 1].type, places(k)) \in Types
      BY <1>6
    <2>. QED
      BY <2>1
  <1>. HIDE DEF places, way
  <1>8. ASSUME NEW k \in 1 .. n
        PROVE  led[k - 1].type = IF k = 1 THEN t ELSE TypeOf(way[k - 1])
    <2>1. CASE k = 1
      BY <1>2, <2>1
    <2>2. CASE k # 1
      <3>1. k - 1 \in 1 .. n /\ k - 1 < n
        BY <1>1, <2>2
      <3>. QED
        BY <1>5, <2>2, <3>1
    <2>. QED
      BY <2>1, <2>2
  <1>9. IsWay(way, t, path)
    BY <1>5, <1>6, <1>8 DEF IsWay, n
  <1>. QED
    BY <1>7, <1>9 DEF Ways, n

-------------------------------------------------------------------------------
(* What is read is what the memory holds.                                  *)
MemoryOk == Unit \in Nat /\ \A a \in DOMAIN scene.memory : scene.memory[a] \in Nat

LEMMA CanReadIsHeld ==
    ASSUME NEW a \in Nat, NEW n \in Nat
    PROVE  CanRead(StreamFor(a, n), n) <=> Held(a, n)
  <1>. DEFINE gaps == {k \in 0 .. (n - 1) : ~Readable(a + k)}
  <1>1. Reach(StreamFor(a, n), n) = IF gaps = {} THEN n ELSE CHOOSE k \in gaps : \A j \in gaps : k <= j
    BY DEF Reach, StreamFor
  <1>2. Held(a, n) <=> gaps = {}
    BY DEF Held
  <1>3. ASSUME gaps # {}
        PROVE  (CHOOSE k \in gaps : \A j \in gaps : k <= j) # n
    <2>1. gaps \in SUBSET Nat /\ n \notin gaps
      OBVIOUS
    <2>. HIDE DEF gaps
    <2>2. \E k \in gaps : \A j \in gaps : k <= j
      BY <1>3, <2>1, LeastOf
    <2>3. (CHOOSE k \in gaps : \A j \in gaps : k <= j) \in gaps
      BY <2>2
    <2>. QED
      BY <2>1, <2>3
  <1>. HIDE DEF gaps
  <1>. QED
    BY <1>1, <1>2, <1>3 DEF CanRead

LEMMA NumberIsNat ==
    ASSUME MemoryOk, NEW a \in Nat, NEW n, IsNumber(a, n)
    PROVE  Number(a, n) \in Nat
  <1>1. CASE n = 1
    <2>1. a + 0 \in DOMAIN scene.memory /\ a + 0 = a
      BY <1>1 DEF IsNumber, Held, Readable
    <2>. QED
      BY <1>1, <2>1 DEF Number, MemoryOk
  <1>2. CASE n = 2
    <2>1. a + 0 \in DOMAIN scene.memory /\ a + 0 = a /\ a + 1 \in DOMAIN scene.memory
      BY <1>2 DEF IsNumber, Held, Readable
    <2>2. scene.memory[a] \in Nat /\ scene.memory[a + 1] \in Nat /\ Unit \in Nat
      BY <2>1 DEF MemoryOk
    <2>3. \A x, y \in Nat : x * y \in Nat
      OBVIOUS
    <2>4. Number(a, n) = scene.memory[a] + Unit * scene.memory[a + 1]
      BY <1>2 DEF Number
    <2>5. Unit * scene.memory[a + 1] \in Nat
      BY <2>2, <2>3
    <2>. QED
      BY <2>2, <2>4, <2>5
  <1>. QED
    BY <1>1, <1>2 DEF IsNumber

LEMMA ReadFieldIs ==
    ASSUME NEW a \in Nat, NEW n \in Nat
    PROVE  ReadField(a, n) = IF IsNumber(a, n) THEN Number(a, n) ELSE None
  BY CanReadIsHeld DEF ReadField, IsNumber

LEMMA ValueOfNumber ==
    ASSUME NEW n \in Nat
    PROVE  Value(n) = <<n>> /\ n # None /\ n # Throws
  BY FieldsAssumption DEF Value

LEMMA ValueOfNone == Value(None) = None /\ Value(Throws) = Throws /\ None # Throws
  BY FieldsAssumption DEF Value

LEMMA LocatedIs ==
    ASSUME TypesOk, NEW m \in Types, NEW base \in Nat, NEW tag,
           tag \in {"pointer", "base", "udt", "array"}
    PROVE  LET found == [field |-> m, offset |-> base]
               f == Info(m)
           IN  Located(found, tag) =
                  IF f.offset = None \/ Tag(f.type) # tag THEN None
                  ELSE [type |-> f.type, offset |-> f.offset + base]
  <1>1. [field |-> m, offset |-> base] # None
    BY DEF TypesOk
  <1>2. Tag(0) = "null" /\ "null" # tag
    BY DEF Tag
  <1>. QED
    BY <1>1, <1>2 DEF Located, TypeOf

LEMMA TagIsOfType ==
    ASSUME TypesOk, NEW m \in Types, Tag(TypeOf(m)) # "null"
    PROVE  /\ TypeOf(m) \in Types /\ TypeOf(m) # 0
           /\ Info(TypeOf(m)).length \in Nat /\ Info(TypeOf(m)).count \in Nat
  <1>1. TypeOf(m) # 0
    BY DEF Tag
  <1>. QED
    BY <1>1 DEF TypesOk

(* One lemma for each of the functions: m is the member that is found,     *)
(* in a structure at an offset "base".                                     *)
Finds(ask, m, base) ==
    TypesOk /\ MemoryOk /\ AskOk(ask) /\ m \in Types /\ base \in Nat /\ Info(m).offset # None

LEMMA PointerIsRight ==
    ASSUME NEW ask, NEW m, NEW base, Finds(ask, m, base), ask.how \in {"pointer", "needed"}
    PROVE  IsRight(Answer(ask, [field |-> m, offset |-> base]), ask, Info(m), base)
  <1>. DEFINE found == [field |-> m, offset |-> base]
              f == Info(m)
              at == ask.at + base + f.offset
              n == Info(f.type).length
              there == Tag(f.type) = "pointer" /\ IsNumber(at, n)
  <1>1. f.offset \in Nat /\ ask.at \in Nat /\ base \in Nat /\ TypesOk /\ m \in Types /\ MemoryOk
    BY DEF Finds, TypesOk, AskOk
  <1>2. at \in Nat /\ ask.at + (f.offset + base) = at
    BY <1>1
  <1>3. Located(found, "pointer") =
           IF Tag(f.type) # "pointer" THEN None ELSE [type |-> f.type, offset |-> f.offset + base]
    BY <1>1, LocatedIs DEF Finds
  <1>4. Tag(f.type) = "pointer" => f.type \in Types /\ n \in Nat
    BY <1>1, TagIsOfType DEF TypeOf
  <1>5. PointerValue(ask, found) = IF there THEN Number(at, n) ELSE None
    <2>1. CASE Tag(f.type) # "pointer"
      <3>. HIDE DEF found, f
      <3>. QED
        BY <1>3, <2>1 DEF PointerValue
    <2>2. CASE Tag(f.type) = "pointer"
      <3>1. [type |-> f.type, offset |-> f.offset + base] # None
        <4>1. f.type \in Types /\ f.offset + base \in Nat
          BY <1>1, <1>4, <2>2
        <4>. QED
          BY <1>1, <4>1 DEF TypesOk
      <3>2. ReadField(at, n) = IF IsNumber(at, n) THEN Number(at, n) ELSE None
        BY <1>2, <1>4, <2>2, ReadFieldIs
      <3>. HIDE DEF found, f
      <3>3. PointerValue(ask, found) = ReadField(ask.at + (f.offset + base), n)
        BY <1>3, <2>2, <3>1 DEF PointerValue
      <3>. QED
        BY <1>2, <2>2, <3>2, <3>3
    <2>. QED
      BY <2>1, <2>2
  <1>6. there => Number(at, n) \in Nat
    BY <1>1, <1>2, NumberIsNat
  <1>. HIDE DEF found, f, at, n
  <1>7. CASE ask.how = "pointer"
    <2>1. Answer(ask, found) = IF there THEN <<Number(at, n)>> ELSE None
      BY <1>5, <1>6, <1>7, ValueOfNumber, ValueOfNone DEF Answer
    <2>. QED
      BY <1>7, <2>1 DEF IsRight, Nothing, found, f, at, n
  <1>8. CASE ask.how = "needed"
    <2>1. CASE there /\ Number(at, n) # 0
      <3>1. NeededPointer(ask, found) = Number(at, n)
        BY <1>5, <1>6, <2>1, ValueOfNumber DEF NeededPointer
      <3>2. Answer(ask, found) = <<Number(at, n)>>
        BY <1>6, <1>8, <2>1, <3>1, ValueOfNumber DEF Answer
      <3>. QED
        BY <1>8, <2>1, <3>2 DEF IsRight, Nothing, found, f, at, n
    <2>2. CASE ~(there /\ Number(at, n) # 0)
      <3>1. NeededPointer(ask, found) = Throws
        BY <1>5, <2>2 DEF NeededPointer
      <3>2. Answer(ask, found) = Throws
        BY <1>8, <3>1, ValueOfNone DEF Answer
      <3>. QED
        BY <1>8, <2>2, <3>2 DEF IsRight, Nothing, found, f, at, n
    <2>. QED
      BY <2>1, <2>2
  <1>. QED
    BY <1>7, <1>8 DEF found, f

LEMMA BasicIsRight ==
    ASSUME NEW ask, NEW m, NEW base, Finds(ask, m, base), ask.how = "basic"
    PROVE  IsRight(Answer(ask, [field |-> m, offset |-> base]), ask, Info(m), base)
  <1>. DEFINE found == [field |-> m, offset |-> base]
              f == Info(m)
              at == ask.at + base + f.offset
              n == Info(f.type).length
              there == Tag(f.type) = "base" /\ n = ask.size /\ IsNumber(at, n)
  <1>1. f.offset \in Nat /\ ask.at \in Nat /\ ask.size \in Nat /\ base \in Nat /\ TypesOk /\ m \in Types /\ MemoryOk
    BY DEF Finds, TypesOk, AskOk
  <1>2. at \in Nat /\ ask.at + (f.offset + base) = at
    BY <1>1
  <1>3. Located(found, "base") =
           IF Tag(f.type) # "base" THEN None ELSE [type |-> f.type, offset |-> f.offset + base]
    BY <1>1, LocatedIs DEF Finds
  <1>4. Tag(f.type) = "base" => f.type \in Types
    BY <1>1, TagIsOfType DEF TypeOf
  <1>5. BasicValue(ask, found) = IF there THEN Number(at, n) ELSE None
    <2>1. CASE Tag(f.type) # "base"
      <3>. HIDE DEF found, f
      <3>. QED
        BY <1>3, <2>1 DEF BasicValue
    <2>2. CASE Tag(f.type) = "base"
      <3>1. [type |-> f.type, offset |-> f.offset + base] # None
        <4>1. f.type \in Types /\ f.offset + base \in Nat
          BY <1>1, <1>4, <2>2
        <4>. QED
          BY <1>1, <4>1 DEF TypesOk
      <3>2. ReadField(at, ask.size) = IF IsNumber(at, ask.size) THEN Number(at, ask.size) ELSE None
        BY <1>1, <1>2, ReadFieldIs
      <3>. HIDE DEF found, f
      <3>3. BasicValue(ask, found) = IF n = ask.size THEN ReadField(ask.at + (f.offset + base), ask.size) ELSE None
        BY <1>3, <2>2, <3>1 DEF BasicValue
      <3>. QED
        BY <1>2, <2>2, <3>2, <3>3
    <2>. QED
      BY <2>1, <2>2
  <1>6. there => Number(at, n) \in Nat
    BY <1>1, <1>2, NumberIsNat
  <1>. HIDE DEF found, f, at, n
  <1>7. Answer(ask, found) = IF there THEN <<Number(at, n)>> ELSE None
    BY <1>5, <1>6, ValueOfNumber, ValueOfNone DEF Answer
  <1>8. IsRight(Answer(ask, found), ask, f, base)
    BY <1>7 DEF IsRight, Nothing, f, at, n
  <1>. QED
    BY <1>8 DEF found, f

LEMMA OffsetIsRight ==
    ASSUME NEW ask, NEW m, NEW base, Finds(ask, m, base), ask.how = "offset"
    PROVE  IsRight(Answer(ask, [field |-> m, offset |-> base]), ask, Info(m), base)
  <1>. DEFINE found == [field |-> m, offset |-> base]
  <1>1. Info(m).offset \in Nat /\ base \in Nat /\ found # None /\ Info(m).offset # None
    BY DEF Finds, TypesOk
  <1>2. FieldOffset(found) = base + Info(m).offset
    BY <1>1 DEF FieldOffset
  <1>3. Answer(ask, found) = <<base + Info(m).offset>>
    <2>1. base + Info(m).offset \in Nat
      BY <1>1
    <2>. HIDE DEF found
    <2>. QED
      BY <1>2, <2>1, ValueOfNumber DEF Answer
  <1>. HIDE DEF found
  <1>4. IsRight(Answer(ask, found), ask, Info(m), base)
    BY <1>3 DEF IsRight
  <1>. QED
    BY <1>4 DEF found

LEMMA StructIsRight ==
    ASSUME NEW ask, NEW m, NEW base, Finds(ask, m, base), ask.how = "struct"
    PROVE  IsRight(Answer(ask, [field |-> m, offset |-> base]), ask, Info(m), base)
  <1>. DEFINE found == [field |-> m, offset |-> base]
              f == Info(m)
              at == ask.at + base + f.offset
              n == Info(f.type).length
              there == Tag(f.type) = "udt" /\ n > 0 /\ Held(at, n)
              words == [k \in 1 .. n |-> scene.memory[at + k - 1]]
  <1>1. f.offset \in Nat /\ ask.at \in Nat /\ base \in Nat /\ TypesOk /\ m \in Types
    BY DEF Finds, TypesOk, AskOk
  <1>2. at \in Nat /\ ask.at + (f.offset + base) = at
    BY <1>1
  <1>3. Located(found, "udt") =
           IF Tag(f.type) # "udt" THEN None ELSE [type |-> f.type, offset |-> f.offset + base]
    BY <1>1, LocatedIs DEF Finds
  <1>4. Tag(f.type) = "udt" => f.type \in Types /\ f.type # 0 /\ n \in Nat
    BY <1>1, TagIsOfType DEF TypeOf
  <1>5. StructValue(ask, found) = IF there THEN words ELSE None
    <2>1. CASE Tag(f.type) # "udt"
      <3>. HIDE DEF found, f
      <3>. QED
        BY <1>3, <2>1 DEF StructValue
    <2>2. CASE Tag(f.type) = "udt"
      <3>1. [type |-> f.type, offset |-> f.offset + base] # None
        <4>1. f.type \in Types /\ f.offset + base \in Nat
          BY <1>1, <1>4, <2>2
        <4>. QED
          BY <1>1, <4>1 DEF TypesOk
      <3>2. CanRead(StreamFor(at, n), n) <=> Held(at, n)
        BY <1>2, <1>4, <2>2, CanReadIsHeld
      <3>3. Lasts(f.type) <=> n > 0
        BY <1>4, <2>2 DEF Lasts
      <3>4. StreamFor(at, n).at = at
        BY DEF StreamFor
      <3>. DEFINE place == [type |-> f.type, offset |-> f.offset + base]
      <3>5. place.type = f.type /\ place.offset = f.offset + base /\ Info(place.type).length = n
        OBVIOUS
      <3>6. Located(found, "udt") = place /\ place # None
        BY <1>3, <2>2, <3>1
      <3>. HIDE DEF found, f, place, at, n
      <3>7. StructValue(ask, found) =
               LET stream == StreamFor(ask.at + place.offset, Info(place.type).length)
               IN  IF Lasts(place.type) /\ CanRead(stream, Info(place.type).length)
                   THEN [k \in 1 .. Info(place.type).length |-> scene.memory[stream.at + k - 1]] ELSE None
        BY <3>6 DEF StructValue
      <3>8. ask.at + place.offset = at
        BY <1>2, <3>5
      <3>9. StructValue(ask, found) =
               IF Lasts(f.type) /\ CanRead(StreamFor(at, n), n)
               THEN [k \in 1 .. n |-> scene.memory[StreamFor(at, n).at + k - 1]] ELSE None
        BY <3>5, <3>7, <3>8
      <3>. QED
        BY <2>2, <3>2, <3>3, <3>4, <3>9
    <2>. QED
      BY <2>1, <2>2
  <1>. HIDE DEF found, f, at, n
  <1>6. Answer(ask, found) = IF there THEN words ELSE None
    BY <1>5 DEF Answer
  <1>7. IsRight(Answer(ask, found), ask, f, base)
    BY <1>6 DEF IsRight, Nothing, f, at, n
  <1>. QED
    BY <1>7 DEF found, f

LEMMA RestIs ==
    ASSUME NEW d \in Nat \ {0}, NEW h \in Nat, NEW y \in 0 .. (d - 1)
    PROVE  (d * h + y) % d = y
  <1>. DEFINE x == d * h + y
  <1>1. x \in Nat
    <2>1. d * h \in Nat
      OBVIOUS
    <2>. HIDE DEF x
    <2>. QED
      BY <2>1 DEF x
  <1>2. PICK q \in Nat, r \in 0 .. (d - 1) : x = d * q + r /\ r = x % d
    <2>. HIDE DEF x
    <2>1. x = d * (x \div d) + (x % d) /\ x % d \in 0 .. (d - 1) /\ x \div d \in Nat
      BY <1>1
    <2>. QED
      BY <2>1
  <1>3. h = q
    <2>1. CASE h < q
      <3>1. d * (h + 1) <= d * q
        BY <2>1
      <3>2. d * (h + 1) = d * h + d
        OBVIOUS
      <3>. QED
        BY <1>2, <3>1, <3>2
    <2>2. CASE q < h
      <3>1. d * (q + 1) <= d * h
        BY <2>2
      <3>2. d * (q + 1) = d * q + d
        OBVIOUS
      <3>. QED
        BY <1>2, <3>1, <3>2
    <2>. QED
      BY <2>1, <2>2
  <1>. QED
    BY <1>2, <1>3

LEMMA BitsOfWord ==
    ASSUME NEW x \in Nat, NEW w \in Nat \ {0}, NEW c \in Nat \ {0}
    PROVE  LET v == (x \div w) % c
           IN  /\ v \in 0 .. (c - 1)
               /\ v * w <= x % (w * c) /\ x % (w * c) < (v + 1) * w
  <1>. DEFINE q == x \div w
              r == x % w
              h == q \div c
              v == q % c
  <1>1. q \in Nat /\ r \in 0 .. (w - 1) /\ x = w * q + r
    OBVIOUS
  <1>. HIDE DEF q, r
  <1>2. h \in Nat /\ v \in 0 .. (c - 1) /\ q = c * h + v
    BY <1>1
  <1>. HIDE DEF h, v
  <1>3. x = (w * c) * h + (w * v + r)
    BY <1>1, <1>2
  <1>4. w * c \in Nat \ {0}
    OBVIOUS
  <1>5. w * v + r \in 0 .. (w * c - 1) /\ w * v <= w * v + r /\ w * v + r < w * v + w
    <2>1. w * (v + 1) <= w * c
      BY <1>2
    <2>2. w * (v + 1) = w * v + w /\ w * v \in Nat
      BY <1>2
    <2>. QED
      BY <1>1, <1>4, <2>1, <2>2
  <1>6. x % (w * c) = w * v + r
    BY <1>2, <1>3, <1>4, <1>5, RestIs
  <1>7. w * v = v * w /\ (v + 1) * w = w * v + w
    BY <1>2
  <1>. QED
    BY <1>2, <1>5, <1>6, <1>7 DEF v, q

LEMMA BitsAreRight ==
    ASSUME NEW ask, NEW m, NEW base, Finds(ask, m, base), ask.how = "bits"
    PROVE  IsRight(Answer(ask, [field |-> m, offset |-> base]), ask, Info(m), base)
  <1>. DEFINE found == [field |-> m, offset |-> base]
              f == Info(m)
              at == ask.at + base + f.offset
              n == Info(f.type).length
              there == Tag(f.type) = "base" /\ f.bits # None /\ n <= ask.size /\ IsNumber(at, ask.size)
              v == (Number(at, ask.size) \div f.bits.weight) % f.bits.values
  <1>1. /\ f.offset \in Nat /\ f.offset # None /\ ask.at \in Nat /\ ask.size \in Nat /\ base \in Nat
        /\ TypesOk /\ m \in Types /\ MemoryOk /\ found # None
    BY DEF Finds, TypesOk, AskOk
  <1>. SUFFICES ASSUME base = 0
                PROVE  IsRight(Answer(ask, found), ask, f, base)
    BY DEF IsRight
  <1>2. at \in Nat /\ ask.at + f.offset = at
    BY <1>1
  <1>3. Tag(f.type) = "base" => n \in Nat
    BY <1>1, TagIsOfType DEF TypeOf
  <1>4. ReadField(at, ask.size) = IF IsNumber(at, ask.size) THEN Number(at, ask.size) ELSE None
    BY <1>1, <1>2, ReadFieldIs
  <1>5. IsNumber(at, ask.size) => Number(at, ask.size) \in Nat /\ Number(at, ask.size) # None
    BY <1>1, <1>2, NumberIsNat, ValueOfNumber
  <1>6. BitsValue(ask, found) = IF there THEN v ELSE None
    <2>1. found.field = m /\ TypeOf(m) = f.type /\ Info(m) = f
      BY DEF TypeOf
    <2>. HIDE DEF found, f, at, n
    <2>2. CASE Tag(f.type) # "base" \/ f.bits = None
      BY <1>1, <2>1, <2>2 DEF BitsValue
    <2>3. CASE Tag(f.type) = "base" /\ f.bits # None
      <3>1. (Info(TypeOf(m)).length > ask.size) <=> ~(n <= ask.size)
        BY <1>1, <1>3, <2>1, <2>3 DEF n
      <3>2. CASE ~(n <= ask.size)
        BY <1>1, <2>1, <2>3, <3>1, <3>2 DEF BitsValue
      <3>3. CASE n <= ask.size
        <4>1. BitsValue(ask, found) =
                 LET value == ReadField(at, ask.size)
                 IN  IF value = None THEN None ELSE (value \div f.bits.weight) % f.bits.values
          BY <1>1, <1>2, <2>1, <2>3, <3>1, <3>3 DEF BitsValue
        <4>. QED
          BY <1>4, <1>5, <2>3, <3>3, <4>1
      <3>. QED
        BY <3>2, <3>3
    <2>. QED
      BY <2>2, <2>3
  <1>7. there => /\ v \in 0 .. (f.bits.values - 1) /\ v \in Nat
                 /\ IsBits(v, f.bits, Number(at, ask.size))
    <2>. SUFFICES ASSUME there
                  PROVE  /\ v \in 0 .. (f.bits.values - 1) /\ v \in Nat
                         /\ IsBits(v, f.bits, Number(at, ask.size))
      OBVIOUS
    <2>1. f.bits.weight \in Nat \ {0} /\ f.bits.values \in Nat \ {0} /\ Number(at, ask.size) \in Nat
      BY <1>1, <1>5 DEF TypesOk
    <2>2. \A x \in Nat, w \in Nat \ {0}, c \in Nat \ {0} :
             /\ (x \div w) % c \in 0 .. (c - 1)
             /\ ((x \div w) % c) * w <= x % (w * c) /\ x % (w * c) < (((x \div w) % c) + 1) * w
      BY BitsOfWord
    <2>. HIDE DEF f, at
    <2>3. v \in 0 .. (f.bits.values - 1) /\ IsBits(v, f.bits, Number(at, ask.size))
      BY <2>1, <2>2 DEF IsBits
    <2>4. v \in Nat
      <3>. HIDE DEF v
      <3>. QED
        BY <2>1, <2>3
    <2>. QED
      BY <2>3, <2>4
  <1>. HIDE DEF found, f, at, n, v
  <1>8. CASE there
    <2>1. Answer(ask, found) = <<v>>
      BY <1>6, <1>7, <1>8, ValueOfNumber DEF Answer
    <2>2. \E u \in 0 .. (f.bits.values - 1) : Answer(ask, found) = <<u>> /\ IsBits(u, f.bits, Number(at, ask.size))
      BY <1>7, <1>8, <2>1
    <2>. QED
      BY <1>8, <2>2 DEF IsRight, at, n
  <1>9. CASE ~there
    <2>1. Answer(ask, found) = None
      BY <1>6, <1>9, ValueOfNone DEF Answer
    <2>. QED
      BY <1>9, <2>1 DEF IsRight, at, n
  <1>. QED
    BY <1>8, <1>9

LEMMA ElementIsRight ==
    ASSUME NEW ask, NEW m, NEW base, Finds(ask, m, base), ask.how = "element"
    PROVE  IsRight(Answer(ask, [field |-> m, offset |-> base]), ask, Info(m), base)
  <1>. DEFINE found == [field |-> m, offset |-> base]
              f == Info(m)
              at == ask.at + base + f.offset
              p == TypeOf(f.type)
              l == Info(p).length
              count == Info(f.type).count
              place == at + ask.index * l
              there == Tag(p) = "pointer" /\ TypeOf(p) # 0 /\ ask.index < count /\ IsNumber(place, l)
  <1>1. /\ f.offset \in Nat /\ ask.at \in Nat /\ ask.index \in Nat /\ base \in Nat
        /\ TypesOk /\ m \in Types /\ MemoryOk
    BY DEF Finds, TypesOk, AskOk
  <1>2. at \in Nat /\ ask.at + (f.offset + base) = at
    BY <1>1
  <1>3. Located(found, "array") =
           IF Tag(f.type) # "array" THEN None ELSE [type |-> f.type, offset |-> f.offset + base]
    BY <1>1, LocatedIs DEF Finds
  <1>4. CASE Tag(f.type) # "array"
    <2>. HIDE DEF found, f
    <2>1. ElementValue(ask, found) = None
      BY <1>3, <1>4 DEF ElementValue
    <2>2. Answer(ask, found) = None
      BY <2>1, ValueOfNone DEF Answer
    <2>3. IsRight(Answer(ask, found), ask, f, base)
      BY <1>4, <2>2 DEF IsRight
    <2>. QED
      BY <2>3 DEF found, f
  <1>5. CASE Tag(f.type) = "array"
    <2>1. f.type \in Types /\ count \in Nat
      BY <1>1, <1>5, TagIsOfType DEF TypeOf
    <2>2. Tag(p) = "pointer" => p \in Types /\ p # 0 /\ l \in Nat
      BY <1>1, <2>1, TagIsOfType
    <2>3. [type |-> f.type, offset |-> f.offset + base] # None
      <3>1. f.offset + base \in Nat
        BY <1>1
      <3>. QED
        BY <1>1, <2>1, <3>1 DEF TypesOk
    <2>4. Located(found, "array") # None /\ Located(found, "array").type = f.type
          /\ ask.at + Located(found, "array").offset = at
      BY <1>2, <1>3, <1>5, <2>3
    <2>. HIDE DEF found, f, at
    <2>5. ElementValue(ask, found) =
             IF Tag(p) # "pointer" \/ ~Lasts(p) \/ TypeOf(p) = 0 \/ ask.index > count THEN None
             ELSE ReadField(place, l)
      BY <2>4 DEF ElementValue
    <2>6. CASE ask.index = count
      <3>1. IsRight(Answer(ask, found), ask, f, base)
        BY <1>5, <2>6 DEF IsRight
      <3>. QED
        BY <3>1 DEF found, f
    <2>7. CASE ask.index # count
      <3>1. Answer(ask, found) = IF there THEN <<Number(place, l)>> ELSE None
        <4>1. CASE Tag(p) # "pointer" \/ TypeOf(p) = 0 \/ ~(ask.index < count)
          <5>1. ask.index < count \/ ask.index > count
            BY <1>1, <2>1, <2>7
          <5>2. ElementValue(ask, found) = None
            BY <2>5, <4>1, <5>1
          <5>. QED
            BY <4>1, <5>2, ValueOfNone DEF Answer
        <4>2. CASE Tag(p) = "pointer" /\ TypeOf(p) # 0 /\ ask.index < count
          <5>1. l \in Nat /\ place \in Nat
            <6>1. l \in Nat
              BY <2>2, <4>2
            <6>2. \A x, y \in Nat : x * y \in Nat
              OBVIOUS
            <6>3. ask.index * l \in Nat
              BY <1>1, <6>1, <6>2
            <6>. QED
              BY <1>2, <6>1, <6>3
          <5>2. ReadField(place, l) = IF IsNumber(place, l) THEN Number(place, l) ELSE None
            BY <5>1, ReadFieldIs
          <5>3. IsNumber(place, l) => Lasts(p)
            BY <2>2, <4>2 DEF IsNumber, Lasts
          <5>4. ~(ask.index > count)
            BY <1>1, <2>1, <4>2
          <5>5. ElementValue(ask, found) = IF IsNumber(place, l) THEN Number(place, l) ELSE None
            BY <2>5, <4>2, <5>2, <5>3, <5>4
          <5>6. IsNumber(place, l) => Number(place, l) \in Nat
            BY <1>1, <5>1, NumberIsNat
          <5>. HIDE DEF place, l
          <5>. QED
            BY <4>2, <5>5, <5>6, ValueOfNumber, ValueOfNone DEF Answer
        <4>. QED
          BY <4>1, <4>2
      <3>2. IsRight(Answer(ask, found), ask, f, base)
        BY <1>5, <2>7, <3>1 DEF IsRight, Nothing, at
      <3>. QED
        BY <3>2 DEF found, f
    <2>. QED
      BY <2>6, <2>7
  <1>. QED
    BY <1>4, <1>5

-------------------------------------------------------------------------------
(* What is found, and what is made of it, depends on the scene alone.      *)
LEMMA SceneKeepsFound ==
    ASSUME scene' = scene, NEW CONSTANT t, NEW CONSTANT path
    PROVE  FindFieldInType(t, path)' = FindFieldInType(t, path)
  BY DEF FindFieldInType, Into, FirstOf, Called, Leading, Children, Info, Tag, TypeOf

LEMMA SceneKeepsAnswer ==
    ASSUME scene' = scene, NEW CONSTANT ask, NEW CONSTANT found
    PROVE  Answer(ask, found)' = Answer(ask, found)
  <1>1. ASSUME NEW CONSTANT a, NEW CONSTANT n
        PROVE  ReadField(a, n)' = ReadField(a, n)
    BY DEF ReadField, CanRead, Reach, StreamFor, Readable, Number
  <1>2. ASSUME NEW CONSTANT tag
        PROVE  Located(found, tag)' = Located(found, tag)
    BY DEF Located, Info, Tag, TypeOf
  <1>3. PointerValue(ask, found)' = PointerValue(ask, found)
    BY <1>1, <1>2 DEF PointerValue, Info
  <1>4. NeededPointer(ask, found)' = NeededPointer(ask, found)
    BY <1>3 DEF NeededPointer
  <1>5. BasicValue(ask, found)' = BasicValue(ask, found)
    BY <1>1, <1>2 DEF BasicValue, Info
  <1>6. BitsValue(ask, found)' = BitsValue(ask, found)
    BY <1>1 DEF BitsValue, Info, Tag, TypeOf
  <1>7. StructValue(ask, found)' = StructValue(ask, found)
    <2>1. ASSUME NEW CONSTANT s, NEW CONSTANT n
          PROVE  CanRead(s, n)' = CanRead(s, n)
      BY DEF CanRead, Reach, Readable
    <2>2. ASSUME NEW CONSTANT t
          PROVE  Lasts(t)' = Lasts(t) /\ Info(t)' = Info(t)
      BY DEF Lasts, Info
    <2>3. PICK place : place = Located(found, "udt")
      OBVIOUS
    <2>4. PICK n : n = Info(place.type).length
      OBVIOUS
    <2>5. PICK stream : stream = StreamFor(ask.at + place.offset, n)
      OBVIOUS
    <2>6. Located(found, "udt")' = place /\ Info(place.type)'.length = n
      BY <1>2, <2>2, <2>3, <2>4
    <2>7. StructValue(ask, found) =
             IF place = None THEN None
             ELSE IF Lasts(place.type) /\ CanRead(stream, n) THEN [k \in 1 .. n |-> scene.memory[stream.at + k - 1]] ELSE None
      BY <2>3, <2>4, <2>5 DEF StructValue
    <2>8. StructValue(ask, found)' =
             IF place = None THEN None
             ELSE IF Lasts(place.type)' /\ CanRead(stream, n)' THEN [k \in 1 .. n |-> scene'.memory[stream.at + k - 1]] ELSE None
      BY <2>5, <2>6 DEF StructValue
    <2>. QED
      BY <2>1, <2>2, <2>7, <2>8
  <1>8. ElementValue(ask, found)' = ElementValue(ask, found)
    BY <1>1, <1>2 DEF ElementValue, Info, Tag, TypeOf, Lasts
  <1>9. FieldOffset(found)' = FieldOffset(found)
    BY DEF FieldOffset, Info
  <1>. QED
    BY <1>3, <1>4, <1>5, <1>6, <1>7, <1>8, <1>9 DEF Answer, Value

(* What is remembered is what would be found, and what was answered is     *)
(* what is found.                                                          *)
FieldsInv ==
    /\ scene \in Scenes /\ "kind" \in DOMAIN job
    /\ job.kind = "fields" => job \in scene.jobs
    /\ \A key \in DOMAIN cached : cached[key] = FindFieldInType(key[1], key[2])
    /\ \A a \in answers :
          /\ job.kind = "fields" /\ a.ask \in job.asks
          /\ a.ask.how # "static" => a.value = Answer(a.ask, FindFieldInType(a.ask.type, a.ask.path))

LEMMA InitFieldsInv == Init => FieldsInv
  BY FieldsAssumption DEF Init, InitFields, FieldsInv

LEMMA StepFieldsInv == FieldsInv /\ [Next]_vars => FieldsInv'
  <1>. SUFFICES ASSUME FieldsInv, [Next]_vars
                PROVE  FieldsInv'
    OBVIOUS
  <1>1. ASSUME scene' = scene, fieldVars' = fieldVars,
               \/ job' = job
               \/ answers = {} /\ "kind" \in DOMAIN job' /\ job'.kind # "fields"
        PROVE  FieldsInv'
    <2>1. \A t, path : FindFieldInType(t, path)' = FindFieldInType(t, path)
      BY <1>1, SceneKeepsFound
    <2>2. \A ask, found : Answer(ask, found)' = Answer(ask, found)
      BY <1>1, SceneKeepsAnswer
    <2>3. cached' = cached /\ answers' = answers
      BY <1>1 DEF fieldVars
    <2>. QED
      BY <1>1, <2>1, <2>2, <2>3 DEF FieldsInv
  <1>2. ASSUME NEW ask \in job.asks, NEW value, job.kind = "fields",
               answers' = answers \union {[ask |-> ask, value |-> value]},
               ask.how # "static" => value = Answer(ask, FindFieldInType(ask.type, ask.path)),
               \A key \in DOMAIN cached' : cached'[key] = FindFieldInType(key[1], key[2]),
               scene' = scene, job' = job
        PROVE  FieldsInv'
    <2>1. \A t, path : FindFieldInType(t, path)' = FindFieldInType(t, path)
      BY <1>2, SceneKeepsFound
    <2>2. \A q, found : Answer(q, found)' = Answer(q, found)
      BY <1>2, SceneKeepsAnswer
    <2>3. ASSUME NEW a \in answers'
          PROVE  /\ job'.kind = "fields" /\ a.ask \in job'.asks
                 /\ a.ask.how # "static" => a.value = Answer(a.ask, FindFieldInType(a.ask.type, a.ask.path))
      <3>1. CASE a \in answers
        BY <1>2, <3>1 DEF FieldsInv
      <3>2. CASE a = [ask |-> ask, value |-> value]
        BY <1>2, <3>2
      <3>. QED
        BY <1>2, <3>1, <3>2
    <2>. QED
      BY <1>2, <2>1, <2>2, <2>3 DEF FieldsInv
  <1>3. CASE AskStatic
    <2>1. PICK ask \in job.asks :
             ask.how = "static" /\ answers' = answers \union {[ask |-> ask, value |-> Value(StaticValue(ask))]}
      BY <1>3 DEF AskStatic
    <2>2. \A key \in DOMAIN cached' : cached'[key] = FindFieldInType(key[1], key[2])
      BY <1>3 DEF AskStatic, FieldsInv
    <2>. QED
      BY <1>2, <1>3, <2>1, <2>2 DEF AskStatic
  <1>4. CASE AskField
    <2>1. PICK ask \in job.asks :
             /\ ask.how # "static"
             /\ answers' = answers \union {[ask |-> ask, value |-> Answer(ask, LookUp(ask))]}
             /\ cached' = [key \in DOMAIN cached \union {Key(ask)} |->
                              IF key \in DOMAIN cached THEN cached[key] ELSE LookUp(ask)]
      BY <1>4 DEF AskField
    <2>2. LookUp(ask) = FindFieldInType(ask.type, ask.path)
      BY DEF LookUp, Remembered, FieldsInv
    <2>3. \A key \in DOMAIN cached' : cached'[key] = FindFieldInType(key[1], key[2])
      BY <2>1, <2>2 DEF Key, FieldsInv
    <2>. QED
      BY <1>2, <1>4, <2>1, <2>2, <2>3 DEF AskField
  <1>5. CASE NextGather /\ UNCHANGED fieldVars
    <2>1. CASE DoGather \/ FollowPointer
      BY <1>1, <1>5, <2>1 DEF DoGather, FollowPointer
    <2>2. CASE NextRoot
      <3>1. scene' = scene /\ job.kind \in {"graph", "areas"} /\ job' = [job EXCEPT !.at = @ + 1]
        BY <2>2 DEF NextRoot
      <3>2. "kind" \in DOMAIN job' /\ job'.kind = job.kind
        BY <3>1 DEF FieldsInv
      <3>3. answers = {}
        BY <3>1 DEF FieldsInv
      <3>. QED
        BY <1>1, <1>5, <3>1, <3>2, <3>3
    <2>. QED
      BY <1>5, <2>1, <2>2 DEF NextGather
  <1>6. CASE UNCHANGED vars
    BY <1>1, <1>6 DEF vars
  <1>7. CASE DumpVariable /\ UNCHANGED fieldVars
    BY <1>1, <1>7 DEF DumpVariable
  <1>8. CASE ShowType /\ UNCHANGED fieldVars
    BY <1>1, <1>8 DEF ShowType
  <1>9. CASE NextAddress /\ UNCHANGED fieldVars
    BY <1>1, <1>9 DEF NextAddress, PrintText, PrintTexts, PrintNumbers, PrintRow
  <1>. QED
    BY <1>3, <1>4, <1>5, <1>6, <1>7, <1>8, <1>9 DEF Next, NextFields

LEMMA FieldsInvariant == Spec => []FieldsInv
  BY InitFieldsInv, StepFieldsInv, PTL DEF Spec

LEMMA AnswersAreRight == FieldsInv => FieldsRight
  <1>. SUFFICES ASSUME FieldsInv, NEW a \in answers, a.ask.how # "static"
                PROVE  LET ways == Ways(a.ask.type, a.ask.path)
                       IN  /\ ways = {} => a.value = Nothing(a.ask)
                           /\ \A way \in ways :
                                 LET f == Info(way[Len(way)])
                                 IN  IF f.offset = None THEN a.value = Nothing(a.ask)
                                     ELSE IsRight(a.value, a.ask, f, Base(way))
    BY DEF FieldsRight
  <1>1. scene \in Scenes /\ job \in scene.jobs /\ job.kind = "fields" /\ a.ask \in job.asks
    BY DEF FieldsInv
  <1>2. TypesOk /\ MemoryOk /\ AskOk(a.ask)
    <2>1. MemoryOk
      BY <1>1, FieldsAssumption DEF MemoryOk
    <2>. QED
      BY <1>1, <2>1, SceneIsOk
  <1>. DEFINE ask == a.ask
              found == FindFieldInType(ask.type, ask.path)
  <1>3. a.value = Answer(ask, found)
    BY DEF FieldsInv
  <1>4. /\ ask.type \in Types /\ Len(ask.path) \in Nat \ {0} /\ DOMAIN ask.path = 1 .. Len(ask.path)
        /\ \A k \in 1 .. Len(ask.path) : ask.path[k] # None
        /\ ask.how \in {"pointer", "needed", "basic", "bits", "element", "offset", "struct"}
    BY <1>2 DEF AskOk, Hows
  <1>. HIDE DEF ask
  <1>5. ASSUME Ways(ask.type, ask.path) = {}
        PROVE  a.value = Nothing(ask)
    <2>1. found = None
      BY <1>2, <1>4, <1>5, FoundIsOnWay
    <2>. HIDE DEF found
    <2>2. Answer(ask, None) = Nothing(ask)
      BY <1>4, ValueOfNone DEF Answer, Nothing, PointerValue, NeededPointer, BasicValue, BitsValue, StructValue,
         ElementValue, FieldOffset, Located
    <2>. QED
      BY <1>3, <2>1, <2>2
  <1>6. ASSUME NEW way \in Ways(ask.type, ask.path)
        PROVE  LET f == Info(way[Len(way)])
               IN  IF f.offset = None THEN a.value = Nothing(ask) ELSE IsRight(a.value, ask, f, Base(way))
    <2>. DEFINE m == way[Len(way)]
                base == Base(way)
    <2>1. found = [field |-> m, offset |-> base] /\ m \in Types /\ base \in Nat
      BY <1>2, <1>4, WayIsFollowed
    <2>. HIDE DEF found, m, base
    <2>2. CASE Info(m).offset # None
      <3>1. Finds(ask, m, base)
        BY <1>2, <2>1, <2>2 DEF Finds, ask
      <3>2. IsRight(a.value, ask, Info(m), base)
        BY <1>3, <1>4, <2>1, <3>1, PointerIsRight, BasicIsRight, BitsAreRight, ElementIsRight, OffsetIsRight, StructIsRight
      <3>. QED
        BY <2>2, <3>2 DEF m, base
    <2>3. CASE Info(m).offset = None
      <3>1. found # None /\ found.field = m
        BY <1>2, <2>1 DEF TypesOk
      <3>2. \A tag : Located(found, tag) = None
        BY <2>3, <3>1 DEF Located
      <3>3. Answer(ask, found) = Nothing(ask)
        BY <1>4, <2>3, <3>1, <3>2, ValueOfNone DEF Answer, Nothing, PointerValue, NeededPointer, BasicValue, BitsValue,
           StructValue, ElementValue, FieldOffset
      <3>. QED
        BY <1>3, <2>3, <3>3 DEF m
    <2>. QED
      BY <2>2, <2>3
  <1>. QED
    BY <1>5, <1>6 DEF ask

(* What the readers are told of a field is right, whatever was asked of    *)
(* the type before: a remembered name never answers for another, a name    *)
(* through several structures leads to where the member lies, and what is  *)
(* not there, not of the kind or not in the dump has no value.             *)
THEOREM FieldsAreRight == Spec => []FieldsRight
  BY FieldsInvariant, AnswersAreRight, PTL

-------------------------------------------------------------------------------
(* What is shown of the memory: the values a loop has printed up to now    *)
(* are those behind the address, and where it ended there is no more.      *)
NumberAt(r, k) == Number(r.at + (k - 1) * r.show.length, r.show.length)
Lies(r, k) == \A a \in 0 .. (k * r.show.length - 1) : a < r.size /\ Readable(r.at + a)
Past(r, k) ==
    \/ r.show.as = "str" /\ r.toNull /\ NumberAt(r, k) = 0
    \/ r.show.as = "astr" /\ k > 1 /\ NumberAt(r, k) = 0 /\ NumberAt(r, k - 1) = 0

ReaderOk(r) ==
    /\ r = [at |-> r.at, size |-> r.size, toNull |-> r.toNull, show |-> r.show, stream |-> r.stream,
            index |-> r.index, null |-> r.null, ended |-> r.ended]
    /\ r.at \in Nat /\ r.size \in Nat /\ r.toNull \in BOOLEAN /\ r.index \in Nat
    /\ r.null \in BOOLEAN /\ r.ended \in BOOLEAN
    /\ r.show.as \in {"hex", "str", "astr", "numbers"} /\ r.show.length \in {1, 2}
    /\ r.show.as = "hex" => r.show = Hex

PrintedOk(r, p) ==
    /\ p \in Seq(Nat \union {Break})
    /\ r.stream = [at |-> r.at + Len(p) * r.show.length, end |-> r.at + r.size]
    /\ \A k \in 1 .. Len(p) : Lies(r, k) /\ ~Past(r, k) /\ (IF p[k] = Break THEN 0 ELSE p[k]) = NumberAt(r, k)
    /\ r.null <=> r.show.as = "astr" /\ Len(p) > 0 /\ NumberAt(r, Len(p)) = 0
    /\ r.show.as # "hex" => r.index = Len(p)
    /\ r.show.as = "hex" => Len(p) <= r.size /\ (Len(p) = 3 * r.index \/ ~Lies(r, Len(p) + 1))
    /\ r.ended => ~Lies(r, Len(p) + 1) \/ Past(r, Len(p) + 1)

LEMMA ReachIs ==
    ASSUME NEW s, s.at \in Nat, s.end \in Nat, s.at <= s.end, NEW n \in Nat
    PROVE  LET reach == Reach(s, n)
           IN  /\ reach \in 0 .. n /\ s.at + reach <= s.end
               /\ \A k \in 0 .. (reach - 1) : Readable(s.at + k)
               /\ reach = n \/ s.at + reach = s.end \/ ~Readable(s.at + reach)
  <1>. DEFINE most == IF s.end - s.at < n THEN s.end - s.at ELSE n
              gaps == {k \in 0 .. (most - 1) : ~Readable(s.at + k)}
              first == CHOOSE k \in gaps : \A j \in gaps : k <= j
  <1>1. Reach(s, n) = IF gaps = {} THEN most ELSE first
    BY DEF Reach
  <1>2. most \in 0 .. n /\ s.at + most <= s.end /\ (most = n \/ s.at + most = s.end)
    OBVIOUS
  <1>3. CASE gaps = {}
    <2>1. \A k \in 0 .. (most - 1) : Readable(s.at + k)
      BY <1>3
    <2>. HIDE DEF most, gaps
    <2>. QED
      BY <1>1, <1>2, <1>3, <2>1
  <1>4. CASE gaps # {}
    <2>1. gaps \in SUBSET Nat
      BY <1>2
    <2>2. \E k \in gaps : \A j \in gaps : k <= j
      <3>. HIDE DEF gaps
      <3>. QED
        BY <1>4, <2>1, LeastOf
    <2>3. first \in gaps /\ \A j \in gaps : first <= j
      <3>. HIDE DEF gaps
      <3>. QED
        BY <2>2
    <2>. HIDE DEF first
    <2>4. first \in 0 .. (most - 1) /\ ~Readable(s.at + first)
      BY <2>3
    <2>5. \A k \in 0 .. (first - 1) : Readable(s.at + k)
      BY <1>2, <2>3, <2>4
    <2>. HIDE DEF gaps, most
    <2>. QED
      BY <1>1, <1>2, <1>4, <2>4, <2>5
  <1>. QED
    BY <1>3, <1>4

(* The next element is there when it can be read, and else it is not.      *)
LEMMA NextLies ==
    ASSUME NEW r, ReaderOk(r), NEW n \in Nat, n > 0 => Lies(r, n), n * r.show.length <= r.size,
           r.stream = [at |-> r.at + n * r.show.length, end |-> r.at + r.size]
    PROVE  /\ Lies(r, n + 1) <=> CanRead(r.stream, r.show.length)
           /\ Lies(r, n + 1) => n < r.size \div r.show.length
  <1>. DEFINE len == r.show.length
              s == r.stream
              reach == Reach(s, len)
  <1>1. r.at \in Nat /\ r.size \in Nat /\ len \in {1, 2}
    BY DEF ReaderOk
  <1>2. s.at = r.at + n * len /\ s.end = r.at + r.size /\ n * len \in Nat
    BY <1>1
  <1>3. /\ reach \in 0 .. len /\ s.at + reach <= s.end
        /\ \A k \in 0 .. (reach - 1) : Readable(s.at + k)
        /\ reach = len \/ s.at + reach = s.end \/ ~Readable(s.at + reach)
    <2>1. s.at \in Nat /\ s.end \in Nat /\ s.at <= s.end /\ len \in Nat
      BY <1>1, <1>2
    <2>. HIDE DEF len, s
    <2>. QED
      BY <2>1, ReachIs
  <1>. DEFINE units == n * len
  <1>4. (n + 1) * len = units + len
    BY <1>1
  <1>5. \A a \in 0 .. (units - 1) : a < r.size /\ Readable(r.at + a)
    <2>1. CASE n = 0
      <3>1. 0 .. (units - 1) = {}
        BY <1>1, <2>1
      <3>. QED
        BY <3>1
    <2>2. CASE n # 0
      <3>1. Lies(r, n)
        BY <2>2
      <3>. QED
        BY <3>1 DEF Lies
    <2>. QED
      BY <2>1, <2>2
  <1>. HIDE DEF reach, units
  <1>7. units \in Nat /\ s.at = r.at + units /\ units <= r.size
    BY <1>2 DEF units
  <1>6. Lies(r, n + 1) <=> \A a \in 0 .. (units + len - 1) : a < r.size /\ Readable(r.at + a)
    <2>1. 0 .. ((n + 1) * r.show.length - 1) = 0 .. (units + len - 1)
      <3>1. (n + 1) * r.show.length = units + len
        BY <1>4
      <3>. QED
        BY <1>1, <1>7, <3>1
    <2>. QED
      BY <2>1, Zenon DEF Lies
  <1>. HIDE DEF len, s
  <1>8. ASSUME reach = len
        PROVE  Lies(r, n + 1)
    <2>1. ASSUME NEW a \in 0 .. (units + len - 1), a >= units
          PROVE  a < r.size /\ Readable(r.at + a)
      <3>1. a - units \in 0 .. (len - 1) /\ s.at + (a - units) = r.at + a
        BY <1>1, <1>7, <2>1
      <3>2. units + len <= r.size
        BY <1>1, <1>2, <1>3, <1>7, <1>8
      <3>. QED
        BY <1>1, <1>3, <1>7, <1>8, <2>1, <3>1, <3>2
    <2>. QED
      BY <1>1, <1>5, <1>6, <1>7, <2>1
  <1>9. ASSUME reach # len, Lies(r, n + 1)
        PROVE  FALSE
    <2>1. units + reach \in 0 .. (units + len - 1)
      BY <1>1, <1>3, <1>7, <1>9
    <2>2. units + reach < r.size /\ Readable(r.at + (units + reach))
      BY <1>6, <1>9, <2>1
    <2>3. s.at + reach = r.at + (units + reach)
      BY <1>1, <1>3, <1>7
    <2>. QED
      BY <1>1, <1>2, <1>3, <1>7, <1>9, <2>2, <2>3
  <1>10. ASSUME Lies(r, n + 1)
         PROVE  n < r.size \div len
    <2>1. units + len <= r.size
      BY <1>1, <1>6, <1>7, <1>10
    <2>2. n * len + len <= r.size
      BY <2>1 DEF units
    <2>3. CASE len = 1
      BY <1>1, <2>2, <2>3
    <2>4. CASE len = 2
      BY <1>1, <2>2, <2>4
    <2>. QED
      BY <1>1, <2>3, <2>4
  <1>. QED
    BY <1>8, <1>9, <1>10 DEF CanRead, reach, len, s

(* Who asks the same of the same memory sees the same.                     *)
LEMMA AlikeSees ==
    ASSUME NEW r, NEW r2, r2.at = r.at, r2.size = r.size, r2.toNull = r.toNull, r2.show = r.show, NEW k
    PROVE  (Lies(r2, k) <=> Lies(r, k)) /\ (Past(r2, k) <=> Past(r, k)) /\ NumberAt(r2, k) = NumberAt(r, k)
  <1>1. NumberAt(r2, k) = NumberAt(r, k) /\ NumberAt(r2, k - 1) = NumberAt(r, k - 1)
    BY DEF NumberAt
  <1>2. Lies(r2, k) <=> Lies(r, k)
    BY DEF Lies
  <1>. QED
    BY <1>1, <1>2 DEF Past

LEMMA PrintedFits ==
    ASSUME NEW r, NEW p, ReaderOk(r), PrintedOk(r, p)
    PROVE  /\ Len(p) \in Nat /\ Len(p) * r.show.length \in Nat /\ Len(p) * r.show.length <= r.size
           /\ Len(p) > 0 => Lies(r, Len(p))
  <1>. DEFINE n == Len(p)
              units == n * r.show.length
  <1>1. n \in Nat
    BY DEF PrintedOk
  <1>2. r.show.length \in {1, 2} /\ r.size \in Nat
    BY DEF ReaderOk
  <1>3. n > 0 => Lies(r, n)
    <2>. HIDE DEF n
    <2>. QED
      BY <1>1 DEF PrintedOk, n
  <1>4. units \in Nat /\ (n > 0 => units > 0) /\ (n = 0 => units = 0)
    BY <1>1, <1>2
  <1>5. n > 0 => \A a \in 0 .. (units - 1) : a < r.size
    BY <1>3 DEF Lies
  <1>. HIDE DEF n, units
  <1>6. units <= r.size
    <2>1. CASE n > 0
      <3>1. units - 1 \in 0 .. (units - 1)
        BY <1>4, <2>1
      <3>2. units - 1 < r.size
        BY <1>5, <2>1, <3>1
      <3>. QED
        BY <1>2, <1>4, <3>2
    <2>2. CASE n = 0
      BY <1>2, <1>4, <2>2
    <2>. QED
      BY <1>1, <2>1, <2>2
  <1>. QED
    BY <1>1, <1>3, <1>4, <1>6 DEF n, units

(* One more element is right when it is the next one and not past the end. *)
LEMMA AppendIsRight ==
    ASSUME NEW r, NEW p, ReaderOk(r), PrintedOk(r, p), r.show.as # "hex", Break \notin Nat, MemoryOk,
           CanRead(r.stream, r.show.length), ~Past(r, Len(p) + 1), NEW r2, NEW w,
           r2 = [at |-> r.at, size |-> r.size, toNull |-> r.toNull, show |-> r.show,
                 stream |-> [at |-> r.stream.at + r.show.length, end |-> r.stream.end], index |-> r.index + 1,
                 null |-> r.show.as = "astr" /\ Number(r.stream.at, r.show.length) = 0, ended |-> FALSE],
           w \in Nat \union {Break}, (IF w = Break THEN 0 ELSE w) = Number(r.stream.at, r.show.length)
    PROVE  ReaderOk(r2) /\ PrintedOk(r2, Append(p, w))
  <1>. DEFINE n == Len(p)
              q == Append(p, w)
              len == r.show.length
  <1>1. r.at \in Nat /\ r.size \in Nat /\ len \in {1, 2} /\ r.index \in Nat
    BY DEF ReaderOk
  <1>2. n \in Nat /\ n * len \in Nat /\ n * len <= r.size /\ (n > 0 => Lies(r, n))
    BY PrintedFits
  <1>3. p \in Seq(Nat \union {Break}) /\ r.stream = [at |-> r.at + n * len, end |-> r.at + r.size] /\ r.index = n
    BY DEF PrintedOk
  <1>4. Lies(r, n + 1)
    <2>. HIDE DEF n
    <2>. QED
      BY <1>2, <1>3, NextLies
  <1>5. Number(r.stream.at, len) = NumberAt(r, n + 1)
    <2>1. r.stream.at = r.at + n * len /\ (n + 1) - 1 = n
      BY <1>2, <1>3
    <2>. QED
      BY <2>1 DEF NumberAt
  <1>6. /\ r2.at = r.at /\ r2.size = r.size /\ r2.toNull = r.toNull /\ r2.show = r.show
        /\ r2.index = n + 1 /\ ~r2.ended /\ r2.stream = [at |-> r.stream.at + len, end |-> r.stream.end]
        /\ r2.null = (r.show.as = "astr" /\ NumberAt(r, n + 1) = 0)
    BY <1>3, <1>5
  <1>7. q \in Seq(Nat \union {Break}) /\ Len(q) = n + 1 /\ q[n + 1] = w /\ \A k \in 1 .. n : q[k] = p[k]
    BY <1>3
  <1>8. ReaderOk(r2)
    BY <1>1, <1>2, <1>3 DEF ReaderOk
  <1>9. \A k : (Lies(r2, k) <=> Lies(r, k)) /\ (Past(r2, k) <=> Past(r, k)) /\ NumberAt(r2, k) = NumberAt(r, k)
    BY <1>6, AlikeSees
  <1>10. r2.stream = [at |-> r2.at + Len(q) * r2.show.length, end |-> r2.at + r2.size]
    <2>1. r.stream.at + len = r.at + (n + 1) * len
      <3>1. r.stream.at = r.at + n * len
        BY <1>3
      <3>. HIDE DEF n
      <3>2. CASE len = 1
        <4>. HIDE DEF len
        <4>. QED
          BY <1>1, <1>2, <3>1, <3>2
      <3>3. CASE len = 2
        <4>. HIDE DEF len
        <4>. QED
          BY <1>1, <1>2, <3>1, <3>3
      <3>. QED
        BY <1>1, <3>2, <3>3
    <2>. HIDE DEF n, len, q
    <2>. QED
      BY <1>3, <1>6, <1>7, <2>1 DEF len
  <1>11. ASSUME NEW k \in 1 .. (n + 1)
         PROVE  Lies(r2, k) /\ ~Past(r2, k) /\ (IF q[k] = Break THEN 0 ELSE q[k]) = NumberAt(r2, k)
    <2>1. CASE k \in 1 .. n
      <3>1. Lies(r, k) /\ ~Past(r, k) /\ (IF p[k] = Break THEN 0 ELSE p[k]) = NumberAt(r, k)
        BY <2>1 DEF PrintedOk
      <3>. HIDE DEF q
      <3>. QED
        BY <1>7, <1>9, <2>1, <3>1
    <2>2. CASE k = n + 1
      <3>1. (IF w = Break THEN 0 ELSE w) = NumberAt(r, n + 1)
        BY <1>5
      <3>. HIDE DEF q
      <3>. QED
        BY <1>4, <1>7, <1>9, <2>2, <3>1
    <2>. QED
      BY <1>2, <2>1, <2>2
  <1>12. r2.null <=> r2.show.as = "astr" /\ Len(q) > 0 /\ NumberAt(r2, Len(q)) = 0
    <2>. HIDE DEF q, n
    <2>1. Len(q) > 0
      BY <1>2, <1>7
    <2>2. NumberAt(r2, Len(q)) = NumberAt(r, n + 1) /\ r2.show = r.show
      BY <1>6, <1>7, <1>9
    <2>. QED
      BY <1>6, <2>1, <2>2, Zenon
  <1>. HIDE DEF q, n, len
  <1>13. PrintedOk(r2, q)
    BY <1>6, <1>7, <1>10, <1>11, <1>12 DEF PrintedOk
  <1>. QED
    BY <1>8, <1>13 DEF q

(* A loop ends right when there is no next element, or it is past the end. *)
LEMMA EndIsRight ==
    ASSUME NEW r, NEW p, ReaderOk(r), PrintedOk(r, p), ~Lies(r, Len(p) + 1) \/ Past(r, Len(p) + 1),
           NEW r2, r2 = [r EXCEPT !.ended = TRUE]
    PROVE  ReaderOk(r2) /\ PrintedOk(r2, p)
  <1>1. /\ r2.at = r.at /\ r2.size = r.size /\ r2.toNull = r.toNull /\ r2.show = r.show
        /\ r2.index = r.index /\ r2.stream = r.stream /\ r2.null = r.null
    OBVIOUS
  <1>2. \A k : (Lies(r2, k) <=> Lies(r, k)) /\ (Past(r2, k) <=> Past(r, k)) /\ NumberAt(r2, k) = NumberAt(r, k)
    BY <1>1, AlikeSees
  <1>3. ReaderOk(r2)
    BY <1>1 DEF ReaderOk
  <1>4. PrintedOk(r2, p)
    BY <1>1, <1>2 DEF PrintedOk
  <1>. QED
    BY <1>3, <1>4

(* A row shows what is there of it, or ends at what is not.                *)
LEMMA RowIsRight ==
    ASSUME NEW r, NEW p, ReaderOk(r), PrintedOk(r, p), r.show.as = "hex", ~r.ended, Break \notin Nat, MemoryOk,
           NEW r2, NEW row,
           r2 = [r EXCEPT !.stream = Skipped(r.stream, r.show.row), !.index = @ + 1],
           row = [k \in 1 .. Reach(r.stream, r.show.row) |-> scene.memory[r.stream.at + k - 1]]
    PROVE  ReaderOk(r2) /\ PrintedOk(r2, p \o row)
  <1>. DEFINE n == Len(p)
              reach == Reach(r.stream, 3)
              q == p \o row
  <1>1. r.at \in Nat /\ r.size \in Nat /\ r.show.length = 1 /\ r.show.row = 3 /\ r.index \in Nat
    BY DEF ReaderOk, Hex
  <1>2. n \in Nat /\ n <= r.size /\ (n > 0 => Lies(r, n))
    BY <1>1, PrintedFits
  <1>3. p \in Seq(Nat \union {Break}) /\ r.stream = [at |-> r.at + n, end |-> r.at + r.size]
    <2>1. p \in Seq(Nat \union {Break}) /\ r.stream = [at |-> r.at + n * 1, end |-> r.at + r.size]
      BY <1>1 DEF PrintedOk
    <2>. QED
      BY <1>1, <2>1
  <1>4. r.stream.at = r.at + n /\ r.stream.end = r.at + r.size
    BY <1>3
  <1>5. /\ reach \in 0 .. 3 /\ r.stream.at + reach <= r.stream.end
        /\ \A k \in 0 .. (reach - 1) : Readable(r.stream.at + k)
        /\ reach = 3 \/ r.stream.at + reach = r.stream.end \/ ~Readable(r.stream.at + reach)
    <2>1. r.stream.at \in Nat /\ r.stream.end \in Nat /\ r.stream.at <= r.stream.end
      BY <1>1, <1>2, <1>4
    <2>. QED
      BY <2>1, ReachIs
  <1>6. row = [k \in 1 .. reach |-> scene.memory[r.stream.at + k - 1]]
    BY <1>1
  <1>7. r2 = [r EXCEPT !.stream = [r.stream EXCEPT !.at = r.at + n + reach], !.index = @ + 1]
    BY <1>1, <1>4 DEF Skipped
  <1>. HIDE DEF reach, n
  <1>8. /\ r2.at = r.at /\ r2.size = r.size /\ r2.toNull = r.toNull /\ r2.show = r.show /\ r2.null = r.null
        /\ r2.index = r.index + 1 /\ r2.ended = r.ended /\ r2.stream = [at |-> r.at + n + reach, end |-> r.at + r.size]
        /\ r2 = [at |-> r2.at, size |-> r2.size, toNull |-> r2.toNull, show |-> r2.show, stream |-> r2.stream,
                 index |-> r2.index, null |-> r2.null, ended |-> r2.ended]
    <2>1. r = [at |-> r.at, size |-> r.size, toNull |-> r.toNull, show |-> r.show, stream |-> r.stream,
               index |-> r.index, null |-> r.null, ended |-> r.ended]
      BY DEF ReaderOk
    <2>2. [r.stream EXCEPT !.at = r.at + n + reach] = [at |-> r.at + n + reach, end |-> r.at + r.size]
      BY <1>3
    <2>3. r2 = [at |-> r.at, size |-> r.size, toNull |-> r.toNull, show |-> r.show,
                stream |-> [at |-> r.at + n + reach, end |-> r.at + r.size],
                index |-> r.index + 1, null |-> r.null, ended |-> r.ended]
      BY <1>7, <2>1, <2>2
    <2>4. /\ r2.at = r.at /\ r2.size = r.size /\ r2.toNull = r.toNull /\ r2.show = r.show /\ r2.null = r.null
          /\ r2.index = r.index + 1 /\ r2.ended = r.ended /\ r2.stream = [at |-> r.at + n + reach, end |-> r.at + r.size]
      BY ONLY <2>3
    <2>. QED
      BY ONLY <2>3, <2>4
  <1>9. ReaderOk(r2)
    BY <1>1, <1>8 DEF ReaderOk
  <1>10. \A k : (Lies(r2, k) <=> Lies(r, k)) /\ (Past(r2, k) <=> Past(r, k)) /\ NumberAt(r2, k) = NumberAt(r, k)
    BY <1>8, AlikeSees
  <1>11. \A k \in Nat : Lies(r, k) <=> \A a \in 0 .. (k - 1) : a < r.size /\ Readable(r.at + a)
    BY <1>1 DEF Lies
  <1>12. ASSUME NEW k \in 0 .. (n + reach)
         PROVE  Lies(r, k)
    <2>1. ASSUME NEW a \in 0 .. (k - 1)
          PROVE  a < r.size /\ Readable(r.at + a)
      <3>1. CASE a < n
        <4>1. Lies(r, n) /\ a \in 0 .. (n - 1)
          BY <1>2, <1>5, <2>1, <3>1
        <4>. QED
          BY <1>2, <1>11, <4>1
      <3>2. CASE a >= n
        <4>1. a - n \in 0 .. (reach - 1) /\ r.stream.at + (a - n) = r.at + a
          BY <1>1, <1>2, <1>4, <1>5, <2>1, <3>2
        <4>2. Readable(r.at + a)
          BY <1>5, <4>1
        <4>3. a < r.size
          BY <1>1, <1>2, <1>4, <1>5, <2>1
        <4>. QED
          BY <4>2, <4>3
      <3>. QED
        BY <1>2, <1>5, <2>1, <3>1, <3>2
    <2>. QED
      BY <1>2, <1>5, <1>11, <2>1
  <1>13. ASSUME NEW j \in 1 .. reach
         PROVE  row[j] \in Nat /\ row[j] = NumberAt(r, n + j)
    <2>1. Lies(r, n + j) /\ n + j - 1 \in 0 .. (n + j - 1) /\ n + j \in Nat
      BY <1>2, <1>5, <1>12
    <2>2. Readable(r.at + (n + j - 1))
      <3>1. PICK k : k = n + j
        OBVIOUS
      <3>2. k - 1 \in 0 .. (k - 1) /\ k - 1 = n + j - 1
        BY <1>2, <1>5, <3>1
      <3>. QED
        BY <1>11, <2>1, <3>1, <3>2
    <2>3. scene.memory[r.at + (n + j - 1)] \in Nat
      BY <2>2 DEF Readable, MemoryOk
    <2>4. r.stream.at + j - 1 = r.at + (n + j - 1) /\ (n + j - 1) * 1 = n + j - 1
      BY <1>1, <1>2, <1>4, <1>5
    <2>5. row[j] = scene.memory[r.at + (n + j - 1)]
      BY <1>6, <2>4
    <2>6. NumberAt(r, n + j) = scene.memory[r.at + (n + j - 1)] + 0
      <3>1. r.at + ((n + j) - 1) * r.show.length = r.at + (n + j - 1)
        BY <1>1, <1>2, <1>5
      <3>2. NumberAt(r, n + j) = Number(r.at + (n + j - 1), 1)
        BY <1>1, <3>1 DEF NumberAt
      <3>. QED
        BY <3>2 DEF Number
    <2>. QED
      BY <2>3, <2>5, <2>6
  <1>14. row \in Seq(Nat \union {Break}) /\ Len(row) = reach
    <2>1. row \in [1 .. reach -> Nat \union {Break}]
      BY <1>6, <1>13
    <2>2. reach \in Nat
      BY <1>5
    <2>3. row \in Seq(Nat \union {Break})
      BY <2>1, <2>2, SeqDef
    <2>4. Len(row) \in Nat /\ 1 .. Len(row) = 1 .. reach
      BY <2>1, <2>3, LenProperties
    <2>5. \A a, b \in Nat : 1 .. a = 1 .. b => a = b
      OBVIOUS
    <2>6. Len(row) = reach
      BY <2>2, <2>4, <2>5
    <2>. QED
      BY <2>3, <2>6
  <1>15. /\ q \in Seq(Nat \union {Break}) /\ Len(q) = n + reach
         /\ \A k \in 1 .. n : q[k] = p[k]
         /\ \A j \in 1 .. reach : q[n + j] = row[j]
    <2>1. Len(p) = n
      BY DEF n
    <2>2. /\ q \in Seq(Nat \union {Break}) /\ Len(q) = Len(p) + Len(row)
          /\ \A k \in 1 .. Len(p) + Len(row) : q[k] = IF k <= Len(p) THEN p[k] ELSE row[k - Len(p)]
      BY <1>3, <1>14, ConcatProperties
    <2>. HIDE DEF q
    <2>3. \A k \in 1 .. n + reach : q[k] = IF k <= n THEN p[k] ELSE row[k - n]
      BY <1>14, <2>1, <2>2
    <2>4. ASSUME NEW j \in 1 .. reach
          PROVE  q[n + j] = row[j]
      <3>1. n + j \in 1 .. n + reach /\ ~(n + j <= n) /\ (n + j) - n = j
        BY <1>2, <1>5
      <3>. QED
        BY <2>3, <3>1
    <2>5. \A k \in 1 .. n : q[k] = p[k]
      <3>1. \A k \in 1 .. n : k \in 1 .. n + reach /\ k <= n
        BY <1>2, <1>5
      <3>. QED
        BY <2>3, <3>1
    <2>. QED
      BY <1>14, <2>1, <2>2, <2>4, <2>5
  <1>. HIDE DEF q
  <1>16. ASSUME NEW k \in 1 .. (n + reach)
         PROVE  Lies(r2, k) /\ ~Past(r2, k) /\ (IF q[k] = Break THEN 0 ELSE q[k]) = NumberAt(r2, k)
    <2>1. Lies(r2, k) /\ ~Past(r2, k)
      BY <1>2, <1>5, <1>8, <1>10, <1>12 DEF Past
    <2>2. CASE k \in 1 .. n
      <3>1. (IF p[k] = Break THEN 0 ELSE p[k]) = NumberAt(r, k)
        BY <2>2 DEF PrintedOk, n
      <3>. QED
        BY <1>10, <1>15, <2>1, <2>2, <3>1
    <2>3. CASE k \notin 1 .. n
      <3>1. k - n \in 1 .. reach /\ n + (k - n) = k
        BY <1>2, <1>5, <2>3
      <3>2. q[k] = row[k - n] /\ row[k - n] \in Nat /\ row[k - n] = NumberAt(r, k)
        BY <1>13, <1>15, <3>1
      <3>. QED
        BY <1>10, <2>1, <3>2
    <2>. QED
      BY <2>2, <2>3
  <1>17. n + reach = 3 * (r.index + 1) \/ ~Lies(r, n + reach + 1)
    <2>1. CASE reach = 3
      <3>1. Lies(r, n + 1)
        BY <1>2, <1>12, <2>1
      <3>2. n = 3 * r.index
        BY <3>1 DEF PrintedOk, n
      <3>. QED
        BY <1>1, <2>1, <3>2
    <2>2. CASE reach # 3
      <3>1. n + reach = r.size \/ ~Readable(r.at + (n + reach))
        <4>1. r.stream.at + reach = r.at + (n + reach)
          BY <1>1, <1>2, <1>4, <1>5
        <4>. QED
          BY <1>1, <1>2, <1>4, <1>5, <2>2, <4>1
      <3>2. n + reach \in 0 .. (n + reach + 1 - 1) /\ n + reach + 1 \in Nat
        BY <1>2, <1>5
      <3>3. Lies(r, n + reach + 1) => n + reach < r.size /\ Readable(r.at + (n + reach))
        BY <1>11, <3>2
      <3>. QED
        BY <1>1, <1>2, <1>5, <3>1, <3>3
    <2>. QED
      BY <2>1, <2>2
  <1>18. n + reach <= r.size /\ (n + reach) * 1 = n + reach
    BY <1>1, <1>2, <1>4, <1>5
  <1>19. ~r2.null
    BY <1>8 DEF PrintedOk
  <1>20. r2.stream = [at |-> r2.at + Len(q) * r2.show.length, end |-> r2.at + r2.size]
    <2>1. r2.at + Len(q) * r2.show.length = r.at + n + reach
      BY <1>1, <1>2, <1>5, <1>8, <1>15, <1>18
    <2>. QED
      BY <1>8, <2>1
  <1>21. PrintedOk(r2, q)
    BY <1>2, <1>5, <1>8, <1>10, <1>15, <1>16, <1>17, <1>18, <1>19, <1>20 DEF PrintedOk
  <1>. QED
    BY <1>9, <1>21 DEF q

LEMMA SceneKeepsPrinted ==
    ASSUME scene' = scene, NEW CONSTANT r, NEW CONSTANT p
    PROVE  (ReaderOk(r) <=> ReaderOk(r)') /\ (PrintedOk(r, p) <=> PrintedOk(r, p)')
  <1>1. ASSUME NEW CONSTANT k
        PROVE  (Lies(r, k) <=> Lies(r, k)') /\ NumberAt(r, k)' = NumberAt(r, k)
    BY DEF Lies, Readable, NumberAt, Number
  <1>2. ASSUME NEW CONSTANT k
        PROVE  Past(r, k) <=> Past(r, k)'
    BY <1>1 DEF Past
  <1>. QED
    BY <1>1, <1>2 DEF ReaderOk, PrintedOk

AddressInv ==
    /\ scene \in Scenes /\ "kind" \in DOMAIN job
    /\ job.kind = "address" => ReaderOk(reader) /\ PrintedOk(reader, printed)

LEMMA PieceIs ==
    ASSUME NEW request, DOMAIN request = 1 .. Len(request), NEW from, NEW mark, NEW default
    PROVE  LET piece == PieceAt(request, Place(request, from, mark), default) IN
           \/ piece = default
           \/ \E i \in DOMAIN request : request[i].mark = mark /\ piece = request[i].value
  <1>. DEFINE places == {i \in DOMAIN request : i > from /\ request[i].mark = mark}
              first == CHOOSE i \in places : \A j \in places : i <= j
  <1>1. Place(request, from, mark) = IF places = {} THEN 0 ELSE first
    BY DEF Place
  <1>2. ASSUME places # {}
        PROVE  first \in places
    <2>1. places \in SUBSET Nat
      OBVIOUS
    <2>2. \E i \in places : \A j \in places : i <= j
      <3>. HIDE DEF places
      <3>. QED
        BY <1>2, <2>1, LeastOf
    <2>. HIDE DEF places
    <2>. QED
      BY <2>2
  <1>3. places = {} \/ (first \in DOMAIN request /\ request[first].mark = mark)
    BY <1>2
  <1>. HIDE DEF first
  <1>. QED
    BY <1>1, <1>3 DEF PieceAt

LEMMA InitAddressInv == Init => AddressInv
  <1>. SUFFICES ASSUME Init
                PROVE  AddressInv
    OBVIOUS
  <1>1. scene \in Scenes /\ job \in scene.jobs /\ "kind" \in DOMAIN job
    BY FieldsAssumption DEF Init
  <1>2. ASSUME job.kind = "address"
        PROVE  ReaderOk(reader) /\ PrintedOk(reader, printed)
    <2>. DEFINE request == job.request
                minus == Place(request, 0, "-")
                size == PieceAt(request, minus, 0)
                show == PieceAt(request, Place(request, minus, "!"), Hex)
    <2>1. /\ MaxSize \in Nat /\ DOMAIN request = 1 .. Len(request) /\ request[1].value \in Nat
          /\ \A i \in DOMAIN request :
                /\ request[i].mark = "-" => request[i].value \in Nat
                /\ request[i].mark = "!" =>
                      LET how == request[i].value
                      IN  how.as \in {"str", "astr", "numbers"} /\ how.length \in {1, 2}
      BY <1>1, <1>2, RequestsAssumption
    <2>2. size \in Nat
      BY <2>1, PieceIs
    <2>3. show.as \in {"hex", "str", "astr", "numbers"} /\ show.length \in {1, 2} /\ (show.as = "hex" => show = Hex)
      <3>1. CASE show = Hex
        BY <3>1 DEF Hex
      <3>2. CASE \E i \in DOMAIN request : request[i].mark = "!" /\ show = request[i].value
        BY <2>1, <3>2
      <3>. QED
        BY <2>1, <3>1, <3>2, PieceIs
    <2>. HIDE DEF minus, size, show
    <2>4. reader = [at |-> request[1].value, size |-> IF size = 0 THEN MaxSize ELSE size, toNull |-> size = 0,
                    show |-> show,
                    stream |-> [at |-> request[1].value, end |-> request[1].value + (IF size = 0 THEN MaxSize ELSE size)],
                    index |-> 0, null |-> FALSE, ended |-> FALSE]
      BY <1>2 DEF Init, InitAddress, Reader, StreamFor, minus, size, show
    <2>5. printed = <<>>
      BY DEF Init, InitAddress
    <2>6. ReaderOk(reader)
      BY <2>1, <2>2, <2>3, <2>4 DEF ReaderOk
    <2>7. PrintedOk(reader, printed)
      <3>1. Len(printed) = 0 /\ printed \in Seq(Nat \union {Break}) /\ 1 .. Len(printed) = {}
        BY <2>5
      <3>2. reader.stream = [at |-> reader.at + 0 * reader.show.length, end |-> reader.at + reader.size]
        BY <2>1, <2>2, <2>3, <2>4
      <3>3. reader.index = 0 /\ reader.size \in Nat /\ ~reader.null /\ ~reader.ended
        BY <2>1, <2>2, <2>4
      <3>. QED
        BY <3>1, <3>2, <3>3 DEF PrintedOk
    <2>. QED
      BY <2>6, <2>7
  <1>. QED
    BY <1>1, <1>2 DEF AddressInv

(* What a loop does next leaves what it printed right.                     *)
LEMMA NextIsOk ==
    ASSUME scene' = scene, job' = job, AddressInv,
           NEW CONSTANT r, NEW CONSTANT p, reader' = r, printed' = p, ReaderOk(r) /\ PrintedOk(r, p)
    PROVE  AddressInv'
  <1>1. (ReaderOk(r) /\ PrintedOk(r, p))'
    BY SceneKeepsPrinted
  <1>2. (ReaderOk(reader) /\ PrintedOk(reader, printed))'
    BY <1>1
  <1>. QED
    BY <1>2 DEF AddressInv

(* The loops see whether there is a next element, and whether it is past   *)
(* the end.                                                                *)
LEMMA LoopSees ==
    ASSUME NEW r, NEW p, ReaderOk(r), PrintedOk(r, p), r.show.as # "hex"
    PROVE  LET next == Number(r.stream.at, r.show.length)
           IN  /\ r.index < r.size \div r.show.length /\ CanRead(r.stream, r.show.length) <=> Lies(r, Len(p) + 1)
               /\ Past(r, Len(p) + 1) <=> next = 0 /\ (IF r.show.as = "str" THEN r.toNull ELSE r.null)
               /\ Lies(r, Len(p) + 1) =>
                     /\ MemoryOk => next \in Nat
                     /\ [r EXCEPT !.stream = Skipped(r.stream, r.show.length), !.index = @ + 1] =
                           [at |-> r.at, size |-> r.size, toNull |-> r.toNull, show |-> r.show,
                            stream |-> [at |-> r.stream.at + r.show.length, end |-> r.stream.end], index |-> r.index + 1,
                            null |-> r.null, ended |-> r.ended]
  <1>. DEFINE n == Len(p)
              len == r.show.length
              next == Number(r.stream.at, len)
  <1>1. n \in Nat /\ n * len \in Nat /\ n * len <= r.size /\ (n > 0 => Lies(r, n))
    BY PrintedFits
  <1>2. r.at \in Nat /\ r.size \in Nat /\ len \in {1, 2} /\ r.show.as \in {"str", "astr", "numbers"}
    BY DEF ReaderOk
  <1>3. r.stream = [at |-> r.at + n * len, end |-> r.at + r.size] /\ r.index = n
    BY DEF PrintedOk
  <1>4. /\ Lies(r, n + 1) <=> CanRead(r.stream, len)
        /\ Lies(r, n + 1) => n < r.size \div len
    <2>. HIDE DEF n
    <2>. QED
      BY <1>1, <1>3, NextLies
  <1>5. next = NumberAt(r, n + 1)
    <2>1. (n + 1) - 1 = n /\ r.stream.at = r.at + n * len
      BY <1>1, <1>3
    <2>. QED
      BY <2>1 DEF NumberAt
  <1>6. Past(r, n + 1) <=> next = 0 /\ (IF r.show.as = "str" THEN r.toNull ELSE r.null)
    <2>1. r.null <=> r.show.as = "astr" /\ n > 0 /\ NumberAt(r, n) = 0
      BY DEF PrintedOk
    <2>2. (n + 1) - 1 = n /\ (n + 1 > 1 <=> n > 0)
      BY <1>1
    <2>. HIDE DEF n, next
    <2>3. Past(r, n + 1) <=> \/ r.show.as = "str" /\ r.toNull /\ next = 0
                             \/ r.show.as = "astr" /\ n > 0 /\ next = 0 /\ NumberAt(r, n) = 0
      BY <1>5, <2>2 DEF Past
    <2>4. CASE r.show.as = "str"
      BY <2>3, <2>4, "str" # "astr"
    <2>5. CASE r.show.as # "str"
      BY <2>1, <2>3, <2>5
    <2>. QED
      BY <2>4, <2>5
  <1>7. ASSUME Lies(r, n + 1)
        PROVE  /\ MemoryOk => next \in Nat
               /\ [r EXCEPT !.stream = Skipped(r.stream, len), !.index = @ + 1] =
                     [at |-> r.at, size |-> r.size, toNull |-> r.toNull, show |-> r.show,
                      stream |-> [at |-> r.stream.at + len, end |-> r.stream.end], index |-> r.index + 1,
                      null |-> r.null, ended |-> r.ended]
    <2>1. Skipped(r.stream, len) = [at |-> r.stream.at + len, end |-> r.stream.end]
      <3>1. Reach(r.stream, len) = len
        BY <1>4, <1>7 DEF CanRead
      <3>. QED
        BY <1>3, <3>1 DEF Skipped
    <2>2. r = [at |-> r.at, size |-> r.size, toNull |-> r.toNull, show |-> r.show, stream |-> r.stream,
               index |-> r.index, null |-> r.null, ended |-> r.ended]
      BY DEF ReaderOk
    <2>3. ASSUME NEW k \in 0 .. (len - 1)
          PROVE  Readable(r.stream.at + k)
      <3>1. r.stream.at \in Nat /\ r.stream.end \in Nat /\ r.stream.at <= r.stream.end /\ Reach(r.stream, len) = len
        BY <1>1, <1>2, <1>3, <1>4, <1>7 DEF CanRead
      <3>2. len \in Nat
        BY <1>2
      <3>. HIDE DEF len
      <3>. QED
        BY <3>1, <3>2, ReachIs
    <2>4. IsNumber(r.stream.at, len) /\ r.stream.at \in Nat
      <3>1. r.stream.at \in Nat
        BY <1>1, <1>2, <1>3
      <3>. HIDE DEF len
      <3>. QED
        BY <1>2, <2>3, <3>1 DEF IsNumber, Held
    <2>5. MemoryOk => next \in Nat
      <3>. HIDE DEF len
      <3>. QED
        BY <2>4, NumberIsNat
    <2>. HIDE DEF len, next
    <2>6. [r EXCEPT !.stream = Skipped(r.stream, len), !.index = @ + 1] =
             [at |-> r.at, size |-> r.size, toNull |-> r.toNull, show |-> r.show,
              stream |-> [at |-> r.stream.at + len, end |-> r.stream.end], index |-> r.index + 1,
              null |-> r.null, ended |-> r.ended]
      <3>1. PICK skipped : skipped = Skipped(r.stream, len)
        OBVIOUS
      <3>2. skipped = [at |-> r.stream.at + len, end |-> r.stream.end]
        BY <2>1, <3>1
      <3>3. PICK advanced : advanced = [r EXCEPT !.stream = skipped, !.index = @ + 1]
        OBVIOUS
      <3>4. advanced = [at |-> r.at, size |-> r.size, toNull |-> r.toNull, show |-> r.show, stream |-> skipped,
                        index |-> r.index + 1, null |-> r.null, ended |-> r.ended]
        BY ONLY <2>2, <3>3
      <3>. QED
        BY <3>1, <3>2, <3>3, <3>4
    <2>. QED
      BY <2>5, <2>6
  <1>. QED
    BY <1>1, <1>3, <1>4, <1>6, <1>7

LEMMA LoopKeepsRight ==
    ASSUME AddressInv, job.kind = "address", scene' = scene, job' = job, MemoryOk, Break \notin Nat,
           PrintText \/ PrintTexts \/ PrintNumbers
    PROVE  AddressInv'
  <1>. DEFINE len == reader.show.length
              n == Len(printed)
              made(null) == [at |-> reader.at, size |-> reader.size, toNull |-> reader.toNull, show |-> reader.show,
                             stream |-> [at |-> reader.stream.at + len, end |-> reader.stream.end],
                             index |-> reader.index + 1, null |-> null, ended |-> FALSE]
  <1>1. ReaderOk(reader) /\ PrintedOk(reader, printed) /\ ~reader.ended /\ reader.show.as \in {"str", "astr", "numbers"}
    BY DEF AddressInv, PrintText, PrintTexts, PrintNumbers
  <1>2. /\ HasNext <=> Lies(reader, n + 1)
        /\ Past(reader, n + 1) <=> Current = 0 /\ (IF reader.show.as = "str" THEN reader.toNull ELSE reader.null)
        /\ HasNext => Current \in Nat /\ CanRead(reader.stream, len) /\ Advance(len) = made(reader.null)
    <2>1. reader.ended = FALSE
      BY <1>1 DEF ReaderOk
    <2>. QED
      BY <1>1, <2>1, LoopSees DEF HasNext, Limit, Current, Advance
  <1>3. reader.null => reader.show.as = "astr"
    BY <1>1 DEF PrintedOk
  <1>4. ASSUME ~HasNext \/ Past(reader, n + 1), End
        PROVE  AddressInv'
    <2>1. PICK r : r = [reader EXCEPT !.ended = TRUE]
      OBVIOUS
    <2>2. PICK p : p = printed
      OBVIOUS
    <2>3. reader' = r /\ printed' = p
      BY <1>4, <2>1, <2>2 DEF End
    <2>4. ReaderOk(r) /\ PrintedOk(r, p)
      BY <1>1, <1>2, <1>4, <2>1, <2>2, EndIsRight
    <2>. QED
      BY <2>3, <2>4, NextIsOk
  <1>5. ASSUME HasNext, ~Past(reader, n + 1), NEW w, w \in Nat \union {Break}, (IF w = Break THEN 0 ELSE w) = Current,
               NEW null, null = (reader.show.as = "astr" /\ Current = 0), reader' = made(null), printed' = Append(printed, w)
        PROVE  AddressInv'
    <2>1. PICK r : r = made(null)
      OBVIOUS
    <2>2. PICK p : p = Append(printed, w)
      OBVIOUS
    <2>3. reader' = r /\ printed' = p
      BY <1>5, <2>1, <2>2
    <2>4. r = [at |-> reader.at, size |-> reader.size, toNull |-> reader.toNull, show |-> reader.show,
               stream |-> [at |-> reader.stream.at + len, end |-> reader.stream.end], index |-> reader.index + 1,
               null |-> reader.show.as = "astr" /\ Number(reader.stream.at, len) = 0, ended |-> FALSE]
      BY <1>5, <2>1, Zenon DEF Current
    <2>5. ReaderOk(r) /\ PrintedOk(r, p)
      BY <1>1, <1>2, <1>5, <2>2, <2>4, AppendIsRight DEF Current
    <2>. QED
      BY <2>3, <2>5, NextIsOk
  <1>. HIDE DEF made, n, len
  <1>6. CASE PrintText
    <2>1. reader.show.as = "str" /\ ~reader.null
      BY <1>3, <1>6 DEF PrintText
    <2>2. CASE HasNext /\ ~(reader.toNull /\ Current = 0)
      <3>1. reader' = made(reader.null) /\ printed' = Append(printed, Current)
        BY <1>2, <1>6, <2>2 DEF PrintText, len
      <3>2. reader.null = (reader.show.as = "astr" /\ Current = 0)
        <4>1. reader.null = FALSE
          BY <1>1, <2>1 DEF ReaderOk
        <4>2. reader.show.as # "astr"
          BY <2>1
        <4>. QED
          BY <4>1, <4>2, Zenon
      <3>. QED
        BY <1>2, <1>5, <2>1, <2>2, <3>1, <3>2
    <2>3. CASE ~(HasNext /\ ~(reader.toNull /\ Current = 0))
      <3>1. End
        BY <1>6, <2>3 DEF PrintText
      <3>. QED
        BY <1>2, <1>4, <2>1, <2>3, <3>1
    <2>. QED
      BY <2>2, <2>3
  <1>7. CASE PrintNumbers
    <2>1. reader.show.as = "numbers" /\ ~reader.null
      BY <1>3, <1>7 DEF PrintNumbers
    <2>2. CASE HasNext
      <3>1. reader' = made(reader.null) /\ printed' = Append(printed, Current)
        BY <1>2, <1>7, <2>2 DEF PrintNumbers, len
      <3>2. reader.null = (reader.show.as = "astr" /\ Current = 0)
        <4>1. reader.null = FALSE
          BY <1>1, <2>1 DEF ReaderOk
        <4>2. reader.show.as # "astr"
          BY <2>1
        <4>. QED
          BY <4>1, <4>2, Zenon
      <3>. QED
        BY <1>2, <1>5, <2>1, <2>2, <3>1, <3>2
    <2>3. CASE ~HasNext
      <3>1. End
        BY <1>7, <2>3 DEF PrintNumbers
      <3>. QED
        BY <1>4, <2>3, <3>1
    <2>. QED
      BY <2>2, <2>3
  <1>8. CASE PrintTexts
    <2>1. reader.show.as = "astr"
      BY <1>8 DEF PrintTexts
    <2>2. CASE HasNext /\ ~(reader.null /\ Current = 0)
      <3>1. PICK w : w = IF Current = 0 THEN Break ELSE Current
        OBVIOUS
      <3>2. w \in Nat \union {Break} /\ (IF w = Break THEN 0 ELSE w) = Current
        BY <1>2, <2>2, <3>1
      <3>3. reader' = [made(reader.null) EXCEPT !.null = Current = 0] /\ printed' = Append(printed, w)
        BY <1>2, <1>8, <2>2, <3>1 DEF PrintTexts, len
      <3>4. PICK null : null = (Current = 0)
        OBVIOUS
      <3>5. reader' = [made(reader.null) EXCEPT !.null = null]
        BY <3>3, <3>4, Zenon
      <3>6. reader' = made(null)
        BY <3>5 DEF made
      <3>7. null = (reader.show.as = "astr" /\ Current = 0)
        BY <2>1, <3>4, Zenon
      <3>. QED
        BY <1>2, <1>5, <2>1, <2>2, <3>2, <3>3, <3>6, <3>7
    <2>3. CASE ~(HasNext /\ ~(reader.null /\ Current = 0))
      <3>1. End
        BY <1>8, <2>3 DEF PrintTexts
      <3>. QED
        BY <1>2, <1>4, <2>1, <2>3, <3>1
    <2>. QED
      BY <2>2, <2>3
  <1>. QED
    BY <1>6, <1>7, <1>8

LEMMA StepAddressInv == AddressInv /\ [Next]_vars => AddressInv'
  <1>. SUFFICES ASSUME AddressInv, [Next]_vars
                PROVE  AddressInv'
    OBVIOUS
  <1>1. MemoryOk /\ Break \notin Nat
    BY FieldsAssumption, RequestsAssumption DEF AddressInv, MemoryOk
  <1>2. ASSUME scene' = scene, job' = job, job.kind # "address"
        PROVE  AddressInv'
    BY <1>2 DEF AddressInv
  <1>3. ASSUME scene' = scene, job' = job, addressVars' = addressVars
        PROVE  AddressInv'
    <2>1. PICK r, p : r = reader /\ p = printed
      OBVIOUS
    <2>2. reader' = r /\ printed' = p
      BY <1>3, <2>1 DEF addressVars
    <2>3. CASE job.kind = "address"
      <3>1. ReaderOk(r) /\ PrintedOk(r, p)
        BY <2>1, <2>3 DEF AddressInv
      <3>. QED
        BY <1>3, <2>2, <3>1, NextIsOk
    <2>. QED
      BY <1>2, <1>3, <2>3
  <1>4. CASE NextAddress
    <2>1. scene' = scene /\ job' = job
      BY <1>4 DEF NextAddress, PrintText, PrintTexts, PrintNumbers, PrintRow
    <2>2. CASE job.kind = "address" /\ PrintRow
      <3>1. ReaderOk(reader) /\ PrintedOk(reader, printed) /\ reader.show.as = "hex" /\ ~reader.ended
        BY <2>2 DEF AddressInv, PrintRow
      <3>2. CASE reader.index * reader.show.row < reader.size
        <4>1. PICK row : row = [k \in 1 .. Reach(reader.stream, reader.show.row) |-> scene.memory[reader.stream.at + k - 1]]
          OBVIOUS
        <4>2. PICK r : r = [reader EXCEPT !.stream = Skipped(reader.stream, reader.show.row), !.index = @ + 1]
          OBVIOUS
        <4>3. PICK p : p = printed \o row
          OBVIOUS
        <4>4. printed' = p
          BY <2>2, <3>2, <4>1, <4>3 DEF PrintRow
        <4>5. reader' = r
          <5>1. Skipped(reader.stream, Reach(reader.stream, reader.show.row)) = Skipped(reader.stream, reader.show.row)
            <6>1. reader.stream.at \in Nat /\ reader.stream.end \in Nat /\ reader.stream.at <= reader.stream.end
                  /\ reader.show.row = 3
              <7>1. reader.show = Hex /\ reader.at \in Nat /\ reader.size \in Nat /\ reader.show.length = 1
                BY <3>1 DEF ReaderOk, Hex
              <7>2. reader.stream = [at |-> reader.at + Len(printed) * 1, end |-> reader.at + reader.size]
                BY <3>1, <7>1 DEF PrintedOk
              <7>3. Len(printed) \in Nat /\ Len(printed) <= reader.size
                BY <3>1 DEF PrintedOk
              <7>. QED
                BY <7>1, <7>2, <7>3 DEF Hex
            <6>2. PICK s : s = reader.stream
              OBVIOUS
            <6>3. PICK n : n = Reach(s, 3)
              OBVIOUS
            <6>4. /\ n \in 0 .. 3 /\ s.at + n <= s.end
                  /\ \A k \in 0 .. (n - 1) : Readable(s.at + k)
              BY <6>1, <6>2, <6>3, ReachIs
            <6>5. /\ Reach(s, n) \in 0 .. n
                  /\ Reach(s, n) = n \/ s.at + Reach(s, n) = s.end \/ ~Readable(s.at + Reach(s, n))
              <7>1. n \in Nat
                BY <6>4
              <7>. QED
                BY <6>1, <6>2, <7>1, ReachIs
            <6>6. Reach(s, n) = n
              <7>1. PICK m : m = Reach(s, n)
                OBVIOUS
              <7>. QED
                BY <6>1, <6>2, <6>4, <6>5, <7>1
            <6>. QED
              BY <6>1, <6>2, <6>3, <6>6 DEF Skipped
          <5>2. reader' = Advance(Reach(reader.stream, reader.show.row))
            BY <2>2, <3>2 DEF PrintRow
          <5>. QED
            BY <4>2, <5>1, <5>2 DEF Advance
        <4>6. ReaderOk(r) /\ PrintedOk(r, p)
          BY <1>1, <3>1, <4>1, <4>2, <4>3, RowIsRight
        <4>. QED
          BY <2>1, <4>4, <4>5, <4>6, NextIsOk
      <3>3. CASE ~(reader.index * reader.show.row < reader.size)
        <4>1. ~Lies(reader, Len(printed) + 1)
          <5>1. /\ reader.show.row = 3 /\ reader.show.length = 1 /\ reader.size \in Nat /\ reader.index \in Nat
            BY <3>1 DEF ReaderOk, Hex
          <5>2. /\ Len(printed) \in Nat /\ Len(printed) <= reader.size
                /\ Len(printed) = 3 * reader.index \/ ~Lies(reader, Len(printed) + 1)
            BY <3>1 DEF PrintedOk
          <5>3. PICK n : n = Len(printed)
            OBVIOUS
          <5>4. ASSUME n = 3 * reader.index
                PROVE  ~Lies(reader, n + 1)
            <6>1. n = reader.size /\ n \in 0 .. ((n + 1) * reader.show.length - 1)
              BY <3>3, <5>1, <5>2, <5>3, <5>4
            <6>. QED
              BY <5>1, <6>1 DEF Lies
          <5>. QED
            BY <5>2, <5>3, <5>4
        <4>2. PICK r, p : r = [reader EXCEPT !.ended = TRUE] /\ p = printed
          OBVIOUS
        <4>3. reader' = r /\ printed' = p
          BY <2>2, <3>3, <4>2 DEF PrintRow, End
        <4>4. ReaderOk(r) /\ PrintedOk(r, p)
          BY <3>1, <4>1, <4>2, EndIsRight
        <4>. QED
          BY <2>1, <4>3, <4>4, NextIsOk
      <3>. QED
        BY <3>2, <3>3
    <2>. QED
      BY <1>1, <1>2, <1>4, <2>1, <2>2, LoopKeepsRight DEF NextAddress
  <1>5. CASE NextGather /\ UNCHANGED addressVars
    <2>1. CASE DoGather \/ FollowPointer
      BY <1>3, <1>5, <2>1 DEF DoGather, FollowPointer
    <2>2. CASE NextRoot
      <3>1. scene' = scene /\ job.kind \in {"graph", "areas"} /\ job' = [job EXCEPT !.at = @ + 1]
        BY <2>2 DEF NextRoot
      <3>2. "kind" \in DOMAIN job' /\ job'.kind = job.kind
        BY <3>1 DEF AddressInv
      <3>. QED
        BY <3>1, <3>2 DEF AddressInv
    <2>. QED
      BY <1>5, <2>1, <2>2 DEF NextGather
  <1>6. CASE UNCHANGED vars
    BY <1>3, <1>6 DEF vars
  <1>7. CASE DumpVariable /\ UNCHANGED addressVars
    BY <1>3, <1>7 DEF DumpVariable
  <1>8. CASE ShowType /\ UNCHANGED addressVars
    BY <1>3, <1>8 DEF ShowType
  <1>9. CASE NextFields /\ UNCHANGED addressVars
    BY <1>3, <1>9 DEF NextFields, AskStatic, AskField
  <1>. QED
    BY <1>4, <1>5, <1>6, <1>7, <1>8, <1>9 DEF Next

LEMMA AddressIsShown == AddressInv => AddressShown
  <1>. SUFFICES ASSUME AddressInv, job.kind = "address", reader.ended
                PROVE  AddressShown
    BY DEF AddressShown
  <1>. DEFINE shown == [k \in DOMAIN printed |-> IF printed[k] = Break THEN 0 ELSE printed[k]]
              n == Len(printed)
  <1>1. ReaderOk(reader) /\ PrintedOk(reader, printed)
    BY DEF AddressInv
  <1>2. n \in Nat /\ DOMAIN printed = 1 .. n
    BY <1>1 DEF PrintedOk
  <1>3. Len(shown) = n
    BY <1>2
  <1>4. \A k \in 1 .. n : shown[k] = IF printed[k] = Break THEN 0 ELSE printed[k]
    BY <1>2
  <1>. HIDE DEF shown, n
  <1>5. \A k \in 1 .. n : Lies(reader, k) /\ ~Past(reader, k) /\ shown[k] = NumberAt(reader, k)
    BY <1>1, <1>4 DEF PrintedOk, n
  <1>6. ~Lies(reader, n + 1) \/ Past(reader, n + 1)
    BY <1>1 DEF PrintedOk, n
  <1>. QED
    BY <1>3, <1>5, <1>6 DEF AddressShown, Lies, Past, NumberAt, shown

-------------------------------------------------------------------------------
(* What is shown of a type.  A type is followed by its children, where it  *)
(* lies, and by the children of the structure it is of, at its offset.     *)
After(t) ==
    {<<c, 0>> : c \in ToSet(Children(t))} \union
    IF Tag(TypeOf(t)) # "udt" THEN {} ELSE {<<c, Shift(t)>> : c \in ToSet(Children(TypeOf(t)))}

Lying == SUBSET (Types \X Nat)

Onward(laid, t) ==
    (UNION {laid[c] : c \in ToSet(Children(t))})
    \union IF Tag(TypeOf(t)) # "udt" THEN {}
           ELSE UNION {{<<q[1], Shift(t) + q[2]>> : q \in laid[c]} : c \in ToSet(Children(TypeOf(t)))}

LEMMA ChildrenAre ==
    ASSUME TypesOk, NEW t \in Types
    PROVE  /\ Shift(t) \in Nat
           /\ ToSet(Children(t)) \in SUBSET Types
           /\ Tag(TypeOf(t)) = "udt" => TypeOf(t) \in Types /\ ToSet(Children(TypeOf(t))) \in SUBSET Types
  <1>1. Shift(t) \in Nat
    BY DEF Shift, TypesOk
  <1>2. ASSUME NEW s \in Seq(Types)
        PROVE  ToSet(s) \in SUBSET Types
    BY DEF ToSet
  <1>3. Tag(0) # "udt"
    BY DEF Tag
  <1>. QED
    BY <1>1, <1>2, <1>3 DEF TypesOk

LEMMA AfterIs ==
    ASSUME TypesOk, NEW t \in Types
    PROVE  \A a \in After(t) : a[1] \in Types /\ a[2] \in Nat /\ a = <<a[1], a[2]>>
  BY ChildrenAre DEF After

LEMMA OnwardIs ==
    ASSUME TypesOk, NEW t \in Types, NEW laid \in [Types -> Lying]
    PROVE  /\ Onward(laid, t) \in Lying
           /\ \A q : q \in Onward(laid, t) <=> \E a \in After(t) : \E p \in laid[a[1]] : q = <<p[1], a[2] + p[2]>>
  <1>1. \A c \in Types : \A p \in laid[c] : p[1] \in Types /\ p[2] \in Nat /\ p = <<p[1], 0 + p[2]>>
    BY DEF Lying
  <1>2. ASSUME NEW x, x \in Onward(laid, t)
        PROVE  \E a \in After(t) : \E p \in laid[a[1]] : x = <<p[1], a[2] + p[2]>>
    <2>1. ASSUME NEW c \in ToSet(Children(t)), x \in laid[c]
          PROVE  \E a \in After(t) : \E p \in laid[a[1]] : x = <<p[1], a[2] + p[2]>>
      <3>1. <<c, 0>> \in After(t) /\ c \in Types
        BY ChildrenAre DEF After
      <3>2. x = <<x[1], <<c, 0>>[2] + x[2]>> /\ x \in laid[<<c, 0>>[1]]
        BY <1>1, <2>1, <3>1
      <3>. QED
        BY <3>1, <3>2
    <2>2. ASSUME Tag(TypeOf(t)) = "udt", NEW c \in ToSet(Children(TypeOf(t))), NEW p \in laid[c],
                 x = <<p[1], Shift(t) + p[2]>>
          PROVE  \E a \in After(t) : \E r \in laid[a[1]] : x = <<r[1], a[2] + r[2]>>
      <3>1. <<c, Shift(t)>> \in After(t)
        BY <2>2 DEF After
      <3>. QED
        BY <2>2, <3>1
    <2>. DEFINE own == UNION {laid[c] : c \in ToSet(Children(t))}
                moved(c) == {<<q[1], Shift(t) + q[2]>> : q \in laid[c]}
                inner == UNION {moved(c) : c \in ToSet(Children(TypeOf(t)))}
    <2>3. x \in own \/ (Tag(TypeOf(t)) = "udt" /\ x \in inner)
      <3>1. Onward(laid, t) = own \union IF Tag(TypeOf(t)) # "udt" THEN {} ELSE inner
        BY DEF Onward
      <3>. HIDE DEF own, inner
      <3>. QED
        BY <1>2, <3>1
    <2>4. CASE x \in own
      BY <2>1, <2>4
    <2>5. CASE Tag(TypeOf(t)) = "udt" /\ x \in inner
      <3>1. PICK c \in ToSet(Children(TypeOf(t))) : x \in moved(c)
        BY <2>5
      <3>2. PICK p \in laid[c] : x = <<p[1], Shift(t) + p[2]>>
        BY <3>1
      <3>. QED
        BY <2>2, <2>5, <3>2
    <2>. QED
      BY <2>3, <2>4, <2>5
  <1>3. ASSUME NEW a \in After(t), NEW p \in laid[a[1]]
        PROVE  <<p[1], a[2] + p[2]>> \in Onward(laid, t) /\ <<p[1], a[2] + p[2]>> \in Types \X Nat
    <2>1. CASE \E c \in ToSet(Children(t)) : a = <<c, 0>>
      <3>1. PICK c \in ToSet(Children(t)) : a = <<c, 0>>
        BY <2>1
      <3>2. c \in Types /\ p \in laid[c]
        BY <3>1, ChildrenAre
      <3>3. <<p[1], a[2] + p[2]>> = p /\ p \in Types \X Nat
        BY <1>1, <3>1, <3>2
      <3>. QED
        BY <3>2, <3>3 DEF Onward
    <2>2. CASE Tag(TypeOf(t)) = "udt" /\ \E c \in ToSet(Children(TypeOf(t))) : a = <<c, Shift(t)>>
      <3>1. PICK c \in ToSet(Children(TypeOf(t))) : a = <<c, Shift(t)>>
        BY <2>2
      <3>2. c \in Types /\ p \in laid[c] /\ Shift(t) \in Nat
        BY <2>2, <3>1, ChildrenAre
      <3>3. <<p[1], a[2] + p[2]>> = <<p[1], Shift(t) + p[2]>> /\ p[1] \in Types /\ Shift(t) + p[2] \in Nat
        BY <1>1, <3>1, <3>2
      <3>4. <<p[1], Shift(t) + p[2]>> \in Onward(laid, t)
        <4>. DEFINE moved(d) == {<<q[1], Shift(t) + q[2]>> : q \in laid[d]}
                    own == UNION {laid[d] : d \in ToSet(Children(t))}
                    inner == UNION {moved(d) : d \in ToSet(Children(TypeOf(t)))}
        <4>1. <<p[1], Shift(t) + p[2]>> \in moved(c)
          BY <3>2
        <4>2. <<p[1], Shift(t) + p[2]>> \in inner
          <5>. HIDE DEF moved
          <5>. QED
            BY <4>1
        <4>3. Onward(laid, t) = own \union inner
          BY <2>2 DEF Onward
        <4>. HIDE DEF own, inner
        <4>. QED
          BY <4>2, <4>3
      <3>. QED
        BY <3>3, <3>4
    <2>. QED
      BY <2>1, <2>2 DEF After
  <1>4. Onward(laid, t) \in Lying
    BY <1>2, <1>3 DEF Lying
  <1>. QED
    BY <1>2, <1>3, <1>4

(* What lies within some depth, by depth and by type.                      *)
LEMMA LaidIs ==
    ASSUME TypesOk, IsFiniteSet(Types)
    PROVE  /\ \A d \in 0 .. Cardinality(Types) : LaidOutWithin[d] \in [Types -> Lying]
           /\ \A t \in Types : LaidOutWithin[0][t] = {<<t, 0>>}
           /\ \A d \in 1 .. Cardinality(Types) : \A t \in Types :
                 LaidOutWithin[d][t] = {<<t, 0>>} \union Onward(LaidOutWithin[d - 1], t)
  <1>. DEFINE n == Cardinality(Types)
              rows == [Types -> Lying]
              next(laid) == [t \in Types |-> {<<t, 0>>} \union Onward(laid, t)]
              a == [t \in Types |-> {<<t, 0>>}]
              step == [x \in rows \X (1 .. n) |-> next(x[1])]
              body(f, d) == [t \in Types |-> {<<t, 0>>} \union IF d = 0 THEN {} ELSE Onward(f[d - 1], t)]
  <1>1. n \in Nat
    BY FS_CardinalityType
  <1>2. a \in rows
    BY DEF Lying
  <1>3. ASSUME NEW laid \in rows
        PROVE  next(laid) \in rows
    <2>1. \A t \in Types : Onward(laid, t) \in Lying
      BY OnwardIs
    <2>2. \A t \in Types : {<<t, 0>>} \union Onward(laid, t) \in Lying
      BY <2>1 DEF Lying
    <2>. QED
      BY <2>2
  <1>4. step \in [rows \X (1 .. n) -> rows]
    <2>. HIDE DEF next, rows
    <2>. QED
      BY <1>3
  <1>5. \A laid \in rows, d \in 1 .. n : step[<<laid, d>>] = next(laid)
    <2>. HIDE DEF next, rows
    <2>. QED
      OBVIOUS
  <1>6. \A f : body(f, 0) = a
    OBVIOUS
  <1>7. \A f : \A d \in 1 .. n : body(f, d) = next(f[d - 1])
    OBVIOUS
  <1>. HIDE DEF n, a, step, rows, next
  <1>8. PICK f : Runs(f, a, step, n) /\ f \in [0 .. n -> rows]
    BY <1>1, <1>2, <1>4, RunsExist
  <1>9. \A d \in 0 .. n : (IF d = 0 THEN a ELSE step[<<f[d - 1], d>>]) = body(f, d)
    <2>1. ASSUME NEW d \in 1 .. n
          PROVE  step[<<f[d - 1], d>>] = body(f, d)
      <3>1. f[d - 1] \in rows
        BY <1>1, <1>8
      <3>. HIDE DEF body
      <3>. QED
        BY <1>5, <1>7, <3>1
    <2>. HIDE DEF body
    <2>. QED
      BY <1>1, <1>6, <2>1
  <1>10. f = [d \in 0 .. n |-> body(f, d)]
    <2>. HIDE DEF body
    <2>. QED
      BY <1>8, <1>9 DEF Runs
  <1>. DEFINE g == LaidOutWithin
  <1>11. g = [d \in 0 .. n |-> body(g, d)]
    BY <1>10 DEF LaidOutWithin, Onward, n
  <1>. HIDE DEF g
  <1>12. g[0] = a /\ \A d \in 1 .. n : g[d] = next(g[d - 1])
    <2>1. \A d \in 0 .. n : g[d] = body(g, d)
      <3>. HIDE DEF body
      <3>. QED
        BY <1>11
    <2>. HIDE DEF body
    <2>. QED
      BY <1>1, <1>6, <1>7, <2>1
  <1>13. \A d \in 0 .. n : g[d] \in rows
    <2>. DEFINE bad == {d \in 0 .. n : g[d] \notin rows}
    <2>. SUFFICES ASSUME bad # {} PROVE FALSE
      OBVIOUS
    <2>1. PICK d \in bad : \A m \in bad : d <= m
      <3>1. bad \in SUBSET Nat
        OBVIOUS
      <3>. HIDE DEF bad
      <3>. QED
        BY <3>1, LeastOf
    <2>2. d # 0
      BY <1>1, <1>2, <1>12
    <2>3. d - 1 \in 0 .. n /\ d - 1 \notin bad /\ d \in 1 .. n
      BY <1>1, <2>1, <2>2
    <2>4. g[d - 1] \in rows /\ g[d] = next(g[d - 1])
      BY <1>12, <2>3
    <2>. QED
      BY <1>3, <2>1, <2>4
  <1>. QED
    BY <1>12, <1>13 DEF n, a, g, rows, next

LEMMA InLaid ==
    ASSUME TypesOk, IsFiniteSet(Types), NEW d \in 0 .. Cardinality(Types), NEW t \in Types
    PROVE  /\ \A q \in LaidOutWithin[d][t] : q[1] \in Types /\ q[2] \in Nat /\ q = <<q[1], q[2]>>
           /\ \A q : q \in LaidOutWithin[d][t] <=>
                        \/ q = <<t, 0>>
                        \/ d > 0 /\ \E a \in After(t) : \E p \in LaidOutWithin[d - 1][a[1]] : q = <<p[1], a[2] + p[2]>>
  <1>. DEFINE n == Cardinality(Types)
  <1>1. n \in Nat
    BY FS_CardinalityType
  <1>. HIDE DEF n
  <1>2. LaidOutWithin[d][t] \in Lying
    BY LaidIs DEF n
  <1>3. \A q \in LaidOutWithin[d][t] : q[1] \in Types /\ q[2] \in Nat /\ q = <<q[1], q[2]>>
    BY <1>2 DEF Lying
  <1>4. CASE d = 0
    BY <1>3, <1>4, LaidIs
  <1>5. CASE d > 0
    <2>1. d \in 1 .. n /\ d - 1 \in 0 .. n
      BY <1>1, <1>5 DEF n
    <2>2. LaidOutWithin[d][t] = {<<t, 0>>} \union Onward(LaidOutWithin[d - 1], t)
      BY <2>1, LaidIs DEF n
    <2>3. LaidOutWithin[d - 1] \in [Types -> Lying]
      BY <2>1, LaidIs DEF n
    <2>4. \A q : q \in Onward(LaidOutWithin[d - 1], t) <=>
             \E a \in After(t) : \E p \in LaidOutWithin[d - 1][a[1]] : q = <<p[1], a[2] + p[2]>>
      BY <2>3, OnwardIs
    <2>. QED
      BY <1>3, <1>5, <2>2, <2>4
  <1>. QED
    BY <1>1, <1>4, <1>5 DEF n

(* A property of depths that holds of none less holds of all.              *)
LEMMA ByDepth ==
    ASSUME NEW good, good \in [Nat -> BOOLEAN], good[0], \A d \in Nat : good[d] => good[d + 1]
    PROVE  \A d \in Nat : good[d]
  <1>. DEFINE bad == {d \in Nat : ~good[d]}
  <1>. SUFFICES ASSUME bad # {} PROVE FALSE
    OBVIOUS
  <1>1. PICK d \in bad : \A m \in bad : d <= m
    <2>1. bad \in SUBSET Nat
      OBVIOUS
    <2>. HIDE DEF bad
    <2>. QED
      BY <2>1, LeastOf
  <1>2. d # 0 /\ d - 1 \in Nat /\ d - 1 \notin bad /\ (d - 1) + 1 = d
    BY <1>1
  <1>. QED
    BY <1>1, <1>2

(* What lies within a depth lies within the next one, and so does what     *)
(* follows it.                                                             *)
LEMMA LaidGrows ==
    ASSUME TypesOk, IsFiniteSet(Types), NEW d \in Nat, d < Cardinality(Types), NEW t \in Types,
           NEW q \in LaidOutWithin[d][t]
    PROVE  /\ q \in LaidOutWithin[d + 1][t]
           /\ \A a \in After(q[1]) : <<a[1], q[2] + a[2]>> \in LaidOutWithin[d + 1][t]
  <1>. DEFINE n == Cardinality(Types)
              grows(e) == \A s \in Types : \A p \in LaidOutWithin[e][s] :
                             /\ p \in LaidOutWithin[e + 1][s]
                             /\ \A a \in After(p[1]) : <<a[1], p[2] + a[2]>> \in LaidOutWithin[e + 1][s]
              good == [e \in Nat |-> e < n => grows(e)]
  <1>1. n \in Nat
    BY FS_CardinalityType
  <1>. HIDE DEF n
  <1>2. ASSUME NEW e \in Nat, e < n, NEW s \in Types, NEW a \in After(s), NEW p \in LaidOutWithin[e][a[1]]
        PROVE  <<p[1], a[2] + p[2]>> \in LaidOutWithin[e + 1][s]
    <2>1. e + 1 \in 0 .. n /\ e + 1 > 0 /\ (e + 1) - 1 = e
      BY <1>1, <1>2
    <2>2. p \in LaidOutWithin[(e + 1) - 1][a[1]]
      BY <2>1
    <2>. QED
      BY <2>1, <2>2, InLaid DEF n
  <1>3. ASSUME NEW e \in Nat, e < n, NEW s \in Types
        PROVE  <<s, 0>> \in LaidOutWithin[e + 1][s] /\ <<s, 0>> \in LaidOutWithin[e][s]
    <2>1. e + 1 \in 0 .. n /\ e \in 0 .. n
      BY <1>1, <1>3
    <2>. QED
      BY <2>1, InLaid DEF n
  <1>4. ASSUME NEW e \in Nat, e < n, NEW s \in Types, NEW a \in After(s)
        PROVE  <<a[1], 0 + a[2]>> \in LaidOutWithin[e + 1][s]
    <2>1. a[1] \in Types /\ a[2] \in Nat
      BY AfterIs
    <2>2. <<a[1], 0>> \in LaidOutWithin[e][a[1]]
      BY <1>3, <1>4, <2>1
    <2>3. <<<<a[1], 0>>[1], a[2] + <<a[1], 0>>[2]>> \in LaidOutWithin[e + 1][s]
      BY <1>2, <1>4, <2>2
    <2>. QED
      BY <2>1, <2>3
  <1>5. ASSUME NEW e \in Nat, e < n, e > 0 => grows(e - 1)
        PROVE  grows(e)
    <2>. SUFFICES ASSUME NEW s \in Types, NEW p \in LaidOutWithin[e][s]
                  PROVE  /\ p \in LaidOutWithin[e + 1][s]
                         /\ \A a \in After(p[1]) : <<a[1], p[2] + a[2]>> \in LaidOutWithin[e + 1][s]
      OBVIOUS
    <2>1. e \in 0 .. n
      BY <1>1, <1>5
    <2>2. CASE p = <<s, 0>>
      <3>1. p[1] = s /\ p[2] = 0
        BY <2>2
      <3>2. p \in LaidOutWithin[e + 1][s]
        BY <1>3, <1>5, <2>2
      <3>3. \A a \in After(s) : <<a[1], 0 + a[2]>> \in LaidOutWithin[e + 1][s]
        BY <1>4, <1>5
      <3>. HIDE DEF grows
      <3>. QED
        BY <3>1, <3>2, <3>3
    <2>3. CASE e > 0 /\ \E b \in After(s) : \E r \in LaidOutWithin[e - 1][b[1]] : p = <<r[1], b[2] + r[2]>>
      <3>1. PICK b \in After(s) : \E r \in LaidOutWithin[e - 1][b[1]] : p = <<r[1], b[2] + r[2]>>
        BY <2>3
      <3>2. PICK r \in LaidOutWithin[e - 1][b[1]] : p = <<r[1], b[2] + r[2]>>
        BY <3>1
      <3>3. b[1] \in Types /\ b[2] \in Nat
        BY AfterIs
      <3>4. e - 1 \in 0 .. n /\ (e - 1) + 1 = e
        BY <1>1, <1>5, <2>3
      <3>5. r[1] \in Types /\ r[2] \in Nat
        BY <3>3, <3>4, InLaid DEF n
      <3>6. p[1] = r[1] /\ p[2] = b[2] + r[2]
        BY <3>2
      <3>7. /\ r \in LaidOutWithin[(e - 1) + 1][b[1]]
            /\ \A a \in After(r[1]) : <<a[1], r[2] + a[2]>> \in LaidOutWithin[(e - 1) + 1][b[1]]
        BY <1>5, <2>3, <3>3
      <3>8. p \in LaidOutWithin[e + 1][s]
        BY <1>2, <1>5, <3>2, <3>4, <3>7
      <3>9. ASSUME NEW a \in After(p[1])
            PROVE  <<a[1], p[2] + a[2]>> \in LaidOutWithin[e + 1][s]
        <4>1. a[1] \in Types /\ a[2] \in Nat
          BY <3>5, <3>6, AfterIs
        <4>2. <<a[1], r[2] + a[2]>> \in LaidOutWithin[e][b[1]]
          BY <3>4, <3>6, <3>7
        <4>3. <<<<a[1], r[2] + a[2]>>[1], b[2] + <<a[1], r[2] + a[2]>>[2]>> \in LaidOutWithin[e + 1][s]
          BY <1>2, <1>5, <4>2
        <4>4. b[2] + (r[2] + a[2]) = p[2] + a[2]
          BY <3>3, <3>5, <3>6, <4>1
        <4>. QED
          BY <4>3, <4>4
      <3>. HIDE DEF grows
      <3>. QED
        BY <3>8, <3>9
    <2>. QED
      BY <2>1, <2>2, <2>3, InLaid DEF n
  <1>. HIDE DEF grows
  <1>6. good \in [Nat -> BOOLEAN] /\ \A e \in Nat : good[e] <=> (e < n => grows(e))
    OBVIOUS
  <1>. HIDE DEF good
  <1>7. good[0]
    <2>1. 0 < n => grows(0)
      BY <1>1, <1>5
    <2>. QED
      BY <1>6, <2>1
  <1>8. ASSUME NEW e \in Nat, good[e]
        PROVE  good[e + 1]
    <2>1. e + 1 \in Nat /\ (e + 1) - 1 = e /\ (e + 1 < n => e < n)
      BY <1>1
    <2>2. e + 1 < n => grows((e + 1) - 1)
      BY <1>6, <1>8, <2>1
    <2>3. e + 1 < n => grows(e + 1)
      BY <1>5, <2>1, <2>2
    <2>. QED
      BY <1>6, <2>1, <2>3
  <1>9. good[d]
    BY <1>6, <1>7, <1>8, ByDepth
  <1>10. grows(d)
    BY <1>6, <1>9 DEF n
  <1>. QED
    BY <1>10 DEF grows

LEMMA LaidInAll ==
    ASSUME TypesOk, IsFiniteSet(Types), NEW d \in 0 .. Cardinality(Types), NEW t \in Types
    PROVE  LaidOutWithin[d][t] \subseteq LaidOutWithin[Cardinality(Types)][t]
  <1>. DEFINE n == Cardinality(Types)
              within(k) == d + k <= n => LaidOutWithin[d][t] \subseteq LaidOutWithin[d + k][t]
              good == [k \in Nat |-> within(k)]
  <1>1. n \in Nat
    BY FS_CardinalityType
  <1>2. within(0)
    <2>1. d + 0 = d
      BY <1>1
    <2>. QED
      BY <2>1
  <1>3. ASSUME NEW k \in Nat, within(k)
        PROVE  within(k + 1)
    <2>. SUFFICES ASSUME d + (k + 1) <= n, NEW q \in LaidOutWithin[d][t]
                  PROVE  q \in LaidOutWithin[d + (k + 1)][t]
      OBVIOUS
    <2>1. d + k \in Nat /\ d + k <= n /\ d + k < n /\ (d + k) + 1 = d + (k + 1)
      BY <1>1
    <2>2. q \in LaidOutWithin[d + k][t]
      BY <1>3, <2>1
    <2>3. q \in LaidOutWithin[(d + k) + 1][t]
      BY <2>1, <2>2, LaidGrows
    <2>. QED
      BY <2>1, <2>3
  <1>. HIDE DEF within
  <1>4. good \in [Nat -> BOOLEAN] /\ \A k \in Nat : good[k] <=> within(k)
    <2>1. \A k \in Nat : within(k) \in BOOLEAN
      BY DEF within
    <2>. QED
      BY <2>1
  <1>. HIDE DEF good
  <1>5. \A k \in Nat : good[k]
    <2>1. ASSUME NEW k \in Nat, good[k]
          PROVE  good[k + 1]
      BY <1>3, <1>4, <2>1
    <2>. QED
      BY <1>2, <1>4, <2>1, ByDepth
  <1>6. within(n - d) /\ d + (n - d) = n /\ d <= n
    BY <1>1, <1>4, <1>5
  <1>. QED
    BY <1>1, <1>6 DEF within

(* Where all that follows is in a set, all that lies in a type is.         *)
LEMMA LaidInClosed ==
    ASSUME TypesOk, IsFiniteSet(Types), NEW S \in SUBSET Types, \A t \in S : \A a \in After(t) : a[1] \in S,
           NEW d \in 0 .. Cardinality(Types), NEW t \in S
    PROVE  \A q \in LaidOutWithin[d][t] : q[1] \in S
  <1>. DEFINE n == Cardinality(Types)
              inside(e) == e <= n => \A s \in S : \A q \in LaidOutWithin[e][s] : q[1] \in S
              good == [e \in Nat |-> inside(e)]
  <1>1. n \in Nat
    BY FS_CardinalityType
  <1>. HIDE DEF n
  <1>2. inside(0)
    <2>1. 0 \in 0 .. n
      BY <1>1
    <2>. QED
      BY <2>1, InLaid DEF n
  <1>3. ASSUME NEW e \in Nat, inside(e)
        PROVE  inside(e + 1)
    <2>. SUFFICES ASSUME e + 1 <= n, NEW s \in S, NEW q \in LaidOutWithin[e + 1][s]
                  PROVE  q[1] \in S
      OBVIOUS
    <2>1. e + 1 \in 0 .. n /\ e <= n /\ (e + 1) - 1 = e /\ s \in Types
      BY <1>1
    <2>2. q = <<s, 0>> \/ \E a \in After(s) : \E p \in LaidOutWithin[(e + 1) - 1][a[1]] : q = <<p[1], a[2] + p[2]>>
      BY <2>1, InLaid DEF n
    <2>3. CASE \E a \in After(s) : \E p \in LaidOutWithin[e][a[1]] : q = <<p[1], a[2] + p[2]>>
      <3>1. PICK a \in After(s) : \E p \in LaidOutWithin[e][a[1]] : q = <<p[1], a[2] + p[2]>>
        BY <2>3
      <3>2. PICK p \in LaidOutWithin[e][a[1]] : q = <<p[1], a[2] + p[2]>>
        BY <3>1
      <3>3. a[1] \in S
        OBVIOUS
      <3>4. p[1] \in S
        BY <1>3, <2>1, <3>3
      <3>. QED
        BY <3>2, <3>4
    <2>. QED
      BY <2>1, <2>2, <2>3
  <1>. HIDE DEF inside
  <1>4. good \in [Nat -> BOOLEAN] /\ \A e \in Nat : good[e] <=> inside(e)
    <2>1. \A e \in Nat : inside(e) \in BOOLEAN
      BY DEF inside
    <2>. QED
      BY <2>1
  <1>. HIDE DEF good
  <1>5. \A e \in Nat : good[e]
    <2>1. ASSUME NEW e \in Nat, good[e]
          PROVE  good[e + 1]
      BY <1>3, <1>4, <2>1
    <2>. QED
      BY <1>2, <1>4, <2>1, ByDepth
  <1>6. inside(d) /\ d <= n
    BY <1>1, <1>4, <1>5 DEF n
  <1>. QED
    BY <1>6 DEF inside

(* What is come to through the types of members as well.                   *)
Beyond(t) == ToSet(Children(t)) \union ({TypeOf(t)} \ {0})

LEMMA ReachedIs ==
    ASSUME TypesOk, IsFiniteSet(Types), job.type \in Types
    PROVE  /\ ReachedWithin[0] = {job.type}
           /\ \A d \in 1 .. Cardinality(Types) :
                 ReachedWithin[d] = ReachedWithin[d - 1] \union UNION {Beyond(t) : t \in ReachedWithin[d - 1]}
  <1>. DEFINE n == Cardinality(Types)
              sets == SUBSET Types
              next(reached) == reached \union UNION {Beyond(t) : t \in reached}
              a == {job.type}
              step == [x \in sets \X (1 .. n) |-> next(x[1])]
              body(f, d) == IF d = 0 THEN a ELSE next(f[d - 1])
  <1>1. n \in Nat
    BY FS_CardinalityType
  <1>2. a \in sets
    OBVIOUS
  <1>3. ASSUME NEW reached \in sets
        PROVE  next(reached) \in sets
    <2>1. ASSUME NEW t \in Types
          PROVE  Beyond(t) \in SUBSET Types
      <3>1. ToSet(Children(t)) \in SUBSET Types /\ TypeOf(t) \in {0} \union Types
        BY ChildrenAre DEF TypesOk
      <3>. QED
        BY <3>1 DEF Beyond
    <2>. QED
      BY <2>1
  <1>4. step \in [sets \X (1 .. n) -> sets]
    <2>. HIDE DEF next, sets
    <2>. QED
      BY <1>3
  <1>5. \A reached \in sets, d \in 1 .. n : step[<<reached, d>>] = next(reached)
    <2>. HIDE DEF next, sets
    <2>. QED
      OBVIOUS
  <1>. HIDE DEF n, a, step, sets, next
  <1>6. PICK f : Runs(f, a, step, n) /\ f \in [0 .. n -> sets]
    BY <1>1, <1>2, <1>4, RunsExist
  <1>7. \A d \in 0 .. n : (IF d = 0 THEN a ELSE step[<<f[d - 1], d>>]) = body(f, d)
    <2>1. ASSUME NEW d \in 1 .. n
          PROVE  step[<<f[d - 1], d>>] = body(f, d)
      <3>1. f[d - 1] \in sets
        BY <1>1, <1>6
      <3>. QED
        BY <1>1, <1>5, <3>1
    <2>. QED
      BY <1>1, <2>1
  <1>8. f = [d \in 0 .. n |-> body(f, d)]
    <2>. HIDE DEF body
    <2>. QED
      BY <1>6, <1>7 DEF Runs
  <1>. DEFINE g == ReachedWithin
  <1>9. g = [d \in 0 .. n |-> body(g, d)]
    BY <1>8 DEF ReachedWithin, Beyond, n, a, next
  <1>. HIDE DEF g
  <1>10. \A d \in 0 .. n : g[d] = body(g, d)
    <2>. HIDE DEF body
    <2>. QED
      BY <1>9
  <1>11. g[0] = a /\ \A d \in 1 .. n : g[d] = next(g[d - 1])
    BY <1>1, <1>10
  <1>. QED
    BY <1>11 DEF n, a, g, next

LEMMA ReachedGrows ==
    ASSUME TypesOk, IsFiniteSet(Types), job.type \in Types, NEW d \in Nat, d < Cardinality(Types),
           NEW t \in ReachedWithin[d]
    PROVE  t \in ReachedWithin[d + 1] /\ Beyond(t) \subseteq ReachedWithin[d + 1]
  <1>1. Cardinality(Types) \in Nat
    BY FS_CardinalityType
  <1>2. d + 1 \in 1 .. Cardinality(Types) /\ (d + 1) - 1 = d
    BY <1>1
  <1>3. ReachedWithin[d + 1] = ReachedWithin[d] \union UNION {Beyond(s) : s \in ReachedWithin[d]}
    BY <1>2, ReachedIs
  <1>. QED
    BY <1>3

LEMMA ReachedInAll ==
    ASSUME TypesOk, IsFiniteSet(Types), job.type \in Types, NEW d \in 0 .. Cardinality(Types)
    PROVE  ReachedWithin[d] \subseteq ReachedWithin[Cardinality(Types)]
  <1>. DEFINE n == Cardinality(Types)
              within(k) == d + k <= n => ReachedWithin[d] \subseteq ReachedWithin[d + k]
              good == [k \in Nat |-> within(k)]
  <1>1. n \in Nat
    BY FS_CardinalityType
  <1>2. within(0)
    <2>1. d + 0 = d
      BY <1>1
    <2>. QED
      BY <2>1
  <1>3. ASSUME NEW k \in Nat, within(k)
        PROVE  within(k + 1)
    <2>. SUFFICES ASSUME d + (k + 1) <= n, NEW t \in ReachedWithin[d]
                  PROVE  t \in ReachedWithin[d + (k + 1)]
      OBVIOUS
    <2>1. d + k \in Nat /\ d + k <= n /\ d + k < n /\ (d + k) + 1 = d + (k + 1)
      BY <1>1
    <2>2. t \in ReachedWithin[d + k]
      BY <1>3, <2>1
    <2>3. t \in ReachedWithin[(d + k) + 1]
      BY <2>1, <2>2, ReachedGrows
    <2>. QED
      BY <2>1, <2>3
  <1>. HIDE DEF within
  <1>4. good \in [Nat -> BOOLEAN] /\ \A k \in Nat : good[k] <=> within(k)
    <2>1. \A k \in Nat : within(k) \in BOOLEAN
      BY DEF within
    <2>. QED
      BY <2>1
  <1>. HIDE DEF good
  <1>5. \A k \in Nat : good[k]
    <2>1. ASSUME NEW k \in Nat, good[k]
          PROVE  good[k + 1]
      BY <1>3, <1>4, <2>1
    <2>. QED
      BY <1>2, <1>4, <2>1, ByDepth
  <1>6. within(n - d) /\ d + (n - d) = n /\ d <= n
    BY <1>1, <1>4, <1>5
  <1>. QED
    BY <1>1, <1>6 DEF within

LEMMA ReachedInClosed ==
    ASSUME TypesOk, IsFiniteSet(Types), job.type \in Types,
           NEW S, job.type \in S, \A t \in S : Beyond(t) \subseteq S
    PROVE  ReachedWithin[Cardinality(Types)] \subseteq S
  <1>. DEFINE n == Cardinality(Types)
              inside(e) == e <= n => ReachedWithin[e] \subseteq S
              good == [e \in Nat |-> inside(e)]
  <1>1. n \in Nat
    BY FS_CardinalityType
  <1>. HIDE DEF n
  <1>2. inside(0)
    BY ReachedIs
  <1>3. ASSUME NEW e \in Nat, inside(e)
        PROVE  inside(e + 1)
    <2>. SUFFICES ASSUME e + 1 <= n
                  PROVE  ReachedWithin[e + 1] \subseteq S
      OBVIOUS
    <2>1. e + 1 \in 1 .. n /\ e <= n /\ (e + 1) - 1 = e
      BY <1>1
    <2>2. ReachedWithin[e + 1] = ReachedWithin[e] \union UNION {Beyond(t) : t \in ReachedWithin[e]}
      BY <2>1, ReachedIs DEF n
    <2>. QED
      BY <1>3, <2>1, <2>2
  <1>. HIDE DEF inside
  <1>4. good \in [Nat -> BOOLEAN] /\ \A e \in Nat : good[e] <=> inside(e)
    <2>1. \A e \in Nat : inside(e) \in BOOLEAN
      BY DEF inside
    <2>. QED
      BY <2>1
  <1>. HIDE DEF good
  <1>5. \A e \in Nat : good[e]
    <2>1. ASSUME NEW e \in Nat, good[e]
          PROVE  good[e + 1]
      BY <1>3, <1>4, <2>1
    <2>. QED
      BY <1>2, <1>4, <2>1, ByDepth
  <1>6. inside(n)
    BY <1>1, <1>4, <1>5
  <1>. QED
    BY <1>1, <1>6 DEF inside, n

-------------------------------------------------------------------------------
(* What is shown, and what is still to be: nothing that follows a visited  *)
(* type is forgotten, and whatever is shown or to be lies within as many   *)
(* steps as types were visited.                                            *)
Following(t) == IF job.debug THEN Beyond(t) ELSE {a[1] : a \in After(t)}
Line(p) == <<p[1], IF Info(p[1]).offset = None THEN None ELSE p[2] + Info(p[1]).offset>>

Walked(next, been, lines) ==
    LET coming == {s.type : s \in ToSet(next)}
    IN  /\ next \in Seq([type : Types, base : Nat])
        /\ been \in SUBSET Types
        /\ been = {l[1] : l \in lines}
        /\ job.type \in been \union coming
        /\ \A t \in been : Following(t) \subseteq been \union coming
        /\ IF job.debug THEN been \union coming \subseteq ReachedWithin[Cardinality(been)]
           ELSE /\ \A s \in ToSet(next) : <<s.type, s.base>> \in LaidOutWithin[Cardinality(been)][job.type]
                /\ \A l \in lines : \E p \in LaidOutWithin[Cardinality(been)][job.type] : l = Line(p)

TypesInv ==
    /\ scene \in Scenes /\ "kind" \in DOMAIN job
    /\ job.kind # "types" => shows = <<>>
    /\ job.kind = "types" => job \in scene.jobs /\ Walked(shows, visited, layout)

LEMMA SceneKeepsWalked ==
    ASSUME scene' = scene, job' = job, NEW CONSTANT next, NEW CONSTANT been, NEW CONSTANT lines
    PROVE  Walked(next, been, lines) <=> Walked(next, been, lines)'
  <1>1. LaidOutWithin' = LaidOutWithin
    BY DEF LaidOutWithin, Types, Children, Info, Shift, Tag, TypeOf
  <1>2. ReachedWithin' = ReachedWithin
    BY DEF ReachedWithin, Types, Children, Info, TypeOf
  <1>3. ASSUME NEW CONSTANT t
        PROVE  Following(t)' = Following(t)
    BY DEF Following, Beyond, After, Children, Info, Shift, Tag, TypeOf
  <1>4. ASSUME NEW CONSTANT p
        PROVE  Line(p)' = Line(p)
    BY DEF Line, Info
  <1>5. Types' = Types
    BY DEF Types
  <1>. QED
    BY <1>1, <1>2, <1>3, <1>4, <1>5 DEF Walked

LEMMA JoinedSet ==
    ASSUME NEW S, NEW s \in Seq(S), NEW r \in Seq(S)
    PROVE  s \o r \in Seq(S) /\ ToSet(s \o r) = ToSet(s) \union ToSet(r)
  <1>1. /\ s \o r \in Seq(S) /\ Len(s \o r) = Len(s) + Len(r)
        /\ \A i \in 1 .. Len(s) + Len(r) : (s \o r)[i] = IF i <= Len(s) THEN s[i] ELSE r[i - Len(s)]
    BY ConcatProperties
  <1>2. /\ Len(s) \in Nat /\ DOMAIN s = 1 .. Len(s) /\ Len(r) \in Nat /\ DOMAIN r = 1 .. Len(r)
        /\ DOMAIN (s \o r) = 1 .. Len(s) + Len(r)
    BY <1>1, LenProperties
  <1>. DEFINE q == s \o r
  <1>. HIDE DEF q
  <1>3. ASSUME NEW i \in DOMAIN q
        PROVE  q[i] \in ToSet(s) \union ToSet(r)
    <2>1. i \in 1 .. Len(s) + Len(r) /\ q[i] = IF i <= Len(s) THEN s[i] ELSE r[i - Len(s)]
      BY <1>1, <1>2 DEF q
    <2>2. CASE i <= Len(s)
      BY <1>2, <2>1, <2>2 DEF ToSet
    <2>3. CASE ~(i <= Len(s))
      <3>1. i - Len(s) \in DOMAIN r
        BY <1>2, <2>1, <2>3
      <3>. QED
        BY <2>1, <2>3, <3>1 DEF ToSet
    <2>. QED
      BY <2>2, <2>3
  <1>4. ASSUME NEW i \in DOMAIN s
        PROVE  s[i] \in ToSet(q)
    <2>1. i \in DOMAIN q /\ q[i] = s[i]
      BY <1>1, <1>2 DEF q
    <2>. QED
      BY <2>1 DEF ToSet
  <1>5. ASSUME NEW i \in DOMAIN r
        PROVE  r[i] \in ToSet(q)
    <2>1. Len(s) + i \in 1 .. Len(s) + Len(r) /\ ~(Len(s) + i <= Len(s)) /\ (Len(s) + i) - Len(s) = i
      BY <1>2
    <2>2. Len(s) + i \in DOMAIN q /\ q[Len(s) + i] = r[i]
      BY <1>1, <1>2, <2>1 DEF q
    <2>. QED
      BY <2>2 DEF ToSet
  <1>6. ToSet(q) = ToSet(s) \union ToSet(r)
    BY <1>3, <1>4, <1>5 DEF ToSet
  <1>. QED
    BY <1>1, <1>6 DEF q

LEMMA FirstAndRest ==
    ASSUME NEW S, NEW s \in Seq(S), s # <<>>
    PROVE  Head(s) \in S /\ Tail(s) \in Seq(S) /\ ToSet(s) = {Head(s)} \union ToSet(Tail(s))
  <1>1. Len(s) \in Nat \ {0} /\ DOMAIN s = 1 .. Len(s)
    OBVIOUS
  <1>2. /\ Tail(s) \in Seq(S) /\ DOMAIN Tail(s) = 1 .. Len(s) - 1
        /\ \A i \in 1 .. Len(s) - 1 : Tail(s)[i] = s[i + 1]
        /\ Head(s) = s[1] /\ s[1] \in S
    BY <1>1
  <1>. DEFINE rest == Tail(s)
  <1>. HIDE DEF rest
  <1>3. ASSUME NEW i \in DOMAIN s
        PROVE  s[i] \in {Head(s)} \union ToSet(rest)
    <2>1. CASE i = 1
      BY <1>2, <2>1
    <2>2. CASE i # 1
      <3>1. i - 1 \in DOMAIN rest /\ rest[i - 1] = s[i]
        <4>1. i - 1 \in 1 .. Len(s) - 1 /\ (i - 1) + 1 = i
          BY <1>1, <2>2
        <4>. QED
          BY <1>2, <4>1 DEF rest
      <3>. QED
        BY <3>1 DEF ToSet
    <2>. QED
      BY <2>1, <2>2
  <1>4. ASSUME NEW i \in DOMAIN rest
        PROVE  rest[i] \in ToSet(s)
    <2>1. i + 1 \in DOMAIN s /\ rest[i] = s[i + 1]
      BY <1>1, <1>2 DEF rest
    <2>. QED
      BY <2>1 DEF ToSet
  <1>5. Head(s) \in ToSet(s)
    BY <1>1, <1>2 DEF ToSet
  <1>6. ToSet(s) = {Head(s)} \union ToSet(rest)
    BY <1>3, <1>4, <1>5 DEF ToSet
  <1>. QED
    BY <1>2, <1>6 DEF rest

LEMMA ShownAt ==
    ASSUME NEW s \in Seq(Types), NEW base \in Nat
    PROVE  LET made == [i \in DOMAIN s |-> Show(s[i], base)]
           IN  made \in Seq([type : Types, base : Nat]) /\ ToSet(made) = {Show(c, base) : c \in ToSet(s)}
  <1>. DEFINE made == [i \in DOMAIN s |-> Show(s[i], base)]
  <1>1. Len(s) \in Nat /\ DOMAIN s = 1 .. Len(s) /\ \A i \in DOMAIN s : s[i] \in Types
    OBVIOUS
  <1>2. made \in [1 .. Len(s) -> [type : Types, base : Nat]]
    BY <1>1 DEF Show
  <1>3. made \in Seq([type : Types, base : Nat])
    BY <1>1, <1>2, SeqDef
  <1>4. ToSet(made) = {Show(c, base) : c \in ToSet(s)}
    BY DEF ToSet
  <1>. QED
    BY <1>3, <1>4

LEMMA FirstOfPairs ==
    ASSUME NEW S, NEW n, NEW pairs, pairs = {<<c, n>> : c \in S}
    PROVE  {a[1] : a \in pairs} = S
  <1>1. \A c : <<c, n>>[1] = c
    OBVIOUS
  <1>2. \A a \in pairs : a[1] \in S
    BY <1>1
  <1>3. \A c \in S : <<c, n>> \in pairs
    OBVIOUS
  <1>4. \A c \in S : \E a \in pairs : c = a[1]
    BY <1>1, <1>3
  <1>. QED
    BY <1>2, <1>4

LEMMA TypesOfShown ==
    ASSUME NEW S, NEW n, NEW made, \A x : x \in made <=> \E c \in S : x = Show(c, n)
    PROVE  {x.type : x \in made} = S
  <1>1. \A c : Show(c, n).type = c
    BY DEF Show
  <1>2. \A x \in made : x.type \in S
    BY <1>1
  <1>3. \A c \in S : Show(c, n) \in made
    OBVIOUS
  <1>4. \A c \in S : \E x \in made : c = x.type
    BY <1>1, <1>3
  <1>. QED
    BY <1>2, <1>4

LEMMA FollowsAre ==
    ASSUME TypesOk, NEW s \in [type : Types, base : Nat], job.debug \in BOOLEAN
    PROVE  /\ Below(s) \in Seq([type : Types, base : Nat]) /\ Beside(s) \in Seq([type : Types, base : Nat])
           /\ Following(s.type) = {x.type : x \in ToSet(Below(s)) \union ToSet(Beside(s))}
           /\ ~job.debug => \A x \in ToSet(Below(s)) \union ToSet(Beside(s)) :
                               \E a \in After(s.type) : x.type = a[1] /\ x.base = s.base + a[2]
  <1>. DEFINE all == [type : Types, base : Nat]
              t == s.type
              inner == TypeOf(t)
  <1>1. t \in Types /\ s.base \in Nat /\ Shift(t) \in Nat /\ s.base + Shift(t) \in Nat /\ s.base + 0 = s.base
    BY ChildrenAre
  <1>2. Children(t) \in Seq(Types) /\ ToSet(Children(t)) \in SUBSET Types /\ inner \in {0} \union Types
    BY <1>1, ChildrenAre DEF TypesOk
  <1>3. Beside(s) \in Seq(all) /\ ToSet(Beside(s)) = {Show(c, s.base) : c \in ToSet(Children(t))}
    BY <1>1, <1>2, ShownAt DEF Beside
  <1>4. {x.type : x \in ToSet(Beside(s))} = ToSet(Children(t))
    <2>1. PICK made : made = ToSet(Beside(s))
      OBVIOUS
    <2>2. PICK base : base = s.base
      OBVIOUS
    <2>3. \A x : x \in made <=> \E c \in ToSet(Children(t)) : x = Show(c, base)
      BY <1>3, <2>1, <2>2
    <2>4. {x.type : x \in made} = ToSet(Children(t))
      BY <2>3, TypesOfShown
    <2>. QED
      BY <2>1, <2>4
  <1>5. <<>> \in Seq(all) /\ ToSet(<<>>) = {}
    BY DEF ToSet
  <1>. HIDE DEF t, inner, all
  <1>6. CASE inner = 0
    <2>1. Below(s) = <<>>
      BY <1>6 DEF Below, inner, t
    <2>2. Tag(inner) # "udt"
      BY <1>6 DEF Tag
    <2>3. After(t) = {<<c, 0>> : c \in ToSet(Children(t))}
      BY <2>2 DEF After, inner
    <2>4. Following(t) = ToSet(Children(t))
      <3>1. Beyond(t) = ToSet(Children(t))
        BY <1>6 DEF Beyond, inner
      <3>2. {a[1] : a \in After(t)} = ToSet(Children(t))
        BY <2>3, FirstOfPairs
      <3>. QED
        BY <3>1, <3>2 DEF Following
    <2>5. ASSUME NEW x \in ToSet(Beside(s))
          PROVE  \E a \in After(t) : x.type = a[1] /\ x.base = s.base + a[2]
      <3>1. PICK c \in ToSet(Children(t)) : x = Show(c, s.base)
        BY <1>3
      <3>2. <<c, 0>> \in After(t) /\ x.type = <<c, 0>>[1] /\ x.base = s.base + <<c, 0>>[2]
        BY <1>1, <2>3, <3>1 DEF Show
      <3>. QED
        BY <3>2
    <2>. QED
      BY <1>3, <1>4, <1>5, <2>1, <2>4, <2>5 DEF all, t
  <1>7. CASE inner # 0 /\ job.debug
    <2>1. Below(s) = <<Show(inner, s.base + Shift(t))>>
      BY <1>7 DEF Below, inner, t
    <2>2. Show(inner, s.base + Shift(t)) \in all /\ Show(inner, s.base + Shift(t)).type = inner
      BY <1>1, <1>2, <1>7 DEF Show, all
    <2>3. Below(s) \in Seq(all) /\ ToSet(Below(s)) = {Show(inner, s.base + Shift(t))}
      BY <2>1, <2>2 DEF ToSet
    <2>4. Following(t) = ToSet(Children(t)) \union {inner}
      BY <1>7 DEF Following, Beyond, inner
    <2>5. {x.type : x \in ToSet(Below(s)) \union ToSet(Beside(s))} = {inner} \union ToSet(Children(t))
      BY <1>4, <2>2, <2>3
    <2>. QED
      BY <1>3, <1>7, <2>3, <2>4, <2>5 DEF all, t
  <1>8. CASE inner # 0 /\ ~job.debug /\ Tag(inner) # "udt"
    <2>1. Below(s) = <<>>
      BY <1>8 DEF Below, inner, t
    <2>2. After(t) = {<<c, 0>> : c \in ToSet(Children(t))}
      BY <1>8 DEF After, inner
    <2>3. Following(t) = ToSet(Children(t))
      <3>1. {a[1] : a \in After(t)} = ToSet(Children(t))
        BY <2>2, FirstOfPairs
      <3>. QED
        BY <1>8, <3>1 DEF Following
    <2>4. ASSUME NEW x \in ToSet(Beside(s))
          PROVE  \E a \in After(t) : x.type = a[1] /\ x.base = s.base + a[2]
      <3>1. PICK c \in ToSet(Children(t)) : x = Show(c, s.base)
        BY <1>3
      <3>2. <<c, 0>> \in After(t) /\ x.type = <<c, 0>>[1] /\ x.base = s.base + <<c, 0>>[2]
        BY <1>1, <2>2, <3>1 DEF Show
      <3>. QED
        BY <3>2
    <2>. QED
      BY <1>3, <1>4, <1>5, <2>1, <2>3, <2>4 DEF all, t
  <1>9. CASE inner # 0 /\ ~job.debug /\ Tag(inner) = "udt"
    <2>1. Below(s) = [i \in DOMAIN Children(inner) |-> Show(Children(inner)[i], s.base + Shift(t))]
      BY <1>9 DEF Below, inner, t
    <2>2. Children(inner) \in Seq(Types)
      BY <1>2, <1>9 DEF TypesOk
    <2>3. /\ Below(s) \in Seq(all)
          /\ ToSet(Below(s)) = {Show(c, s.base + Shift(t)) : c \in ToSet(Children(inner))}
      BY <1>1, <2>1, <2>2, ShownAt DEF all
    <2>4. After(t) = {<<c, 0>> : c \in ToSet(Children(t))} \union {<<c, Shift(t)>> : c \in ToSet(Children(inner))}
      BY <1>9 DEF After, inner
    <2>5. Following(t) = ToSet(Children(t)) \union ToSet(Children(inner))
      <3>1. {a[1] : a \in After(t)} = ToSet(Children(t)) \union ToSet(Children(inner))
        <4>1. PICK A : A = {<<c, 0>> : c \in ToSet(Children(t))}
          OBVIOUS
        <4>2. PICK B : B = {<<c, Shift(t)>> : c \in ToSet(Children(inner))}
          OBVIOUS
        <4>3. {a[1] : a \in A} = ToSet(Children(t))
          BY <4>1, FirstOfPairs
        <4>4. {a[1] : a \in B} = ToSet(Children(inner))
          BY <4>2, FirstOfPairs
        <4>5. After(t) = A \union B
          BY <2>4, <4>1, <4>2
        <4>. QED
          BY <4>3, <4>4, <4>5
      <3>. QED
        BY <1>9, <3>1 DEF Following
    <2>6. {x.type : x \in ToSet(Below(s))} = ToSet(Children(inner))
      <3>1. PICK made : made = ToSet(Below(s))
        OBVIOUS
      <3>2. PICK base : base = s.base + Shift(t)
        OBVIOUS
      <3>3. \A x : x \in made <=> \E c \in ToSet(Children(inner)) : x = Show(c, base)
        BY <2>3, <3>1, <3>2
      <3>4. {x.type : x \in made} = ToSet(Children(inner))
        BY <3>3, TypesOfShown
      <3>. QED
        BY <3>1, <3>4
    <2>7. ASSUME NEW x \in ToSet(Beside(s))
          PROVE  \E a \in After(t) : x.type = a[1] /\ x.base = s.base + a[2]
      <3>1. PICK c \in ToSet(Children(t)) : x = Show(c, s.base)
        BY <1>3
      <3>2. <<c, 0>> \in After(t) /\ x.type = <<c, 0>>[1] /\ x.base = s.base + <<c, 0>>[2]
        BY <1>1, <2>4, <3>1 DEF Show
      <3>. QED
        BY <3>2
    <2>8. ASSUME NEW x \in ToSet(Below(s))
          PROVE  \E a \in After(t) : x.type = a[1] /\ x.base = s.base + a[2]
      <3>1. PICK c \in ToSet(Children(inner)) : x = Show(c, s.base + Shift(t))
        BY <2>3
      <3>2. /\ <<c, Shift(t)>> \in After(t) /\ x.type = <<c, Shift(t)>>[1]
            /\ x.base = s.base + <<c, Shift(t)>>[2]
        BY <2>4, <3>1 DEF Show
      <3>. QED
        BY <3>2
    <2>9. {x.type : x \in ToSet(Below(s)) \union ToSet(Beside(s))} = ToSet(Children(inner)) \union ToSet(Children(t))
      BY <1>4, <2>6
    <2>. QED
      BY <1>3, <2>3, <2>5, <2>7, <2>8, <2>9 DEF all, t
  <1>. QED
    BY <1>6, <1>7, <1>8, <1>9

(* To pass over a type that was visited, or to show one that was not,      *)
(* leaves it so.                                                           *)
LEMMA PassKeepsWalked ==
    ASSUME NEW next, NEW been, NEW lines, Walked(next, been, lines), next # <<>>, Head(next).type \in been
    PROVE  Walked(Tail(next), been, lines)
  <1>. DEFINE all == [type : Types, base : Nat]
  <1>1. next \in Seq(all)
    BY DEF Walked
  <1>2. Tail(next) \in Seq(all) /\ ToSet(next) = {Head(next)} \union ToSet(Tail(next))
    BY <1>1, FirstAndRest
  <1>. DEFINE coming(r) == {s.type : s \in ToSet(r)}
  <1>3. been \union coming(next) = been \union coming(Tail(next))
    BY <1>2
  <1>4. ToSet(Tail(next)) \subseteq ToSet(next)
    BY <1>2
  <1>. HIDE DEF coming
  <1>5. /\ been \in SUBSET Types /\ been = {l[1] : l \in lines}
        /\ job.type \in been \union coming(Tail(next))
        /\ \A t \in been : Following(t) \subseteq been \union coming(Tail(next))
    BY <1>3 DEF Walked, coming
  <1>6. IF job.debug THEN been \union coming(Tail(next)) \subseteq ReachedWithin[Cardinality(been)]
        ELSE /\ \A s \in ToSet(Tail(next)) : <<s.type, s.base>> \in LaidOutWithin[Cardinality(been)][job.type]
             /\ \A l \in lines : \E p \in LaidOutWithin[Cardinality(been)][job.type] : l = Line(p)
    BY <1>3, <1>4 DEF Walked, coming
  <1>. QED
    BY <1>2, <1>5, <1>6 DEF Walked, coming

LEMMA ShowKeepsWalked ==
    ASSUME TypesOk, IsFiniteSet(Types), job.type \in Types, job.debug \in BOOLEAN,
           NEW next, NEW been, NEW lines, Walked(next, been, lines), next # <<>>, Head(next).type \notin been,
           NEW line, line = Line(<<Head(next).type, Head(next).base>>)
    PROVE  Walked(Below(Head(next)) \o Beside(Head(next)) \o Tail(next), been \union {Head(next).type}, lines \union {line})
  <1>. DEFINE all == [type : Types, base : Nat]
              n == Cardinality(been)
              s == Head(next)
              after == Below(s) \o Beside(s) \o Tail(next)
              follow == ToSet(Below(s)) \union ToSet(Beside(s))
              coming(r) == {x.type : x \in ToSet(r)}
              been2 == been \union {s.type}
  <1>1. next \in Seq(all) /\ been \in SUBSET Types
    BY DEF Walked
  <1>2. s \in all /\ Tail(next) \in Seq(all) /\ ToSet(next) = {s} \union ToSet(Tail(next))
    BY <1>1, FirstAndRest
  <1>3. /\ Below(s) \in Seq(all) /\ Beside(s) \in Seq(all)
        /\ Following(s.type) = {x.type : x \in follow}
        /\ ~job.debug => \A x \in follow : \E a \in After(s.type) : x.type = a[1] /\ x.base = s.base + a[2]
    BY <1>2, FollowsAre
  <1>4. after \in Seq(all) /\ ToSet(after) = follow \union ToSet(Tail(next))
    <2>1. Below(s) \o Beside(s) \in Seq(all) /\ ToSet(Below(s) \o Beside(s)) = follow
      BY <1>3, JoinedSet
    <2>. HIDE DEF all, follow
    <2>. QED
      BY <1>2, <2>1, JoinedSet
  <1>5. s.type \in Types /\ s.base \in Nat
    BY <1>2
  <1>6. been2 \in SUBSET Types /\ Cardinality(been2) = n + 1 /\ n + 1 <= Cardinality(Types) /\ n \in Nat
    <2>1. IsFiniteSet(been) /\ been2 \in SUBSET Types
      BY <1>1, <1>5, FS_Subset
    <2>2. Cardinality(been2) = n + 1 /\ n \in Nat
      BY <2>1, FS_AddElement, FS_CardinalityType
    <2>3. Cardinality(been2) <= Cardinality(Types)
      BY <2>1, FS_Subset
    <2>. QED
      BY <2>1, <2>2, <2>3
  <1>7. n < Cardinality(Types)
    <2>1. Cardinality(Types) \in Nat
      BY FS_CardinalityType
    <2>. QED
      BY <1>6, <2>1
  <1>. DEFINE rest == ToSet(Tail(next))
  <1>8. /\ coming(next) = {s.type} \union {x.type : x \in rest}
        /\ coming(after) = Following(s.type) \union {x.type : x \in rest}
    <2>1. coming(next) = {s.type} \union {x.type : x \in rest}
      BY <1>2
    <2>2. coming(after) = {x.type : x \in follow} \union {x.type : x \in rest}
      <3>. HIDE DEF follow, after
      <3>. QED
        BY <1>4
    <2>. QED
      BY <1>3, <2>1, <2>2
  <1>9. /\ been2 = {l[1] : l \in lines \union {line}}
        /\ job.type \in been2 \union coming(after)
        /\ \A t \in been2 : Following(t) \subseteq been2 \union coming(after)
    <2>1. been = {l[1] : l \in lines}
      BY DEF Walked
    <2>2. line[1] = s.type
      BY DEF Line
    <2>3. job.type \in been \union coming(next) /\ \A t \in been : Following(t) \subseteq been \union coming(next)
      BY DEF Walked
    <2>4. been2 = {l[1] : l \in lines \union {line}}
      BY <2>1, <2>2
    <2>. HIDE DEF coming, after, rest
    <2>5. been \union coming(next) \subseteq been2 \union coming(after)
      BY <1>8
    <2>6. Following(s.type) \subseteq been2 \union coming(after)
      BY <1>8
    <2>. QED
      BY <2>3, <2>4, <2>5, <2>6
  <1>10. CASE job.debug
    <2>1. been \union coming(next) \subseteq ReachedWithin[n]
      BY <1>10 DEF Walked
    <2>2. \A t \in ReachedWithin[n] : t \in ReachedWithin[n + 1] /\ Beyond(t) \subseteq ReachedWithin[n + 1]
      BY <1>6, <1>7, ReachedGrows
    <2>3. Following(s.type) = Beyond(s.type) /\ s.type \in ReachedWithin[n]
      BY <1>8, <1>10, <2>1 DEF Following
    <2>. HIDE DEF coming, after
    <2>4. been2 \union coming(after) \subseteq ReachedWithin[n + 1]
      BY <1>8, <2>1, <2>2, <2>3
    <2>. HIDE DEF been2, n, all
    <2>. QED
      BY <1>4, <1>6, <1>9, <1>10, <2>4 DEF Walked, after, coming, been2, all, s
  <1>11. CASE ~job.debug
    <2>1. /\ \A x \in ToSet(next) : <<x.type, x.base>> \in LaidOutWithin[n][job.type]
          /\ \A l \in lines : \E p \in LaidOutWithin[n][job.type] : l = Line(p)
      BY <1>11 DEF Walked
    <2>2. \A q \in LaidOutWithin[n][job.type] :
             /\ q \in LaidOutWithin[n + 1][job.type]
             /\ \A a \in After(q[1]) : <<a[1], q[2] + a[2]>> \in LaidOutWithin[n + 1][job.type]
      BY <1>6, <1>7, LaidGrows
    <2>3. <<s.type, s.base>> \in LaidOutWithin[n][job.type]
      BY <1>2, <2>1
    <2>4. ASSUME NEW x \in follow
          PROVE  <<x.type, x.base>> \in LaidOutWithin[n + 1][job.type]
      <3>1. PICK a \in After(s.type) : x.type = a[1] /\ x.base = s.base + a[2]
        BY <1>3, <1>11
      <3>2. a \in After(<<s.type, s.base>>[1]) /\ <<s.type, s.base>>[2] = s.base
        OBVIOUS
      <3>3. <<a[1], <<s.type, s.base>>[2] + a[2]>> \in LaidOutWithin[n + 1][job.type]
        BY <2>2, <2>3, <3>2
      <3>. QED
        BY <3>1, <3>2, <3>3
    <2>5. \A x \in ToSet(after) : <<x.type, x.base>> \in LaidOutWithin[n + 1][job.type]
      BY <1>2, <1>4, <2>1, <2>2, <2>4
    <2>6. \A l \in lines \union {line} : \E p \in LaidOutWithin[n + 1][job.type] : l = Line(p)
      BY <2>1, <2>2, <2>3
    <2>. HIDE DEF coming, after, been2, n, all
    <2>. QED
      BY <1>4, <1>6, <1>9, <1>11, <2>5, <2>6 DEF Walked, after, coming, been2, all, s
  <1>. QED
    BY <1>10, <1>11

LEMMA TypesJobIs ==
    ASSUME scene \in Scenes
    PROVE  /\ TypesOk /\ IsFiniteSet(Types)
           /\ job \in scene.jobs /\ job.kind = "types" => job.type \in Types /\ job.debug \in BOOLEAN
  BY SceneIsOk, ScenesAssumption, ShownAssumption DEF Types

LEMMA InitTypesInv == Init => TypesInv
  <1>. SUFFICES ASSUME Init
                PROVE  TypesInv
    OBVIOUS
  <1>1. scene \in Scenes /\ job \in scene.jobs /\ "kind" \in DOMAIN job
    BY FieldsAssumption DEF Init
  <1>2. visited = {} /\ layout = {} /\ shows = IF job.kind = "types" THEN <<Show(job.type, 0)>> ELSE <<>>
    BY DEF Init, InitTypes
  <1>3. ASSUME job.kind = "types"
        PROVE  Walked(shows, visited, layout)
    <2>1. TypesOk /\ IsFiniteSet(Types) /\ job.type \in Types /\ job.debug \in BOOLEAN
      BY <1>1, <1>3, TypesJobIs
    <2>2. Show(job.type, 0) \in [type : Types, base : Nat] /\ Show(job.type, 0).type = job.type
      BY <2>1 DEF Show
    <2>3. shows \in Seq([type : Types, base : Nat]) /\ ToSet(shows) = {Show(job.type, 0)}
      BY <1>2, <1>3, <2>2 DEF ToSet
    <2>4. Cardinality({}) = 0 /\ Cardinality(Types) \in Nat
      BY <2>1, FS_EmptySet, FS_CardinalityType
    <2>5. job.type \in ReachedWithin[Cardinality({})]
      BY <2>1, <2>4, ReachedIs
    <2>6. <<job.type, 0>> \in LaidOutWithin[Cardinality({})][job.type]
      BY <2>1, <2>4, LaidIs
    <2>7. {s.type : s \in ToSet(shows)} = {job.type}
      BY <2>2, <2>3
    <2>8. \A s \in ToSet(shows) : <<s.type, s.base>> = <<job.type, 0>>
      BY <2>3 DEF Show
    <2>. QED
      BY <1>2, <2>3, <2>5, <2>6, <2>7, <2>8 DEF Walked
  <1>. QED
    BY <1>1, <1>2, <1>3 DEF TypesInv

LEMMA StepTypesInv == TypesInv /\ [Next]_vars => TypesInv'
  <1>. SUFFICES ASSUME TypesInv, [Next]_vars
                PROVE  TypesInv'
    OBVIOUS
  <1>1. ASSUME scene' = scene, job' = job, job.kind # "types", shows' = shows
        PROVE  TypesInv'
    BY <1>1 DEF TypesInv
  <1>2. ASSUME scene' = scene, job' = job, job.kind = "types",
               NEW CONSTANT next, NEW CONSTANT been, NEW CONSTANT lines,
               shows' = next, visited' = been, layout' = lines, Walked(next, been, lines)
        PROVE  TypesInv'
    <2>1. Walked(next, been, lines)'
      BY <1>2, SceneKeepsWalked
    <2>2. Walked(shows, visited, layout)'
      BY <1>2, <2>1
    <2>. QED
      BY <1>2, <2>2 DEF TypesInv
  <1>3. ASSUME scene' = scene, job' = job, typeVars' = typeVars
        PROVE  TypesInv'
    <2>1. PICK next : next = shows
      OBVIOUS
    <2>2. PICK been : been = visited
      OBVIOUS
    <2>3. PICK lines : lines = layout
      OBVIOUS
    <2>4. shows' = next /\ visited' = been /\ layout' = lines
      BY <1>3, <2>1, <2>2, <2>3 DEF typeVars
    <2>5. ASSUME job.kind = "types"
          PROVE  Walked(next, been, lines)
      BY <2>1, <2>2, <2>3, <2>5 DEF TypesInv
    <2>. QED
      BY <1>1, <1>2, <1>3, <2>1, <2>4, <2>5
  <1>4. CASE ShowType
    <2>1. scene' = scene /\ job' = job /\ shows # <<>>
      BY <1>4 DEF ShowType
    <2>2. job.kind = "types" /\ job \in scene.jobs /\ Walked(shows, visited, layout)
      BY <2>1 DEF TypesInv
    <2>3. TypesOk /\ IsFiniteSet(Types) /\ job.type \in Types /\ job.debug \in BOOLEAN
      BY <2>2, TypesJobIs DEF TypesInv
    <2>4. CASE Head(shows).type \in visited
      <3>1. PICK next : next = Tail(shows)
        OBVIOUS
      <3>2. PICK been : been = visited
        OBVIOUS
      <3>3. PICK lines : lines = layout
        OBVIOUS
      <3>4. shows' = next /\ visited' = been /\ layout' = lines
        BY <1>4, <2>4, <3>1, <3>2, <3>3 DEF ShowType
      <3>5. Walked(next, been, lines)
        BY <2>1, <2>2, <2>4, <3>1, <3>2, <3>3, PassKeepsWalked
      <3>. QED
        BY <1>2, <2>1, <2>2, <3>4, <3>5
    <2>5. CASE Head(shows).type \notin visited
      <3>1. PICK line : line = Line(<<Head(shows).type, Head(shows).base>>)
        OBVIOUS
      <3>2. PICK next : next = Below(Head(shows)) \o Beside(Head(shows)) \o Tail(shows)
        OBVIOUS
      <3>3. PICK been : been = visited \union {Head(shows).type}
        OBVIOUS
      <3>4. PICK lines : lines = layout \union {line}
        OBVIOUS
      <3>5. shows' = next /\ visited' = been
        BY <1>4, <2>5, <3>2, <3>3 DEF ShowType
      <3>6. layout' = lines
        <4>1. line = <<Head(shows).type, IF Info(Head(shows).type).offset = None THEN None
                                         ELSE Head(shows).base + Info(Head(shows).type).offset>>
          BY <3>1 DEF Line
        <4>. QED
          BY <1>4, <2>5, <3>4, <4>1 DEF ShowType
      <3>7. Walked(next, been, lines)
        BY <2>1, <2>2, <2>3, <2>5, <3>1, <3>2, <3>3, <3>4, ShowKeepsWalked
      <3>. QED
        BY <1>2, <2>1, <2>2, <3>5, <3>6, <3>7
    <2>. QED
      BY <2>4, <2>5
  <1>5. CASE NextGather /\ UNCHANGED typeVars
    <2>1. CASE DoGather \/ FollowPointer
      BY <1>3, <1>5, <2>1 DEF DoGather, FollowPointer
    <2>2. CASE NextRoot
      <3>1. scene' = scene /\ job.kind \in {"graph", "areas"} /\ job' = [job EXCEPT !.at = @ + 1] /\ shows' = shows
        BY <1>5, <2>2 DEF NextRoot, typeVars
      <3>2. "kind" \in DOMAIN job' /\ job'.kind = job.kind
        BY <3>1 DEF TypesInv
      <3>. QED
        BY <3>1, <3>2 DEF TypesInv
    <2>. QED
      BY <1>5, <2>1, <2>2 DEF NextGather
  <1>6. CASE UNCHANGED vars
    BY <1>3, <1>6 DEF vars
  <1>7. CASE DumpVariable /\ UNCHANGED typeVars
    BY <1>3, <1>7 DEF DumpVariable
  <1>8. CASE NextAddress /\ UNCHANGED typeVars
    BY <1>3, <1>8 DEF NextAddress, PrintText, PrintTexts, PrintNumbers, PrintRow
  <1>9. CASE NextFields /\ UNCHANGED typeVars
    BY <1>3, <1>9 DEF NextFields, AskStatic, AskField
  <1>. QED
    BY <1>4, <1>5, <1>6, <1>7, <1>8, <1>9 DEF Next

LEMMA TypesAreShown == TypesInv => TypesShown
  <1>. SUFFICES ASSUME TypesInv, job.kind = "types", shows = <<>>
                PROVE  TypesShown
    BY DEF TypesShown
  <1>. DEFINE n == Cardinality(Types)
              been == visited
              parts == LaidOutWithin[n][job.type]
  <1>1. job \in scene.jobs /\ Walked(shows, visited, layout)
    BY DEF TypesInv
  <1>2. TypesOk /\ IsFiniteSet(Types) /\ job.type \in Types /\ job.debug \in BOOLEAN
    BY <1>1, TypesJobIs DEF TypesInv
  <1>3. {s.type : s \in ToSet(shows)} = {}
    BY DEF ToSet
  <1>4. /\ been \in SUBSET Types /\ been = {l[1] : l \in layout}
        /\ job.type \in been /\ \A t \in been : Following(t) \subseteq been
    BY <1>1, <1>3 DEF Walked
  <1>5. Cardinality(been) \in 0 .. n
    <2>1. IsFiniteSet(been) /\ Cardinality(been) <= n
      BY <1>2, <1>4, FS_Subset
    <2>. QED
      BY <1>2, <2>1, FS_CardinalityType
  <1>6. CASE job.debug
    <2>1. been \subseteq ReachedWithin[Cardinality(been)]
      BY <1>1, <1>3, <1>6 DEF Walked
    <2>2. been \subseteq ReachedWithin[n]
      BY <1>2, <1>5, <2>1, ReachedInAll
    <2>3. ReachedWithin[n] \subseteq been
      <3>1. \A t \in been : Beyond(t) \subseteq been
        BY <1>4, <1>6 DEF Following
      <3>. QED
        BY <1>2, <1>4, <3>1, ReachedInClosed
    <2>4. {l[1] : l \in layout} = ReachedWithin[n]
      BY <1>4, <2>2, <2>3
    <2>. QED
      BY <1>6, <2>4 DEF TypesShown
  <1>7. CASE ~job.debug
    <2>1. \A l \in layout : \E p \in LaidOutWithin[Cardinality(been)][job.type] : l = Line(p)
      BY <1>1, <1>7 DEF Walked
    <2>2. LaidOutWithin[Cardinality(been)][job.type] \subseteq parts
      BY <1>2, <1>5, LaidInAll
    <2>3. \A l \in layout : \E p \in parts : l = Line(p)
      BY <2>1, <2>2
    <2>4. \A q \in parts : q[1] \in been
      <3>1. \A t \in been : \A a \in After(t) : a[1] \in been
        BY <1>4, <1>7 DEF Following
      <3>2. n \in 0 .. n
        BY <1>2, FS_CardinalityType
      <3>. QED
        BY <1>2, <1>4, <3>1, <3>2, LaidInClosed
    <2>. HIDE DEF parts
    <2>5. \A l \in layout : \E p \in parts :
             p[1] = l[1] /\ l[2] = IF Info(p[1]).offset = None THEN None ELSE p[2] + Info(p[1]).offset
      BY <2>3 DEF Line
    <2>6. been \subseteq {p[1] : p \in parts}
      <3>1. ASSUME NEW t \in been
            PROVE  \E p \in parts : t = p[1]
        <4>1. PICK l \in layout : t = l[1]
          BY <1>4
        <4>. QED
          BY <2>5, <4>1
      <3>. QED
        BY <3>1
    <2>7. {p[1] : p \in parts} = been
      BY <2>4, <2>6
    <2>. QED
      BY <1>4, <1>7, <2>5, <2>7 DEF TypesShown, parts
  <1>. QED
    BY <1>2, <1>6, <1>7

(* What is shown of a type or of memory is all there is of it, and true:   *)
(* a type that is passed over when it is come to again has been shown, a   *)
(* member is shown at an offset where it lies, and a dump neither skips    *)
(* nor runs past what was asked for and is there.                          *)
THEOREM DataIsShown == Spec => []DataShown
  <1>1. Spec => []TypesInv
    BY InitTypesInv, StepTypesInv, PTL DEF Spec
  <1>2. Spec => []AddressInv
    BY InitAddressInv, StepAddressInv, PTL DEF Spec
  <1>3. TypesInv /\ AddressInv => DataShown
    BY TypesAreShown, AddressIsShown DEF DataShown
  <1>. QED
    BY <1>1, <1>2, <1>3, PTL

-------------------------------------------------------------------------------
(* The members of a structure are those of its children that lie in it.    *)
LEMMA MembersAre ==
    ASSUME TypesOk, NEW t \in Types
    PROVE  /\ Members(t) \in Seq(Types)
           /\ ToSet(Members(t)) = {c \in ToSet(Children(t)) : LiesIn(Info(c))}
  <1>. DEFINE s == Children(t)
              n == Len(s)
              rows == Seq(Types)
              next(r, i) == IF LiesIn(Info(s[i])) THEN Append(r, s[i]) ELSE r
              step == [x \in rows \X (1 .. n) |-> next(x[1], x[2])]
              body(f, i) == IF i = 0 THEN <<>> ELSE IF LiesIn(Info(s[i])) THEN Append(f[i - 1], s[i]) ELSE f[i - 1]
  <1>1. s \in Seq(Types) /\ n \in Nat /\ DOMAIN s = 1 .. n /\ \A i \in 1 .. n : s[i] \in Types
    BY DEF TypesOk
  <1>2. <<>> \in rows
    OBVIOUS
  <1>3. ASSUME NEW r \in rows, NEW i \in 1 .. n
        PROVE  next(r, i) \in rows
    BY <1>1
  <1>4. step \in [rows \X (1 .. n) -> rows]
    <2>. HIDE DEF next, rows, n
    <2>. QED
      BY <1>3
  <1>5. \A r \in rows, i \in 1 .. n : step[<<r, i>>] = next(r, i)
    <2>. HIDE DEF next, rows, n
    <2>. QED
      OBVIOUS
  <1>6. \A f : body(f, 0) = <<>>
    OBVIOUS
  <1>7. \A f : \A i \in 1 .. n : body(f, i) = next(f[i - 1], i)
    OBVIOUS
  <1>. HIDE DEF n, step, rows, next
  <1>8. PICK f : Runs(f, <<>>, step, n) /\ f \in [0 .. n -> rows]
    BY <1>1, <1>2, <1>4, RunsExist
  <1>9. \A i \in 0 .. n : (IF i = 0 THEN <<>> ELSE step[<<f[i - 1], i>>]) = body(f, i)
    <2>1. ASSUME NEW i \in 1 .. n
          PROVE  step[<<f[i - 1], i>>] = body(f, i)
      <3>1. f[i - 1] \in rows
        BY <1>1, <1>8
      <3>. HIDE DEF body
      <3>. QED
        BY <1>5, <1>7, <3>1
    <2>. HIDE DEF body
    <2>. QED
      BY <1>1, <1>6, <2>1
  <1>10. f = [i \in 0 .. n |-> body(f, i)]
    <2>. HIDE DEF body
    <2>. QED
      BY <1>8, <1>9 DEF Runs
  <1>11. \E g : g = [i \in 0 .. n |-> body(g, i)] /\ Members(t) = g[n]
    BY <1>10 DEF Members, n
  <1>12. PICK g : g = [i \in 0 .. n |-> body(g, i)] /\ Members(t) = g[n]
    BY <1>11
  <1>13. g[0] = <<>> /\ \A i \in 1 .. n : g[i] = next(g[i - 1], i)
    <2>1. \A i \in 0 .. n : g[i] = body(g, i)
      <3>. HIDE DEF body
      <3>. QED
        BY <1>12
    <2>. HIDE DEF body
    <2>. QED
      BY <1>1, <1>6, <1>7, <2>1
  <1>. DEFINE kept(i) == {c \in Types : \E j \in 1 .. i : c = s[j] /\ LiesIn(Info(s[j]))}
              fine(i) == i <= n => g[i] \in Seq(Types) /\ ToSet(g[i]) = kept(i)
              good == [i \in Nat |-> fine(i)]
  <1>14. fine(0)
    <2>1. ToSet(<<>>) = {} /\ <<>> \in Seq(Types)
      BY DEF ToSet
    <2>2. kept(0) = {}
      OBVIOUS
    <2>. QED
      BY <1>13, <2>1, <2>2
  <1>15. ASSUME NEW i \in Nat, fine(i), i + 1 <= n
         PROVE  g[i + 1] \in Seq(Types) /\ ToSet(g[i + 1]) = kept(i + 1)
    <2>1. i + 1 \in 1 .. n /\ (i + 1) - 1 = i /\ i <= n /\ s[i + 1] \in Types
      BY <1>1, <1>15
    <2>2. g[i] \in Seq(Types) /\ ToSet(g[i]) = kept(i)
      BY <1>15, <2>1
    <2>3. g[i + 1] = IF LiesIn(Info(s[i + 1])) THEN Append(g[i], s[i + 1]) ELSE g[i]
      BY <1>13, <2>1 DEF next
    <2>4. kept(i + 1) = kept(i) \union (IF LiesIn(Info(s[i + 1])) THEN {s[i + 1]} ELSE {})
      <3>1. \A j : j \in 1 .. i + 1 <=> j \in 1 .. i \/ j = i + 1
        OBVIOUS
      <3>. HIDE DEF s
      <3>. QED
        BY <2>1, <3>1
    <2>5. CASE LiesIn(Info(s[i + 1]))
      <3>1. PICK r : r = g[i]
        OBVIOUS
      <3>2. PICK c : c = s[i + 1]
        OBVIOUS
      <3>3. Append(r, c) \in Seq(Types) /\ ToSet(Append(r, c)) = ToSet(r) \union {c}
        <4>1. <<c>> \in Seq(Types) /\ ToSet(<<c>>) = {c}
          BY <2>1, <3>2 DEF ToSet
        <4>2. Append(r, c) = r \o <<c>>
          BY <2>1, <2>2, <3>1, <3>2
        <4>3. r \in Seq(Types)
          BY <2>2, <3>1
        <4>4. r \o <<c>> \in Seq(Types) /\ ToSet(r \o <<c>>) = ToSet(r) \union ToSet(<<c>>)
          BY ONLY <4>1, <4>3, JoinedSet
        <4>. QED
          BY <4>1, <4>2, <4>4
      <3>. HIDE DEF kept
      <3>. QED
        BY <2>2, <2>3, <2>4, <2>5, <3>1, <3>2, <3>3
    <2>6. CASE ~LiesIn(Info(s[i + 1]))
      <3>. HIDE DEF kept
      <3>. QED
        BY <2>2, <2>3, <2>4, <2>6
    <2>. QED
      BY <2>5, <2>6
  <1>16. ASSUME NEW i \in Nat, fine(i)
         PROVE  fine(i + 1)
    BY <1>15, <1>16
  <1>. HIDE DEF fine
  <1>17. good \in [Nat -> BOOLEAN] /\ \A i \in Nat : good[i] <=> fine(i)
    <2>1. \A i \in Nat : fine(i) \in BOOLEAN
      BY DEF fine
    <2>. QED
      BY <2>1
  <1>. HIDE DEF good
  <1>18. \A i \in Nat : good[i]
    <2>1. ASSUME NEW i \in Nat, good[i]
          PROVE  good[i + 1]
      BY <1>16, <1>17, <2>1
    <2>. QED
      BY <1>14, <1>17, <2>1, ByDepth
  <1>19. g[n] \in Seq(Types) /\ ToSet(g[n]) = kept(n)
    <2>1. fine(n) /\ n <= n
      BY <1>1, <1>17, <1>18
    <2>. HIDE DEF kept
    <2>. QED
      BY <2>1 DEF fine
  <1>20. kept(n) = {c \in ToSet(s) : LiesIn(Info(c))}
    BY <1>1 DEF ToSet
  <1>. QED
    BY <1>12, <1>19, <1>20

(* What lies in a type, or is the type of it.                              *)
Inside(t) ==
    {c \in ToSet(Children(t)) : LiesIn(Info(c))}
        \union (IF Tag(t) \in {"data", "array"} THEN {TypeOf(t)} \ {0} ELSE {})

(* Types are nested: there are levels, the last of all types.              *)
LEMMA TypesNested ==
    ASSUME scene \in Scenes
    PROVE  \E within : /\ within[0] = {} /\ Types \subseteq within[Cardinality(Types)]
                       /\ \A d \in 1 .. Cardinality(Types) :
                             within[d] = {t \in Types : Inside(t) \subseteq within[d - 1]}
  <1>. DEFINE n == Cardinality(Types)
              rows == SUBSET Types
              in(t) == {c \in ToSet(scene.types[t].children) : LiesIn(scene.types[c])}
                         \union (IF scene.types[t].tag \in {"data", "array"} THEN {scene.types[t].type} \ {0} ELSE {})
              next(less) == {t \in Types : in(t) \subseteq less}
              step == [x \in rows \X (1 .. n) |-> next(x[1])]
              body(f, d) == IF d = 0 THEN {} ELSE LET less == f[d - 1] IN next(less)
  <1>1. n \in Nat /\ 0 \notin Types
    BY ScenesAssumption, FS_CardinalityType DEF Types
  <1>2. {} \in rows
    OBVIOUS
  <1>3. \A less : next(less) \in rows
    OBVIOUS
  <1>4. step \in [rows \X (1 .. n) -> rows]
    <2>. HIDE DEF next, rows, n
    <2>. QED
      BY <1>3
  <1>5. \A less \in rows, d \in 1 .. n : step[<<less, d>>] = next(less)
    <2>. HIDE DEF next, rows, n
    <2>. QED
      OBVIOUS
  <1>6. \A f : body(f, 0) = {}
    OBVIOUS
  <1>7. \A f : \A d \in 1 .. n : body(f, d) = next(f[d - 1])
    <2>. HIDE DEF next, n
    <2>. QED
      BY <1>1
  <1>. HIDE DEF n, step, rows, next
  <1>8. PICK f : Runs(f, {}, step, n) /\ f \in [0 .. n -> rows]
    BY <1>1, <1>2, <1>4, RunsExist
  <1>9. \A d \in 0 .. n : (IF d = 0 THEN {} ELSE step[<<f[d - 1], d>>]) = body(f, d)
    <2>1. ASSUME NEW d \in 1 .. n
          PROVE  step[<<f[d - 1], d>>] = body(f, d)
      <3>1. f[d - 1] \in rows
        BY <1>1, <1>8
      <3>. HIDE DEF body
      <3>. QED
        BY <1>5, <1>7, <3>1
    <2>. HIDE DEF body
    <2>. QED
      BY <1>1, <1>6, <2>1
  <1>10. f = [d \in 0 .. n |-> body(f, d)]
    <2>. HIDE DEF body
    <2>. QED
      BY <1>8, <1>9 DEF Runs
  <1>11. \E g : g = [d \in 0 .. n |-> body(g, d)] /\ Nested(scene.types) = g[n]
    BY <1>10 DEF Nested, n, next, Types
  <1>12. PICK g : g = [d \in 0 .. n |-> body(g, d)] /\ Nested(scene.types) = g[n]
    BY <1>11
  <1>13. g[0] = {} /\ \A d \in 1 .. n : g[d] = next(g[d - 1])
    <2>1. \A d \in 0 .. n : g[d] = body(g, d)
      <3>. HIDE DEF body
      <3>. QED
        BY <1>12
    <2>. HIDE DEF body
    <2>. QED
      BY <1>1, <1>6, <1>7, <2>1
  <1>14. \A less : next(less) = {t \in Types : Inside(t) \subseteq less}
    <2>1. \A t \in Types : in(t) = Inside(t)
      BY <1>1 DEF Inside, Children, Info, Tag, TypeOf
    <2>. HIDE DEF in
    <2>. QED
      BY <2>1 DEF next
  <1>15. Types \subseteq g[n]
    BY <1>12, ScenesAssumption DEF Types
  <1>. QED
    BY <1>13, <1>14, <1>15 DEF n

-------------------------------------------------------------------------------
(* The parts of a type at every depth.                                     *)
Offsets == SUBSET (Nat \X Types)

LEMMA DirectIs ==
    ASSUME TypesOk, NEW t \in Types
    PROVE  /\ \A p \in Direct(t) : p[1] \in Nat /\ p[2] \in Types /\ p[2] \in Inside(t)
           /\ \A p : p \in Direct(t) <=>
                 \/ \E c \in ToSet(Members(t)) : p = <<Info(c).offset, c>>
                 \/ TypeOf(t) # 0 /\ Tag(t) = "data" /\ p = <<0, TypeOf(t)>>
                 \/ TypeOf(t) # 0 /\ Tag(t) = "array" /\ \E i \in Elements(t) : p = <<i * Info(TypeOf(t)).length, TypeOf(t)>>
  <1>. DEFINE inner == TypeOf(t)
              A == {<<Info(c).offset, c>> : c \in ToSet(Members(t))}
              B == IF inner # 0 /\ Tag(t) = "data" THEN {<<0, inner>>} ELSE {}
              elements == {<<i * Info(inner).length, inner>> : i \in Elements(t)}
              C == IF inner # 0 /\ Tag(t) = "array" THEN elements ELSE {}
  <1>1. Direct(t) = A \union B \union C
    BY DEF Direct
  <1>2. inner \in {0} \union Types /\ Elements(t) \in SUBSET Nat
    BY DEF TypesOk, Elements
  <1>3. ASSUME NEW c \in ToSet(Members(t))
        PROVE  Info(c).offset \in Nat /\ c \in Types /\ c \in Inside(t)
    <2>1. c \in ToSet(Children(t)) /\ LiesIn(Info(c))
      BY <1>3, MembersAre
    <2>2. c \in Types
      <3>1. Members(t) \in Seq(Types)
        BY MembersAre
      <3>. QED
        BY <3>1 DEF ToSet
    <2>3. Info(c).offset \in Nat
      BY <2>1, <2>2 DEF LiesIn, TypesOk
    <2>. QED
      BY <2>1, <2>2, <2>3 DEF Inside
  <1>4. \A p : p \in A <=> \E c \in ToSet(Members(t)) : p = <<Info(c).offset, c>>
    OBVIOUS
  <1>5. \A p : p \in B <=> inner # 0 /\ Tag(t) = "data" /\ p = <<0, inner>>
    OBVIOUS
  <1>6. \A p : p \in C <=> inner # 0 /\ Tag(t) = "array" /\ \E i \in Elements(t) : p = <<i * Info(inner).length, inner>>
    <2>1. \A p : p \in elements <=> \E i \in Elements(t) : p = <<i * Info(inner).length, inner>>
      OBVIOUS
    <2>. HIDE DEF elements
    <2>. QED
      BY <2>1
  <1>7. ASSUME NEW p \in A
        PROVE  p[1] \in Nat /\ p[2] \in Types /\ p[2] \in Inside(t)
    BY <1>3, <1>4
  <1>8. ASSUME NEW p \in B
        PROVE  p[1] \in Nat /\ p[2] \in Types /\ p[2] \in Inside(t)
    <2>1. inner # 0 /\ Tag(t) = "data" /\ p = <<0, inner>>
      BY <1>5
    <2>2. inner \in Inside(t)
      BY <2>1 DEF Inside
    <2>. QED
      BY <1>2, <2>1, <2>2
  <1>9. ASSUME NEW p \in C
        PROVE  p[1] \in Nat /\ p[2] \in Types /\ p[2] \in Inside(t)
    <2>1. inner # 0 /\ Tag(t) = "array" /\ \E i \in Elements(t) : p = <<i * Info(inner).length, inner>>
      BY <1>6
    <2>2. PICK i \in Elements(t) : p = <<i * Info(inner).length, inner>>
      BY <2>1
    <2>3. inner \in Inside(t) /\ inner \in Types
      BY <1>2, <2>1 DEF Inside
    <2>4. i \in Nat /\ Info(inner).length \in Nat
      BY <1>2, <2>3 DEF TypesOk
    <2>. QED
      BY <2>2, <2>3, <2>4
  <1>. HIDE DEF A, B, C
  <1>10. \A p \in Direct(t) : p[1] \in Nat /\ p[2] \in Types /\ p[2] \in Inside(t)
    BY <1>1, <1>7, <1>8, <1>9
  <1>. QED
    BY <1>1, <1>4, <1>5, <1>6, <1>10

(* What is come to from a type by going on from each type to those in it,  *)
(* D, in any number of steps, with the offsets added up.                   *)
Moved(D, parts, t) == UNION {{<<p[1] + q[1], q[2]>> : q \in parts[p[2]]} : p \in D[t]}

IsWithin(W, D) ==
    W = [d \in 0 .. Cardinality(Types) |->
            [t \in Types |-> {<<0, t>>} \union IF d = 0 THEN {} ELSE Moved(D, W[d - 1], t)]]

(* Each step leads to a lower level.                                       *)
Falls(within, D) ==
    /\ within[0] = {} /\ Types \subseteq within[Cardinality(Types)]
    /\ \A d \in 1 .. Cardinality(Types) : \A t \in Types : t \in within[d] => \A p \in D[t] : p[2] \in within[d - 1]

Closed(all, D) ==
    /\ all \in [Types -> Offsets]
    /\ \A t \in Types : \A x : x \in all[t] <=> x = <<0, t>> \/ \E p \in D[t] : \E q \in all[p[2]] : x = <<p[1] + q[1], q[2]>>

LEMMA MovedIs ==
    ASSUME NEW D \in [Types -> Offsets], NEW t \in Types, NEW parts \in [Types -> Offsets]
    PROVE  /\ Moved(D, parts, t) \in Offsets
           /\ \A x : x \in Moved(D, parts, t) <=> \E p \in D[t] : \E q \in parts[p[2]] : x = <<p[1] + q[1], q[2]>>
  <1>. DEFINE moved(p) == {<<p[1] + q[1], q[2]>> : q \in parts[p[2]]}
  <1>1. Moved(D, parts, t) = UNION {moved(p) : p \in D[t]}
    BY DEF Moved
  <1>2. \A p : \A x : x \in moved(p) <=> \E q \in parts[p[2]] : x = <<p[1] + q[1], q[2]>>
    OBVIOUS
  <1>. HIDE DEF moved
  <1>3. \A x : x \in Moved(D, parts, t) <=> \E p \in D[t] : \E q \in parts[p[2]] : x = <<p[1] + q[1], q[2]>>
    BY <1>1, <1>2
  <1>4. ASSUME NEW p \in D[t], NEW q \in parts[p[2]]
        PROVE  <<p[1] + q[1], q[2]>> \in Nat \X Types
    <2>1. p \in Nat \X Types
      BY DEF Offsets
    <2>2. q \in Nat \X Types
      BY <2>1 DEF Offsets
    <2>. QED
      BY <2>1, <2>2
  <1>. QED
    BY <1>3, <1>4 DEF Offsets

LEMMA WithinExists ==
    ASSUME IsFiniteSet(Types), NEW D \in [Types -> Offsets]
    PROVE  \E W : IsWithin(W, D)
  <1>. DEFINE n == Cardinality(Types)
              rows == [Types -> Offsets]
              next(parts) == [t \in Types |-> {<<0, t>>} \union Moved(D, parts, t)]
              a == [t \in Types |-> {<<0, t>>}]
              step == [x \in rows \X (1 .. n) |-> next(x[1])]
              body(f, d) == [t \in Types |-> {<<0, t>>} \union IF d = 0 THEN {} ELSE Moved(D, f[d - 1], t)]
  <1>1. n \in Nat
    BY FS_CardinalityType
  <1>2. a \in rows
    BY DEF Offsets
  <1>3. ASSUME NEW parts \in rows
        PROVE  next(parts) \in rows
    <2>1. \A t \in Types : Moved(D, parts, t) \in Offsets
      BY MovedIs
    <2>2. \A t \in Types : {<<0, t>>} \union Moved(D, parts, t) \in Offsets
      BY <2>1 DEF Offsets
    <2>. QED
      BY <2>2
  <1>4. step \in [rows \X (1 .. n) -> rows]
    <2>. HIDE DEF next, rows
    <2>. QED
      BY <1>3
  <1>5. \A parts \in rows, d \in 1 .. n : step[<<parts, d>>] = next(parts)
    <2>. HIDE DEF next, rows
    <2>. QED
      OBVIOUS
  <1>6. \A f : body(f, 0) = a
    OBVIOUS
  <1>7. \A f : \A d \in 1 .. n : body(f, d) = next(f[d - 1])
    OBVIOUS
  <1>. HIDE DEF n, a, step, rows, next
  <1>8. PICK f : Runs(f, a, step, n) /\ f \in [0 .. n -> rows]
    BY <1>1, <1>2, <1>4, RunsExist
  <1>9. \A d \in 0 .. n : (IF d = 0 THEN a ELSE step[<<f[d - 1], d>>]) = body(f, d)
    <2>1. ASSUME NEW d \in 1 .. n
          PROVE  step[<<f[d - 1], d>>] = body(f, d)
      <3>1. f[d - 1] \in rows
        BY <1>1, <1>8
      <3>. HIDE DEF body
      <3>. QED
        BY <1>5, <1>7, <3>1
    <2>. HIDE DEF body
    <2>. QED
      BY <1>1, <1>6, <2>1
  <1>10. f = [d \in 0 .. n |-> body(f, d)]
    <2>. HIDE DEF body
    <2>. QED
      BY <1>8, <1>9 DEF Runs
  <1>. QED
    BY <1>10 DEF IsWithin, n

LEMMA WithinIs ==
    ASSUME IsFiniteSet(Types), NEW D \in [Types -> Offsets], NEW W, IsWithin(W, D)
    PROVE  /\ \A d \in 0 .. Cardinality(Types) : W[d] \in [Types -> Offsets]
           /\ \A d \in 0 .. Cardinality(Types) : \A t \in Types : \A x :
                 x \in W[d][t] <=> \/ x = <<0, t>>
                                   \/ d > 0 /\ \E p \in D[t] : \E q \in W[d - 1][p[2]] : x = <<p[1] + q[1], q[2]>>
  <1>. DEFINE n == Cardinality(Types)
  <1>1. n \in Nat
    BY FS_CardinalityType
  <1>. HIDE DEF n
  <1>2. \A d \in 0 .. n : W[d] = [t \in Types |-> {<<0, t>>} \union IF d = 0 THEN {} ELSE Moved(D, W[d - 1], t)]
    BY DEF IsWithin, n
  <1>3. \A t \in Types : {<<0, t>>} \in Offsets
    BY DEF Offsets
  <1>4. W[0] = [t \in Types |-> {<<0, t>>}] /\ W[0] \in [Types -> Offsets]
    <2>1. W[0] = [t \in Types |-> {<<0, t>>}]
      BY <1>1, <1>2
    <2>. QED
      BY <1>3, <2>1
  <1>5. ASSUME NEW d \in 1 .. n, W[d - 1] \in [Types -> Offsets]
        PROVE  W[d] \in [Types -> Offsets]
    <2>1. W[d] = [t \in Types |-> {<<0, t>>} \union Moved(D, W[d - 1], t)]
      BY <1>1, <1>2
    <2>2. \A t \in Types : {<<0, t>>} \union Moved(D, W[d - 1], t) \in Offsets
      <3>1. \A t \in Types : Moved(D, W[d - 1], t) \in Offsets
        BY <1>5, MovedIs
      <3>. QED
        BY <1>3, <3>1 DEF Offsets
    <2>. QED
      BY <2>1, <2>2
  <1>6. \A d \in 0 .. n : W[d] \in [Types -> Offsets]
    <2>. DEFINE bad == {d \in 0 .. n : W[d] \notin [Types -> Offsets]}
    <2>. SUFFICES ASSUME bad # {} PROVE FALSE
      OBVIOUS
    <2>1. PICK d \in bad : \A m \in bad : d <= m
      <3>1. bad \in SUBSET Nat
        OBVIOUS
      <3>. HIDE DEF bad
      <3>. QED
        BY <3>1, LeastOf
    <2>2. d # 0
      BY <1>4, <2>1
    <2>3. d - 1 \in 0 .. n /\ d - 1 \notin bad /\ d \in 1 .. n
      BY <1>1, <2>1, <2>2
    <2>. QED
      BY <1>5, <2>1, <2>3
  <1>7. ASSUME NEW d \in 0 .. n, NEW t \in Types, NEW x
        PROVE  x \in W[d][t] <=> \/ x = <<0, t>>
                                 \/ d > 0 /\ \E p \in D[t] : \E q \in W[d - 1][p[2]] : x = <<p[1] + q[1], q[2]>>
    <2>1. CASE d = 0
      <3>1. W[d][t] = {<<0, t>>}
        BY <1>4, <2>1
      <3>. QED
        BY <2>1, <3>1
    <2>2. CASE d > 0
      <3>1. d - 1 \in 0 .. n /\ d # 0
        BY <1>1, <2>2
      <3>2. W[d][t] = {<<0, t>>} \union Moved(D, W[d - 1], t)
        BY <1>2, <3>1
      <3>3. x \in Moved(D, W[d - 1], t) <=> \E p \in D[t] : \E q \in W[d - 1][p[2]] : x = <<p[1] + q[1], q[2]>>
        BY <1>6, <3>1, MovedIs
      <3>. QED
        BY <2>2, <3>2, <3>3
    <2>. QED
      BY <1>1, <2>1, <2>2
  <1>. QED
    BY <1>6, <1>7 DEF n

(* As each step leads to a lower level, there are steps enough.            *)
LEMMA WithinCloses ==
    ASSUME IsFiniteSet(Types), NEW D \in [Types -> Offsets], NEW W, IsWithin(W, D), NEW within, Falls(within, D)
    PROVE  Closed(W[Cardinality(Types)], D)
  <1>. DEFINE n == Cardinality(Types)
  <1>1. n \in Nat
    BY FS_CardinalityType
  <1>2. /\ \A d \in 0 .. n : W[d] \in [Types -> Offsets]
        /\ \A d \in 0 .. n : \A t \in Types : \A x :
              x \in W[d][t] <=> \/ x = <<0, t>>
                                \/ d > 0 /\ \E p \in D[t] : \E q \in W[d - 1][p[2]] : x = <<p[1] + q[1], q[2]>>
    BY WithinIs
  <1>3. /\ within[0] = {} /\ Types \subseteq within[n]
        /\ \A d \in 1 .. n : \A t \in Types : t \in within[d] => \A p \in D[t] : p[2] \in within[d - 1]
    BY DEF Falls
  <1>4. \A t \in Types : \A p \in D[t] : p[1] \in Nat /\ p[2] \in Types
    BY DEF Offsets
  <1>. HIDE DEF n
  <1>. DEFINE stands(d) == d < n => \A t \in Types : t \in within[d] => W[d + 1][t] = W[d][t]
              good == [d \in Nat |-> stands(d)]
  <1>5. stands(0)
    BY <1>3
  <1>6. ASSUME NEW d \in Nat, stands(d)
        PROVE  stands(d + 1)
    <2>. SUFFICES ASSUME d + 1 < n, NEW t \in Types, t \in within[d + 1], NEW x
                  PROVE  x \in W[(d + 1) + 1][t] <=> x \in W[d + 1][t]
      <3>1. ASSUME d + 1 < n, NEW t \in Types, t \in within[d + 1]
            PROVE  W[(d + 1) + 1][t] \in SUBSET (Nat \X Types) /\ W[d + 1][t] \in SUBSET (Nat \X Types)
        BY <1>1, <1>2, <3>1 DEF Offsets
      <3>. QED
        BY <3>1
    <2>1. PICK e \in 1 .. n : e = d + 1 /\ e - 1 = d /\ d < n
      BY <1>1
    <2>2. PICK f \in 1 .. n : f = e + 1 /\ f - 1 = e
      BY <1>1, <2>1
    <2>3. \A p \in D[t] : p[2] \in Types /\ p[2] \in within[d]
      BY <1>3, <1>4, <2>1
    <2>4. \A p \in D[t] : W[e][p[2]] = W[d][p[2]]
      BY <1>6, <2>1, <2>3
    <2>5. ASSUME NEW g \in 1 .. n
          PROVE  x \in W[g][t] <=> x = <<0, t>> \/ \E p \in D[t] : \E q \in W[g - 1][p[2]] : x = <<p[1] + q[1], q[2]>>
      <3>1. g \in 0 .. n /\ g > 0
        BY <1>1
      <3>. QED
        BY <1>2, <3>1
    <2>6. x \in W[f][t] <=> x = <<0, t>> \/ \E p \in D[t] : \E q \in W[e][p[2]] : x = <<p[1] + q[1], q[2]>>
      <3>1. x \in W[f][t] <=> x = <<0, t>> \/ \E p \in D[t] : \E q \in W[f - 1][p[2]] : x = <<p[1] + q[1], q[2]>>
        BY <2>5
      <3>. QED
        BY <2>2, <3>1
    <2>7. x \in W[e][t] <=> x = <<0, t>> \/ \E p \in D[t] : \E q \in W[d][p[2]] : x = <<p[1] + q[1], q[2]>>
      <3>1. x \in W[e][t] <=> x = <<0, t>> \/ \E p \in D[t] : \E q \in W[e - 1][p[2]] : x = <<p[1] + q[1], q[2]>>
        BY <2>5
      <3>. QED
        BY <2>1, <3>1
    <2>8. x \in W[f][t] <=> x \in W[e][t]
      BY <2>4, <2>6, <2>7
    <2>. QED
      BY <2>1, <2>2, <2>8
  <1>. HIDE DEF stands
  <1>7. good \in [Nat -> BOOLEAN] /\ \A d \in Nat : good[d] <=> stands(d)
    <2>1. \A d \in Nat : stands(d) \in BOOLEAN
      BY DEF stands
    <2>. QED
      BY <2>1
  <1>. HIDE DEF good
  <1>8. \A d \in Nat : good[d]
    <2>1. ASSUME NEW d \in Nat, good[d]
          PROVE  good[d + 1]
      BY <1>6, <1>7, <2>1
    <2>. QED
      BY <1>5, <1>7, <2>1, ByDepth
  <1>9. ASSUME NEW t \in Types, NEW x
        PROVE  x \in W[n][t] <=> x = <<0, t>> \/ \E p \in D[t] : \E q \in W[n][p[2]] : x = <<p[1] + q[1], q[2]>>
    <2>1. n # 0 /\ n \in 0 .. n /\ n > 0 /\ n \in 1 .. n /\ n - 1 \in Nat /\ n - 1 < n /\ (n - 1) + 1 = n
      BY <1>1, <1>3, <1>9
    <2>2. \A p \in D[t] : p[2] \in Types /\ p[2] \in within[n - 1]
      BY <1>3, <1>4, <2>1
    <2>3. stands(n - 1)
      BY <1>7, <1>8, <2>1
    <2>4. \A p \in D[t] : W[n][p[2]] = W[n - 1][p[2]]
      BY <2>1, <2>2, <2>3 DEF stands
    <2>5. x \in W[n][t] <=> x = <<0, t>> \/ \E p \in D[t] : \E q \in W[n - 1][p[2]] : x = <<p[1] + q[1], q[2]>>
      BY <1>2, <2>1
    <2>. QED
      BY <2>4, <2>5
  <1>10. W[n] \in [Types -> Offsets]
    BY <1>1, <1>2
  <1>. QED
    BY <1>9, <1>10 DEF Closed, n

(* Then what is in one that was come to has been come to.                  *)
LEMMA ClosedGoesOn ==
    ASSUME IsFiniteSet(Types), NEW D \in [Types -> Offsets], NEW all, Closed(all, D), NEW within, Falls(within, D),
           NEW t \in Types, NEW q \in all[t], NEW r \in D[q[2]]
    PROVE  <<q[1] + r[1], r[2]>> \in all[t]
  <1>. DEFINE n == Cardinality(Types)
  <1>1. n \in Nat
    BY FS_CardinalityType
  <1>2. /\ all \in [Types -> Offsets]
        /\ \A s \in Types : \A x : x \in all[s] <=> x = <<0, s>> \/ \E p \in D[s] : \E y \in all[p[2]] : x = <<p[1] + y[1], y[2]>>
    BY DEF Closed
  <1>3. /\ within[0] = {} /\ Types \subseteq within[n]
        /\ \A d \in 1 .. n : \A s \in Types : s \in within[d] => \A p \in D[s] : p[2] \in within[d - 1]
    BY DEF Falls
  <1>4. \A s \in Types : \A p \in D[s] : p[1] \in Nat /\ p[2] \in Types /\ p = <<p[1], p[2]>>
    BY DEF Offsets
  <1>5. \A s \in Types : \A x \in all[s] : x[1] \in Nat /\ x[2] \in Types /\ x = <<x[1], x[2]>>
    BY <1>2 DEF Offsets
  <1>. HIDE DEF n
  <1>. DEFINE goes(d) == d <= n =>
                  \A s \in Types : s \in within[d] => \A x \in all[s] : \A y \in D[x[2]] : <<x[1] + y[1], y[2]>> \in all[s]
              good == [d \in Nat |-> goes(d)]
  <1>6. goes(0)
    BY <1>3
  <1>7. ASSUME NEW d \in Nat, goes(d)
        PROVE  goes(d + 1)
    <2>. SUFFICES ASSUME d + 1 <= n, NEW s \in Types, s \in within[d + 1], NEW x \in all[s], NEW y \in D[x[2]]
                  PROVE  <<x[1] + y[1], y[2]>> \in all[s]
      OBVIOUS
    <2>1. d <= n /\ d + 1 \in 1 .. n /\ (d + 1) - 1 = d
      BY <1>1
    <2>2. x[1] \in Nat /\ x[2] \in Types /\ y[1] \in Nat /\ y[2] \in Types
      BY <1>4, <1>5
    <2>3. CASE x = <<0, s>>
      <3>1. y \in D[s] /\ <<0, y[2]>> \in all[y[2]]
        BY <1>2, <2>2, <2>3
      <3>2. <<x[1] + y[1], y[2]>> = <<y[1] + <<0, y[2]>>[1], <<0, y[2]>>[2]>>
        BY <2>2, <2>3
      <3>. QED
        BY <1>2, <3>1, <3>2
    <2>4. CASE \E p \in D[s] : \E z \in all[p[2]] : x = <<p[1] + z[1], z[2]>>
      <3>1. PICK p \in D[s] : \E z \in all[p[2]] : x = <<p[1] + z[1], z[2]>>
        BY <2>4
      <3>2. PICK z \in all[p[2]] : x = <<p[1] + z[1], z[2]>>
        BY <3>1
      <3>3. p[1] \in Nat /\ p[2] \in Types /\ p[2] \in within[d]
        BY <1>3, <1>4, <2>1
      <3>4. z[1] \in Nat /\ z[2] = x[2] /\ x[1] = p[1] + z[1]
        <4>1. z[1] \in Nat
          BY <1>5, <3>3
        <4>. QED
          BY <3>2, <4>1
      <3>5. <<z[1] + y[1], y[2]>> \in all[p[2]]
        BY <1>7, <2>1, <3>3, <3>4
      <3>6. <<x[1] + y[1], y[2]>> = <<p[1] + <<z[1] + y[1], y[2]>>[1], <<z[1] + y[1], y[2]>>[2]>>
        BY <2>2, <3>3, <3>4
      <3>. QED
        BY <1>2, <3>5, <3>6
    <2>. QED
      BY <1>2, <2>3, <2>4
  <1>. HIDE DEF goes
  <1>8. good \in [Nat -> BOOLEAN] /\ \A d \in Nat : good[d] <=> goes(d)
    <2>1. \A d \in Nat : goes(d) \in BOOLEAN
      BY DEF goes
    <2>. QED
      BY <2>1
  <1>. HIDE DEF good
  <1>9. \A d \in Nat : good[d]
    <2>1. ASSUME NEW d \in Nat, good[d]
          PROVE  good[d + 1]
      BY <1>7, <1>8, <2>1
    <2>. QED
      BY <1>6, <1>8, <2>1, ByDepth
  <1>10. goes(n) /\ n <= n
    BY <1>1, <1>8, <1>9
  <1>. QED
    BY <1>3, <1>10 DEF goes

Parts(t) == PartsWithin[Cardinality(Types)][t]

(* As types are nested, the parts of a part are parts; and a part is the   *)
(* type itself or one of what is directly in it.                           *)
LEMMA PartsClosed ==
    ASSUME scene \in Scenes, NEW t \in Types
    PROVE  /\ \A q \in Parts(t) : q[1] \in Nat /\ q[2] \in Types /\ q = <<q[1], q[2]>>
           /\ <<0, t>> \in Parts(t)
           /\ \A q \in Parts(t) : \A r \in Direct(q[2]) : <<q[1] + r[1], r[2]>> \in Parts(t)
           /\ \A x \in Parts(t) : x = <<0, t>> \/ \E p \in Direct(t) : \E q \in Parts(p[2]) : x = <<p[1] + q[1], q[2]>>
  <1>. DEFINE n == Cardinality(Types)
              D == [s \in Types |-> Direct(s)]
              all == PartsWithin[n]
  <1>1. TypesOk /\ IsFiniteSet(Types)
    BY TypesJobIs
  <1>2. n \in Nat
    BY <1>1, FS_CardinalityType
  <1>3. \A s \in Types : Direct(s) \in Offsets
    <2>1. ASSUME NEW s \in Types, NEW p \in Direct(s)
          PROVE  p \in Nat \X Types
      <3>1. p[1] \in Nat /\ p[2] \in Types
        BY <1>1, DirectIs
      <3>2. \/ \E c \in ToSet(Members(s)) : p = <<Info(c).offset, c>>
            \/ p = <<0, TypeOf(s)>>
            \/ \E i \in Elements(s) : p = <<i * Info(TypeOf(s)).length, TypeOf(s)>>
        BY <1>1, DirectIs
      <3>. QED
        BY <3>1, <3>2
    <2>. QED
      BY <2>1 DEF Offsets
  <1>4. D \in [Types -> Offsets]
    BY <1>3
  <1>5. \A s \in Types : D[s] = Direct(s)
    OBVIOUS
  <1>6. PICK within : /\ within[0] = {} /\ Types \subseteq within[n]
                      /\ \A d \in 1 .. n : within[d] = {s \in Types : Inside(s) \subseteq within[d - 1]}
    BY TypesNested
  <1>. HIDE DEF D
  <1>7. Falls(within, D)
    <2>1. ASSUME NEW d \in 1 .. n, NEW s \in Types, s \in within[d], NEW p \in D[s]
          PROVE  p[2] \in within[d - 1]
      <3>1. p[2] \in Inside(s)
        BY <1>1, <1>5, DirectIs
      <3>. QED
        BY <1>6, <2>1, <3>1
    <2>. QED
      BY <1>6, <2>1 DEF Falls
  <1>8. IsWithin(PartsWithin, D)
    <2>1. PICK W : IsWithin(W, D)
      BY <1>1, <1>4, WithinExists
    <2>2. \A parts : \A s \in Types : Moved(D, parts, s) = UNION {{<<p[1] + q[1], q[2]>> : q \in parts[p[2]]} : p \in Direct(s)}
      BY <1>5 DEF Moved
    <2>. DEFINE body(f, d) ==
                  [s \in Types |->
                     {<<0, s>>} \union
                     IF d = 0 THEN {}
                     ELSE UNION {{<<p[1] + q[1], q[2]>> : q \in f[d - 1][p[2]]} : p \in Direct(s)}]
                own(f, d) == [s \in Types |-> {<<0, s>>} \union IF d = 0 THEN {} ELSE Moved(D, f[d - 1], s)]
    <2>3. \A f : \A d \in 0 .. n : own(f, d) = body(f, d)
      <3>. HIDE DEF n
      <3>. QED
        BY <2>2
    <2>4. W = [d \in 0 .. n |-> own(W, d)]
      BY <2>1 DEF IsWithin
    <2>5. W = [d \in 0 .. n |-> body(W, d)]
      <3>. HIDE DEF n, own, body
      <3>. QED
        BY <2>3, <2>4
    <2>6. PartsWithin = [d \in 0 .. n |-> body(PartsWithin, d)]
      <3>. HIDE DEF D
      <3>. QED
        BY <2>5 DEF PartsWithin
    <2>7. PartsWithin = [d \in 0 .. n |-> own(PartsWithin, d)]
      <3>. HIDE DEF n, own, body
      <3>. QED
        BY <2>3, <2>6
    <2>. QED
      BY <2>7 DEF IsWithin
  <1>9. Closed(all, D)
    BY <1>1, <1>4, <1>7, <1>8, WithinCloses
  <1>10. all \in [Types -> Offsets]
    BY <1>9 DEF Closed
  <1>11. \A q \in all[t] : q[1] \in Nat /\ q[2] \in Types /\ q = <<q[1], q[2]>>
    BY <1>10 DEF Offsets
  <1>12. \A x : x \in all[t] <=> x = <<0, t>> \/ \E p \in D[t] : \E q \in all[p[2]] : x = <<p[1] + q[1], q[2]>>
    BY <1>9 DEF Closed
  <1>13. ASSUME NEW q \in all[t], NEW r \in Direct(q[2])
         PROVE  <<q[1] + r[1], r[2]>> \in all[t]
    <2>1. r \in D[q[2]]
      BY <1>5, <1>11
    <2>. HIDE DEF all
    <2>. QED
      BY <1>1, <1>4, <1>7, <1>9, <2>1, ClosedGoesOn
  <1>. HIDE DEF all
  <1>14. \A s : Parts(s) = all[s]
    BY DEF Parts, all
  <1>. QED
    BY <1>5, <1>11, <1>12, <1>13, <1>14

-------------------------------------------------------------------------------
(* The pointers of a structure, and those of what is directly in it.       *)
IsPointer(f) ==
    /\ Tag(f.type) = "pointer" /\ Info(f.type).length \in {1, 2}
    /\ \A k \in 1 .. Info(f.type).length : Readable(f.at + k - 1)

LEMMA PointersAre ==
    ASSUME scene \in Scenes, NEW a \in Nat, NEW t \in Types
    PROVE  /\ \A f : f \in PointersIn(a, t) <=> \E q \in Parts(t) : f = [at |-> a + q[1], type |-> q[2]] /\ IsPointer(f)
           /\ \A f \in PointersIn(a, t) : f.at \in Nat /\ f.type \in Types /\ IsPointer(f)
  <1>1. \A q \in Parts(t) : q[1] \in Nat /\ q[2] \in Types
    BY PartsClosed
  <1>. DEFINE place(q) == [at |-> a + q[1], type |-> q[2]]
              holds(q) == /\ Tag(q[2]) = "pointer" /\ Info(q[2]).length \in {1, 2}
                          /\ \A k \in 1 .. Info(q[2]).length : Readable(a + q[1] + k - 1)
  <1>2. PointersIn(a, t) = {place(p) : p \in {q \in Parts(t) : holds(q)}}
    BY DEF PointersIn, Parts
  <1>3. ASSUME NEW q \in Parts(t)
        PROVE  holds(q) <=> IsPointer(place(q))
    <2>1. place(q).at = a + q[1] /\ place(q).type = q[2]
      OBVIOUS
    <2>2. \A k \in Int : (a + q[1]) + k - 1 = a + q[1] + k - 1
      BY <1>1
    <2>. HIDE DEF place
    <2>. QED
      BY <2>1, <2>2 DEF IsPointer
  <1>. HIDE DEF holds
  <1>4. \A f : f \in PointersIn(a, t) <=> \E q \in Parts(t) : f = place(q) /\ holds(q)
    <2>. HIDE DEF place
    <2>. QED
      BY <1>2
  <1>5. \A f : f \in PointersIn(a, t) <=> \E q \in Parts(t) : f = place(q) /\ IsPointer(f)
    <2>. HIDE DEF place
    <2>. QED
      BY <1>3, <1>4
  <1>6. \A q \in Parts(t) : place(q).at \in Nat /\ place(q).type \in Types
    BY <1>1
  <1>. QED
    BY <1>5, <1>6

LEMMA PointersWithin ==
    ASSUME scene \in Scenes, NEW a \in Nat, NEW t \in Types
    PROVE  /\ IsPointer([at |-> a, type |-> t]) => [at |-> a, type |-> t] \in PointersIn(a, t)
           /\ \A f \in PointersIn(a, t) :
                 f = [at |-> a, type |-> t] \/ \E p \in Direct(t) : f \in PointersIn(a + p[1], p[2])
           /\ \A q \in Parts(t) : IsPointer([at |-> a + q[1], type |-> q[2]]) =>
                 [at |-> a + q[1], type |-> q[2]] \in PointersIn(a, t)
  <1>1. /\ \A q \in Parts(t) : q[1] \in Nat /\ q[2] \in Types /\ q = <<q[1], q[2]>>
        /\ <<0, t>> \in Parts(t)
        /\ \A x \in Parts(t) : x = <<0, t>> \/ \E p \in Direct(t) : \E q \in Parts(p[2]) : x = <<p[1] + q[1], q[2]>>
    BY PartsClosed
  <1>2. a + <<0, t>>[1] = a /\ <<0, t>>[2] = t
    OBVIOUS
  <1>3. \A q \in Parts(t) : IsPointer([at |-> a + q[1], type |-> q[2]]) =>
           [at |-> a + q[1], type |-> q[2]] \in PointersIn(a, t)
    BY PointersAre
  <1>4. IsPointer([at |-> a, type |-> t]) => [at |-> a, type |-> t] \in PointersIn(a, t)
    BY <1>1, <1>2, <1>3
  <1>5. ASSUME NEW f \in PointersIn(a, t)
        PROVE  f = [at |-> a, type |-> t] \/ \E p \in Direct(t) : f \in PointersIn(a + p[1], p[2])
    <2>1. PICK x \in Parts(t) : f = [at |-> a + x[1], type |-> x[2]] /\ IsPointer(f)
      BY PointersAre
    <2>2. CASE x = <<0, t>>
      BY <1>2, <2>1, <2>2
    <2>3. CASE \E p \in Direct(t) : \E q \in Parts(p[2]) : x = <<p[1] + q[1], q[2]>>
      <3>1. PICK p \in Direct(t) : \E q \in Parts(p[2]) : x = <<p[1] + q[1], q[2]>>
        BY <2>3
      <3>2. PICK q \in Parts(p[2]) : x = <<p[1] + q[1], q[2]>>
        BY <3>1
      <3>3. p[1] \in Nat /\ p[2] \in Types
        BY TypesJobIs, DirectIs
      <3>4. q[1] \in Nat /\ q[2] \in Types
        BY <3>3, PartsClosed
      <3>5. a + p[1] \in Nat /\ a + x[1] = (a + p[1]) + q[1] /\ x[2] = q[2]
        BY <3>2, <3>3, <3>4
      <3>6. f = [at |-> (a + p[1]) + q[1], type |-> q[2]]
        BY <2>1, <3>5
      <3>7. f \in PointersIn(a + p[1], p[2])
        BY <2>1, <3>3, <3>5, <3>6, PointersAre
      <3>. QED
        BY <3>7
    <2>. QED
      BY <1>1, <2>2, <2>3
  <1>. QED
    BY <1>3, <1>4, <1>5

-------------------------------------------------------------------------------
(* The calls a visit makes are one for each thing directly in its type.    *)
Visits == [type : Types, base : Nat, offset : Nat]
At(v) == v.base + v.offset

LEMMA InnerIs ==
    ASSUME scene \in Scenes, NEW v \in Visits
    PROVE  /\ Inner(v) \in Seq(Visits)
           /\ \A x : x \in ToSet(Inner(v)) <=>
                 /\ TypeOf(v.type) # 0
                 /\ \/ Tag(v.type) = "data" /\ x = Visit(TypeOf(v.type), v.base, v.offset)
                    \/ /\ Tag(v.type) = "array"
                       /\ \E i \in Elements(v.type) :
                             x = Visit(TypeOf(v.type), v.base, v.offset + i * Info(TypeOf(v.type)).length)
  <1>. DEFINE t == v.type
              inner == TypeOf(t)
  <1>1. TypesOk /\ t \in Types /\ v.base \in Nat /\ v.offset \in Nat /\ 0 \notin Types
    BY TypesJobIs, ScenesAssumption DEF Visits, Types
  <1>2. inner \in {0} \union Types /\ Info(t).count \in Nat /\ MaxCount \in Nat
    BY <1>1, GatherAssumption DEF TypesOk
  <1>3. Tag(t) = Info(t).tag
    BY <1>1 DEF Tag
  <1>4. Tag(t) = "udt" => inner = 0
    BY <1>1, <1>3, ScenesAssumption DEF Types, Info, TypeOf
  <1>5. Tag(t) = "array" /\ inner # 0 => Lasts(inner) /\ Info(t).count <= MaxCount
    <2>1. \A u \in DOMAIN scene.types : scene.types[u].tag = "array" /\ scene.types[u].type # 0 =>
             scene.types[scene.types[u].type].length > 0 /\ scene.types[u].count <= MaxCount
      BY GatherAssumption
    <2>. QED
      BY <1>1, <1>3, <2>1 DEF Types, Info, TypeOf, Lasts
  <1>6. <<>> \in Seq(Visits) /\ ToSet(<<>>) = {}
    BY DEF ToSet
  <1>. HIDE DEF t, inner
  <1>7. CASE inner = 0
    <2>1. Inner(v) = <<>>
      BY <1>7 DEF Inner, inner, t
    <2>. QED
      BY <1>6, <1>7, <2>1 DEF inner, t
  <1>8. CASE inner # 0 /\ Tag(t) = "data"
    <2>1. Inner(v) = <<Visit(inner, v.base, v.offset)>>
      BY <1>8 DEF Inner, inner, t
    <2>2. Visit(inner, v.base, v.offset) \in Visits
      BY <1>1, <1>2, <1>8 DEF Visit, Visits
    <2>3. PICK w : w = Visit(inner, v.base, v.offset)
      OBVIOUS
    <2>4. <<w>> \in Seq(Visits) /\ ToSet(<<w>>) = {w}
      BY <2>2, <2>3 DEF ToSet
    <2>5. Inner(v) \in Seq(Visits) /\ ToSet(Inner(v)) = {Visit(inner, v.base, v.offset)}
      BY <2>1, <2>3, <2>4
    <2>6. Tag(t) # "array"
      BY <1>8
    <2>. QED
      BY <1>8, <2>5, <2>6 DEF inner, t
  <1>9. CASE inner # 0 /\ Tag(t) = "array"
    <2>1. CASE Info(t).count = 0
      <3>1. Inner(v) = <<>>
        <4>1. Info(t).count \notin 1 .. MaxCount /\ Tag(t) \notin {"udt", "data"}
          BY <1>2, <1>9, <2>1
        <4>. QED
          BY <1>9, <4>1 DEF Inner, inner, t
      <3>2. Elements(t) = {}
        BY <2>1 DEF Elements
      <3>. QED
        BY <1>6, <1>9, <3>1, <3>2 DEF inner, t
    <2>2. CASE Info(t).count # 0
      <3>. DEFINE n == Info(t).count
                  length == Info(inner).length
                  element(i) == Visit(inner, v.base, v.offset + i * length)
                  made == [i \in 1 .. n |-> element(i - 1)]
      <3>1. n \in 1 .. MaxCount /\ Lasts(inner) /\ Tag(t) \notin {"udt", "data"}
        BY <1>2, <1>5, <1>9, <2>2
      <3>2. Inner(v) = [i \in 1 .. n |-> Visit(inner, v.base, v.offset + (i - 1) * length)]
        BY <1>9, <3>1 DEF Inner, inner, t
      <3>3. Elements(t) = 0 .. (n - 1) /\ n \in Nat
        BY <1>2, <2>2 DEF Elements
      <3>4. ASSUME NEW i \in 0 .. (n - 1)
            PROVE  element(i) \in Visits
        <4>1. length \in Nat /\ inner \in Types
          BY <1>1, <1>2, <1>9 DEF TypesOk
        <4>2. i \in Nat
          BY <3>3
        <4>3. v.offset + i * length \in Nat
          BY <1>1, <4>1, <4>2
        <4>. QED
          BY <1>1, <4>1, <4>3 DEF Visit, Visits
      <3>. HIDE DEF n, element
      <3>5. Inner(v) = made
        BY <3>2 DEF element
      <3>6. made \in Seq(Visits)
        <4>1. made \in [1 .. n -> Visits]
          BY <3>3, <3>4
        <4>. QED
          BY <3>3, <4>1, SeqDef
      <3>7. \A x : x \in ToSet(made) <=> \E i \in 0 .. (n - 1) : x = element(i)
        <4>1. DOMAIN made = 1 .. n
          OBVIOUS
        <4>2. \A i \in 1 .. n : made[i] = element(i - 1) /\ i - 1 \in 0 .. (n - 1)
          BY <3>3
        <4>3. \A i \in 0 .. (n - 1) : i + 1 \in 1 .. n /\ (i + 1) - 1 = i
          BY <3>3
        <4>. HIDE DEF made
        <4>4. \A i \in 0 .. (n - 1) : made[i + 1] = element(i)
          BY <4>2, <4>3
        <4>. QED
          BY <4>1, <4>2, <4>3, <4>4 DEF ToSet
      <3>8. Tag(t) # "data"
        BY <1>9
      <3>. QED
        BY <1>9, <3>3, <3>5, <3>6, <3>7, <3>8 DEF element, inner, t
    <2>. QED
      BY <2>1, <2>2
  <1>10. CASE inner # 0 /\ Tag(t) \notin {"data", "array"}
    <2>1. Inner(v) = <<>>
      BY <1>4, <1>10 DEF Inner, inner, t
    <2>. QED
      BY <1>6, <1>10, <2>1 DEF inner, t
  <1>. QED
    BY <1>7, <1>8, <1>9, <1>10

LEMMA OuterIs ==
    ASSUME scene \in Scenes, NEW v \in Visits
    PROVE  /\ Outer(v) \in Seq(Visits)
           /\ \A x : x \in ToSet(Outer(v)) <=>
                 \E c \in ToSet(Members(v.type)) : x = Visit(c, At(v), Info(c).offset)
  <1>. DEFINE s == Members(v.type)
              n == Len(s)
              member(c) == Visit(c, At(v), Info(c).offset)
              made == [i \in DOMAIN s |-> member(s[i])]
  <1>1. TypesOk /\ v.type \in Types /\ v.base \in Nat /\ v.offset \in Nat /\ At(v) \in Nat
    BY TypesJobIs DEF Visits, At
  <1>2. s \in Seq(Types)
    BY <1>1, MembersAre
  <1>3. n \in Nat /\ DOMAIN s = 1 .. n
    BY <1>2
  <1>4. ASSUME NEW c \in ToSet(s)
        PROVE  member(c) \in Visits
    <2>1. LiesIn(Info(c)) /\ c \in Types
      BY <1>1, <1>2, <1>4, MembersAre DEF ToSet
    <2>2. Info(c).offset \in Nat
      BY <1>1, <2>1 DEF LiesIn, TypesOk
    <2>. QED
      BY <1>1, <2>1, <2>2 DEF Visit, Visits
  <1>5. Outer(v) = made
    BY DEF Outer, At
  <1>. HIDE DEF s, n, member
  <1>6. \A i \in DOMAIN s : s[i] \in ToSet(s)
    BY DEF ToSet
  <1>7. made \in Seq(Visits)
    <2>1. made \in [1 .. n -> Visits]
      BY <1>3, <1>4, <1>6
    <2>. QED
      BY <1>3, <2>1, SeqDef
  <1>8. \A x : x \in ToSet(made) <=> \E c \in ToSet(s) : x = member(c)
    BY <1>3 DEF ToSet
  <1>. QED
    BY <1>5, <1>7, <1>8 DEF member, s

LEMMA CallsAre ==
    ASSUME scene \in Scenes, NEW v \in Visits
    PROVE  /\ Inner(v) \o Outer(v) \in Seq(Visits)
           /\ \A x \in ToSet(Inner(v) \o Outer(v)) : \E p \in Direct(v.type) : x.type = p[2] /\ At(x) = At(v) + p[1]
           /\ \A p \in Direct(v.type) : \E x \in ToSet(Inner(v) \o Outer(v)) : x.type = p[2] /\ At(x) = At(v) + p[1]
  <1>. DEFINE t == v.type
              inner == TypeOf(t)
              length == Info(inner).length
              made == ToSet(Inner(v)) \union ToSet(Outer(v))
              matches(x, p) == x.type = p[2] /\ At(x) = At(v) + p[1]
  <1>1. TypesOk /\ t \in Types /\ v.base \in Nat /\ v.offset \in Nat /\ At(v) \in Nat
    BY TypesJobIs DEF Visits, At
  <1>2. Inner(v) \o Outer(v) \in Seq(Visits) /\ ToSet(Inner(v) \o Outer(v)) = made
    BY InnerIs, OuterIs, JoinedSet
  <1>3. ASSUME NEW c \in ToSet(Members(t))
        PROVE  matches(Visit(c, At(v), Info(c).offset), <<Info(c).offset, c>>)
    BY DEF Visit, At
  <1>4. matches(Visit(inner, v.base, v.offset), <<0, inner>>)
    BY <1>1 DEF Visit, At
  <1>5. ASSUME NEW i \in Elements(t), inner # 0
        PROVE  matches(Visit(inner, v.base, v.offset + i * length), <<i * length, inner>>)
    <2>1. i \in Nat /\ length \in Nat
      BY <1>1, <1>5 DEF Elements, TypesOk
    <2>2. i * length \in Nat
      BY <2>1
    <2>3. PICK k \in Nat : k = i * length
      BY <2>2
    <2>4. matches(Visit(inner, v.base, v.offset + k), <<k, inner>>)
      BY <1>1 DEF Visit, At
    <2>. QED
      BY <2>3, <2>4
  <1>. HIDE DEF matches
  <1>6. ASSUME NEW x \in made
        PROVE  \E p \in Direct(t) : matches(x, p)
    <2>1. CASE x \in ToSet(Outer(v))
      <3>1. PICK c \in ToSet(Members(t)) : x = Visit(c, At(v), Info(c).offset)
        BY <2>1, OuterIs
      <3>2. <<Info(c).offset, c>> \in Direct(t)
        BY <1>1, DirectIs
      <3>. QED
        BY <1>3, <3>1, <3>2
    <2>2. CASE x \in ToSet(Inner(v))
      <3>1. /\ inner # 0
            /\ \/ Tag(t) = "data" /\ x = Visit(inner, v.base, v.offset)
               \/ Tag(t) = "array" /\ \E i \in Elements(t) : x = Visit(inner, v.base, v.offset + i * length)
        BY <2>2, InnerIs
      <3>2. CASE Tag(t) = "data" /\ x = Visit(inner, v.base, v.offset)
        <4>1. <<0, inner>> \in Direct(t)
          BY <1>1, <3>1, <3>2, DirectIs
        <4>. QED
          BY <1>4, <3>2, <4>1
      <3>3. CASE Tag(t) = "array" /\ \E i \in Elements(t) : x = Visit(inner, v.base, v.offset + i * length)
        <4>1. PICK i \in Elements(t) : x = Visit(inner, v.base, v.offset + i * length)
          BY <3>3
        <4>2. <<i * length, inner>> \in Direct(t)
          BY <1>1, <3>1, <3>3, DirectIs
        <4>. QED
          BY <1>5, <3>1, <4>1, <4>2
      <3>. QED
        BY <3>1, <3>2, <3>3
    <2>. QED
      BY <2>1, <2>2
  <1>7. ASSUME NEW p \in Direct(t)
        PROVE  \E x \in made : matches(x, p)
    <2>1. \/ \E c \in ToSet(Members(t)) : p = <<Info(c).offset, c>>
          \/ inner # 0 /\ Tag(t) = "data" /\ p = <<0, inner>>
          \/ inner # 0 /\ Tag(t) = "array" /\ \E i \in Elements(t) : p = <<i * length, inner>>
      BY <1>1, DirectIs
    <2>2. CASE \E c \in ToSet(Members(t)) : p = <<Info(c).offset, c>>
      <3>1. PICK c \in ToSet(Members(t)) : p = <<Info(c).offset, c>>
        BY <2>2
      <3>2. Visit(c, At(v), Info(c).offset) \in ToSet(Outer(v))
        BY OuterIs
      <3>. QED
        BY <1>3, <3>1, <3>2
    <2>3. CASE inner # 0 /\ Tag(t) = "data" /\ p = <<0, inner>>
      <3>1. Visit(inner, v.base, v.offset) \in ToSet(Inner(v))
        BY <2>3, InnerIs
      <3>. QED
        BY <1>4, <2>3, <3>1
    <2>4. CASE inner # 0 /\ Tag(t) = "array" /\ \E i \in Elements(t) : p = <<i * length, inner>>
      <3>1. PICK i \in Elements(t) : p = <<i * length, inner>>
        BY <2>4
      <3>2. Visit(inner, v.base, v.offset + i * length) \in ToSet(Inner(v))
        BY <2>4, InnerIs
      <3>. QED
        BY <1>5, <2>4, <3>1, <3>2
    <2>. QED
      BY <2>1, <2>2, <2>3, <2>4
  <1>. QED
    BY <1>2, <1>6, <1>7 DEF matches

(* What a visit may find is what its field holds.                          *)
Field(v) == [at |-> At(v), type |-> v.type]

LEMMA PointerFoundIs ==
    ASSUME scene \in Scenes, NEW v \in Visits
    PROVE  /\ \A a : a \in Found(v) <=>
                 /\ IsPointer(Field(v)) /\ a = Pointer(Field(v))
                 /\ a \notin {0} \union ignored \union DOMAIN pointers \union DOMAIN work
           /\ IsPointer(Field(v)) => Pointer(Field(v)) \in Nat
  <1>. DEFINE at == At(v)
              n == Info(v.type).length
  <1>1. at \in Nat /\ n \in Nat /\ Field(v).at = at /\ Field(v).type = v.type
    <2>1. TypesOk /\ v.type \in Types /\ v.base \in Nat /\ v.offset \in Nat
      BY TypesJobIs DEF Visits
    <2>. QED
      BY <2>1 DEF At, TypesOk, Field
  <1>2. IsPointer(Field(v)) <=> Tag(v.type) = "pointer" /\ IsNumber(at, n)
    <2>1. Held(at, n) <=> \A k \in 1 .. n : Readable(at + k - 1)
      <3>1. \A k \in 1 .. n : k - 1 \in 0 .. (n - 1) /\ at + (k - 1) = at + k - 1
        BY <1>1
      <3>2. \A k \in 0 .. (n - 1) : k + 1 \in 1 .. n /\ at + k = at + (k + 1) - 1
        BY <1>1
      <3>. QED
        BY <3>1, <3>2 DEF Held
    <2>. HIDE DEF at, n
    <2>2. IsPointer(Field(v)) <=> Tag(v.type) = "pointer" /\ n \in {1, 2} /\ \A k \in 1 .. n : Readable(at + k - 1)
      BY <1>1 DEF IsPointer, n
    <2>. QED
      BY <2>1, <2>2 DEF IsNumber
  <1>3. Pointer(Field(v)) = Number(at, n)
    BY <1>1 DEF Pointer
  <1>4. MemoryOk
    BY FieldsAssumption DEF MemoryOk
  <1>5. Found(v) = IF Tag(v.type) # "pointer" \/ n \notin {1, 2} \/ ~CanRead(StreamFor(at, n), n) THEN {}
                   ELSE {Number(at, n)} \ ({0} \union ignored \union DOMAIN pointers \union DOMAIN work)
    BY DEF Found, StreamFor, At
  <1>. HIDE DEF at, n
  <1>6. n \in {1, 2} /\ CanRead(StreamFor(at, n), n) <=> IsNumber(at, n)
    BY <1>1, CanReadIsHeld DEF IsNumber
  <1>7. IsPointer(Field(v)) => Pointer(Field(v)) \in Nat
    BY <1>1, <1>2, <1>3, <1>4, NumberIsNat
  <1>. QED
    BY <1>2, <1>3, <1>5, <1>6, <1>7

-------------------------------------------------------------------------------
(* What is gathered so far, of which structures.                           *)
Leads(ps, f, a) ==
    /\ f.at = ps[a].base + ps[a].offset /\ Pointer(f) = a
    /\ ps[a].type = IF TypeOf(f.type) # 0 THEN TypeOf(f.type) ELSE f.type

Spots(from, ps, S) == from \union {[at |-> a, type |-> ps[a].type] : a \in S}
FieldsOf(spots) == UNION {PointersIn(w.at, w.type) : w \in spots}
AllFields(from, ps) == FieldsOf(Spots(from, ps, DOMAIN ps))
Mays(from, ps) == {a \in DOMAIN ps : \E f \in AllFields(from, ps) : Leads(ps, f, a) /\ TypeOf(f.type) # 0}
Musts(from, ps) == {a \in DOMAIN ps : \A f \in AllFields(from, ps) : Leads(ps, f, a) => TypeOf(f.type) # 0}
May(from, ps) == Spots(from, ps, Mays(from, ps))
Must(from, ps) == Spots(from, ps, Musts(from, ps))

PartOf(v, spots) == \E w \in spots : \E q \in Parts(w.type) : At(v) = w.at + q[1] /\ v.type = q[2]
Handled(f, ps, ig) == Pointer(f) \in {0} \union ig \union DOMAIN ps \/ ~Readable(Pointer(f))
Coming(f, vs, wk) ==
    \/ \E v \in ToSet(vs) : f \in PointersIn(At(v), v.type)
    \/ \E a \in DOMAIN wk : f \in PointersIn(a, wk[a])

SpotsOk(from, vs, ps, wk, ig) ==
    /\ vs \in Seq(Visits) /\ from \in SUBSET [at : Nat, type : Types]
    /\ \A a \in DOMAIN ps : a \in Nat /\ a \notin ig /\ ps[a] \in Visits
    /\ \A a \in DOMAIN wk : a \in DOMAIN ps /\ wk[a] = ps[a].type /\ a \in Mays(from, ps)

(* Whatever is still to be visited is a part of what may be gone through,  *)
(* every address found has its field in it, and every pointer in what must *)
(* be gone through leads to what was found, or is still to be come to.     *)
GatherOk(from, vs, ps, wk, ig) ==
    /\ SpotsOk(from, vs, ps, wk, ig)
    /\ \A v \in ToSet(vs) : PartOf(v, May(from, ps))
    /\ \A a \in DOMAIN ps : \E f \in FieldsOf(May(from, ps)) : Leads(ps, f, a)
    /\ \A f \in FieldsOf(Must(from, ps)) : Handled(f, ps, ig) \/ Coming(f, vs, wk)

LEMMA InFields ==
    ASSUME NEW spots
    PROVE  \A f : f \in FieldsOf(spots) <=> \E w \in spots : f \in PointersIn(w.at, w.type)
  BY DEF FieldsOf

LEMMA InSpots ==
    ASSUME NEW from, NEW ps, NEW S
    PROVE  \A w : w \in Spots(from, ps, S) <=> w \in from \/ \E a \in S : w = [at |-> a, type |-> ps[a].type]
  BY DEF Spots

(* With more places to come from and more found, more fields are seen.     *)
Extends(from, ps, more, ps2) ==
    from \subseteq more /\ \A a \in DOMAIN ps : a \in DOMAIN ps2 /\ ps2[a] = ps[a]

Grown(from, ps, more, ps2) ==
    /\ AllFields(from, ps) \subseteq AllFields(more, ps2)
    /\ Mays(from, ps) \subseteq Mays(more, ps2) /\ May(from, ps) \subseteq May(more, ps2)
    /\ FieldsOf(May(from, ps)) \subseteq FieldsOf(May(more, ps2))
    /\ \A w \in Must(more, ps2) : \/ w \in Must(from, ps) \/ w \in more
                                  \/ \E a \in Musts(more, ps2) \ DOMAIN ps : w = [at |-> a, type |-> ps2[a].type]

LEMMA SpotsGrow ==
    ASSUME NEW from, NEW more, NEW ps, NEW ps2, Extends(from, ps, more, ps2)
    PROVE  Grown(from, ps, more, ps2)
  <1>. USE DEF Extends
  <1>1. Spots(from, ps, DOMAIN ps) \subseteq Spots(more, ps2, DOMAIN ps2)
    <2>1. ASSUME NEW w \in Spots(from, ps, DOMAIN ps)
          PROVE  w \in Spots(more, ps2, DOMAIN ps2)
      <3>1. CASE w \in from
        BY <3>1, InSpots
      <3>2. CASE \E a \in DOMAIN ps : w = [at |-> a, type |-> ps[a].type]
        <4>1. PICK a \in DOMAIN ps : w = [at |-> a, type |-> ps[a].type]
          BY <3>2
        <4>2. a \in DOMAIN ps2 /\ w = [at |-> a, type |-> ps2[a].type]
          BY <4>1
        <4>. QED
          BY <4>2, InSpots
      <3>. QED
        BY <3>1, <3>2, InSpots
    <2>. QED
      BY <2>1
  <1>2. AllFields(from, ps) \subseteq AllFields(more, ps2)
    BY <1>1, InFields DEF AllFields
  <1>3. \A a \in DOMAIN ps : \A f : Leads(ps, f, a) <=> Leads(ps2, f, a)
    BY DEF Leads
  <1>4. Mays(from, ps) \subseteq Mays(more, ps2)
    BY <1>2, <1>3 DEF Mays
  <1>5. May(from, ps) \subseteq May(more, ps2)
    <2>1. ASSUME NEW w \in May(from, ps)
          PROVE  w \in May(more, ps2)
      <3>1. CASE w \in from
        BY <3>1, InSpots DEF May
      <3>2. CASE \E a \in Mays(from, ps) : w = [at |-> a, type |-> ps[a].type]
        <4>1. PICK a \in Mays(from, ps) : w = [at |-> a, type |-> ps[a].type]
          BY <3>2
        <4>2. a \in DOMAIN ps
          BY DEF Mays
        <4>3. a \in Mays(more, ps2) /\ w = [at |-> a, type |-> ps2[a].type]
          BY <1>4, <4>1, <4>2
        <4>. QED
          BY <4>3, InSpots DEF May
      <3>. QED
        BY <3>1, <3>2, InSpots DEF May
    <2>. QED
      BY <2>1
  <1>6. ASSUME NEW w \in Must(more, ps2)
        PROVE  \/ w \in Must(from, ps) \/ w \in more
               \/ \E a \in Musts(more, ps2) \ DOMAIN ps : w = [at |-> a, type |-> ps2[a].type]
    <2>1. SUFFICES ASSUME NEW a \in Musts(more, ps2), w = [at |-> a, type |-> ps2[a].type], a \in DOMAIN ps
                   PROVE  w \in Must(from, ps)
      BY InSpots DEF Must
    <2>2. a \in Musts(from, ps)
      BY <1>2, <1>3, <2>1 DEF Musts
    <2>3. w = [at |-> a, type |-> ps[a].type]
      BY <2>1
    <2>. QED
      BY <2>2, <2>3, InSpots DEF Must
  <1>7. FieldsOf(May(from, ps)) \subseteq FieldsOf(May(more, ps2))
    BY <1>5, InFields
  <1>. QED
    BY <1>2, <1>4, <1>5, <1>6, <1>7 DEF Grown

LEMMA SpotsAre ==
    ASSUME NEW from, NEW vs, NEW ps, NEW wk, NEW ig, SpotsOk(from, vs, ps, wk, ig)
    PROVE  /\ \A w \in Spots(from, ps, DOMAIN ps) : w.at \in Nat /\ w.type \in Types
           /\ May(from, ps) \subseteq Spots(from, ps, DOMAIN ps)
           /\ Must(from, ps) \subseteq Spots(from, ps, DOMAIN ps)
  <1>1. ASSUME NEW w \in Spots(from, ps, DOMAIN ps)
        PROVE  w.at \in Nat /\ w.type \in Types
    <2>1. CASE w \in from
      BY <2>1 DEF SpotsOk
    <2>2. CASE \E a \in DOMAIN ps : w = [at |-> a, type |-> ps[a].type]
      BY <2>2 DEF SpotsOk, Visits
    <2>. QED
      BY <2>1, <2>2, InSpots
  <1>2. Mays(from, ps) \subseteq DOMAIN ps /\ Musts(from, ps) \subseteq DOMAIN ps
    BY DEF Mays, Musts
  <1>3. May(from, ps) \subseteq Spots(from, ps, DOMAIN ps)
    BY <1>2, InSpots DEF May
  <1>4. Must(from, ps) \subseteq Spots(from, ps, DOMAIN ps)
    BY <1>2, InSpots DEF Must
  <1>. QED
    BY <1>1, <1>3, <1>4

(* To visit a part, once its own pointer is seen to.                       *)
LEMMA VisitKeeps ==
    ASSUME scene \in Scenes, NEW from, NEW vs, NEW ps, NEW wk, NEW ig, GatherOk(from, vs, ps, wk, ig), vs # <<>>,
           IsPointer(Field(Head(vs))) => Handled(Field(Head(vs)), ps, ig)
    PROVE  GatherOk(from, Inner(Head(vs)) \o Outer(Head(vs)) \o Tail(vs), ps, wk, ig)
  <1>. DEFINE v == Head(vs)
              made == Inner(v) \o Outer(v)
              vs2 == made \o Tail(vs)
              may == May(from, ps)
  <1>1. vs \in Seq(Visits) /\ SpotsOk(from, vs, ps, wk, ig)
    BY DEF GatherOk, SpotsOk
  <1>2. v \in Visits /\ Tail(vs) \in Seq(Visits) /\ ToSet(vs) = {v} \union ToSet(Tail(vs))
    BY <1>1, FirstAndRest
  <1>3. /\ made \in Seq(Visits)
        /\ \A x \in ToSet(made) : \E p \in Direct(v.type) : x.type = p[2] /\ At(x) = At(v) + p[1]
        /\ \A p \in Direct(v.type) : \E x \in ToSet(made) : x.type = p[2] /\ At(x) = At(v) + p[1]
    BY <1>2, CallsAre
  <1>. HIDE DEF made
  <1>4. vs2 \in Seq(Visits) /\ ToSet(vs2) = ToSet(made) \union ToSet(Tail(vs))
    BY <1>2, <1>3, JoinedSet
  <1>5. SpotsOk(from, vs2, ps, wk, ig)
    BY <1>1, <1>4 DEF SpotsOk
  <1>6. v.type \in Types /\ At(v) \in Nat /\ TypesOk
    BY <1>2, TypesJobIs DEF Visits, At
  <1>7. ASSUME NEW x \in ToSet(vs2)
        PROVE  PartOf(x, may)
    <2>1. CASE x \in ToSet(Tail(vs))
      BY <1>2, <2>1 DEF GatherOk
    <2>2. CASE x \in ToSet(made)
      <3>1. PICK p \in Direct(v.type) : x.type = p[2] /\ At(x) = At(v) + p[1]
        BY <1>3, <2>2
      <3>2. PartOf(v, may)
        BY <1>2 DEF GatherOk
      <3>3. PICK w \in may : \E q \in Parts(w.type) : At(v) = w.at + q[1] /\ v.type = q[2]
        BY <3>2 DEF PartOf
      <3>4. PICK q \in Parts(w.type) : At(v) = w.at + q[1] /\ v.type = q[2]
        BY <3>3
      <3>5. w.at \in Nat /\ w.type \in Types
        BY <1>1, SpotsAre
      <3>6. <<q[1] + p[1], p[2]>> \in Parts(w.type) /\ q[1] \in Nat
        BY <3>4, <3>5, PartsClosed
      <3>7. p[1] \in Nat
        BY <1>6, DirectIs
      <3>8. At(x) = w.at + <<q[1] + p[1], p[2]>>[1] /\ x.type = <<q[1] + p[1], p[2]>>[2]
        BY <3>1, <3>4, <3>5, <3>6, <3>7
      <3>. QED
        BY <3>6, <3>8 DEF PartOf
    <2>. QED
      BY <1>4, <2>1, <2>2
  <1>8. ASSUME NEW f \in FieldsOf(Must(from, ps))
        PROVE  Handled(f, ps, ig) \/ Coming(f, vs2, wk)
    <2>1. Handled(f, ps, ig) \/ Coming(f, vs, wk)
      BY DEF GatherOk
    <2>2. CASE \E x \in ToSet(Tail(vs)) : f \in PointersIn(At(x), x.type)
      BY <1>4, <2>2 DEF Coming
    <2>3. CASE \E a \in DOMAIN wk : f \in PointersIn(a, wk[a])
      BY <2>3 DEF Coming
    <2>4. CASE f \in PointersIn(At(v), v.type)
      <3>1. f = [at |-> At(v), type |-> v.type] \/ \E p \in Direct(v.type) : f \in PointersIn(At(v) + p[1], p[2])
        BY <1>6, <2>4, PointersWithin
      <3>2. CASE f = [at |-> At(v), type |-> v.type]
        <4>1. f = Field(v) /\ IsPointer(f)
          BY <1>6, <2>4, <3>2, PointersAre DEF Field
        <4>. QED
          BY <4>1
      <3>3. CASE \E p \in Direct(v.type) : f \in PointersIn(At(v) + p[1], p[2])
        <4>1. PICK p \in Direct(v.type) : f \in PointersIn(At(v) + p[1], p[2])
          BY <3>3
        <4>2. PICK x \in ToSet(made) : x.type = p[2] /\ At(x) = At(v) + p[1]
          BY <1>3
        <4>3. x \in ToSet(vs2) /\ f \in PointersIn(At(x), x.type)
          BY <1>4, <4>1, <4>2
        <4>. QED
          BY <4>3 DEF Coming
      <3>. QED
        BY <3>1, <3>2, <3>3
    <2>. QED
      BY <1>2, <2>1, <2>2, <2>3, <2>4 DEF Coming
  <1>9. \A a \in DOMAIN ps : \E f \in FieldsOf(may) : Leads(ps, f, a)
    BY DEF GatherOk
  <1>. HIDE DEF vs2
  <1>10. GatherOk(from, vs2, ps, wk, ig)
    BY <1>5, <1>7, <1>8, <1>9 DEF GatherOk
  <1>. QED
    BY <1>10 DEF vs2, made

(* To find what a part points to.                                          *)
LEMMA FindKeeps ==
    ASSUME scene \in Scenes, NEW from, NEW vs, NEW ps, NEW wk, NEW ig, GatherOk(from, vs, ps, wk, ig),
           NEW v \in ToSet(vs), IsPointer(Field(v)), NEW a \in Nat, a = Pointer(Field(v)), a \notin ig, a \notin DOMAIN ps,
           NEW found, found = [base |-> v.base, offset |-> v.offset, type |-> IF TypeOf(v.type) # 0 THEN TypeOf(v.type) ELSE v.type],
           NEW ps2, ps2 = With(ps, a, found),
           NEW wk2, wk2 = IF TypeOf(v.type) # 0 THEN With(wk, a, TypeOf(v.type)) ELSE wk
    PROVE  GatherOk(from, vs, ps2, wk2, ig)
  <1>. DEFINE f0 == Field(v)
              inner == TypeOf(v.type)
  <1>1. vs \in Seq(Visits) /\ SpotsOk(from, vs, ps, wk, ig) /\ v \in Visits
    BY DEF GatherOk, SpotsOk, ToSet
  <1>2. TypesOk /\ v.type \in Types /\ v.base \in Nat /\ v.offset \in Nat /\ inner \in {0} \union Types
    BY <1>1, TypesJobIs DEF Visits, TypesOk
  <1>3. /\ DOMAIN ps2 = DOMAIN ps \union {a} /\ ps2[a] = found
        /\ \A b \in DOMAIN ps : b \in DOMAIN ps2 /\ ps2[b] = ps[b]
    BY DEF With
  <1>4. /\ found \in Visits /\ found.base = v.base /\ found.offset = v.offset
        /\ found.type = IF inner # 0 THEN inner ELSE v.type
    BY <1>2 DEF Visits
  <1>5. Leads(ps2, f0, a) /\ f0.type = v.type
    BY <1>3, <1>4 DEF Leads, Field, At
  <1>6. f0 \in FieldsOf(May(from, ps))
    <2>1. PartOf(v, May(from, ps))
      BY DEF GatherOk
    <2>2. PICK w \in May(from, ps) : \E q \in Parts(w.type) : At(v) = w.at + q[1] /\ v.type = q[2]
      BY <2>1 DEF PartOf
    <2>3. PICK q \in Parts(w.type) : At(v) = w.at + q[1] /\ v.type = q[2]
      BY <2>2
    <2>4. w.at \in Nat /\ w.type \in Types
      BY <1>1, SpotsAre
    <2>5. f0 = [at |-> w.at + q[1], type |-> q[2]]
      BY <2>3 DEF Field
    <2>6. f0 \in PointersIn(w.at, w.type)
      BY <2>4, <2>5, PointersWithin
    <2>. QED
      BY <2>6, InFields
  <1>7. /\ AllFields(from, ps) \subseteq AllFields(from, ps2)
        /\ Mays(from, ps) \subseteq Mays(from, ps2) /\ May(from, ps) \subseteq May(from, ps2)
        /\ FieldsOf(May(from, ps)) \subseteq FieldsOf(May(from, ps2))
        /\ \A w \in Must(from, ps2) : \/ w \in Must(from, ps) \/ w \in from
                                      \/ \E b \in Musts(from, ps2) \ DOMAIN ps : w = [at |-> b, type |-> ps2[b].type]
    <2>1. Extends(from, ps, from, ps2)
      BY <1>3 DEF Extends
    <2>. QED
      BY <2>1, SpotsGrow DEF Grown
  <1>8. f0 \in AllFields(from, ps2)
    <2>1. May(from, ps) \subseteq Spots(from, ps, DOMAIN ps)
      BY <1>1, SpotsAre
    <2>2. f0 \in AllFields(from, ps)
      BY <1>6, <2>1, InFields DEF AllFields
    <2>. QED
      BY <1>7, <2>2
  <1>9. inner # 0 => a \in Mays(from, ps2)
    BY <1>3, <1>5, <1>8 DEF Mays
  <1>10. inner = 0 => a \notin Musts(from, ps2)
    BY <1>5, <1>8 DEF Musts
  <1>11. /\ \A b \in DOMAIN wk : b \in DOMAIN wk2 /\ wk2[b] = wk[b]
         /\ inner # 0 => DOMAIN wk2 = DOMAIN wk \union {a} /\ wk2[a] = inner
         /\ inner = 0 => wk2 = wk
    <2>1. \A b \in DOMAIN wk : b # a
      BY <1>1 DEF SpotsOk
    <2>2. CASE inner # 0
      <3>1. wk2 = With(wk, a, inner)
        BY <2>2
      <3>. HIDE DEF inner
      <3>. QED
        BY <2>1, <2>2, <3>1 DEF With
    <2>3. CASE inner = 0
      BY <2>3
    <2>. QED
      BY <2>2, <2>3
  <1>. HIDE DEF inner, f0
  <1>12. SpotsOk(from, vs, ps2, wk2, ig)
    <2>1. vs \in Seq(Visits) /\ from \in SUBSET [at : Nat, type : Types]
      BY <1>1 DEF SpotsOk
    <2>2. ASSUME NEW b \in DOMAIN ps2
          PROVE  b \in Nat /\ b \notin ig /\ ps2[b] \in Visits
      BY <1>1, <1>3, <1>4 DEF SpotsOk
    <2>3. ASSUME NEW b \in DOMAIN wk2
          PROVE  b \in DOMAIN ps2 /\ wk2[b] = ps2[b].type /\ b \in Mays(from, ps2)
      <3>1. CASE b \in DOMAIN wk
        BY <1>1, <1>3, <1>7, <1>11, <3>1 DEF SpotsOk
      <3>2. CASE b \notin DOMAIN wk
        <4>1. b = a /\ inner # 0
          BY <1>11, <3>2
        <4>. QED
          BY <1>3, <1>4, <1>9, <1>11, <4>1
      <3>. QED
        BY <3>1, <3>2
    <2>. QED
      BY <2>1, <2>2, <2>3 DEF SpotsOk
  <1>13. \A x \in ToSet(vs) : PartOf(x, May(from, ps2))
    BY <1>7 DEF GatherOk, PartOf
  <1>14. ASSUME NEW b \in DOMAIN ps2
         PROVE  \E f \in FieldsOf(May(from, ps2)) : Leads(ps2, f, b)
    <2>1. CASE b = a
      BY <1>5, <1>6, <1>7, <2>1
    <2>2. CASE b \in DOMAIN ps
      <3>1. PICK f \in FieldsOf(May(from, ps)) : Leads(ps, f, b)
        BY <2>2 DEF GatherOk
      <3>2. Leads(ps2, f, b)
        BY <1>3, <2>2, <3>1 DEF Leads
      <3>. QED
        BY <1>7, <3>2
    <2>. QED
      BY <1>3, <2>1, <2>2
  <1>15. ASSUME NEW f \in FieldsOf(Must(from, ps2))
         PROVE  Handled(f, ps2, ig) \/ Coming(f, vs, wk2)
    <2>1. PICK w \in Must(from, ps2) : f \in PointersIn(w.at, w.type)
      BY InFields
    <2>2. CASE w \in Must(from, ps)
      <3>1. f \in FieldsOf(Must(from, ps))
        BY <2>1, <2>2, InFields
      <3>2. Handled(f, ps, ig) \/ Coming(f, vs, wk)
        BY <3>1 DEF GatherOk
      <3>. QED
        BY <1>3, <1>11, <3>2 DEF Handled, Coming
    <2>3. CASE \E b \in Musts(from, ps2) \ DOMAIN ps : w = [at |-> b, type |-> ps2[b].type]
      <3>1. PICK b \in Musts(from, ps2) \ DOMAIN ps : w = [at |-> b, type |-> ps2[b].type]
        BY <2>3
      <3>2. b = a
        BY <1>3, <3>1 DEF Musts
      <3>3. inner # 0
        BY <1>10, <3>1, <3>2
      <3>4. a \in DOMAIN wk2 /\ f \in PointersIn(a, wk2[a])
        BY <1>3, <1>4, <1>11, <2>1, <3>1, <3>2, <3>3
      <3>. QED
        BY <3>4 DEF Coming
    <2>4. from \subseteq Must(from, ps)
      BY InSpots DEF Must
    <2>. QED
      BY <1>7, <2>1, <2>2, <2>3, <2>4
  <1>. QED
    BY <1>12, <1>13, <1>14, <1>15 DEF GatherOk

(* To take up what was found.                                              *)
LEMMA FollowKeeps ==
    ASSUME scene \in Scenes, NEW from, NEW ps, NEW wk, NEW ig, GatherOk(from, <<>>, ps, wk, ig), NEW a \in DOMAIN wk,
           NEW wk2, wk2 = [x \in DOMAIN wk \ {a} |-> wk[x]]
    PROVE  GatherOk(from, <<Visit(wk[a], a, 0)>>, ps, wk2, ig)
  <1>. DEFINE v == Visit(wk[a], a, 0)
              vs == <<v>>
  <1>1. SpotsOk(from, <<>>, ps, wk, ig)
    BY DEF GatherOk
  <1>2. a \in Nat /\ wk[a] \in Types /\ wk[a] = ps[a].type /\ a \in Mays(from, ps)
    BY <1>1 DEF SpotsOk, Visits
  <1>3. v \in Visits /\ At(v) = a /\ v.type = wk[a]
    BY <1>2 DEF Visit, Visits, At
  <1>. HIDE DEF v
  <1>4. vs \in Seq(Visits) /\ ToSet(vs) = {v}
    BY <1>3 DEF ToSet
  <1>5. \A b \in DOMAIN wk2 : b \in DOMAIN wk /\ wk2[b] = wk[b]
    OBVIOUS
  <1>6. SpotsOk(from, vs, ps, wk2, ig)
    BY <1>1, <1>4, <1>5 DEF SpotsOk
  <1>7. PartOf(v, May(from, ps))
    <2>. DEFINE w == [at |-> a, type |-> ps[a].type]
    <2>1. w \in May(from, ps)
      BY <1>2, InSpots DEF May
    <2>2. <<0, wk[a]>> \in Parts(wk[a])
      BY <1>2, PartsClosed
    <2>3. At(v) = w.at + <<0, wk[a]>>[1] /\ v.type = <<0, wk[a]>>[2] /\ w.type = wk[a]
      BY <1>2, <1>3
    <2>. HIDE DEF w
    <2>. QED
      BY <2>1, <2>2, <2>3 DEF PartOf
  <1>8. ASSUME NEW f \in FieldsOf(Must(from, ps))
        PROVE  Handled(f, ps, ig) \/ Coming(f, vs, wk2)
    <2>1. Handled(f, ps, ig) \/ Coming(f, <<>>, wk)
      BY DEF GatherOk
    <2>2. ASSUME NEW b \in DOMAIN wk, f \in PointersIn(b, wk[b])
          PROVE  Coming(f, vs, wk2)
      <3>1. CASE b = a
        BY <1>3, <1>4, <2>2, <3>1 DEF Coming
      <3>2. CASE b # a
        BY <2>2, <3>2 DEF Coming
      <3>. QED
        BY <3>1, <3>2
    <2>3. ToSet(<<>>) = {}
      BY DEF ToSet
    <2>. QED
      BY <2>1, <2>2, <2>3 DEF Coming
  <1>. HIDE DEF vs
  <1>9. GatherOk(from, vs, ps, wk2, ig)
    BY <1>4, <1>6, <1>7, <1>8 DEF GatherOk
  <1>. QED
    BY <1>9 DEF vs, v

(* To begin with a structure.                                              *)
Spot(v) == [at |-> At(v), type |-> v.type]

LEMMA FirstVisit ==
    ASSUME scene \in Scenes, NEW r \in Visits
    PROVE  /\ Spot(r).at \in Nat /\ Spot(r).type \in Types /\ Spot(r) \in [at : Nat, type : Types]
           /\ <<r>> \in Seq(Visits) /\ ToSet(<<r>>) = {r}
           /\ \A spots : Spot(r) \in spots => PartOf(r, spots)
           /\ \A f \in PointersIn(Spot(r).at, Spot(r).type) : \A wk : Coming(f, <<r>>, wk)
  <1>1. r.type \in Types /\ At(r) \in Nat /\ Spot(r).at = At(r) /\ Spot(r).type = r.type
    BY DEF Visits, At, Spot
  <1>2. <<r>> \in Seq(Visits) /\ ToSet(<<r>>) = {r}
    BY DEF ToSet
  <1>3. Spot(r) \in [at : Nat, type : Types]
    BY <1>1 DEF Spot
  <1>4. <<0, r.type>> \in Parts(r.type) /\ At(r) = At(r) + <<0, r.type>>[1] /\ r.type = <<0, r.type>>[2]
    BY <1>1, PartsClosed
  <1>5. \A spots : Spot(r) \in spots => PartOf(r, spots)
    BY <1>1, <1>4 DEF PartOf
  <1>6. \A f \in PointersIn(Spot(r).at, Spot(r).type) : \A wk : Coming(f, <<r>>, wk)
    <2>. HIDE DEF ToSet
    <2>. QED
      BY <1>1, <1>2 DEF Coming
  <1>. QED
    BY <1>1, <1>2, <1>3, <1>5, <1>6

LEMMA StartKeeps ==
    ASSUME scene \in Scenes, NEW r \in Visits, NEW ps, DOMAIN ps = {}, NEW wk, DOMAIN wk = {}, NEW ig
    PROVE  GatherOk({Spot(r)}, <<r>>, ps, wk, ig)
  <1>. DEFINE from == {Spot(r)}
              vs == <<r>>
  <1>1. /\ Spot(r) \in [at : Nat, type : Types] /\ vs \in Seq(Visits) /\ ToSet(vs) = {r}
        /\ \A spots : Spot(r) \in spots => PartOf(r, spots)
        /\ \A f \in PointersIn(Spot(r).at, Spot(r).type) : Coming(f, vs, wk)
    BY FirstVisit
  <1>. HIDE DEF vs
  <1>2. SpotsOk(from, vs, ps, wk, ig)
    BY <1>1 DEF SpotsOk
  <1>3. \A w \in Must(from, ps) : w = Spot(r)
    <2>1. Musts(from, ps) = {}
      BY DEF Musts
    <2>. QED
      BY <2>1, InSpots DEF Must
  <1>4. \A f \in FieldsOf(Must(from, ps)) : Coming(f, vs, wk)
    BY <1>1, <1>3, InFields
  <1>5. Spot(r) \in May(from, ps)
    BY InSpots DEF May
  <1>. HIDE DEF from
  <1>6. GatherOk(from, vs, ps, wk, ig)
    BY <1>1, <1>2, <1>4, <1>5 DEF GatherOk
  <1>. QED
    BY <1>6 DEF from, vs

(* To go on with another structure.                                        *)
LEMMA MoreKeeps ==
    ASSUME scene \in Scenes, NEW from, NEW ps, NEW wk, DOMAIN wk = {}, NEW ig, GatherOk(from, <<>>, ps, wk, ig), NEW r \in Visits
    PROVE  GatherOk(from \union {Spot(r)}, <<r>>, ps, wk, ig)
  <1>. DEFINE more == from \union {Spot(r)}
              vs == <<r>>
  <1>1. /\ Spot(r) \in [at : Nat, type : Types] /\ vs \in Seq(Visits) /\ ToSet(vs) = {r}
        /\ \A spots : Spot(r) \in spots => PartOf(r, spots)
        /\ \A f \in PointersIn(Spot(r).at, Spot(r).type) : Coming(f, vs, wk)
    BY FirstVisit
  <1>. HIDE DEF vs
  <1>2. SpotsOk(from, <<>>, ps, wk, ig)
    BY DEF GatherOk
  <1>3. SpotsOk(more, vs, ps, wk, ig)
    BY <1>1, <1>2 DEF SpotsOk
  <1>4. /\ FieldsOf(May(from, ps)) \subseteq FieldsOf(May(more, ps))
        /\ \A w \in Must(more, ps) : \/ w \in Must(from, ps) \/ w \in more
                                     \/ \E a \in Musts(more, ps) \ DOMAIN ps : w = [at |-> a, type |-> ps[a].type]
    <2>1. Extends(from, ps, more, ps)
      BY DEF Extends
    <2>. HIDE DEF more
    <2>. QED
      BY <2>1, SpotsGrow DEF Grown
  <1>5. Musts(more, ps) \subseteq DOMAIN ps
    BY DEF Musts
  <1>6. from \subseteq Must(from, ps)
    BY InSpots DEF Must
  <1>7. ASSUME NEW f \in FieldsOf(Must(more, ps))
        PROVE  Handled(f, ps, ig) \/ Coming(f, vs, wk)
    <2>1. PICK w \in Must(more, ps) : f \in PointersIn(w.at, w.type)
      BY InFields
    <2>2. w \in Must(from, ps) \/ w = Spot(r)
      BY <1>4, <1>5, <1>6
    <2>3. CASE w = Spot(r)
      BY <1>1, <2>1, <2>3
    <2>4. CASE w \in Must(from, ps)
      <3>1. f \in FieldsOf(Must(from, ps))
        BY <2>1, <2>4, InFields
      <3>2. Handled(f, ps, ig) \/ Coming(f, <<>>, wk)
        BY <3>1 DEF GatherOk
      <3>3. ToSet(<<>>) = {}
        BY DEF ToSet
      <3>. QED
        BY <3>2, <3>3 DEF Coming
    <2>. QED
      BY <2>2, <2>3, <2>4
  <1>8. Spot(r) \in May(more, ps)
    BY InSpots DEF May
  <1>. HIDE DEF more
  <1>9. \A a \in DOMAIN ps : \E f \in FieldsOf(May(more, ps)) : Leads(ps, f, a)
    BY <1>4 DEF GatherOk
  <1>10. GatherOk(more, vs, ps, wk, ig)
    BY <1>1, <1>3, <1>7, <1>8, <1>9 DEF GatherOk
  <1>. QED
    BY <1>10 DEF more, vs

-------------------------------------------------------------------------------
(* The structures that were come to, and what holds of the gathering.      *)
From == {Spot(job.roots[i]) : i \in IF job.kind = "areas" THEN 1 .. job.at ELSE {job.at}}

GatherInv ==
    /\ scene \in Scenes /\ "kind" \in DOMAIN job
    /\ job.kind \in {"graph", "areas"} =>
          /\ {"kind", "roots", "at"} \subseteq DOMAIN job
          /\ job.roots \in Seq(Visits) /\ job.at \in Nat \ {0}
          /\ job.at <= Len(job.roots) => GatherOk(From, visits, pointers, work, ignored)

LEMMA SceneKeepsParts ==
    ASSUME scene' = scene
    PROVE  /\ Types' = Types /\ PartsWithin' = PartsWithin
           /\ \A c : Info(c)' = Info(c) /\ TypeOf(c)' = TypeOf(c) /\ Tag(c)' = Tag(c)
           /\ \A a : Readable(a)' = Readable(a)
           /\ \A a, n : Number(a, n)' = Number(a, n)
  BY DEF PartsWithin, Direct, Members, Elements, Types, Info, Tag, TypeOf, Children, Readable, Number

LEMMA SceneKeepsPointers ==
    ASSUME scene' = scene, NEW CONSTANT a, NEW CONSTANT t
    PROVE  PointersIn(a, t)' = PointersIn(a, t)
  BY SceneKeepsParts DEF PointersIn

LEMMA SceneKeepsGather ==
    ASSUME scene' = scene, NEW CONSTANT from, NEW CONSTANT vs, NEW CONSTANT ps, NEW CONSTANT wk, NEW CONSTANT ig,
           GatherOk(from, vs, ps, wk, ig)
    PROVE  GatherOk(from, vs, ps, wk, ig)'
  <1>1. /\ Types' = Types /\ \A t : Parts(t)' = Parts(t)
        /\ \A f, a : Leads(ps, f, a)' = Leads(ps, f, a)
        /\ \A a, t : PointersIn(a, t)' = PointersIn(a, t)
        /\ \A t : TypeOf(t)' = TypeOf(t)
    BY SceneKeepsParts, SceneKeepsPointers DEF Parts, Leads, Pointer
  <1>2. \A f : Handled(f, ps, ig)' = Handled(f, ps, ig)
    BY SceneKeepsParts DEF Handled, Pointer
  <1>3. \A f : Coming(f, vs, wk)' = Coming(f, vs, wk)
    BY <1>1 DEF Coming, At
  <1>4. AllFields(from, ps)' = AllFields(from, ps)
    BY <1>1 DEF AllFields, FieldsOf, Spots
  <1>5. Mays(from, ps)' = Mays(from, ps) /\ Musts(from, ps)' = Musts(from, ps)
    BY <1>1, <1>4 DEF Mays, Musts
  <1>6. May(from, ps)' = May(from, ps) /\ Must(from, ps)' = Must(from, ps)
    BY <1>5 DEF May, Must, Spots
  <1>7. FieldsOf(May(from, ps))' = FieldsOf(May(from, ps)) /\ FieldsOf(Must(from, ps))' = FieldsOf(Must(from, ps))
    BY <1>1, <1>6 DEF FieldsOf
  <1>8. SpotsOk(from, vs, ps, wk, ig)'
    BY <1>1, <1>5 DEF GatherOk, SpotsOk, Visits
  <1>9. (\A v \in ToSet(vs) : PartOf(v, May(from, ps)))'
    BY <1>1, <1>6 DEF GatherOk, PartOf, At
  <1>. QED
    BY <1>1, <1>2, <1>3, <1>7, <1>8, <1>9 DEF GatherOk

LEMMA InitGatherInv == Init => GatherInv
  <1>. SUFFICES ASSUME Init
                PROVE  GatherInv
    OBVIOUS
  <1>1. scene \in Scenes /\ job \in scene.jobs /\ "kind" \in DOMAIN job
    BY FieldsAssumption DEF Init
  <1>2. ASSUME job.kind \in {"graph", "areas"}
        PROVE  /\ {"kind", "roots", "at"} \subseteq DOMAIN job /\ job.at = 1
               /\ job.roots \in Seq(Visits) /\ job.roots # <<>>
    BY <1>1, <1>2, GatherAssumption DEF Visits, Types
  <1>3. ASSUME job.kind \in {"graph", "areas"}
        PROVE  GatherOk(From, visits, pointers, work, ignored)
    <2>1. job.roots[1] \in Visits
      BY <1>2, <1>3
    <2>2. From = {Spot(job.roots[1])}
      <3>1. \A i \in Int : i \in 1 .. 1 <=> i = 1
        OBVIOUS
      <3>2. From = {Spot(job.roots[i]) : i \in {1}}
        BY <1>2, <1>3, <3>1 DEF From
      <3>. HIDE DEF From
      <3>. QED
        BY <3>2
    <2>3. visits = <<job.roots[1]>> /\ DOMAIN pointers = {} /\ DOMAIN work = {}
      BY <1>3 DEF Init, InitGather
    <2>. QED
      BY <1>1, <2>1, <2>2, <2>3, StartKeeps
  <1>. QED
    BY <1>1, <1>2, <1>3 DEF GatherInv

LEMMA StepGatherInv == GatherInv /\ [Next]_vars => GatherInv'
  <1>. SUFFICES ASSUME GatherInv, [Next]_vars
                PROVE  GatherInv'
    OBVIOUS
  <1>1. scene \in Scenes /\ "kind" \in DOMAIN job
    BY DEF GatherInv
  <1>2. ASSUME scene' = scene, job' = job,
               NEW CONSTANT from, NEW CONSTANT vs, NEW CONSTANT ps, NEW CONSTANT wk, NEW CONSTANT ig,
               from = From, visits' = vs, pointers' = ps, work' = wk, ignored' = ig,
               job.kind \in {"graph", "areas"} /\ job.at <= Len(job.roots) => GatherOk(from, vs, ps, wk, ig)
        PROVE  GatherInv'
    <2>1. From' = from
      BY <1>2 DEF From, Spot, At
    <2>2. ASSUME job.kind \in {"graph", "areas"}, job.at <= Len(job.roots)
          PROVE  GatherOk(From, visits, pointers, work, ignored)'
      <3>1. GatherOk(from, vs, ps, wk, ig)'
        BY <1>2, <2>2, SceneKeepsGather
      <3>. QED
        BY <1>2, <2>1, <3>1
    <2>3. Visits' = Visits
      BY <1>2 DEF Visits, Types
    <2>. QED
      BY <1>2, <2>2, <2>3 DEF GatherInv
  <1>3. ASSUME scene' = scene, job' = job, gatherVars' = gatherVars
        PROVE  GatherInv'
    <2>1. PICK from : from = From
      OBVIOUS
    <2>2. PICK vs : vs = visits
      OBVIOUS
    <2>3. PICK ps : ps = pointers
      OBVIOUS
    <2>4. PICK wk : wk = work
      OBVIOUS
    <2>5. PICK ig : ig = ignored
      OBVIOUS
    <2>6. visits' = vs /\ pointers' = ps /\ work' = wk /\ ignored' = ig
      BY <1>3, <2>2, <2>3, <2>4, <2>5 DEF gatherVars
    <2>7. job.kind \in {"graph", "areas"} /\ job.at <= Len(job.roots) => GatherOk(from, vs, ps, wk, ig)
      BY <2>1, <2>2, <2>3, <2>4, <2>5 DEF GatherInv
    <2>. QED
      BY <1>2, <1>3, <2>1, <2>6, <2>7
  <1>4. CASE DoGather
    <2>. DEFINE v == Head(visits)
                inner == TypeOf(v.type)
                found == {a \in Found(v) : Readable(a)}
                record == [base |-> v.base, offset |-> v.offset, type |-> IF inner # 0 THEN inner ELSE v.type]
    <2>1. /\ scene' = scene /\ job' = job /\ ignored' = ignored /\ visits # <<>>
          /\ visits' = Inner(v) \o Outer(v) \o Tail(visits)
      BY <1>4 DEF DoGather
    <2>2. PICK from : from = From
      OBVIOUS
    <2>3. PICK vs : vs = Inner(v) \o Outer(v) \o Tail(visits)
      OBVIOUS
    <2>4. PICK ig : ig = ignored
      OBVIOUS
    <2>5. ASSUME job.kind \in {"graph", "areas"}, job.at <= Len(job.roots)
          PROVE  /\ GatherOk(from, visits, pointers, work, ig) /\ v \in ToSet(visits) /\ v \in Visits
                 /\ DOMAIN work \subseteq DOMAIN pointers
      <3>1. GatherOk(from, visits, pointers, work, ig)
        BY <2>2, <2>4, <2>5 DEF GatherInv
      <3>2. visits \in Seq(Visits) /\ DOMAIN work \subseteq DOMAIN pointers
        BY <3>1 DEF GatherOk, SpotsOk
      <3>. QED
        BY <2>1, <3>1, <3>2, FirstAndRest
    <2>6. CASE found = {}
      <3>1. PICK ps : ps = pointers
        OBVIOUS
      <3>2. PICK wk : wk = work
        OBVIOUS
      <3>3. pointers' = ps /\ work' = wk
        BY <1>4, <2>6, <3>1, <3>2 DEF DoGather
      <3>4. ASSUME job.kind \in {"graph", "areas"}, job.at <= Len(job.roots)
            PROVE  GatherOk(from, vs, ps, wk, ig)
        <4>1. ASSUME IsPointer(Field(v))
              PROVE  Handled(Field(v), pointers, ig)
          <5>1. /\ Pointer(Field(v)) \in Found(v) <=>
                      Pointer(Field(v)) \notin {0} \union ignored \union DOMAIN pointers \union DOMAIN work
                /\ Pointer(Field(v)) \notin Found(v) \/ ~Readable(Pointer(Field(v)))
            <6>. HIDE DEF v
            <6>. QED
              BY <1>1, <2>5, <2>6, <3>4, <4>1, PointerFoundIs
          <5>2. DOMAIN work \subseteq DOMAIN pointers
            BY <2>5, <3>4
          <5>. HIDE DEF v
          <5>. QED
            BY <2>4, <5>1, <5>2 DEF Handled
        <4>2. GatherOk(from, Inner(v) \o Outer(v) \o Tail(visits), pointers, work, ig)
          BY <1>1, <2>1, <2>5, <3>4, <4>1, VisitKeeps
        <4>. QED
          BY <2>3, <3>1, <3>2, <4>2
      <3>. QED
        BY <1>2, <2>1, <2>2, <2>3, <2>4, <3>3, <3>4
    <2>7. CASE found # {}
      <3>1. PICK a \in found : pointers' = With(pointers, a, record) /\ work' = IF inner # 0 THEN With(work, a, inner) ELSE work
        BY <1>4, <2>7 DEF DoGather
      <3>2. PICK ps : ps = With(pointers, a, record)
        OBVIOUS
      <3>3. PICK wk : wk = IF inner # 0 THEN With(work, a, inner) ELSE work
        OBVIOUS
      <3>4. ASSUME job.kind \in {"graph", "areas"}, job.at <= Len(job.roots)
            PROVE  GatherOk(from, vs, ps, wk, ig)
        <4>1. /\ IsPointer(Field(v)) /\ a = Pointer(Field(v)) /\ a \in Nat
              /\ a \notin {0} \union ignored \union DOMAIN pointers \union DOMAIN work
          <5>. HIDE DEF v
          <5>. QED
            BY <1>1, <2>5, <3>1, <3>4, PointerFoundIs
        <4>2. GatherOk(from, visits, pointers, work, ig) /\ v \in ToSet(visits)
          BY <2>5, <3>4
        <4>3. a \notin ig /\ a \notin DOMAIN pointers
          BY <2>4, <4>1
        <4>4. PICK kept : kept = record
          OBVIOUS
        <4>5. ps = With(pointers, a, kept)
          BY <3>2, <4>4
        <4>6. GatherOk(from, visits, ps, wk, ig)
          <5>. HIDE DEF v
          <5>. QED
            BY <1>1, <3>3, <4>1, <4>2, <4>3, <4>4, <4>5, FindKeeps
        <4>7. Handled(Field(v), ps, ig)
          <5>1. a \in DOMAIN ps
            BY <4>5 DEF With
          <5>. HIDE DEF v
          <5>. QED
            BY <4>1, <5>1 DEF Handled
        <4>8. GatherOk(from, Inner(v) \o Outer(v) \o Tail(visits), ps, wk, ig)
          BY <1>1, <2>1, <4>6, <4>7, VisitKeeps
        <4>. QED
          BY <2>3, <4>8
      <3>. HIDE DEF v, found, record, inner
      <3>. QED
        BY <1>2, <2>1, <2>2, <2>3, <2>4, <3>1, <3>2, <3>3, <3>4
    <2>. QED
      BY <2>6, <2>7
  <1>5. CASE FollowPointer
    <2>1. /\ scene' = scene /\ job' = job /\ visits = <<>> /\ pointers' = pointers /\ ignored' = ignored
      BY <1>5 DEF FollowPointer
    <2>2. PICK a \in DOMAIN work : visits' = <<Visit(work[a], a, 0)>> /\ work' = [x \in DOMAIN work \ {a} |-> work[x]]
      BY <1>5 DEF FollowPointer
    <2>3. PICK from : from = From
      OBVIOUS
    <2>4. PICK vs : vs = <<Visit(work[a], a, 0)>>
      OBVIOUS
    <2>5. PICK wk : wk = [x \in DOMAIN work \ {a} |-> work[x]]
      OBVIOUS
    <2>6. PICK ps : ps = pointers
      OBVIOUS
    <2>7. PICK ig : ig = ignored
      OBVIOUS
    <2>8. ASSUME job.kind \in {"graph", "areas"}, job.at <= Len(job.roots)
          PROVE  GatherOk(from, vs, ps, wk, ig)
      <3>1. GatherOk(from, <<>>, ps, work, ig)
        BY <2>1, <2>3, <2>6, <2>7, <2>8 DEF GatherInv
      <3>. QED
        BY <1>1, <2>4, <2>5, <3>1, FollowKeeps
    <2>. QED
      BY <1>2, <2>1, <2>2, <2>3, <2>4, <2>5, <2>6, <2>7, <2>8
  <1>6. CASE NextRoot
    <2>. DEFINE n == Len(job.roots)
    <2>1. /\ scene' = scene /\ job.kind \in {"graph", "areas"} /\ job.at <= n /\ visits = <<>> /\ DOMAIN work = {}
          /\ job' = [job EXCEPT !.at = @ + 1] /\ work' = work
          /\ visits' = IF job.at = n THEN <<>> ELSE <<job.roots[job.at + 1]>>
          /\ \/ job.kind = "graph" /\ pointers' = <<>>
             \/ job.kind = "areas" /\ pointers' = pointers /\ ignored' = ignored
      BY <1>6 DEF NextRoot, Gathered
    <2>2. /\ {"kind", "roots", "at"} \subseteq DOMAIN job /\ job.roots \in Seq(Visits) /\ job.at \in Nat \ {0} /\ n \in Nat
          /\ GatherOk(From, <<>>, pointers, work, ignored)
      BY <2>1 DEF GatherInv
    <2>3. /\ DOMAIN job' = DOMAIN job /\ job'.kind = job.kind /\ job'.roots = job.roots /\ job'.at = job.at + 1
      BY <2>1, <2>2
    <2>4. Visits' = Visits
      BY <2>1 DEF Visits, Types
    <2>5. ASSUME job.at + 1 <= n
          PROVE  GatherOk(From, visits, pointers, work, ignored)'
      <3>1. PICK r : r = job.roots[job.at + 1]
        OBVIOUS
      <3>2. job.at + 1 \in 1 .. n /\ r \in Visits /\ job.at # n
        BY <2>2, <2>5, <3>1
      <3>3. PICK wk : wk = work
        OBVIOUS
      <3>4. visits' = <<r>> /\ work' = wk /\ DOMAIN wk = {}
        BY <2>1, <3>1, <3>2, <3>3
      <3>5. PICK first : first = {Spot(r)}
        OBVIOUS
      <3>6. \A x : Spot(x)' = Spot(x)
        BY DEF Spot, At
      <3>7. CASE job.kind = "graph"
        <4>1. PICK ps : ps = <<>> /\ DOMAIN ps = {}
          OBVIOUS
        <4>2. From' = first
          <5>1. From' = {Spot(job.roots[i]) : i \in {job.at + 1}}
            BY <2>3, <3>6, <3>7 DEF From
          <5>. QED
            BY <3>1, <3>5, <5>1
        <4>3. pointers' = ps
          BY <2>1, <3>7, <4>1
        <4>4. ASSUME NEW CONSTANT ig
              PROVE  GatherOk(first, <<r>>, ps, wk, ig)'
          <5>1. GatherOk(first, <<r>>, ps, wk, ig)
            BY <1>1, <3>2, <3>4, <3>5, <4>1, StartKeeps
          <5>2. PICK vs : vs = <<r>>
            OBVIOUS
          <5>3. GatherOk(first, vs, ps, wk, ig)'
            BY <2>1, <5>1, <5>2, SceneKeepsGather
          <5>. QED
            BY <5>2, <5>3
        <4>. QED
          BY <3>4, <4>2, <4>3, <4>4
      <3>8. CASE job.kind = "areas"
        <4>1. PICK ps : ps = pointers
          OBVIOUS
        <4>2. PICK ig : ig = ignored
          OBVIOUS
        <4>3. PICK more : more = From \union first
          OBVIOUS
        <4>4. From' = more
          <5>1. From' = {Spot(job.roots[i]) : i \in 1 .. (job.at + 1)} /\ From = {Spot(job.roots[i]) : i \in 1 .. job.at}
            BY <2>3, <3>6, <3>8 DEF From
          <5>2. \A i : i \in 1 .. (job.at + 1) <=> i \in 1 .. job.at \/ i = job.at + 1
            BY <2>2
          <5>. HIDE DEF From
          <5>. QED
            BY <3>1, <3>5, <4>3, <5>1, <5>2
        <4>5. pointers' = ps /\ ignored' = ig
          BY <2>1, <3>8, <4>1, <4>2
        <4>6. PICK vs : vs = <<r>>
          OBVIOUS
        <4>7. GatherOk(more, vs, ps, wk, ig)
          <5>1. GatherOk(From \union {Spot(r)}, <<r>>, ps, wk, ig)
            BY <1>1, <2>2, <3>2, <3>3, <3>4, <4>1, <4>2, MoreKeeps
          <5>. QED
            BY <3>5, <4>3, <4>6, <5>1
        <4>8. GatherOk(more, vs, ps, wk, ig)'
          BY <2>1, <4>7, SceneKeepsGather
        <4>. QED
          BY <3>4, <4>4, <4>5, <4>6, <4>8
      <3>. QED
        BY <2>1, <3>7, <3>8
    <2>. QED
      BY <1>1, <2>1, <2>2, <2>3, <2>4, <2>5 DEF GatherInv
  <1>7. CASE UNCHANGED vars
    BY <1>3, <1>7 DEF vars
  <1>8. CASE ShowType /\ UNCHANGED gatherVars
    BY <1>3, <1>8 DEF ShowType
  <1>9. CASE DumpVariable /\ UNCHANGED gatherVars
    BY <1>3, <1>9 DEF DumpVariable
  <1>10. CASE NextAddress /\ UNCHANGED gatherVars
    BY <1>3, <1>10 DEF NextAddress, PrintText, PrintTexts, PrintNumbers, PrintRow
  <1>11. CASE NextFields /\ UNCHANGED gatherVars
    BY <1>3, <1>11 DEF NextFields, AskStatic, AskField
  <1>. QED
    BY <1>4, <1>5, <1>6, <1>7, <1>8, <1>9, <1>10, <1>11 DEF Next, NextGather

LEMMA GatherIsExact == GatherInv => GatherExact
  <1>. SUFFICES ASSUME GatherInv, job.kind \in {"graph", "areas"}, job.at <= Len(job.roots), Gathered
                PROVE  GatherExact
    BY DEF GatherExact
  <1>1. GatherOk(From, visits, pointers, work, ignored) /\ ToSet(visits) = {} /\ DOMAIN work = {}
    BY DEF GatherInv, Gathered, ToSet
  <1>2. ASSUME NEW f \in FieldsOf(Must(From, pointers))
        PROVE  Pointer(f) \in {0} \union ignored \union DOMAIN pointers \/ ~Readable(Pointer(f))
    BY <1>1 DEF GatherOk, Coming, Handled
  <1>3. ASSUME NEW a \in DOMAIN pointers
        PROVE  \E f \in FieldsOf(May(From, pointers)) : LeadsTo(f, a)
    BY <1>1 DEF GatherOk, Leads, LeadsTo
  <1>4. DOMAIN pointers \intersect ignored = {}
    BY <1>1 DEF GatherOk, SpotsOk
  <1>. QED
    BY <1>2, <1>3, <1>4
    DEF GatherExact, From, Spot, At, FieldsOf, May, Must, Mays, Musts, Spots, AllFields, Leads, LeadsTo

(* Gathering pointers finds all that can be reached, and what is in the    *)
(* fields it says: however often pointers lead back, and whichever of      *)
(* several to one address is come to first.                                *)
THEOREM GatheringIsExact == Spec => []GatherExact
  BY InitGatherInv, StepGatherInv, GatherIsExact, PTL DEF Spec

-------------------------------------------------------------------------------
(* What is known of what is dumped.                                        *)
DumpOk ==
    /\ MaxText \in Nat
    /\ \A t \in Types :
         /\ Info(t).text \in BOOLEAN
         /\ \A c \in ToSet(Members(t)) : c \in Types /\ Tag(t) = "udt" /\ Tag(c) = "data" /\ Info(c).offset \in Nat

LEMMA DumpIsOk ==
    ASSUME scene \in Scenes
    PROVE  /\ TypesOk /\ IsFiniteSet(Types) /\ DumpOk /\ MemoryOk
           /\ job \in scene.jobs /\ job.kind = "dump" =>
                 /\ job.type \in Types /\ job.at \in Nat /\ job.depth \in Nat /\ job.options \in {"auto", "none"}
                 /\ job.depth > 0 => Tag(job.type) \in {"udt", "data"} \/ Tag(TypeOf(job.type)) # "udt"
  <1>1. TypesOk /\ IsFiniteSet(Types) /\ 0 \notin Types
    BY TypesJobIs DEF TypesOk
  <1>2. ASSUME NEW t \in Types, NEW c \in ToSet(Members(t))
        PROVE  c \in Types /\ Tag(t) = "udt" /\ Tag(c) = "data" /\ Info(c).offset \in Nat
    <2>1. c \in ToSet(Children(t)) /\ LiesIn(Info(c))
      BY <1>1, MembersAre
    <2>2. c \in Types
      <3>1. Children(t) \in Seq(Types)
        BY <1>1 DEF TypesOk
      <3>. QED
        BY <2>1, <3>1 DEF ToSet
    <2>3. scene.types[t].tag = "udt" /\ scene.types[c].tag = "data"
      BY <2>1, DumpAssumption DEF Children, Info, Types
    <2>4. Info(c).offset \in Nat
      BY <1>1, <2>1, <2>2 DEF LiesIn, TypesOk
    <2>. QED
      BY <1>1, <2>2, <2>3, <2>4 DEF Tag, Info
  <1>3. MaxText \in Nat /\ \A t \in Types : Info(t).text \in BOOLEAN
    BY DumpAssumption DEF Info, Types
  <1>4. MemoryOk
    BY FieldsAssumption DEF MemoryOk
  <1>5. ASSUME job \in scene.jobs, job.kind = "dump"
        PROVE  /\ job.type \in Types /\ job.at \in Nat /\ job.depth \in Nat /\ job.options \in {"auto", "none"}
               /\ job.depth > 0 => Tag(job.type) \in {"udt", "data"} \/ Tag(TypeOf(job.type)) # "udt"
    <2>1. /\ job.type \in Types /\ job.at \in Nat /\ job.depth \in Nat /\ job.options \in {"auto", "none"}
          /\ job.depth > 0 => \/ scene.types[job.type].tag \in {"udt", "data"}
                             \/ scene.types[job.type].type = 0
                             \/ scene.types[scene.types[job.type].type].tag # "udt"
      BY <1>5, DumpAssumption DEF Types
    <2>. QED
      BY <1>1, <2>1 DEF Tag, Info, TypeOf
  <1>. QED
    BY <1>1, <1>2, <1>3, <1>4, <1>5 DEF DumpOk

(* The type whose value is shown for one.                                  *)
ValueType(t) == IF Tag(t) = "data" THEN TypeOf(t) ELSE t

HasElements(t) ==
    /\ Tag(ValueType(t)) = "array"
    /\ Tag(TypeOf(ValueType(t))) = "udt" /\ Lasts(TypeOf(ValueType(t)))

LEMMA ValueTypeIs ==
    ASSUME TypesOk, NEW t \in Types
    PROVE  /\ ValueType(t) \in {0} \union Types
           /\ Tag(ValueType(t)) # "null" => ValueType(t) \in Types /\ TypeOf(ValueType(t)) \in {0} \union Types
           /\ \A s : Tag(s) = "udt" => s # 0
  BY DEF ValueType, TypesOk, Tag

LEMMA LinesAre ==
    ASSUME TypesOk, DumpOk, NEW t \in Types
    PROVE  /\ \A p : p \in Lines(t) <=>
                 \/ \E c \in ToSet(Members(t)) : p = <<Info(c).offset, c>>
                 \/ Tag(t) = "data" /\ Tag(TypeOf(t)) = "udt" /\ \E c \in ToSet(Members(TypeOf(t))) : p = <<Info(c).offset, c>>
                 \/ HasElements(t) /\ \E i \in Elements(ValueType(t)) :
                       p = <<i * Info(TypeOf(ValueType(t))).length, TypeOf(ValueType(t))>>
           /\ \A p \in Lines(t) : p \in Nat \X Types
  <1>. DEFINE v == ValueType(t)
              e == TypeOf(v)
              A == {<<Info(c).offset, c>> : c \in ToSet(Members(t))}
              inner == {<<Info(c).offset, c>> : c \in ToSet(Members(TypeOf(t)))}
              B == IF Tag(t) = "data" /\ Tag(TypeOf(t)) = "udt" THEN inner ELSE {}
              elements == {<<i * Info(e).length, e>> : i \in Elements(v)}
              C == IF Tag(v) = "array" /\ Tag(e) = "udt" /\ Lasts(e) THEN elements ELSE {}
  <1>1. Lines(t) = A \union B \union C
    BY DEF Lines, ValueType
  <1>2. \A p : p \in A <=> \E c \in ToSet(Members(t)) : p = <<Info(c).offset, c>>
    OBVIOUS
  <1>3. \A p : p \in B <=> Tag(t) = "data" /\ Tag(TypeOf(t)) = "udt" /\ \E c \in ToSet(Members(TypeOf(t))) : p = <<Info(c).offset, c>>
    <2>1. \A p : p \in inner <=> \E c \in ToSet(Members(TypeOf(t))) : p = <<Info(c).offset, c>>
      OBVIOUS
    <2>. HIDE DEF inner
    <2>. QED
      BY <2>1
  <1>4. \A p : p \in C <=> HasElements(t) /\ \E i \in Elements(v) : p = <<i * Info(e).length, e>>
    <2>1. \A p : p \in elements <=> \E i \in Elements(v) : p = <<i * Info(e).length, e>>
      OBVIOUS
    <2>2. HasElements(t) <=> Tag(v) = "array" /\ Tag(e) = "udt" /\ Lasts(e)
      BY DEF HasElements
    <2>. HIDE DEF elements, v
    <2>. QED
      BY <2>1, <2>2
  <1>5. ASSUME NEW p \in A
        PROVE  p \in Nat \X Types
    BY <1>2 DEF DumpOk
  <1>6. ASSUME NEW p \in B
        PROVE  p \in Nat \X Types
    <2>1. TypeOf(t) \in Types
      BY <1>3, ValueTypeIs DEF TypesOk
    <2>. QED
      BY <1>3, <2>1 DEF DumpOk
  <1>7. ASSUME NEW p \in C
        PROVE  p \in Nat \X Types
    <2>1. PICK i \in Elements(v) : p = <<i * Info(e).length, e>>
      BY <1>4
    <2>2. Tag(v) = "array" /\ Tag(e) = "udt"
      BY <1>4 DEF HasElements
    <2>3. e \in Types
      BY <2>2, ValueTypeIs
    <2>4. i \in Nat /\ Info(e).length \in Nat
      BY <2>3 DEF Elements, TypesOk
    <2>5. i * Info(e).length \in Nat
      BY <2>4
    <2>. QED
      BY <2>1, <2>3, <2>5
  <1>. HIDE DEF A, B, C
  <1>8. \A p \in Lines(t) : p \in Nat \X Types
    BY <1>1, <1>5, <1>6, <1>7
  <1>9. \A p : p \in Lines(t) <=> p \in A \/ p \in B \/ p \in C
    BY <1>1
  <1>. QED
    BY <1>2, <1>3, <1>4, <1>8, <1>9

(* A line leads to a type on a lower level, perhaps by two steps.          *)
LEMMA LinesFall ==
    ASSUME scene \in Scenes, NEW D, D = [t \in Types |-> Lines(t)]
    PROVE  \E within : Falls(within, D) /\ \A d \in 1 .. Cardinality(Types) : within[d - 1] \subseteq within[d]
  <1>. DEFINE n == Cardinality(Types)
  <1>1. TypesOk /\ IsFiniteSet(Types) /\ DumpOk /\ n \in Nat
    BY DumpIsOk, FS_CardinalityType
  <1>2. PICK within : /\ within[0] = {} /\ Types \subseteq within[n]
                      /\ \A d \in 1 .. n : within[d] = {s \in Types : Inside(s) \subseteq within[d - 1]}
    BY TypesNested
  <1>. HIDE DEF n
  <1>. DEFINE grows(d) == d < n => within[d] \subseteq within[d + 1]
              good == [d \in Nat |-> grows(d)]
  <1>3. grows(0)
    BY <1>2
  <1>4. ASSUME NEW d \in Nat, grows(d)
        PROVE  grows(d + 1)
    <2>. SUFFICES ASSUME d + 1 < n
                  PROVE  within[d + 1] \subseteq within[(d + 1) + 1]
      OBVIOUS
    <2>1. PICK e \in 1 .. n : e = d + 1 /\ e - 1 = d /\ d < n
      BY <1>1
    <2>2. PICK f \in 1 .. n : f = e + 1 /\ f - 1 = e
      BY <1>1, <2>1
    <2>3. within[d] \subseteq within[e]
      BY <1>4, <2>1
    <2>4. within[e] = {s \in Types : Inside(s) \subseteq within[d]} /\ within[f] = {s \in Types : Inside(s) \subseteq within[e]}
      BY <1>2, <2>1, <2>2
    <2>. QED
      BY <2>1, <2>2, <2>3, <2>4
  <1>. HIDE DEF grows
  <1>5. good \in [Nat -> BOOLEAN] /\ \A d \in Nat : good[d] <=> grows(d)
    <2>1. \A d \in Nat : grows(d) \in BOOLEAN
      BY DEF grows
    <2>. QED
      BY <2>1
  <1>. HIDE DEF good
  <1>6. \A d \in Nat : good[d]
    <2>1. ASSUME NEW d \in Nat, good[d]
          PROVE  good[d + 1]
      BY <1>4, <1>5, <2>1
    <2>. QED
      BY <1>3, <1>5, <2>1, ByDepth
  <1>7. ASSUME NEW d \in 1 .. n
        PROVE  within[d - 1] \subseteq within[d]
    <2>1. d - 1 \in Nat /\ d - 1 < n /\ (d - 1) + 1 = d
      BY <1>1
    <2>2. grows(d - 1)
      BY <1>5, <1>6, <2>1
    <2>. QED
      BY <2>1, <2>2 DEF grows
  <1>8. ASSUME NEW d \in 1 .. n, NEW t \in Types, t \in within[d], NEW s \in Inside(t)
        PROVE  s \in within[d - 1] /\ (s \in Types => \A x \in Inside(s) : x \in within[d - 1])
    <2>1. s \in within[d - 1]
      BY <1>2, <1>8
    <2>2. d - 1 \in 1 .. n
      <3>1. d - 1 # 0
        BY <1>2, <2>1
      <3>. QED
        BY <1>1, <3>1
    <2>3. \A x \in Inside(s) : x \in within[(d - 1) - 1]
      BY <1>2, <2>1, <2>2
    <2>4. within[(d - 1) - 1] \subseteq within[d - 1]
      BY <1>7, <2>2
    <2>. QED
      BY <2>1, <2>3, <2>4
  <1>9. ASSUME NEW d \in 1 .. n, NEW t \in Types, t \in within[d], NEW p \in Lines(t)
        PROVE  p[2] \in within[d - 1]
    <2>1. \A u \in Types : \A c \in ToSet(Members(u)) : c \in Inside(u)
      BY <1>1, MembersAre DEF Inside
    <2>2. \A u \in Types : Tag(u) \in {"data", "array"} /\ TypeOf(u) # 0 => TypeOf(u) \in Inside(u) /\ TypeOf(u) \in Types
      BY <1>1 DEF Inside, TypesOk
    <2>3. CASE \E c \in ToSet(Members(t)) : p = <<Info(c).offset, c>>
      BY <1>8, <1>9, <2>1, <2>3
    <2>4. CASE Tag(t) = "data" /\ Tag(TypeOf(t)) = "udt" /\ \E c \in ToSet(Members(TypeOf(t))) : p = <<Info(c).offset, c>>
      <3>1. TypeOf(t) \in Inside(t) /\ TypeOf(t) \in Types
        BY <1>1, <2>2, <2>4, ValueTypeIs
      <3>2. \A c \in ToSet(Members(TypeOf(t))) : c \in within[d - 1]
        BY <1>8, <1>9, <2>1, <3>1
      <3>. QED
        BY <2>4, <3>2
    <2>5. CASE HasElements(t) /\ p[2] = TypeOf(ValueType(t))
      <3>. DEFINE v == ValueType(t)
      <3>1. Tag(v) = "array" /\ TypeOf(v) # 0
        BY <2>5 DEF HasElements, Lasts
      <3>2. v \in Types
        BY <1>1, <3>1, ValueTypeIs
      <3>3. TypeOf(v) \in Inside(v)
        BY <2>2, <3>1, <3>2
      <3>4. v = t \/ v \in Inside(t)
        <4>1. CASE Tag(t) = "data"
          <5>1. v = TypeOf(t) /\ v # 0
            BY <1>1, <3>2, <4>1 DEF ValueType, TypesOk
          <5>. QED
            BY <2>2, <4>1, <5>1
        <4>2. CASE Tag(t) # "data"
          BY <4>2 DEF ValueType
        <4>. QED
          BY <4>1, <4>2
      <3>. HIDE DEF v
      <3>5. TypeOf(v) \in within[d - 1]
        BY <1>8, <1>9, <3>2, <3>3, <3>4
      <3>. QED
        BY <2>5, <3>5 DEF v
    <2>. QED
      <3>1. \/ \E c \in ToSet(Members(t)) : p = <<Info(c).offset, c>>
            \/ Tag(t) = "data" /\ Tag(TypeOf(t)) = "udt" /\ \E c \in ToSet(Members(TypeOf(t))) : p = <<Info(c).offset, c>>
            \/ HasElements(t) /\ p[2] = TypeOf(ValueType(t))
        BY <1>1, LinesAre
      <3>. QED
        BY <2>3, <2>4, <2>5, <3>1
  <1>10. Falls(within, D)
    BY <1>2, <1>9 DEF Falls, n
  <1>. QED
    BY <1>7, <1>10 DEF n

LEMMA LinesClosed ==
    ASSUME scene \in Scenes, NEW all, all = LinesWithin[Cardinality(Types)]
    PROVE  \A t \in Types :
             /\ \A x \in all[t] : x[1] \in Nat /\ x[2] \in Types /\ x = <<x[1], x[2]>>
             /\ \A x : x \in all[t] <=> x = <<0, t>> \/ \E p \in Lines(t) : \E q \in all[p[2]] : x = <<p[1] + q[1], q[2]>>
             /\ \A p \in Lines(t) : \A q \in all[p[2]] : q[2] # t
  <1>. DEFINE n == Cardinality(Types)
              D == [s \in Types |-> Lines(s)]
  <1>1. TypesOk /\ IsFiniteSet(Types) /\ DumpOk /\ n \in Nat
    BY DumpIsOk, FS_CardinalityType
  <1>2. D \in [Types -> Offsets]
    <2>1. \A s \in Types : Lines(s) \in Offsets
      BY <1>1, LinesAre DEF Offsets
    <2>. QED
      BY <2>1
  <1>3. \A s \in Types : D[s] = Lines(s)
    OBVIOUS
  <1>4. PICK within : Falls(within, D) /\ \A d \in 1 .. n : within[d - 1] \subseteq within[d]
    BY LinesFall
  <1>. HIDE DEF D
  <1>5. IsWithin(LinesWithin, D)
    <2>1. PICK W : IsWithin(W, D)
      BY <1>1, <1>2, WithinExists
    <2>2. \A parts : \A s \in Types : Moved(D, parts, s) = UNION {{<<p[1] + q[1], q[2]>> : q \in parts[p[2]]} : p \in Lines(s)}
      BY <1>3 DEF Moved
    <2>. DEFINE body(f, d) ==
                  [s \in Types |->
                     {<<0, s>>} \union
                     IF d = 0 THEN {}
                     ELSE UNION {{<<p[1] + q[1], q[2]>> : q \in f[d - 1][p[2]]} : p \in Lines(s)}]
                own(f, d) == [s \in Types |-> {<<0, s>>} \union IF d = 0 THEN {} ELSE Moved(D, f[d - 1], s)]
    <2>3. \A f : \A d \in 0 .. n : own(f, d) = body(f, d)
      <3>. HIDE DEF n
      <3>. QED
        BY <2>2
    <2>4. W = [d \in 0 .. n |-> own(W, d)]
      BY <2>1 DEF IsWithin
    <2>5. W = [d \in 0 .. n |-> body(W, d)]
      <3>. HIDE DEF n, own, body
      <3>. QED
        BY <2>3, <2>4
    <2>6. LinesWithin = [d \in 0 .. n |-> body(LinesWithin, d)]
      BY <2>5 DEF LinesWithin
    <2>7. LinesWithin = [d \in 0 .. n |-> own(LinesWithin, d)]
      <3>. HIDE DEF n, own, body
      <3>. QED
        BY <2>3, <2>6
    <2>. QED
      BY <2>7 DEF IsWithin
  <1>6. Closed(all, D)
    BY <1>1, <1>2, <1>4, <1>5, WithinCloses
  <1>7. all \in [Types -> Offsets]
    BY <1>6 DEF Closed
  <1>8. \A t \in Types : \A x \in all[t] : x[1] \in Nat /\ x[2] \in Types /\ x = <<x[1], x[2]>>
    BY <1>7 DEF Offsets
  <1>9. \A t \in Types : \A x : x \in all[t] <=> x = <<0, t>> \/ \E p \in Lines(t) : \E q \in all[p[2]] : x = <<p[1] + q[1], q[2]>>
    BY <1>3, <1>6 DEF Closed
  <1>10. /\ within[0] = {} /\ Types \subseteq within[n]
         /\ \A d \in 1 .. n : \A t \in Types : t \in within[d] => \A p \in Lines(t) : p[2] \in within[d - 1] /\ p[2] \in Types
    <2>1. \A t \in Types : \A p \in Lines(t) : p[2] \in Types
      BY <1>1, LinesAre
    <2>. QED
      BY <1>3, <1>4, <2>1 DEF Falls
  <1>. HIDE DEF n
  <1>. DEFINE stays(d) == d <= n => \A t \in Types : t \in within[d] => \A x \in all[t] : x[2] \in within[d]
              good == [d \in Nat |-> stays(d)]
  <1>11. stays(0)
    BY <1>10
  <1>12. ASSUME NEW d \in Nat, stays(d)
         PROVE  stays(d + 1)
    <2>. SUFFICES ASSUME d + 1 <= n, NEW t \in Types, t \in within[d + 1], NEW x \in all[t]
                  PROVE  x[2] \in within[d + 1]
      OBVIOUS
    <2>1. PICK e \in 1 .. n : e = d + 1 /\ e - 1 = d /\ d <= n
      BY <1>1
    <2>2. CASE x = <<0, t>>
      BY <2>2
    <2>3. CASE \E p \in Lines(t) : \E q \in all[p[2]] : x = <<p[1] + q[1], q[2]>>
      <3>1. PICK p \in Lines(t) : \E q \in all[p[2]] : x = <<p[1] + q[1], q[2]>>
        BY <2>3
      <3>2. PICK q \in all[p[2]] : x = <<p[1] + q[1], q[2]>>
        BY <3>1
      <3>3. p[2] \in within[d] /\ p[2] \in Types
        BY <1>10, <2>1
      <3>4. q[2] \in within[d]
        BY <1>12, <2>1, <3>3
      <3>5. within[d] \subseteq within[e]
        BY <1>4, <2>1
      <3>. QED
        BY <2>1, <3>2, <3>4, <3>5
    <2>. QED
      BY <1>9, <2>2, <2>3
  <1>. HIDE DEF stays
  <1>13. good \in [Nat -> BOOLEAN] /\ \A d \in Nat : good[d] <=> stays(d)
    <2>1. \A d \in Nat : stays(d) \in BOOLEAN
      BY DEF stays
    <2>. QED
      BY <2>1
  <1>. HIDE DEF good
  <1>14. \A d \in Nat : good[d]
    <2>1. ASSUME NEW d \in Nat, good[d]
          PROVE  good[d + 1]
      BY <1>12, <1>13, <2>1
    <2>. QED
      BY <1>11, <1>13, <2>1, ByDepth
  <1>15. ASSUME NEW t \in Types, NEW p \in Lines(t), NEW q \in all[p[2]], q[2] = t
         PROVE  FALSE
    <2>. DEFINE levels == {d \in 0 .. n : t \in within[d]}
    <2>1. n \in levels /\ levels \in SUBSET Nat
      BY <1>1, <1>10
    <2>2. PICK d \in levels : \A m \in levels : d <= m
      <3>. HIDE DEF levels
      <3>. QED
        BY <2>1, LeastOf
    <2>3. d \in 1 .. n /\ d - 1 \in Nat /\ d - 1 <= n
      <3>1. d \in 0 .. n /\ d # 0
        BY <1>10
      <3>. QED
        BY <1>1, <3>1
    <2>4. p[2] \in within[d - 1] /\ p[2] \in Types
      BY <1>10, <2>3
    <2>5. stays(d - 1)
      BY <1>13, <1>14, <2>3
    <2>6. t \in within[d - 1]
      BY <1>15, <2>3, <2>4, <2>5 DEF stays
    <2>7. d - 1 \in levels
      BY <1>1, <2>3, <2>6
    <2>. QED
      BY <2>2, <2>3, <2>7
  <1>. QED
    BY <1>8, <1>9, <1>15

(* The lines of a type at an address are its own and those under it.       *)
Under(a, t) == UNION {LinesAt(a + p[1], p[2]) : p \in Lines(t)}

LEMMA LinesAtAre ==
    ASSUME scene \in Scenes, NEW a \in Nat, NEW t \in Types
    PROVE  LinesAt(a, t) = {<<a, t>>} \union Under(a, t) /\ <<a, t>> \notin Under(a, t)
  <1>. DEFINE all == LinesWithin[Cardinality(Types)]
              line(b, q) == <<b + q[1], q[2]>>
  <1>1. PICK al : al = all
    OBVIOUS
  <1>2. \A s \in Types :
          /\ \A x \in al[s] : x[1] \in Nat /\ x[2] \in Types /\ x = <<x[1], x[2]>>
          /\ \A x : x \in al[s] <=> x = <<0, s>> \/ \E p \in Lines(s) : \E q \in al[p[2]] : x = <<p[1] + q[1], q[2]>>
          /\ \A p \in Lines(s) : \A q \in al[p[2]] : q[2] # s
    BY <1>1, LinesClosed
  <1>3. \A p \in Lines(t) : p[1] \in Nat /\ p[2] \in Types
    BY DumpIsOk, LinesAre
  <1>4. \A b, s : LinesAt(b, s) = {line(b, q) : q \in al[s]}
    BY <1>1 DEF LinesAt
  <1>. HIDE DEF all
  <1>5. \A x : x \in Under(a, t) <=> \E p \in Lines(t) : \E q \in al[p[2]] : x = line(a + p[1], q)
    <2>. DEFINE lines(p) == LinesAt(a + p[1], p[2])
    <2>1. \A p : \A x : x \in lines(p) <=> \E q \in al[p[2]] : x = line(a + p[1], q)
      <3>. HIDE DEF line
      <3>. QED
        BY <1>4
    <2>2. \A x : x \in Under(a, t) <=> \E p \in Lines(t) : x \in lines(p)
      BY DEF Under
    <2>. HIDE DEF lines, line
    <2>. QED
      BY <2>1, <2>2
  <1>6. ASSUME NEW x \in LinesAt(a, t)
        PROVE  x = <<a, t>> \/ x \in Under(a, t)
    <2>1. PICK y \in al[t] : x = <<a + y[1], y[2]>>
      BY <1>4
    <2>2. CASE y = <<0, t>>
      BY <2>1, <2>2
    <2>3. CASE \E p \in Lines(t) : \E q \in al[p[2]] : y = <<p[1] + q[1], q[2]>>
      <3>1. PICK p \in Lines(t) : \E q \in al[p[2]] : y = <<p[1] + q[1], q[2]>>
        BY <2>3
      <3>2. PICK q \in al[p[2]] : y = <<p[1] + q[1], q[2]>>
        BY <3>1
      <3>3. p[1] \in Nat /\ q[1] \in Nat
        BY <1>2, <1>3
      <3>4. x = line(a + p[1], q)
        BY <2>1, <3>2, <3>3
      <3>. QED
        BY <1>5, <3>4
    <2>. QED
      BY <1>2, <2>2, <2>3
  <1>7. ASSUME NEW x \in Under(a, t)
        PROVE  x \in LinesAt(a, t) /\ x # <<a, t>>
    <2>1. PICK p \in Lines(t) : \E q \in al[p[2]] : x = line(a + p[1], q)
      BY <1>5
    <2>2. PICK q \in al[p[2]] : x = line(a + p[1], q)
      BY <2>1
    <2>3. p[1] \in Nat /\ q[1] \in Nat /\ q[2] # t
      BY <1>2, <1>3
    <2>4. <<p[1] + q[1], q[2]>> \in al[t]
      BY <1>2
    <2>5. x = line(a, <<p[1] + q[1], q[2]>>)
      BY <2>2, <2>3
    <2>6. x # <<a, t>>
      BY <2>2, <2>3
    <2>. HIDE DEF line
    <2>. QED
      BY <1>4, <2>4, <2>5, <2>6
  <1>8. <<a, t>> \in LinesAt(a, t)
    <2>1. <<0, t>> \in al[t] /\ line(a, <<0, t>>) = <<a, t>>
      BY <1>2
    <2>. HIDE DEF line
    <2>. QED
      BY <1>4, <2>1
  <1>. QED
    BY <1>6, <1>7, <1>8

LEMMA UnderIs ==
    ASSUME scene \in Scenes, NEW a \in Nat, NEW t \in Types
    PROVE  /\ Tag(t) = "udt" => Under(a, t) = UNION {LinesAt(a + Info(c).offset, c) : c \in ToSet(Members(t))}
           /\ Tag(t) # "udt" => Members(t) = <<>>
           /\ Tag(t) = "data" /\ Tag(TypeOf(t)) = "udt" => Under(a, t) = Under(a, TypeOf(t))
           /\ HasElements(t) =>
                LET e == TypeOf(ValueType(t))
                IN  Under(a, t) = UNION {LinesAt(a + i * Info(e).length, e) : i \in Elements(ValueType(t))}
           /\ Tag(t) # "udt" /\ Tag(ValueType(t)) # "udt" /\ ~HasElements(t) => Under(a, t) = {}
  <1>1. TypesOk /\ IsFiniteSet(Types) /\ DumpOk
    BY DumpIsOk
  <1>. DEFINE lines(p) == LinesAt(a + p[1], p[2])
              part(c) == LinesAt(a + Info(c).offset, c)
              members(s) == UNION {part(c) : c \in ToSet(Members(s))}
  <1>2. \A s : Under(a, s) = UNION {lines(p) : p \in Lines(s)}
    BY DEF Under
  <1>3. \A c : lines(<<Info(c).offset, c>>) = part(c)
    OBVIOUS
  <1>4. \A s \in Types : Tag(s) # "udt" => ToSet(Members(s)) = {}
    BY <1>1 DEF DumpOk
  <1>5. ASSUME NEW s \in Types, Tag(s) # "udt"
        PROVE  Members(s) = <<>>
    <2>1. Members(s) \in Seq(Types) /\ ToSet(Members(s)) = {}
      BY <1>1, <1>4, <1>5, MembersAre
    <2>2. Len(Members(s)) = 0
      <3>1. \A i \in DOMAIN Members(s) : Members(s)[i] \in ToSet(Members(s))
        BY DEF ToSet
      <3>2. PICK m \in Seq(Types) : m = Members(s)
        BY <2>1
      <3>3. 1 \notin DOMAIN m
        BY <2>1, <3>1, <3>2
      <3>4. Len(m) \in Nat /\ DOMAIN m = 1 .. Len(m)
        BY LenProperties
      <3>. QED
        BY <3>2, <3>3, <3>4
    <2>. QED
      BY <2>1, <2>2
  <1>6. ASSUME NEW s \in Types, Tag(s) = "udt"
        PROVE  Under(a, s) = members(s)
    <2>1. \A p : p \in Lines(s) <=> \E c \in ToSet(Members(s)) : p = <<Info(c).offset, c>>
      <3>1. ~HasElements(s) /\ Tag(s) # "data"
        BY <1>6 DEF HasElements, ValueType
      <3>. QED
        BY <1>1, <3>1, LinesAre
    <2>2. \A x : x \in Under(a, s) <=> \E p \in Lines(s) : x \in lines(p)
      BY <1>2
    <2>3. \A x : x \in members(s) <=> \E c \in ToSet(Members(s)) : x \in part(c)
      OBVIOUS
    <2>. HIDE DEF lines, part
    <2>4. \A x : x \in Under(a, s) <=> x \in members(s)
      <3>. HIDE DEF members
      <3>1. ASSUME NEW x \in Under(a, s)
            PROVE  x \in members(s)
        <4>1. PICK p \in Lines(s) : x \in lines(p)
          BY <2>2
        <4>2. PICK c \in ToSet(Members(s)) : p = <<Info(c).offset, c>>
          BY <2>1
        <4>. QED
          BY <1>3, <2>3, <4>1, <4>2
      <3>2. ASSUME NEW x \in members(s)
            PROVE  x \in Under(a, s)
        <4>1. PICK c \in ToSet(Members(s)) : x \in part(c)
          BY <2>3
        <4>2. <<Info(c).offset, c>> \in Lines(s)
          BY <2>1
        <4>. QED
          BY <1>3, <2>2, <4>1, <4>2
      <3>. QED
        BY <3>1, <3>2
    <2>. QED
      BY <1>2, <2>4
  <1>7. ASSUME Tag(t) = "data", Tag(TypeOf(t)) = "udt"
        PROVE  Under(a, t) = Under(a, TypeOf(t))
    <2>1. TypeOf(t) \in Types
      BY <1>1, <1>7, ValueTypeIs DEF TypesOk
    <2>2. Under(a, TypeOf(t)) = members(TypeOf(t))
      BY <1>6, <1>7, <2>1
    <2>3. \A p : p \in Lines(t) <=> \E c \in ToSet(Members(TypeOf(t))) : p = <<Info(c).offset, c>>
      <3>1. ~HasElements(t) /\ ToSet(Members(t)) = {}
        BY <1>4, <1>7 DEF HasElements, ValueType
      <3>. QED
        BY <1>1, <1>7, <3>1, LinesAre
    <2>. HIDE DEF lines, part
    <2>. QED
      BY <1>2, <1>3, <2>2, <2>3
  <1>8. ASSUME HasElements(t), NEW e, e = TypeOf(ValueType(t))
        PROVE  Under(a, t) = UNION {LinesAt(a + i * Info(e).length, e) : i \in Elements(ValueType(t))}
    <2>1. \A p : p \in Lines(t) <=> \E i \in Elements(ValueType(t)) : p = <<i * Info(e).length, e>>
      <3>1. Tag(t) # "udt" /\ ~(Tag(t) = "data" /\ Tag(TypeOf(t)) = "udt")
        BY <1>8 DEF HasElements, ValueType
      <3>2. ToSet(Members(t)) = {}
        BY <1>4, <3>1
      <3>. QED
        BY <1>1, <1>8, <3>1, <3>2, LinesAre
    <2>2. \A i : lines(<<i * Info(e).length, e>>) = LinesAt(a + i * Info(e).length, e)
      OBVIOUS
    <2>3. \A x : x \in Under(a, t) <=> \E p \in Lines(t) : x \in lines(p)
      BY <1>2
    <2>. HIDE DEF lines
    <2>4. \A x : x \in Under(a, t) <=> \E i \in Elements(ValueType(t)) : x \in LinesAt(a + i * Info(e).length, e)
      <3>1. ASSUME NEW x \in Under(a, t)
            PROVE  \E i \in Elements(ValueType(t)) : x \in LinesAt(a + i * Info(e).length, e)
        <4>1. PICK p \in Lines(t) : x \in lines(p)
          BY <2>3
        <4>2. PICK i \in Elements(ValueType(t)) : p = <<i * Info(e).length, e>>
          BY <2>1
        <4>. QED
          BY <2>2, <4>1, <4>2
      <3>2. ASSUME NEW i \in Elements(ValueType(t)), NEW x \in LinesAt(a + i * Info(e).length, e)
            PROVE  x \in Under(a, t)
        <4>1. <<i * Info(e).length, e>> \in Lines(t)
          BY <2>1
        <4>. QED
          BY <2>2, <2>3, <4>1
      <3>. QED
        BY <3>1, <3>2
    <2>. QED
      BY <1>2, <2>4
  <1>9. ASSUME Tag(t) # "udt", Tag(ValueType(t)) # "udt", ~HasElements(t)
        PROVE  Under(a, t) = {}
    <2>1. ~(Tag(t) = "data" /\ Tag(TypeOf(t)) = "udt") /\ ToSet(Members(t)) = {}
      BY <1>4, <1>9 DEF ValueType
    <2>2. Lines(t) = {}
      BY <1>1, <1>9, <2>1, LinesAre
    <2>. HIDE DEF lines
    <2>. QED
      BY <1>2, <2>2
  <1>. QED
    BY <1>5, <1>6, <1>7, <1>8, <1>9

-------------------------------------------------------------------------------
(* A stream of memory is where the address is, or has come to its end.     *)
Streams == [at : Nat, end : Nat]

StreamOk(s, a) == s.at <= s.end /\ (s.at = a \/ Eof(s))

LEMMA ReachOfEnded ==
    ASSUME NEW s \in Streams, NEW a \in Nat, StreamOk(s, a), NEW n \in Nat
    PROVE  /\ Reach(s, n) \in 0 .. n /\ s.at + Reach(s, n) <= s.end
           /\ \A k \in 0 .. (Reach(s, n) - 1) : Readable(s.at + k)
           /\ Reach(s, n) = n \/ s.at + Reach(s, n) = s.end \/ ~Readable(s.at + Reach(s, n))
           /\ s.at # a => Reach(s, n) = 0
  <1>. DEFINE r == Reach(s, n)
  <1>1. s.at \in Nat /\ s.end \in Nat /\ s.at <= s.end
    BY DEF Streams, StreamOk
  <1>2. /\ r \in 0 .. n /\ s.at + r <= s.end
        /\ \A k \in 0 .. (r - 1) : Readable(s.at + k)
        /\ r = n \/ s.at + r = s.end \/ ~Readable(s.at + r)
    BY <1>1, ReachIs
  <1>. HIDE DEF r
  <1>3. ASSUME s.at # a, r # 0
        PROVE  FALSE
    <2>1. s.at = s.end \/ ~Readable(s.at)
      BY <1>3 DEF StreamOk, Eof
    <2>2. r > 0 /\ 0 \in 0 .. (r - 1) /\ s.at + 0 = s.at
      BY <1>1, <1>2, <1>3
    <2>3. Readable(s.at)
      BY <1>2, <2>2
    <2>. QED
      BY <1>1, <1>2, <2>1, <2>2, <2>3
  <1>. QED
    BY <1>2, <1>3 DEF r

LEMMA SkipIs ==
    ASSUME NEW s \in Streams, NEW a \in Nat, StreamOk(s, a), NEW n \in Nat
    PROVE  Skipped(s, n) \in Streams /\ StreamOk(Skipped(s, n), a + n)
  <1>. DEFINE r == Reach(s, n)
              t == Skipped(s, n)
  <1>1. s.at \in Nat /\ s.end \in Nat /\ s.at <= s.end
    BY DEF Streams, StreamOk
  <1>2. /\ r \in 0 .. n /\ s.at + r <= s.end
        /\ r = n \/ s.at + r = s.end \/ ~Readable(s.at + r)
        /\ s.at # a => r = 0
    BY ReachOfEnded
  <1>3. t = [at |-> s.at + r, end |-> s.end]
    BY DEF Skipped, Streams
  <1>. HIDE DEF r, t
  <1>4. t \in Streams /\ t.at = s.at + r /\ t.end = s.end
    BY <1>1, <1>2, <1>3 DEF Streams
  <1>5. CASE s.at = a
    BY <1>1, <1>2, <1>4, <1>5 DEF StreamOk, Eof, t
  <1>6. CASE s.at # a
    <2>1. t.at = s.at /\ Eof(s)
      BY <1>1, <1>2, <1>4, <1>6 DEF StreamOk
    <2>. QED
      BY <1>1, <1>4, <2>1 DEF StreamOk, Eof, t
  <1>. QED
    BY <1>5, <1>6

LEMMA FirstRead ==
    ASSUME MemoryOk, NEW s \in Streams, NEW a \in Nat, StreamOk(s, a), NEW n \in {1, 2}, CanRead(s, n)
    PROVE  s.at = a /\ Number(s.at, n) \in Nat
  <1>1. Reach(s, n) = n /\ n \in Nat /\ n # 0
    BY DEF CanRead
  <1>2. s.at = a /\ \A k \in 0 .. (n - 1) : Readable(a + k)
    BY <1>1, ReachOfEnded
  <1>3. IsNumber(a, n)
    BY <1>2 DEF IsNumber, Held
  <1>. QED
    BY <1>2, <1>3, NumberIsNat

LEMMA StreamForIs ==
    ASSUME NEW a \in Nat, NEW n \in Nat
    PROVE  /\ StreamFor(a, n) \in Streams /\ StreamOk(StreamFor(a, n), a)
           /\ n > 0 => (Eof(StreamFor(a, n)) <=> ~Readable(a))
  BY DEF StreamFor, Streams, StreamOk, Eof

-------------------------------------------------------------------------------
(* The calls, and those they make.                                         *)
CallOk(c) ==
    /\ StreamOk(c.stream, c.at)
    /\ c.depth = 0 \/ Tag(c.type) \in {"udt", "data"} \/ Tag(TypeOf(c.type)) # "udt"
    /\ Tag(c.type) = "data" => c.display = c.type

Calls ==
    {c \in [type : Types, display : Types, at : Nat, stream : Streams, depth : Nat, options : {"auto", "none"}] : CallOk(c)}

LEMMA CallIs ==
    ASSUME NEW t \in Types, NEW display \in Types, NEW a \in Nat, NEW s \in Streams, NEW d \in Nat,
           NEW o \in {"auto", "none"}, StreamOk(s, a), Tag(t) = "data" => display = t,
           d = 0 \/ Tag(t) \in {"udt", "data"} \/ Tag(TypeOf(t)) # "udt"
    PROVE  /\ Call(t, display, a, s, d, o) \in Calls
           /\ LET c == Call(t, display, a, s, d, o)
              IN  c.type = t /\ c.display = display /\ c.at = a /\ c.stream = s /\ c.depth = d /\ c.options = o
  BY DEF Call, Calls, CallOk

LEMMA InCalls ==
    ASSUME NEW c \in Calls
    PROVE  /\ c.type \in Types /\ c.display \in Types /\ c.at \in Nat /\ c.stream \in Streams /\ c.depth \in Nat
           /\ c.options \in {"auto", "none"} /\ CallOk(c) /\ Shown(c) = ValueType(c.type)
  BY DEF Calls, Shown, ValueType

MemberCall(c, m) == Call(m, m, c.at + Info(m).offset, Skipped(c.stream, Info(m).offset), c.depth, "auto")
ElementCall(c, e, k) == Call(e, e, c.at + k, Skipped(c.stream, k), c.depth + 1, "auto")

LEMMA MemberCallsAre ==
    ASSUME scene \in Scenes, NEW c \in Calls
    PROVE  /\ MemberCalls(c) \in Seq(Calls) /\ ToSet(MemberCalls(c)) = {MemberCall(c, m) : m \in ToSet(Members(c.type))}
           /\ \A m \in ToSet(Members(c.type)) :
                 /\ MemberCall(c, m) \in Calls /\ m \in Types /\ Tag(m) = "data" /\ Tag(c.type) = "udt" /\ Info(m).offset \in Nat
                 /\ MemberCall(c, m).type = m /\ MemberCall(c, m).display = m /\ MemberCall(c, m).at = c.at + Info(m).offset
                 /\ MemberCall(c, m).stream = Skipped(c.stream, Info(m).offset)
                 /\ MemberCall(c, m).depth = c.depth /\ MemberCall(c, m).options = "auto"
  <1>1. TypesOk /\ DumpOk
    BY DumpIsOk
  <1>2. /\ c.type \in Types /\ c.at \in Nat /\ c.stream \in Streams /\ c.depth \in Nat /\ StreamOk(c.stream, c.at)
    BY InCalls DEF CallOk
  <1>3. ASSUME NEW m \in ToSet(Members(c.type))
        PROVE  /\ MemberCall(c, m) \in Calls /\ m \in Types /\ Tag(m) = "data" /\ Tag(c.type) = "udt" /\ Info(m).offset \in Nat
               /\ MemberCall(c, m).type = m /\ MemberCall(c, m).display = m /\ MemberCall(c, m).at = c.at + Info(m).offset
               /\ MemberCall(c, m).stream = Skipped(c.stream, Info(m).offset)
               /\ MemberCall(c, m).depth = c.depth /\ MemberCall(c, m).options = "auto"
    <2>1. m \in Types /\ Tag(m) = "data" /\ Tag(c.type) = "udt" /\ Info(m).offset \in Nat
      BY <1>1, <1>2 DEF DumpOk
    <2>2. /\ Skipped(c.stream, Info(m).offset) \in Streams
          /\ StreamOk(Skipped(c.stream, Info(m).offset), c.at + Info(m).offset)
      BY <1>2, <2>1, SkipIs
    <2>3. c.at + Info(m).offset \in Nat
      BY <1>2, <2>1
    <2>. QED
      BY <1>2, <2>1, <2>2, <2>3, CallIs DEF MemberCall
  <1>4. PICK ms \in Seq(Types) : ms = Members(c.type)
    BY <1>1, <1>2, MembersAre
  <1>5. MemberCalls(c) = [i \in DOMAIN ms |-> MemberCall(c, ms[i])]
    BY <1>4 DEF MemberCalls, MemberCall
  <1>6. DOMAIN ms = 1 .. Len(ms) /\ Len(ms) \in Nat /\ \A i \in DOMAIN ms : ms[i] \in ToSet(ms)
    BY DEF ToSet
  <1>7. MemberCalls(c) \in Seq(Calls)
    <2>1. \A i \in 1 .. Len(ms) : MemberCall(c, ms[i]) \in Calls
      BY <1>3, <1>4, <1>6
    <2>. HIDE DEF Calls
    <2>. QED
      BY <1>5, <1>6, <2>1
  <1>8. ToSet(MemberCalls(c)) = {MemberCall(c, m) : m \in ToSet(ms)}
    BY <1>5 DEF ToSet
  <1>. QED
    BY <1>3, <1>4, <1>7, <1>8

ElementCallsAre(c, v, e) ==
    /\ ~HasElements(c.type) => ArrayCalls(c) = <<>>
    /\ HasElements(c.type) =>
         /\ ArrayCalls(c) \in Seq(Calls)
         /\ ToSet(ArrayCalls(c)) = {ElementCall(c, e, i * Info(e).length) : i \in Elements(v)}
         /\ e \in Types /\ Tag(e) = "udt"
         /\ \A i \in Elements(v) :
              LET k == i * Info(e).length
                  d == ElementCall(c, e, k)
              IN  /\ d \in Calls /\ k \in Nat
                  /\ d.type = e /\ d.display = e /\ d.at = c.at + k /\ d.depth = c.depth + 1 /\ d.options = "auto"

LEMMA ArrayCallsAre ==
    ASSUME scene \in Scenes, NEW c \in Calls, Tag(ValueType(c.type)) = "array"
    PROVE  ElementCallsAre(c, ValueType(c.type), TypeOf(ValueType(c.type)))
  <1>0. PICK v, e : v = ValueType(c.type) /\ e = TypeOf(v) /\ Tag(v) = "array"
    OBVIOUS
  <1>1. TypesOk /\ DumpOk
    BY DumpIsOk
  <1>2. c.type \in Types /\ c.at \in Nat /\ c.stream \in Streams /\ c.depth \in Nat /\ StreamOk(c.stream, c.at) /\ Shown(c) = v
    BY <1>0, InCalls DEF CallOk
  <1>3. HasElements(c.type) <=> Tag(e) = "udt" /\ Lasts(e)
    BY <1>0 DEF HasElements
  <1>4. ASSUME ~HasElements(c.type)
        PROVE  ArrayCalls(c) = <<>>
    BY <1>0, <1>2, <1>3, <1>4 DEF ArrayCalls
  <1>5. ASSUME HasElements(c.type)
        PROVE  /\ ArrayCalls(c) \in Seq(Calls)
               /\ ToSet(ArrayCalls(c)) = {ElementCall(c, e, i * Info(e).length) : i \in Elements(v)}
               /\ e \in Types /\ Tag(e) = "udt"
               /\ \A i \in Elements(v) :
                    LET k == i * Info(e).length
                        d == ElementCall(c, e, k)
                    IN  /\ d \in Calls /\ k \in Nat
                        /\ d.type = e /\ d.display = e /\ d.at = c.at + k /\ d.depth = c.depth + 1 /\ d.options = "auto"
    <2>. DEFINE n == Info(v).count
                length == Info(e).length
    <2>1. Tag(e) = "udt" /\ Lasts(e) /\ e # 0
      BY <1>3, <1>5 DEF Lasts
    <2>2. v \in Types /\ e \in Types
      BY <1>0, <1>1, <1>2, <2>1, ValueTypeIs
    <2>3. n \in Nat /\ length \in Nat
      BY <1>1, <2>2 DEF TypesOk
    <2>4. Elements(v) \subseteq Nat /\ \A i : i \in Elements(v) <=> i + 1 \in 1 .. n /\ i \in Nat
      BY <2>3 DEF Elements
    <2>5. ArrayCalls(c) = [i \in 1 .. n |-> ElementCall(c, e, (i - 1) * length)]
      BY <1>0, <1>2, <2>1 DEF ArrayCalls, ElementCall
    <2>. HIDE DEF n, length
    <2>6. \A i \in Nat : i * length \in Nat
      BY <2>3
    <2>7. ASSUME NEW k \in Nat
          PROVE  LET d == ElementCall(c, e, k)
                 IN  /\ d \in Calls
                     /\ d.type = e /\ d.display = e /\ d.at = c.at + k /\ d.depth = c.depth + 1 /\ d.options = "auto"
      <3>1. Skipped(c.stream, k) \in Streams /\ StreamOk(Skipped(c.stream, k), c.at + k)
        BY <1>2, SkipIs
      <3>2. c.at + k \in Nat /\ c.depth + 1 \in Nat
        BY <1>2
      <3>. QED
        BY <2>1, <2>2, <3>1, <3>2, CallIs DEF ElementCall
    <2>8. ASSUME NEW i \in 1 .. n
          PROVE  i - 1 \in Nat /\ i - 1 \in Elements(v) /\ ElementCall(c, e, (i - 1) * length) \in Calls
      <3>1. i - 1 \in Nat /\ (i - 1) + 1 = i
        BY <2>3
      <3>. QED
        BY <2>4, <2>6, <2>7, <3>1
    <2>9. ArrayCalls(c) \in Seq(Calls)
      <3>. DEFINE call(i) == ElementCall(c, e, (i - 1) * length)
      <3>1. \A i \in 1 .. n : call(i) \in Calls
        BY <2>8
      <3>2. ArrayCalls(c) = [i \in 1 .. n |-> call(i)]
        BY <2>5
      <3>. HIDE DEF Calls, call
      <3>. QED
        BY <2>3, <3>1, <3>2
    <2>10. ToSet(ArrayCalls(c)) = {ElementCall(c, e, i * length) : i \in Elements(v)}
      <3>1. DOMAIN ArrayCalls(c) = 1 .. n /\ \A i \in 1 .. n : ArrayCalls(c)[i] = ElementCall(c, e, (i - 1) * length)
        BY <2>5
      <3>2. ASSUME NEW i \in 1 .. n
            PROVE  ArrayCalls(c)[i] \in {ElementCall(c, e, j * length) : j \in Elements(v)}
        BY <2>8, <3>1
      <3>3. ASSUME NEW i \in Elements(v)
            PROVE  ElementCall(c, e, i * length) \in ToSet(ArrayCalls(c))
        <4>1. i + 1 \in 1 .. n /\ (i + 1) - 1 = i
          BY <2>4
        <4>2. ArrayCalls(c)[i + 1] = ElementCall(c, e, i * length)
          BY <3>1, <4>1
        <4>. QED
          BY <3>1, <4>1, <4>2 DEF ToSet
      <3>4. \A d \in ToSet(ArrayCalls(c)) : \E i \in 1 .. n : d = ArrayCalls(c)[i]
        BY <3>1 DEF ToSet
      <3>. QED
        BY <3>2, <3>3, <3>4
    <2>. QED
      BY <2>1, <2>2, <2>4, <2>6, <2>7, <2>9, <2>10 DEF length
  <1>6. ElementCallsAre(c, v, e)
    <2>. HIDE DEF Calls
    <2>. QED
      BY <1>4, <1>5 DEF ElementCallsAre
  <1>. QED
    BY <1>0, <1>6

LEMMA PointerCallsAre ==
    ASSUME scene \in Scenes, NEW c \in Calls
    PROVE  /\ PointerCalls(c) \in Seq(Calls)
           /\ c.depth > 0 \/ Tag(ValueType(c.type)) # "pointer" => PointerCalls(c) = <<>>
           /\ \A d \in ToSet(PointerCalls(c)) :
                 Tag(d.type) = "udt" /\ d.display = d.type /\ d.depth = c.depth + 1 /\ d.options = "auto"
  <1>1. TypesOk /\ DumpOk /\ MemoryOk
    BY DumpIsOk
  <1>2. /\ c.type \in Types /\ c.at \in Nat /\ c.stream \in Streams /\ c.depth \in Nat /\ StreamOk(c.stream, c.at)
        /\ Shown(c) = ValueType(c.type)
    BY InCalls DEF CallOk
  <1>. DEFINE p == Shown(c)
              target == TypeOf(p)
              a == Target(p, c.stream)
              stream == StreamFor(a, Info(target).length)
              call == Call(target, target, a, stream, c.depth + 1, "auto")
              there == Followed(p, c.stream) /\ Tag(target) = "udt" /\ c.depth < 1
  <1>3. PointerCalls(c) = IF there THEN <<call>> ELSE <<>>
    BY DEF PointerCalls
  <1>4. c.depth > 0 \/ Tag(ValueType(c.type)) # "pointer" => ~there
    BY <1>2 DEF Followed
  <1>5. ASSUME there
        PROVE  /\ call \in Calls
               /\ Tag(call.type) = "udt" /\ call.display = call.type /\ call.depth = c.depth + 1 /\ call.options = "auto"
    <2>1. Tag(p) = "pointer" /\ Info(p).length \in {1, 2} /\ CanRead(c.stream, Info(p).length) /\ Tag(target) = "udt"
      BY <1>5 DEF Followed
    <2>2. target \in Types
      BY <1>1, <1>2, <2>1, ValueTypeIs
    <2>3. a \in Nat
      BY <1>1, <1>2, <2>1, FirstRead DEF Target
    <2>4. Info(target).length \in Nat /\ c.depth + 1 \in Nat
      BY <1>1, <1>2, <2>2 DEF TypesOk
    <2>. HIDE DEF p, target, a
    <2>5. stream \in Streams /\ StreamOk(stream, a)
      BY <2>3, <2>4, StreamForIs
    <2>. HIDE DEF stream
    <2>. QED
      BY <2>1, <2>2, <2>3, <2>4, <2>5, CallIs
  <1>. HIDE DEF there, call
  <1>6. CASE there
    <2>1. PointerCalls(c) = <<call>>
      BY <1>3, <1>6
    <2>2. <<call>> \in Seq(Calls) /\ ToSet(<<call>>) = {call}
      <3>. HIDE DEF Calls
      <3>. QED
        BY <1>5, <1>6 DEF ToSet
    <2>. QED
      BY <1>4, <1>5, <1>6, <2>1, <2>2
  <1>7. CASE ~there
    BY <1>3, <1>7 DEF ToSet
  <1>. QED
    BY <1>6, <1>7

-------------------------------------------------------------------------------
(* The lines that come from a call and those it leads to: its own, what is *)
(* under its type, and what the pointers of the outermost type point to.   *)
FromPointer(c) == UNION {LinesAt(d.at, d.type) : d \in ToSet(PointerCalls(c))}
FromMembers(c) == UNION {FromPointer(m) : m \in ToSet(MemberCalls(c))}
Own(c) == IF c.options = "auto" THEN {<<c.at, c.display>>} ELSE {}

Owes(c) == Own(c) \union Under(c.at, c.type) \union FromPointer(c) \union FromMembers(c)
OwesAll(s) == UNION {Owes(c) : c \in ToSet(s)}

LEMMA NoneLed ==
    ASSUME scene \in Scenes, NEW c \in Calls
    PROVE  /\ c.depth > 0 \/ Tag(ValueType(c.type)) # "pointer" => FromPointer(c) = {}
           /\ c.depth > 0 \/ Tag(c.type) # "udt" => FromMembers(c) = {}
  <1>1. ASSUME c.depth > 0 \/ Tag(ValueType(c.type)) # "pointer"
        PROVE  FromPointer(c) = {}
    <2>1. ToSet(PointerCalls(c)) = {}
      BY <1>1, PointerCallsAre DEF ToSet
    <2>. QED
      BY <2>1 DEF FromPointer
  <1>2. ASSUME c.depth > 0 \/ Tag(c.type) # "udt"
        PROVE  FromMembers(c) = {}
    <2>1. \A m \in ToSet(MemberCalls(c)) : m \in Calls /\ m.depth = c.depth /\ Tag(c.type) = "udt"
      BY MemberCallsAre
    <2>2. ASSUME NEW m \in ToSet(MemberCalls(c))
          PROVE  FromPointer(m) = {}
      <3>1. m \in Calls /\ m.depth > 0
        BY <1>2, <2>1
      <3>2. ToSet(PointerCalls(m)) = {}
        BY <3>1, PointerCallsAre DEF ToSet
      <3>. QED
        BY <3>2 DEF FromPointer
    <2>. QED
      BY <2>2 DEF FromMembers
  <1>. QED
    BY <1>1, <1>2

LEMMA OwesPlain ==
    ASSUME scene \in Scenes, NEW c \in Calls, c.display = c.type, c.options = "auto", c.depth > 0 \/ Tag(c.type) # "udt"
    PROVE  Owes(c) = LinesAt(c.at, c.type) \union FromPointer(c)
  <1>1. FromMembers(c) = {}
    BY NoneLed
  <1>2. LinesAt(c.at, c.type) = {<<c.at, c.type>>} \union Under(c.at, c.type)
    BY InCalls, LinesAtAre
  <1>3. Own(c) = {<<c.at, c.type>>}
    BY DEF Own
  <1>. QED
    BY <1>1, <1>2, <1>3 DEF Owes

(* A header is printed by a call, or for a structure by the call for what  *)
(* it is of.                                                               *)
LEMMA HeaderIs ==
    ASSUME scene \in Scenes, NEW c \in Calls
    PROVE  /\ c.options # "auto" => ~Header(c)
           /\ Tag(c.type) = "udt" \/ Tag(ValueType(c.type)) # "udt" => (Header(c) <=> c.options = "auto")
  <1>1. c.depth = 0 \/ Tag(c.type) \in {"udt", "data"} \/ Tag(TypeOf(c.type)) # "udt"
    BY InCalls DEF CallOk
  <1>2. ASSUME Tag(ValueType(c.type)) # "udt", Tag(c.type) = "data"
        PROVE  Tag(TypeOf(c.type)) # "udt"
    BY <1>2 DEF ValueType
  <1>. QED
    BY <1>1, <1>2 DEF Header

LEMMA ValueCallsOwe ==
    ASSUME scene \in Scenes, NEW c \in Calls
    PROVE  /\ ValueCalls(c) \in Seq(Calls)
           /\ Own(c) \union Under(c.at, c.type) \union FromPointer(c)
                = (IF Header(c) THEN {<<c.at, c.display>>} ELSE {}) \union OwesAll(ValueCalls(c))
                    \union (IF Tag(c.type) = "udt" THEN Under(c.at, c.type) ELSE {})
  <1>0. PICK t, v, e : t = c.type /\ v = ValueType(t) /\ e = TypeOf(v)
    OBVIOUS
  <1>. DEFINE head == IF Header(c) THEN {<<c.at, c.display>>} ELSE {}
              goal == /\ ValueCalls(c) \in Seq(Calls)
                      /\ Own(c) \union Under(c.at, t) \union FromPointer(c)
                           = head \union OwesAll(ValueCalls(c)) \union (IF Tag(t) = "udt" THEN Under(c.at, t) ELSE {})
  <1>1. /\ t \in Types /\ c.at \in Nat /\ c.stream \in Streams /\ c.depth \in Nat /\ StreamOk(c.stream, c.at)
        /\ Shown(c) = v /\ c.options \in {"auto", "none"}
        /\ Tag(t) = "data" => c.display = t
    BY <1>0, InCalls DEF CallOk
  <1>2. TypesOk /\ DumpOk
    BY DumpIsOk
  <1>3. Tag(t) = "udt" \/ Tag(v) # "udt" => head = Own(c)
    BY <1>0, HeaderIs DEF Own
  <1>4. <<>> \in Seq(Calls) /\ OwesAll(<<>>) = {}
    BY DEF OwesAll, ToSet
  <1>5. ValueCalls(c) = IF Tag(t) = "data" /\ Tag(v) = "udt" THEN <<Call(v, t, c.at, c.stream, c.depth + 1, c.options)>>
                        ELSE IF Tag(v) = "pointer" THEN PointerCalls(c)
                        ELSE IF Tag(v) = "array" THEN ArrayCalls(c)
                        ELSE <<>>
    <2>1. Tag(t) = "data" => v = TypeOf(t)
      BY <1>0 DEF ValueType
    <2>. QED
      BY <1>0, <1>1, <2>1 DEF ValueCalls
  <1>. HIDE DEF head, goal
  <1>6. ASSUME Tag(t) = "udt"
        PROVE  goal
    <2>1. v = t /\ FromPointer(c) = {}
      <3>1. v = t
        BY <1>0, <1>6 DEF ValueType
      <3>. QED
        BY <1>0, <1>6, <3>1, NoneLed
    <2>2. ValueCalls(c) = <<>>
      BY <1>5, <1>6, <2>1
    <2>. QED
      BY <1>3, <1>4, <1>6, <2>1, <2>2 DEF goal
  <1>7. ASSUME Tag(t) = "data" /\ Tag(v) = "udt"
        PROVE  goal
    <2>. DEFINE d == Call(v, t, c.at, c.stream, c.depth + 1, c.options)
    <2>1. v = TypeOf(t) /\ v \in Types
      BY <1>0, <1>1, <1>2, <1>7, ValueTypeIs DEF ValueType
    <2>2. /\ d \in Calls
          /\ d.type = v /\ d.display = t /\ d.at = c.at /\ d.depth = c.depth + 1 /\ d.options = c.options
      <3>1. c.depth + 1 \in Nat /\ c.depth + 1 # 0 /\ Tag(v) # "data"
        BY <1>1, <1>7
      <3>. QED
        BY <1>1, <1>7, <2>1, <3>1, CallIs
    <2>3. ValueCalls(c) = <<d>>
      BY <1>5, <1>7
    <2>. HIDE DEF d
    <2>4. <<d>> \in Seq(Calls) /\ OwesAll(<<d>>) = Owes(d)
      <3>1. ToSet(<<d>>) = {d}
        BY DEF ToSet
      <3>2. <<d>> \in Seq(Calls)
        <4>. HIDE DEF Calls
        <4>. QED
          BY <2>2
      <3>. QED
        BY <3>1, <3>2 DEF OwesAll
    <2>5. FromPointer(d) = {} /\ FromMembers(d) = {}
      <3>1. d.depth > 0
        BY <1>1, <2>2
      <3>. QED
        BY <2>2, <3>1, NoneLed
    <2>6. FromPointer(c) = {}
      BY <1>0, <1>7, NoneLed
    <2>7. Under(c.at, t) = Under(c.at, v)
      BY <1>1, <1>7, <2>1, UnderIs
    <2>8. Own(d) = Own(c) /\ head \subseteq Own(c)
      <3>1. Own(d) = Own(c)
        BY <1>1, <1>7, <2>2 DEF Own
      <3>2. head \subseteq Own(c)
        BY <1>1, HeaderIs DEF Own, head
      <3>. QED
        BY <3>1, <3>2
    <2>9. Owes(d) = Own(c) \union Under(c.at, v)
      BY <2>2, <2>5, <2>8 DEF Owes
    <2>. QED
      <3>1. Tag(t) # "udt"
        BY <1>7
      <3>. QED
        BY <2>3, <2>4, <2>6, <2>7, <2>8, <2>9, <3>1 DEF goal
  <1>8. ASSUME Tag(t) # "udt" /\ Tag(v) = "pointer"
        PROVE  goal
    <2>1. ValueCalls(c) = PointerCalls(c) /\ PointerCalls(c) \in Seq(Calls)
      BY <1>5, <1>8, PointerCallsAre
    <2>2. Under(c.at, t) = {}
      <3>1. ~HasElements(t)
        BY <1>0, <1>8 DEF HasElements
      <3>. QED
        BY <1>0, <1>1, <1>8, <3>1, UnderIs
    <2>3. ASSUME NEW d \in ToSet(PointerCalls(c))
          PROVE  Owes(d) = LinesAt(d.at, d.type)
      <3>1. d \in Calls
        <4>. HIDE DEF Calls
        <4>. QED
          BY <2>1 DEF ToSet
      <3>2. d.display = d.type /\ d.depth = c.depth + 1 /\ d.options = "auto"
        BY PointerCallsAre
      <3>3. d.depth > 0
        BY <1>1, <3>2
      <3>4. FromPointer(d) = {}
        BY <3>1, <3>3, NoneLed
      <3>. QED
        BY <3>1, <3>2, <3>3, <3>4, OwesPlain
    <2>4. OwesAll(ValueCalls(c)) = FromPointer(c)
      BY <2>1, <2>3 DEF OwesAll, FromPointer
    <2>5. head = Own(c)
      BY <1>3, <1>8
    <2>. QED
      BY <1>8, <2>1, <2>2, <2>4, <2>5 DEF goal
  <1>9. ASSUME Tag(t) # "udt" /\ HasElements(t)
        PROVE  goal
    <2>1. Tag(v) = "array" /\ ValueCalls(c) = ArrayCalls(c)
      BY <1>0, <1>5, <1>9 DEF HasElements
    <2>. DEFINE d(i) == ElementCall(c, e, i * Info(e).length)
                lines(i) == LinesAt(c.at + i * Info(e).length, e)
    <2>2. /\ ArrayCalls(c) \in Seq(Calls)
          /\ ToSet(ArrayCalls(c)) = {d(i) : i \in Elements(v)}
          /\ e \in Types /\ Tag(e) = "udt"
          /\ \A i \in Elements(v) : /\ d(i) \in Calls
                                    /\ d(i).type = e /\ d(i).display = e /\ d(i).at = c.at + i * Info(e).length
                                    /\ d(i).depth = c.depth + 1 /\ d(i).options = "auto"
      <3>1. v = ValueType(c.type) /\ Tag(v) = "array" /\ e = TypeOf(v) /\ HasElements(c.type)
        BY <1>0, <1>9, <2>1
      <3>2. /\ ArrayCalls(c) \in Seq(Calls)
            /\ ToSet(ArrayCalls(c)) = {ElementCall(c, e, i * Info(e).length) : i \in Elements(v)}
            /\ e \in Types /\ Tag(e) = "udt"
            /\ \A i \in Elements(v) :
                 LET k == i * Info(e).length
                     f == ElementCall(c, e, k)
                 IN  /\ f \in Calls /\ k \in Nat
                     /\ f.type = e /\ f.display = e /\ f.at = c.at + k /\ f.depth = c.depth + 1 /\ f.options = "auto"
        <4>1. ElementCallsAre(c, v, e)
          BY <3>1, ArrayCallsAre
        <4>. QED
          BY <3>1, <4>1 DEF ElementCallsAre
      <3>. HIDE DEF Calls
      <3>. QED
        BY <3>2
    <2>3. Under(c.at, t) = UNION {lines(i) : i \in Elements(v)}
      BY <1>0, <1>1, <1>9, UnderIs
    <2>4. ASSUME NEW i \in Elements(v)
          PROVE  Owes(d(i)) = lines(i)
      <3>1. d(i) \in Calls /\ d(i).depth > 0 /\ d(i).display = d(i).type /\ d(i).options = "auto"
        BY <1>1, <2>2
      <3>2. FromPointer(d(i)) = {}
        BY <3>1, NoneLed
      <3>3. Owes(d(i)) = LinesAt(d(i).at, d(i).type)
        <4>. HIDE DEF d
        <4>. QED
          BY <3>1, <3>2, OwesPlain
      <3>. QED
        BY <2>2, <3>3
    <2>. HIDE DEF d, lines
    <2>5. OwesAll(ValueCalls(c)) = UNION {lines(i) : i \in Elements(v)}
      <3>1. OwesAll(ValueCalls(c)) = UNION {Owes(d(i)) : i \in Elements(v)}
        BY <2>1, <2>2 DEF OwesAll
      <3>. QED
        BY <2>4, <3>1
    <2>6. head = Own(c) /\ FromPointer(c) = {}
      BY <1>0, <1>3, <2>1, NoneLed
    <2>. QED
      BY <1>9, <2>1, <2>2, <2>3, <2>5, <2>6 DEF goal
  <1>10. ASSUME Tag(t) # "udt" /\ Tag(v) \notin {"udt", "pointer"} /\ ~HasElements(t)
         PROVE  goal
    <2>1. ValueCalls(c) = <<>>
      <3>1. Tag(v) = "array" => ArrayCalls(c) = <<>>
        BY <1>0, <1>10, ArrayCallsAre DEF ElementCallsAre
      <3>. QED
        BY <1>5, <1>10, <3>1
    <2>2. Under(c.at, t) = {} /\ FromPointer(c) = {} /\ head = Own(c)
      BY <1>0, <1>1, <1>3, <1>10, UnderIs, NoneLed
    <2>. QED
      BY <1>4, <1>10, <2>1, <2>2 DEF goal
  <1>11. Tag(t) # "data" /\ Tag(t) # "udt" => Tag(v) # "udt"
    BY <1>0 DEF ValueType
  <1>12. goal
    BY <1>6, <1>7, <1>8, <1>9, <1>10, <1>11
  <1>. QED
    BY <1>0, <1>12 DEF goal, head

(* A call owes what it prints and what the calls owe that it makes.        *)
LEMMA CallOwes ==
    ASSUME scene \in Scenes, NEW c \in Calls
    PROVE  /\ ValueCalls(c) \o MemberCalls(c) \in Seq(Calls)
           /\ Owes(c) = (IF Header(c) THEN {<<c.at, c.display>>} ELSE {}) \union OwesAll(ValueCalls(c) \o MemberCalls(c))
  <1>. DEFINE members == OwesAll(MemberCalls(c))
              head == IF Header(c) THEN {<<c.at, c.display>>} ELSE {}
              under == IF Tag(c.type) = "udt" THEN Under(c.at, c.type) ELSE {}
  <1>1. /\ ValueCalls(c) \in Seq(Calls)
        /\ Own(c) \union Under(c.at, c.type) \union FromPointer(c) = head \union OwesAll(ValueCalls(c)) \union under
    BY ValueCallsOwe
  <1>2. MemberCalls(c) \in Seq(Calls)
    BY MemberCallsAre
  <1>3. /\ ValueCalls(c) \o MemberCalls(c) \in Seq(Calls)
        /\ ToSet(ValueCalls(c) \o MemberCalls(c)) = ToSet(ValueCalls(c)) \union ToSet(MemberCalls(c))
    BY <1>1, <1>2, JoinedSet
  <1>4. OwesAll(ValueCalls(c) \o MemberCalls(c)) = OwesAll(ValueCalls(c)) \union members
    BY <1>3 DEF OwesAll
  <1>5. members = under \union FromMembers(c)
    <2>. DEFINE at(m) == LinesAt(c.at + Info(m).offset, m)
                call(m) == MemberCall(c, m)
                ms == ToSet(Members(c.type))
    <2>1. ToSet(MemberCalls(c)) = {call(m) : m \in ms}
      BY MemberCallsAre
    <2>2. ASSUME NEW m \in ms
          PROVE  Owes(call(m)) = at(m) \union FromPointer(call(m))
      <3>1. /\ call(m) \in Calls /\ call(m).type = m /\ call(m).display = m /\ call(m).at = c.at + Info(m).offset
            /\ call(m).options = "auto" /\ Tag(m) = "data"
        BY MemberCallsAre
      <3>2. Owes(call(m)) = LinesAt(call(m).at, call(m).type) \union FromPointer(call(m))
        <4>. HIDE DEF call
        <4>. QED
          BY <3>1, OwesPlain
      <3>. QED
        BY <3>1, <3>2
    <2>3. under = UNION {at(m) : m \in ms}
      <3>1. CASE Tag(c.type) = "udt"
        BY <3>1, InCalls, UnderIs
      <3>2. CASE Tag(c.type) # "udt"
        <4>1. ms = {}
          BY <3>2, MemberCallsAre
        <4>. QED
          BY <3>2, <4>1
      <3>. QED
        BY <3>1, <3>2
    <2>. HIDE DEF at, call, ms, under
    <2>4. members = UNION {Owes(call(m)) : m \in ms} /\ FromMembers(c) = UNION {FromPointer(call(m)) : m \in ms}
      BY <2>1 DEF OwesAll, FromMembers
    <2>. HIDE DEF members
    <2>. QED
      BY <2>2, <2>3, <2>4
  <1>6. Owes(c) = head \union OwesAll(ValueCalls(c)) \union under \union FromMembers(c)
    BY <1>1 DEF Owes
  <1>. HIDE DEF under, members, head
  <1>7. Owes(c) = head \union OwesAll(ValueCalls(c) \o MemberCalls(c))
    BY <1>4, <1>5, <1>6
  <1>. QED
    BY <1>3, <1>7 DEF head

-------------------------------------------------------------------------------
(* The outermost call.  What a stream can read behind an offset is what    *)
(* the memory has, up to the end of the stream.                            *)
LEMMA RootReads ==
    ASSUME NEW a \in Nat, NEW length \in Nat, NEW o \in Nat, NEW n \in Nat \ {0}
    PROVE  LET s == Skipped(StreamFor(a, length), o)
           IN  /\ CanRead(s, n) <=> \A k \in 1 .. (o + n) : k <= length /\ Readable(a + (k - 1))
               /\ CanRead(s, n) => s.at = a + o
  <1>. DEFINE s0 == StreamFor(a, length)
              s == Skipped(s0, o)
              r == Reach(s0, o)
              q == Reach(s, n)
  <1>1. /\ s0 \in Streams /\ StreamOk(s0, a) /\ s0.at = a /\ s0.end = a + length
    BY StreamForIs DEF StreamFor
  <1>2. s.at = a + r /\ s.end = a + length
    BY <1>1 DEF Skipped, Streams
  <1>. HIDE DEF s0
  <1>3. s \in Streams /\ StreamOk(s, a + o)
    BY <1>1, SkipIs
  <1>4. /\ r \in 0 .. o /\ r <= length
        /\ \A k \in 0 .. (r - 1) : Readable(a + k)
        /\ r = o \/ r = length \/ ~Readable(a + r)
    <2>1. /\ r \in 0 .. o /\ a + r <= a + length
          /\ \A k \in 0 .. (r - 1) : Readable(a + k)
          /\ r = o \/ a + r = a + length \/ ~Readable(a + r)
      BY <1>1, ReachOfEnded
    <2>. HIDE DEF r
    <2>. QED
      BY <2>1
  <1>. HIDE DEF s, r
  <1>5. /\ q \in 0 .. n /\ r + q <= length
        /\ \A k \in 0 .. (q - 1) : Readable((a + r) + k)
        /\ q = n \/ r + q = length \/ ~Readable((a + r) + q)
        /\ r # o => q = 0
    <2>1. a + o \in Nat
      OBVIOUS
    <2>2. /\ q \in 0 .. n /\ s.at + q <= s.end
          /\ \A k \in 0 .. (q - 1) : Readable(s.at + k)
          /\ q = n \/ s.at + q = s.end \/ ~Readable(s.at + q)
          /\ s.at # a + o => q = 0
      BY <1>3, <2>1, ReachOfEnded
    <2>. HIDE DEF q
    <2>. QED
      BY <1>2, <1>4, <2>2
  <1>6. CanRead(s, n) <=> q = n
    BY DEF CanRead
  <1>. HIDE DEF q
  <1>7. ASSUME q = n
        PROVE  r = o /\ \A k \in 1 .. (o + n) : k <= length /\ Readable(a + (k - 1))
    <2>1. r = o /\ o + n <= length
      BY <1>5, <1>7
    <2>2. ASSUME NEW k \in 1 .. (o + n)
          PROVE  Readable(a + (k - 1))
      <3>1. CASE k <= o
        <4>1. k - 1 \in 0 .. (r - 1)
          BY <2>1, <3>1
        <4>. QED
          BY <1>4, <4>1
      <3>2. CASE k > o
        <4>1. PICK j \in 0 .. (q - 1) : j = (k - 1) - o
          BY <1>7, <3>2
        <4>2. (a + r) + j = a + (k - 1)
          BY <2>1, <4>1
        <4>. QED
          BY <1>5, <4>1, <4>2
      <3>. QED
        BY <3>1, <3>2
    <2>. QED
      BY <2>1, <2>2
  <1>8. ASSUME \A k \in 1 .. (o + n) : k <= length /\ Readable(a + (k - 1)), q # n
        PROVE  FALSE
    <2>1. r = o
      <3>1. SUFFICES ASSUME r # o
                     PROVE  FALSE
        OBVIOUS
      <3>2. PICK k \in 1 .. (o + n) : k = r + 1
        BY <1>4, <3>1
      <3>3. k <= length /\ Readable(a + (k - 1))
        BY <1>8
      <3>4. a + (k - 1) = a + r /\ r < length
        BY <1>4, <3>2, <3>3
      <3>. QED
        BY <1>4, <3>1, <3>3, <3>4
    <2>2. PICK k \in 1 .. (o + n) : k = (o + q) + 1 /\ a + (k - 1) = (a + r) + q
      BY <1>5, <1>8, <2>1
    <2>3. k <= length /\ Readable((a + r) + q)
      BY <1>8, <2>2
    <2>. QED
      BY <1>5, <1>8, <2>1, <2>2, <2>3
  <1>9. CanRead(s, n) <=> \A k \in 1 .. (o + n) : k <= length /\ Readable(a + (k - 1))
    BY <1>6, <1>7, <1>8
  <1>10. CanRead(s, n) => s.at = a + o
    BY <1>2, <1>6, <1>7
  <1>. QED
    BY <1>9, <1>10 DEF s, s0

(* Where the pointer of a call leads, if its structure is shown.           *)
Aim(c) == Number(c.stream.at, Info(ValueType(c.type)).length)

There(c) ==
    LET p == ValueType(c.type)
    IN  /\ c.depth = 0 /\ Tag(p) = "pointer" /\ Info(p).length \in {1, 2} /\ CanRead(c.stream, Info(p).length)
        /\ Tag(TypeOf(p)) = "udt" /\ Lasts(TypeOf(p)) /\ Readable(Aim(c))

LEMMA FromPointerIs ==
    ASSUME scene \in Scenes, NEW c \in Calls
    PROVE  FromPointer(c) = IF There(c) THEN LinesAt(Aim(c), TypeOf(ValueType(c.type))) ELSE {}
  <1>a. PICK p : p = ValueType(c.type)
    OBVIOUS
  <1>b. PICK e : e = TypeOf(p)
    OBVIOUS
  <1>0. p = ValueType(c.type) /\ e = TypeOf(p)
    BY <1>a, <1>b
  <1>1. TypesOk /\ DumpOk /\ MemoryOk
    BY DumpIsOk
  <1>2. /\ c.type \in Types /\ c.at \in Nat /\ c.stream \in Streams /\ c.depth \in Nat /\ StreamOk(c.stream, c.at)
        /\ Shown(c) = p
    BY <1>0, InCalls DEF CallOk
  <1>. DEFINE a == Target(p, c.stream)
              stream == StreamFor(a, Info(e).length)
              call == Call(e, e, a, stream, c.depth + 1, "auto")
              there == Followed(p, c.stream) /\ Tag(e) = "udt" /\ c.depth < 1
  <1>3. PointerCalls(c) = IF there THEN <<call>> ELSE <<>>
    BY <1>0, <1>2 DEF PointerCalls
  <1>4. a = Aim(c)
    BY <1>0 DEF Target, Aim
  <1>5. there <=> There(c)
    <2>1. ASSUME Tag(p) = "pointer", Info(p).length \in {1, 2}, CanRead(c.stream, Info(p).length), Tag(e) = "udt", Lasts(e)
          PROVE  ~Eof(stream) <=> Readable(a)
      <3>1. e \in Types
        BY <1>0, <1>1, <1>2, <2>1, ValueTypeIs
      <3>2. Info(e).length \in Nat /\ Info(e).length > 0
        BY <1>1, <2>1, <3>1 DEF TypesOk, Lasts
      <3>3. a \in Nat
        BY <1>1, <1>2, <2>1, FirstRead DEF Target
      <3>. HIDE DEF a
      <3>. QED
        BY <3>2, <3>3, StreamForIs
    <2>2. c.depth < 1 <=> c.depth = 0
      BY <1>2
    <2>3. Followed(p, c.stream) <=> /\ Tag(p) = "pointer" /\ Info(p).length \in {1, 2} /\ CanRead(c.stream, Info(p).length)
                                    /\ Lasts(e) /\ ~Eof(stream)
      BY <1>0 DEF Followed
    <2>4. There(c) <=> /\ c.depth = 0 /\ Tag(p) = "pointer" /\ Info(p).length \in {1, 2} /\ CanRead(c.stream, Info(p).length)
                       /\ Tag(e) = "udt" /\ Lasts(e) /\ Readable(a)
      BY <1>0, <1>4 DEF There
    <2>. HIDE DEF a, stream
    <2>. QED
      BY <2>1, <2>2, <2>3, <2>4
  <1>6. call.at = a /\ call.type = e
    BY DEF Call
  <1>. HIDE DEF a, there, call
  <1>7. CASE There(c)
    <2>1. ToSet(PointerCalls(c)) = {call}
      BY <1>3, <1>5, <1>7 DEF ToSet
    <2>2. FromPointer(c) = LinesAt(call.at, call.type)
      BY <2>1 DEF FromPointer
    <2>. QED
      BY <1>0, <1>4, <1>6, <1>7, <2>2
  <1>8. CASE ~There(c)
    <2>1. ToSet(PointerCalls(c)) = {}
      BY <1>3, <1>5, <1>8 DEF ToSet
    <2>. QED
      BY <1>8, <2>1 DEF FromPointer
  <1>. QED
    BY <1>7, <1>8

(* The parts of the dumped type whose pointers are followed, where they    *)
(* point and the lines that come from them.                                *)
OwnParts == {<<0, job.type>>} \union {<<Info(c).offset, c>> : c \in ToSet(Members(job.type))}

PointsAt(o, t) ==
    /\ Tag(ValueType(t)) = "pointer" /\ Info(ValueType(t)).length \in {1, 2}
    /\ \A k \in 1 .. (o + Info(ValueType(t)).length) : k <= Info(job.type).length /\ Readable(job.at + (k - 1))

PointedTo(o, t) == Number(job.at + o, Info(ValueType(t)).length)

LeadsOn(o, t) ==
    /\ job.depth = 0 /\ PointsAt(o, t)
    /\ Tag(TypeOf(ValueType(t))) = "udt" /\ Lasts(TypeOf(ValueType(t))) /\ Readable(PointedTo(o, t))

LedLines(o, t) == IF LeadsOn(o, t) THEN LinesAt(PointedTo(o, t), TypeOf(ValueType(t))) ELSE {}

LEMMA OwnLeads ==
    ASSUME scene \in Scenes, NEW c \in Calls, NEW o \in Nat, job.at \in Nat, Info(job.type).length \in Nat,
           c.stream = Skipped(StreamFor(job.at, Info(job.type).length), o), c.depth = job.depth
    PROVE  FromPointer(c) = LedLines(o, c.type)
  <1>a. PICK p : p = ValueType(c.type)
    OBVIOUS
  <1>b. PICK n : n = Info(p).length
    OBVIOUS
  <1>c. PICK s : s = c.stream
    OBVIOUS
  <1>1. ASSUME n \in {1, 2}
        PROVE  /\ CanRead(s, n) <=> \A k \in 1 .. (o + n) : k <= Info(job.type).length /\ Readable(job.at + (k - 1))
               /\ CanRead(s, n) => s.at = job.at + o
    <2>1. n \in Nat \ {0} /\ s = Skipped(StreamFor(job.at, Info(job.type).length), o)
      BY <1>1, <1>c
    <2>. QED
      BY <2>1, RootReads
  <1>2. There(c) <=> /\ c.depth = 0 /\ Tag(p) = "pointer" /\ n \in {1, 2} /\ CanRead(s, n)
                     /\ Tag(TypeOf(p)) = "udt" /\ Lasts(TypeOf(p)) /\ Readable(Number(s.at, n))
    BY <1>a, <1>b, <1>c DEF There, Aim
  <1>3. LeadsOn(o, c.type) <=>
          /\ job.depth = 0 /\ Tag(p) = "pointer" /\ n \in {1, 2}
          /\ \A k \in 1 .. (o + n) : k <= Info(job.type).length /\ Readable(job.at + (k - 1))
          /\ Tag(TypeOf(p)) = "udt" /\ Lasts(TypeOf(p)) /\ Readable(Number(job.at + o, n))
    BY <1>a, <1>b DEF LeadsOn, PointsAt, PointedTo
  <1>4. There(c) <=> LeadsOn(o, c.type)
    BY <1>1, <1>2, <1>3
  <1>5. There(c) => Aim(c) = PointedTo(o, c.type)
    <2>1. Aim(c) = Number(s.at, n) /\ PointedTo(o, c.type) = Number(job.at + o, n)
      BY <1>a, <1>b, <1>c DEF Aim, PointedTo
    <2>. QED
      BY <1>1, <1>2, <2>1
  <1>. QED
    BY <1>4, <1>5, FromPointerIs DEF LedLines

LEMMA ReachedLines ==
    ASSUME NEW U, U = UNION {LinesAt(r.at, r.type) :
                               r \in {x \in Reached : /\ job.depth = 0
                                                      /\ Tag(x.type) = "udt" /\ Lasts(x.type) /\ Readable(x.at)}}
    PROVE  \A x : x \in U <=> \E m \in OwnParts : x \in LedLines(m[1], m[2])
  <1>. DEFINE to(m) == [at |-> PointedTo(m[1], m[2]), type |-> TypeOf(ValueType(m[2]))]
              shown(r) == job.depth = 0 /\ Tag(r.type) = "udt" /\ Lasts(r.type) /\ Readable(r.at)
              lines(r) == LinesAt(r.at, r.type)
              points(m) == PointsAt(m[1], m[2])
              led(m) == LedLines(m[1], m[2])
  <1>1. Reached = {to(m) : m \in {q \in OwnParts : points(q)}}
    BY DEF Reached, OwnParts, PointsAt, PointedTo, ValueType
  <1>2. \A x : x \in U <=> \E r \in Reached : shown(r) /\ x \in lines(r)
    <2>1. U = UNION {lines(r) : r \in {q \in Reached : shown(q)}}
      OBVIOUS
    <2>. HIDE DEF lines, shown
    <2>. QED
      BY <2>1
  <1>3. \A m : led(m) = IF points(m) /\ shown(to(m)) THEN lines(to(m)) ELSE {}
    BY DEF LedLines, LeadsOn
  <1>4. \A r : r \in Reached <=> \E m \in OwnParts : points(m) /\ r = to(m)
    <2>. HIDE DEF to, points
    <2>. QED
      BY <1>1
  <1>. HIDE DEF to, shown, lines, points, led
  <1>5. \A x : x \in U <=> \E m \in OwnParts : points(m) /\ shown(to(m)) /\ x \in lines(to(m))
    BY <1>2, <1>4
  <1>6. \A x : x \in U <=> \E m \in OwnParts : x \in led(m)
    BY <1>3, <1>5
  <1>. QED
    BY <1>6 DEF led

Root == Call(job.type, job.type, job.at, StreamFor(job.at, Info(job.type).length), job.depth, job.options)

(* The lines that are to be shown.                                         *)
Asked ==
    (LinesAt(job.at, job.type) \ (IF job.options = "auto" THEN {} ELSE {<<job.at, job.type>>}))
        \union UNION {LinesAt(r.at, r.type) :
                        r \in {x \in Reached : /\ job.depth = 0
                                               /\ Tag(x.type) = "udt" /\ Lasts(x.type) /\ Readable(x.at)}}

LEMMA RootIsCall ==
    ASSUME scene \in Scenes, job \in scene.jobs, job.kind = "dump"
    PROVE  /\ Root \in Calls /\ job.type \in Types /\ job.at \in Nat /\ Info(job.type).length \in Nat
           /\ Root.type = job.type /\ Root.display = job.type /\ Root.at = job.at /\ Root.depth = job.depth
           /\ Root.stream = StreamFor(job.at, Info(job.type).length) /\ Root.options = job.options
           /\ job.options \in {"auto", "none"}
  <1>1. /\ TypesOk /\ job.type \in Types /\ job.at \in Nat /\ job.depth \in Nat /\ job.options \in {"auto", "none"}
        /\ job.depth = 0 \/ Tag(job.type) \in {"udt", "data"} \/ Tag(TypeOf(job.type)) # "udt"
    BY DumpIsOk
  <1>2. Info(job.type).length \in Nat
    BY <1>1 DEF TypesOk
  <1>3. /\ StreamFor(job.at, Info(job.type).length) \in Streams
        /\ StreamOk(StreamFor(job.at, Info(job.type).length), job.at)
    BY <1>1, <1>2, StreamForIs
  <1>. QED
    BY <1>1, <1>2, <1>3, CallIs DEF Root

LEMMA RootOwes ==
    ASSUME scene \in Scenes, job \in scene.jobs, job.kind = "dump"
    PROVE  Owes(Root) = Asked
  <1>a. PICK c \in Calls : c = Root
    BY RootIsCall
  <1>b. PICK s0 : s0 = StreamFor(job.at, Info(job.type).length)
    OBVIOUS
  <1>1. /\ job.type \in Types /\ job.at \in Nat /\ Info(job.type).length \in Nat
        /\ c.type = job.type /\ c.display = job.type /\ c.at = job.at /\ c.depth = job.depth /\ c.stream = s0
        /\ c.options = job.options /\ job.options \in {"auto", "none"}
    BY <1>a, <1>b, RootIsCall
  <1>. DEFINE U == UNION {LinesAt(r.at, r.type) :
                            r \in {x \in Reached : /\ job.depth = 0
                                                   /\ Tag(x.type) = "udt" /\ Lasts(x.type) /\ Readable(x.at)}}
              ms == ToSet(Members(job.type))
              own == LinesAt(job.at, job.type) \ (IF job.options = "auto" THEN {} ELSE {<<job.at, job.type>>})
  <1>2. Own(c) \union Under(c.at, c.type) = own
    <2>1. LinesAt(job.at, job.type) = {<<job.at, job.type>>} \union Under(job.at, job.type) /\ <<job.at, job.type>> \notin Under(job.at, job.type)
      BY <1>1, LinesAtAre
    <2>2. Own(c) = IF job.options = "auto" THEN {<<job.at, job.type>>} ELSE {}
      BY <1>1 DEF Own
    <2>. QED
      BY <1>1, <2>1, <2>2
  <1>3. \A x : x \in U <=> \E m \in OwnParts : x \in LedLines(m[1], m[2])
    BY ReachedLines
  <1>. HIDE DEF U
  <1>4. FromPointer(c) = LedLines(0, job.type)
    <2>1. c.stream = Skipped(s0, 0)
      <3>1. s0 \in Streams /\ StreamOk(s0, job.at) /\ s0 = [at |-> s0.at, end |-> s0.end] /\ s0.at \in Nat
        BY <1>b, <1>1, StreamForIs DEF Streams
      <3>2. Reach(s0, 0) \in 0 .. 0
        BY <1>1, <3>1, ReachOfEnded
      <3>3. Reach(s0, 0) = 0
        BY <3>2
      <3>. QED
        BY <1>1, <3>1, <3>3 DEF Skipped
    <2>. QED
      BY <1>b, <1>1, <2>1, OwnLeads
  <1>. DEFINE call(m) == MemberCall(c, m)
              led(m) == LedLines(Info(m).offset, m)
  <1>5. ASSUME NEW m \in ms
        PROVE  FromPointer(call(m)) = led(m)
    <2>1. /\ call(m) \in Calls /\ Info(m).offset \in Nat /\ call(m).type = m
          /\ call(m).stream = Skipped(c.stream, Info(m).offset) /\ call(m).depth = c.depth
      BY <1>1, MemberCallsAre
    <2>2. PICK d \in Calls : d = call(m)
      BY <2>1
    <2>3. PICK o \in Nat : o = Info(m).offset
      BY <2>1
    <2>4. FromPointer(d) = LedLines(o, d.type)
      BY <1>b, <1>1, <2>1, <2>2, <2>3, OwnLeads
    <2>. QED
      BY <2>1, <2>2, <2>3, <2>4
  <1>6. FromMembers(c) = UNION {FromPointer(call(m)) : m \in ms}
    <2>1. ToSet(MemberCalls(c)) = {call(m) : m \in ms}
      BY <1>1, MemberCallsAre
    <2>. HIDE DEF call, ms
    <2>. QED
      BY <2>1 DEF FromMembers
  <1>7. \A m : m \in OwnParts <=> m = <<0, job.type>> \/ \E i \in ms : m = <<Info(i).offset, i>>
    BY DEF OwnParts
  <1>. HIDE DEF call, ms
  <1>8. \A x : x \in FromMembers(c) <=> \E m \in ms : x \in led(m)
    BY <1>5, <1>6
  <1>9. \A x : x \in U <=> x \in LedLines(0, job.type) \/ \E m \in ms : x \in led(m)
    <2>1. ASSUME NEW x \in U
          PROVE  x \in LedLines(0, job.type) \/ \E m \in ms : x \in led(m)
      <3>1. PICK m \in OwnParts : x \in LedLines(m[1], m[2])
        BY <1>3
      <3>. QED
        BY <1>7, <3>1
    <2>2. ASSUME NEW x \in LedLines(0, job.type)
          PROVE  x \in U
      <3>1. <<0, job.type>> \in OwnParts
        BY <1>7
      <3>. QED
        BY <1>3, <3>1
    <2>3. ASSUME NEW m \in ms, NEW x \in led(m)
          PROVE  x \in U
      <3>1. <<Info(m).offset, m>> \in OwnParts
        BY <1>7
      <3>. QED
        BY <1>3, <3>1
    <2>. QED
      BY <2>1, <2>2, <2>3
  <1>. HIDE DEF led
  <1>10. FromPointer(c) \union FromMembers(c) = U
    BY <1>4, <1>8, <1>9
  <1>11. Asked = own \union U
    BY DEF Asked, U
  <1>. HIDE DEF own
  <1>. QED
    BY <1>a, <1>2, <1>10, <1>11 DEF Owes

-------------------------------------------------------------------------------
(* The values.                                                             *)
ValueTrue(p) ==
    /\ p.limit > 0 => Len(p.values) <= p.limit
    /\ \A k \in DOMAIN p.values : p.values[k] = Number(p.at + (k - 1) * p.length, p.length)

LEMMA WholeParts ==
    ASSUME NEW r \in Nat, NEW l \in Nat \ {0}, NEW n \in Nat, r <= n * l
    PROVE  r \div l \in Nat /\ r \div l <= n
  <1>1. PICK q \in Nat : q = r \div l /\ l * q <= r
    <2>1. r = l * (r \div l) + (r % l) /\ r % l \in 0 .. (l - 1) /\ r \div l \in Nat
      OBVIOUS
    <2>2. PICK q \in Nat, m \in Nat : q = r \div l /\ r = l * q + m
      BY <2>1
    <2>3. l * q \in Nat
      BY <2>2
    <2>4. l * q <= r
      BY <2>2, <2>3
    <2>. QED
      BY <2>2, <2>4
  <1>2. ASSUME n < q
        PROVE  FALSE
    <2>1. l * (n + 1) <= l * q
      BY <1>1, <1>2
    <2>2. l * (n + 1) = n * l + l
      OBVIOUS
    <2>. QED
      BY <1>1, <2>1, <2>2
  <1>. QED
    BY <1>1, <1>2

LEMMA PrintedTrue ==
    ASSUME NEW s \in Streams, NEW a \in Nat, StreamOk(s, a), NEW l \in Nat \ {0}, NEW n \in Nat, NEW limit \in Nat,
           limit = 0 \/ limit = n \/ (limit = 1 /\ s.end <= a + l), NEW p \in Printed(a, s, l, n, limit)
    PROVE  ValueTrue(p)
  <1>. DEFINE r == Reach(s, n * l)
              count == r \div l
              number(k) == Number(s.at + (k - 1) * l, l)
  <1>1. p.at = a /\ p.length = l /\ p.limit = limit /\ p.values = [k \in 1 .. count |-> number(k)]
    BY DEF Printed, Read
  <1>2. s.at \in Nat /\ s.end \in Nat /\ n * l \in Nat
    BY DEF Streams
  <1>3. r \in 0 .. (n * l) /\ s.at + r <= s.end /\ (s.at # a => r = 0)
    BY <1>2, ReachOfEnded
  <1>. HIDE DEF r
  <1>4. r \in Nat /\ r <= n * l
    BY <1>2, <1>3
  <1>5. count \in Nat /\ count <= n
    BY <1>4, WholeParts
  <1>6. s.at # a => count = 0
    <2>1. ASSUME r = 0
          PROVE  count = 0
      <3>1. r <= 0 * l
        BY <2>1
      <3>2. count \in Nat /\ count <= 0
        BY <2>1, <3>1, WholeParts
      <3>. QED
        BY <3>2
    <2>. QED
      BY <1>3, <2>1
  <1>7. limit > 0 => count <= limit
    <2>1. CASE limit = n
      BY <1>5, <2>1
    <2>2. CASE limit = 1 /\ s.end <= a + l /\ s.at = a
      <3>1. r <= 1 * l
        BY <1>2, <1>3, <2>2
      <3>2. count <= 1
        BY <1>4, <3>1, WholeParts
      <3>. QED
        BY <2>2, <3>2
    <2>3. CASE s.at # a
      BY <1>6, <2>3
    <2>. QED
      BY <2>1, <2>2, <2>3
  <1>. HIDE DEF count
  <1>8. Len(p.values) = count /\ DOMAIN p.values = 1 .. count /\ \A k \in 1 .. count : p.values[k] = number(k)
    <2>. HIDE DEF number
    <2>. QED
      BY <1>1, <1>5
  <1>9. ASSUME NEW k \in DOMAIN p.values
        PROVE  p.values[k] = Number(p.at + (k - 1) * p.length, p.length)
    <2>1. s.at = a
      BY <1>5, <1>6, <1>8
    <2>. QED
      BY <1>1, <1>8, <2>1
  <1>. QED
    BY <1>1, <1>7, <1>8, <1>9 DEF ValueTrue

LEMMA CountIsNat ==
    ASSUME DumpOk, TypesOk, NEW a \in Nat, NEW t \in Types
    PROVE  Count(a, t) \in Nat
  <1>1. MaxText \in Nat /\ Info(t).length \in Nat
    BY DEF DumpOk, TypesOk
  <1>2. CASE Info(t).text
    <2>. DEFINE stops(n) == n = MaxText \/ ~Readable(a + n) \/ scene.memory[a + n] = 0
                S == {n \in 0 .. MaxText : stops(n)}
                ends(n) == /\ \A k \in 0 .. (n - 1) : Readable(a + k) /\ scene.memory[a + k] # 0
                           /\ stops(n)
    <2>1. MaxText \in S /\ S \in SUBSET Nat
      BY <1>1
    <2>2. \A n : n \in S <=> n \in 0 .. MaxText /\ stops(n)
      OBVIOUS
    <2>. HIDE DEF S
    <2>3. PICK n \in S : \A m \in S : n <= m
      BY <2>1, LeastOf
    <2>4. ASSUME NEW k \in 0 .. (n - 1)
          PROVE  Readable(a + k) /\ scene.memory[a + k] # 0
      <3>1. k \in 0 .. MaxText /\ k < n /\ n \in Nat
        BY <1>1, <2>2, <2>3
      <3>2. k \notin S
        BY <2>3, <3>1
      <3>. QED
        BY <2>2, <3>1, <3>2
    <2>5. \E m \in 0 .. MaxText : ends(m)
      BY <2>2, <2>3, <2>4
    <2>6. Count(a, t) = CHOOSE m \in 0 .. MaxText : ends(m)
      BY <1>2 DEF Count
    <2>. HIDE DEF ends
    <2>. QED
      BY <1>1, <2>5, <2>6
  <1>3. CASE ~Info(t).text
    <2>1. /\ StreamFor(a, Info(t).length) \in Streams /\ StreamOk(StreamFor(a, Info(t).length), a)
      BY <1>1, StreamForIs
    <2>2. Reach(StreamFor(a, Info(t).length), Info(t).length) \in 0 .. Info(t).length
      BY <1>1, <2>1, ReachOfEnded
    <2>3. Count(a, t) = 4 * Reach(StreamFor(a, Info(t).length), Info(t).length)
      BY <1>3 DEF Count
    <2>. QED
      BY <1>1, <2>2, <2>3
  <1>. QED
    BY <1>2, <1>3

LEMMA CallValues ==
    ASSUME scene \in Scenes, NEW c \in Calls, NEW p \in ValuesOf(c)
    PROVE  ValueTrue(p)
  <1>a. PICK t : t = Shown(c)
    OBVIOUS
  <1>b. PICK inner : inner = TypeOf(t)
    OBVIOUS
  <1>1. TypesOk /\ DumpOk /\ MemoryOk
    BY DumpIsOk
  <1>2. /\ c.type \in Types /\ c.at \in Nat /\ c.stream \in Streams /\ StreamOk(c.stream, c.at) /\ t = ValueType(c.type)
    BY <1>a, InCalls DEF CallOk
  <1>3. ASSUME Tag(t) # "null"
        PROVE  t \in Types /\ inner \in {0} \union Types
    BY <1>b, <1>1, <1>2, <1>3, ValueTypeIs
  <1>4. ASSUME NEW u \in {0} \union Types, Lasts(u)
        PROVE  u \in Types /\ Info(u).length \in Nat \ {0}
    BY <1>1, <1>4 DEF Lasts, TypesOk
  <1>5. CASE p \in BaseValues(c)
    <2>1. Tag(t) = "base" /\ Lasts(t) /\ p \in Printed(c.at, c.stream, Info(t).length, 1, 1)
      BY <1>a, <1>5 DEF BaseValues
    <2>2. Info(t).length \in Nat \ {0}
      BY <1>3, <1>4, <2>1
    <2>. QED
      BY <1>2, <2>1, <2>2, PrintedTrue
  <1>6. CASE p \in ArrayValues(c)
    <2>. DEFINE count == Info(t).count
                n == IF count > 0 THEN count ELSE Count(c.at, inner)
    <2>1. Tag(t) = "array" /\ Printable(inner) /\ p \in Printed(c.at, c.stream, Info(inner).length, n, count)
      BY <1>a, <1>b, <1>6 DEF ArrayValues
    <2>2. Lasts(inner) /\ inner \in {0} \union Types /\ t \in Types
      BY <1>3, <2>1 DEF Printable
    <2>3. inner \in Types /\ Info(inner).length \in Nat \ {0}
      BY <1>4, <2>2
    <2>4. count \in Nat /\ Count(c.at, inner) \in Nat
      BY <1>1, <1>2, <2>2, <2>3, CountIsNat DEF TypesOk
    <2>. HIDE DEF count
    <2>5. n \in Nat /\ (count = 0 \/ count = n)
      BY <2>4
    <2>. HIDE DEF n
    <2>. QED
      BY <1>2, <2>1, <2>3, <2>4, <2>5, PrintedTrue
  <1>7. CASE p \in PointerValues(c)
    <2>. DEFINE length == Info(inner).length
                a == Target(t, c.stream)
                far == Printed(a, StreamFor(a, length), length, Count(a, inner), 1)
                further == Followed(t, c.stream) /\ Printable(inner)
    <2>1. /\ Tag(t) = "pointer" /\ Info(t).length \in {1, 2} /\ CanRead(c.stream, Info(t).length)
          /\ p \in Printed(c.at, c.stream, Info(t).length, 1, 1) \/ (further /\ p \in far)
      BY <1>a, <1>b, <1>7 DEF PointerValues
    <2>2. CASE p \in Printed(c.at, c.stream, Info(t).length, 1, 1)
      <3>1. Info(t).length \in Nat \ {0}
        BY <2>1
      <3>. QED
        BY <1>2, <2>2, <3>1, PrintedTrue
    <2>3. CASE further /\ p \in far
      <3>1. Lasts(inner) /\ inner \in {0} \union Types
        BY <1>3, <2>1, <2>3 DEF Printable
      <3>2. inner \in Types /\ length \in Nat \ {0}
        BY <1>4, <3>1
      <3>3. a \in Nat
        BY <1>1, <1>2, <2>1, FirstRead DEF Target
      <3>. HIDE DEF a, length
      <3>4. Count(a, inner) \in Nat
        BY <1>1, <3>2, <3>3, CountIsNat
      <3>5. /\ StreamFor(a, length) \in Streams /\ StreamOk(StreamFor(a, length), a)
            /\ StreamFor(a, length).end <= a + length
        BY <3>2, <3>3, StreamForIs DEF StreamFor
      <3>. QED
        BY <2>3, <3>2, <3>3, <3>4, <3>5, PrintedTrue
    <2>. QED
      BY <2>1, <2>2, <2>3
  <1>. QED
    BY <1>5, <1>6, <1>7 DEF ValuesOf

-------------------------------------------------------------------------------
(* What was printed and what the calls under way owe is what is asked for. *)
DumpInv ==
    /\ scene \in Scenes /\ "kind" \in DOMAIN job /\ calls \in Seq(Calls)
    /\ \A p \in values : ValueTrue(p)
    /\ job.kind # "dump" => calls = <<>>
    /\ job.kind = "dump" => job \in scene.jobs
    /\ job.kind = "dump" /\ Lasts(job.type) /\ Readable(job.at) => headers \union OwesAll(calls) = Asked

LEMMA SceneKeepsLines ==
    ASSUME scene' = scene
    PROVE  /\ LinesWithin' = LinesWithin /\ Types' = Types
           /\ \A a, t : LinesAt(a, t)' = LinesAt(a, t)
           /\ \A t : Info(t)' = Info(t) /\ Tag(t)' = Tag(t) /\ TypeOf(t)' = TypeOf(t) /\ Lasts(t)' = Lasts(t)
           /\ \A t : Members(t)' = Members(t) /\ ValueType(t)' = ValueType(t) /\ Lines(t)' = Lines(t)
           /\ \A a : Readable(a)' = Readable(a)
           /\ \A a, n : Number(a, n)' = Number(a, n)
  <1>1. LinesWithin' = LinesWithin /\ Types' = Types
    BY DEF LinesWithin, Lines, Members, Elements, Types, Info, Tag, TypeOf, Children, Lasts
  <1>2. \A a, t : LinesAt(a, t)' = LinesAt(a, t)
    BY <1>1 DEF LinesAt
  <1>3. \A t : /\ Info(t)' = Info(t) /\ Tag(t)' = Tag(t) /\ TypeOf(t)' = TypeOf(t) /\ Lasts(t)' = Lasts(t)
               /\ Members(t)' = Members(t) /\ ValueType(t)' = ValueType(t)
    BY DEF Info, Tag, TypeOf, Lasts, Members, Children, ValueType
  <1>4. \A t : Lines(t)' = Lines(t)
    BY DEF Lines, Members, Elements, Info, Tag, TypeOf, Children, Lasts
  <1>5. \A a : Readable(a)' = Readable(a)
    BY DEF Readable
  <1>6. \A a, n : Number(a, n)' = Number(a, n)
    BY DEF Number
  <1>. QED
    BY <1>1, <1>2, <1>3, <1>4, <1>5, <1>6

LEMMA SceneKeepsCalls ==
    ASSUME scene' = scene
    PROVE  /\ Calls' = Calls
           /\ \A c : PointerCalls(c)' = PointerCalls(c) /\ MemberCalls(c)' = MemberCalls(c)
           /\ \A p : ValueTrue(p)' = ValueTrue(p)
  <1>1. \A s, n : Reach(s, n)' = Reach(s, n) /\ CanRead(s, n)' = CanRead(s, n) /\ Skipped(s, n)' = Skipped(s, n)
    BY DEF Reach, CanRead, Skipped, Readable
  <1>2. \A s, a : Eof(s)' = Eof(s) /\ StreamOk(s, a)' = StreamOk(s, a)
    BY DEF Eof, StreamOk, Readable
  <1>3. \A c : CallOk(c)' = CallOk(c)
    BY <1>2, SceneKeepsLines DEF CallOk
  <1>4. Calls' = Calls
    BY <1>3, SceneKeepsLines DEF Calls
  <1>5. \A c : MemberCalls(c)' = MemberCalls(c)
    BY <1>1, SceneKeepsLines DEF MemberCalls
  <1>6. \A p, s : Target(p, s)' = Target(p, s)
    BY SceneKeepsLines DEF Target
  <1>7. \A p, s : Followed(p, s)' = Followed(p, s)
    BY <1>1, <1>2, <1>6, SceneKeepsLines DEF Followed
  <1>8. \A c : Shown(c)' = Shown(c)
    BY SceneKeepsLines DEF Shown
  <1>9. \A c : PointerCalls(c)' = PointerCalls(c)
    BY <1>6, <1>7, <1>8, SceneKeepsLines DEF PointerCalls
  <1>10. \A p : ValueTrue(p)' = ValueTrue(p)
    BY SceneKeepsLines DEF ValueTrue
  <1>. QED
    BY <1>4, <1>5, <1>9, <1>10

LEMMA SceneKeepsOwed ==
    ASSUME scene' = scene
    PROVE  \A s : OwesAll(s)' = OwesAll(s)
  <1>1. \A a, t : Under(a, t)' = Under(a, t)
    BY SceneKeepsLines DEF Under
  <1>2. \A c : FromPointer(c)' = FromPointer(c)
    BY SceneKeepsLines, SceneKeepsCalls DEF FromPointer
  <1>3. \A c : FromMembers(c)' = FromMembers(c)
    BY <1>2, SceneKeepsCalls DEF FromMembers
  <1>4. \A c : Owes(c)' = Owes(c)
    BY <1>1, <1>2, <1>3 DEF Owes, Own
  <1>. QED
    BY <1>4 DEF OwesAll

LEMMA SceneKeepsAsked ==
    ASSUME scene' = scene, job' = job
    PROVE  Asked' = Asked
  <1>1. Reached' = Reached
    BY SceneKeepsLines DEF Reached
  <1>. QED
    BY <1>1, SceneKeepsLines DEF Asked

LEMMA InitDumpInv == Init => DumpInv
  <1>. SUFFICES ASSUME Init
                PROVE  DumpInv
    OBVIOUS
  <1>1. scene \in Scenes /\ job \in scene.jobs /\ "kind" \in DOMAIN job
    BY FieldsAssumption DEF Init
  <1>2. /\ headers = {} /\ values = {}
        /\ job.kind # "dump" => calls = <<>>
        /\ job.kind = "dump" =>
              calls = IF ~Lasts(job.type) \/ Eof(StreamFor(job.at, Info(job.type).length)) THEN <<>> ELSE <<Root>>
    BY DEF Init, InitDump, Root
  <1>3. CASE calls = <<>> /\ ~(job.kind = "dump" /\ Lasts(job.type) /\ Readable(job.at))
    <2>1. calls \in Seq(Calls)
      <3>. HIDE DEF Calls
      <3>. QED
        BY <1>3
    <2>. QED
      BY <1>1, <1>2, <1>3, <2>1 DEF DumpInv
  <1>4. CASE calls = <<Root>> /\ job.kind = "dump"
    <2>1. Root \in Calls /\ Owes(Root) = Asked
      BY <1>1, <1>4, RootIsCall, RootOwes
    <2>. HIDE DEF Calls
    <2>2. calls \in Seq(Calls) /\ ToSet(calls) = {Root}
      BY <1>4, <2>1 DEF ToSet
    <2>3. headers \union OwesAll(calls) = Asked
      BY <1>2, <2>1, <2>2 DEF OwesAll
    <2>. QED
      BY <1>1, <1>2, <1>4, <2>2, <2>3 DEF DumpInv
  <1>5. ASSUME job.kind = "dump", Lasts(job.type), Readable(job.at)
        PROVE  calls = <<Root>>
    <2>1. job.at \in Nat /\ Info(job.type).length \in Nat
      BY <1>1, <1>5, RootIsCall
    <2>2. ~Eof(StreamFor(job.at, Info(job.type).length))
      BY <1>5, <2>1, StreamForIs DEF Lasts
    <2>. QED
      BY <1>2, <1>5, <2>2
  <1>. QED
    BY <1>2, <1>3, <1>4, <1>5

LEMMA StepDumpInv == DumpInv /\ [Next]_vars => DumpInv'
  <1>. SUFFICES ASSUME DumpInv, [Next]_vars
                PROVE  DumpInv'
    OBVIOUS
  <1>1. scene \in Scenes /\ "kind" \in DOMAIN job /\ calls \in Seq(Calls)
    BY DEF DumpInv
  <1>2. ASSUME scene' = scene, job' = job,
               NEW CONSTANT cs, NEW CONSTANT hs, NEW CONSTANT vs,
               calls' = cs, headers' = hs, values' = vs,
               cs \in Seq(Calls), \A p \in vs : ValueTrue(p), calls = <<>> => cs = <<>>,
               hs \union OwesAll(cs) = headers \union OwesAll(calls)
        PROVE  DumpInv'
    <2>1. (calls \in Seq(Calls))' /\ (\A p \in values : ValueTrue(p))'
      BY <1>2, SceneKeepsCalls
    <2>2. (headers \union OwesAll(calls))' = headers \union OwesAll(calls)
      <3>1. OwesAll(cs)' = OwesAll(cs)
        BY <1>2, SceneKeepsOwed
      <3>. QED
        BY <1>2, <3>1
    <2>3. Asked' = Asked
      BY <1>2, SceneKeepsAsked
    <2>4. Lasts(job.type)' = Lasts(job.type) /\ Readable(job.at)' = Readable(job.at)
      BY <1>2 DEF Lasts, Readable, Info
    <2>. QED
      BY <1>1, <1>2, <2>1, <2>2, <2>3, <2>4 DEF DumpInv
  <1>3. ASSUME scene' = scene, job' = job, dumpVars' = dumpVars
        PROVE  DumpInv'
    <2>1. PICK cs : cs = calls
      OBVIOUS
    <2>2. PICK hs : hs = headers
      OBVIOUS
    <2>3. PICK vs : vs = values
      OBVIOUS
    <2>4. calls' = cs /\ headers' = hs /\ values' = vs
      BY <1>3, <2>1, <2>2, <2>3 DEF dumpVars
    <2>5. cs \in Seq(Calls) /\ (\A p \in vs : ValueTrue(p)) /\ hs \union OwesAll(cs) = headers \union OwesAll(calls)
      BY <2>1, <2>2, <2>3 DEF DumpInv
    <2>. QED
      BY <1>2, <1>3, <2>1, <2>4, <2>5
  <1>4. CASE DumpVariable
    <2>1. PICK c : c = Head(calls)
      OBVIOUS
    <2>2. PICK rest : rest = Tail(calls)
      OBVIOUS
    <2>3. PICK more : more = ValueCalls(c) \o MemberCalls(c)
      OBVIOUS
    <2>4. /\ calls # <<>> /\ scene' = scene /\ job' = job /\ calls' = more \o rest
          /\ headers' = headers \union (IF Header(c) THEN {<<c.at, c.display>>} ELSE {})
          /\ values' = values \union ValuesOf(c)
      BY <1>4, <2>1, <2>2, <2>3 DEF DumpVariable
    <2>5. c \in Calls /\ rest \in Seq(Calls) /\ ToSet(calls) = {c} \union ToSet(rest)
      BY <1>1, <2>1, <2>2, <2>4, FirstAndRest
    <2>6. /\ more \in Seq(Calls)
          /\ Owes(c) = (IF Header(c) THEN {<<c.at, c.display>>} ELSE {}) \union OwesAll(more)
      BY <1>1, <2>3, <2>5, CallOwes
    <2>7. more \o rest \in Seq(Calls) /\ ToSet(more \o rest) = ToSet(more) \union ToSet(rest)
      BY <2>5, <2>6, JoinedSet
    <2>8. PICK cs : cs = more \o rest
      OBVIOUS
    <2>9. PICK hs : hs = headers \union (IF Header(c) THEN {<<c.at, c.display>>} ELSE {})
      OBVIOUS
    <2>10. PICK vs : vs = values \union ValuesOf(c)
      OBVIOUS
    <2>11. OwesAll(cs) = OwesAll(more) \union OwesAll(rest) /\ OwesAll(calls) = Owes(c) \union OwesAll(rest)
      BY <2>5, <2>7, <2>8 DEF OwesAll
    <2>12. hs \union OwesAll(cs) = headers \union OwesAll(calls)
      BY <2>6, <2>9, <2>11
    <2>13. \A p \in vs : ValueTrue(p)
      BY <1>1, <2>5, <2>10, CallValues DEF DumpInv
    <2>. HIDE DEF Calls
    <2>. QED
      BY <1>2, <2>4, <2>7, <2>8, <2>9, <2>10, <2>12, <2>13
  <1>5. CASE NextRoot /\ UNCHANGED dumpVars
    <2>1. /\ scene' = scene /\ job.kind \in {"graph", "areas"} /\ job' = [job EXCEPT !.at = @ + 1]
          /\ calls' = calls /\ values' = values
      BY <1>5 DEF NextRoot, dumpVars
    <2>2. job'.kind = job.kind /\ "kind" \in DOMAIN job'
      BY <1>1, <2>1
    <2>3. calls = <<>> /\ calls' = <<>>
      BY <2>1 DEF DumpInv
    <2>4. PICK vs : vs = values
      OBVIOUS
    <2>5. \A p \in vs : ValueTrue(p)
      BY <2>4 DEF DumpInv
    <2>6. (\A p \in values : ValueTrue(p))'
      BY <2>1, <2>4, <2>5, SceneKeepsCalls
    <2>7. (calls \in Seq(Calls))'
      BY <2>3
    <2>. QED
      BY <1>1, <2>1, <2>2, <2>3, <2>6, <2>7 DEF DumpInv
  <1>6. CASE UNCHANGED vars
    BY <1>3, <1>6 DEF vars
  <1>7. CASE (DoGather \/ FollowPointer) /\ UNCHANGED dumpVars
    BY <1>3, <1>7 DEF DoGather, FollowPointer
  <1>8. CASE ShowType /\ UNCHANGED dumpVars
    BY <1>3, <1>8 DEF ShowType
  <1>9. CASE NextAddress /\ UNCHANGED dumpVars
    BY <1>3, <1>9 DEF NextAddress, PrintText, PrintTexts, PrintNumbers, PrintRow
  <1>10. CASE NextFields /\ UNCHANGED dumpVars
    BY <1>3, <1>10 DEF NextFields, AskStatic, AskField
  <1>. QED
    BY <1>4, <1>5, <1>6, <1>7, <1>8, <1>9, <1>10 DEF Next, NextGather

LEMMA DumpInvIsRight == DumpInv => DumpRight
  <1>. SUFFICES ASSUME DumpInv
                PROVE  DumpRight
    OBVIOUS
  <1>1. ValuesTrue
    BY DEF DumpInv, ValuesTrue, ValueTrue
  <1>2. ASSUME job.kind = "dump", calls = <<>>, Lasts(job.type), Readable(job.at)
        PROVE  headers = Asked
    <2>1. OwesAll(calls) = {}
      BY <1>2 DEF OwesAll, ToSet
    <2>. QED
      BY <1>2, <2>1 DEF DumpInv
  <1>3. LinesComplete
    BY <1>2 DEF LinesComplete, Asked
  <1>. QED
    BY <1>1, <1>3 DEF DumpRight

(* The dump of a variable has a line for every part of its type, and of    *)
(* what its own pointers point to, at the address it lies at, and no other *)
(* line; its values are those of the memory there.                         *)
THEOREM DumpIsRight == Spec => []DumpRight
  BY InitDumpInv, StepDumpInv, DumpInvIsRight, PTL DEF Spec
===============================================================================
