-------------------------- MODULE ListWalkers_proofs --------------------------
(***************************************************************************)
(* Proofs about ListWalkers for all structures: a walk that ends has       *)
(* visited what can be come by, and nothing twice if one way leads to each *)
(* node.  The invariant of both is the one of every search of a graph: the *)
(* links of what was visited lead to what was visited or is pending.       *)
(***************************************************************************)
EXTENDS ListWalkers, TLAPS

Members(s) == {s[k] : k \in DOMAIN s}

NoRepeat(s) == \A j, k \in DOMAIN s : s[j] = s[k] => j = k

-------------------------------------------------------------------------------
(* Vectors that are joined.                                                *)
LEMMA JoinedMembers ==
    ASSUME NEW S, NEW r \in Seq(S), NEW t \in Seq(S)
    PROVE  /\ r \o t \in Seq(S)
           /\ Members(r \o t) = Members(r) \union Members(t)
  <1>1. /\ Len(r) \in Nat /\ Len(t) \in Nat
        /\ r \o t \in Seq(S) /\ Len(r \o t) = Len(r) + Len(t)
        /\ DOMAIN (r \o t) = 1..(Len(r) + Len(t)) /\ DOMAIN r = 1..Len(r) /\ DOMAIN t = 1..Len(t)
    OBVIOUS
  <1>2. \A k \in DOMAIN r : (r \o t)[k] = r[k] /\ k \in DOMAIN (r \o t)
    OBVIOUS
  <1>3. \A k \in DOMAIN t : (r \o t)[Len(r) + k] = t[k] /\ Len(r) + k \in DOMAIN (r \o t)
    OBVIOUS
  <1>4. \A k \in DOMAIN (r \o t) : k \in DOMAIN r \/ (k - Len(r) \in DOMAIN t /\ k = Len(r) + (k - Len(r)))
    BY <1>1
  <1>5. Members(r) \subseteq Members(r \o t)
    BY <1>2 DEF Members
  <1>6. ASSUME NEW k \in DOMAIN t
        PROVE  t[k] \in Members(r \o t)
    <2>1. Len(r) + k \in DOMAIN (r \o t) /\ (r \o t)[Len(r) + k] = t[k]
      BY <1>3
    <2>. QED
      BY <2>1 DEF Members
  <1>7. ASSUME NEW k \in DOMAIN (r \o t)
        PROVE  (r \o t)[k] \in Members(r) \union Members(t)
    <2>1. CASE k \in DOMAIN r
      BY <2>1, <1>2 DEF Members
    <2>2. CASE k - Len(r) \in DOMAIN t /\ k = Len(r) + (k - Len(r))
      <3>1. (r \o t)[k] = t[k - Len(r)]
        BY <2>2, <1>3
      <3>. QED
        BY <2>2, <3>1 DEF Members
    <2>. QED
      BY <2>1, <2>2, <1>4
  <1>. QED
    BY <1>1, <1>5, <1>6, <1>7 DEF Members

LEMMA JoinedNoRepeat ==
    ASSUME NEW S, NEW r \in Seq(S), NEW t \in Seq(S), NoRepeat(r), NoRepeat(t),
           Members(r) \cap Members(t) = {}
    PROVE  NoRepeat(r \o t)
  <1>. SUFFICES ASSUME NEW j \in DOMAIN (r \o t), NEW k \in DOMAIN (r \o t), (r \o t)[j] = (r \o t)[k]
                PROVE  j = k
    BY DEF NoRepeat
  <1>1. Len(r) \in Nat /\ Len(t) \in Nat /\ j \in 1..(Len(r) + Len(t)) /\ k \in 1..(Len(r) + Len(t))
    OBVIOUS
  <1>2. \A n \in 1..(Len(r) + Len(t)) :
            \/ n \in DOMAIN r /\ (r \o t)[n] = r[n]
            \/ n > Len(r) /\ n - Len(r) \in DOMAIN t /\ (r \o t)[n] = t[n - Len(r)]
    OBVIOUS
  <1>3. \A n \in DOMAIN r : r[n] \in Members(r) /\ n <= Len(r)
    BY DEF Members
  <1>4. \A n \in DOMAIN t : t[n] \in Members(t)
    BY DEF Members
  <1>5. CASE j \in DOMAIN r /\ (r \o t)[j] = r[j]
    <2>1. k \in DOMAIN r /\ (r \o t)[k] = r[k]
      BY <1>1, <1>2, <1>3, <1>4, <1>5
    <2>. QED
      BY <1>5, <2>1 DEF NoRepeat
  <1>6. CASE j > Len(r) /\ j - Len(r) \in DOMAIN t /\ (r \o t)[j] = t[j - Len(r)]
    <2>1. k > Len(r) /\ k - Len(r) \in DOMAIN t /\ (r \o t)[k] = t[k - Len(r)]
      BY <1>1, <1>2, <1>3, <1>4, <1>6
    <2>2. j - Len(r) = k - Len(r)
      BY <1>6, <2>1 DEF NoRepeat
    <2>. QED
      BY <2>2, <1>1
  <1>. QED
    BY <1>1, <1>2, <1>5, <1>6

LEMMA SingletonSeq ==
    ASSUME NEW S, NEW x \in S
    PROVE  <<x>> \in Seq(S)
  OBVIOUS

LEMMA EmptyMembers == Members(<<>>) = {} /\ NoRepeat(<<>>)
  BY DEF Members, NoRepeat

(* Taking the last of a vector.                                            *)
LEMMA PoppedMembers ==
    ASSUME NEW S, NEW s \in Seq(S), s # <<>>
    PROVE  LET x == s[Len(s)]
               r == SubSeq(s, 1, Len(s) - 1)
           IN  /\ x \in S
               /\ r \in Seq(S)
               /\ Members(s) = Members(r) \union {x}
               /\ NoRepeat(s) => NoRepeat(r) /\ x \notin Members(r)
  <1>. DEFINE x == s[Len(s)]
              r == SubSeq(s, 1, Len(s) - 1)
  <1>1. Len(s) \in Nat /\ Len(s) > 0 /\ DOMAIN s = 1..Len(s) /\ Len(s) \in 1..Len(s)
    OBVIOUS
  <1>2. r \in Seq(S) /\ Len(r) = Len(s) - 1 /\ DOMAIN r = 1..(Len(s) - 1)
        /\ \A k \in 1..(Len(s) - 1) : r[k] = s[k]
    BY <1>1
  <1>3. x \in S
    BY <1>1
  <1>4. Members(s) \subseteq Members(r) \union {x}
    <2>1. ASSUME NEW k \in DOMAIN s
          PROVE  s[k] \in Members(r) \union {x}
      <3>1. CASE k = Len(s)
        BY <3>1
      <3>2. CASE k # Len(s)
        <4>1. k \in 1..(Len(s) - 1)
          BY <3>2, <1>1
        <4>2. k \in DOMAIN r /\ r[k] = s[k]
          BY <4>1, <1>2
        <4>. QED
          BY <4>2 DEF Members
      <3>. QED
        BY <3>1, <3>2
    <2>. QED
      BY <2>1 DEF Members
  <1>5. Members(r) \subseteq Members(s)
    <2>1. ASSUME NEW k \in DOMAIN r
          PROVE  r[k] \in Members(s)
      <3>1. k \in DOMAIN s /\ r[k] = s[k]
        BY <1>1, <1>2
      <3>. QED
        BY <3>1 DEF Members
    <2>. QED
      BY <2>1 DEF Members
  <1>6. x \in Members(s)
    BY <1>1 DEF Members
  <1>7. ASSUME NoRepeat(s)
        PROVE  NoRepeat(r) /\ x \notin Members(r)
    <2>1. \A k \in DOMAIN r : k \in DOMAIN s /\ r[k] = s[k] /\ k # Len(s)
      BY <1>1, <1>2
    <2>2. NoRepeat(r)
      BY <2>1, <1>7 DEF NoRepeat
    <2>3. \A k \in DOMAIN r : r[k] # x
      BY <2>1, <1>1, <1>7 DEF NoRepeat
    <2>. QED
      BY <2>2, <2>3 DEF Members
  <1>. QED
    BY <1>2, <1>3, <1>4, <1>5, <1>6, <1>7

-------------------------------------------------------------------------------
(* What is pushed are the links, each once if they are not twins.          *)
LEMMA UnlessMembers ==
    ASSUME NEW hold, NEW n
    PROVE  /\ Members(Unless(hold, n)) = {n} \ hold
           /\ Unless(hold, n) \in Seq({n} \ hold)
           /\ NoRepeat(Unless(hold, n))
  BY DEF Members, Unless, NoRepeat

LEMMA PushMembers ==
    ASSUME NEW g, NEW n
    PROVE  /\ Members(PushChildren(g, n)) = {g.left[n], g.right[n]} \ {0}
           /\ PushChildren(g, n) \in Seq({g.left[n], g.right[n]} \ {0})
           /\ g.left[n] # g.right[n] \/ g.left[n] = 0 => NoRepeat(PushChildren(g, n))
  <1>. DEFINE S == {g.left[n], g.right[n]} \ {0}
              r == Unless({0}, g.right[n])
              t == Unless({0}, g.left[n])
  <1>1. r \in Seq(S) /\ Members(r) = {g.right[n]} \ {0} /\ NoRepeat(r)
    <2>1. r \in Seq(S)
      <3>1. CASE g.right[n] = 0
        BY <3>1 DEF Unless
      <3>2. CASE g.right[n] # 0
        <4>1. r = <<g.right[n]>> /\ g.right[n] \in S
          BY <3>2 DEF Unless
        <4>. QED
          BY <4>1, SingletonSeq
      <3>. QED
        BY <3>1, <3>2
    <2>. QED
      BY <2>1, UnlessMembers
  <1>2. t \in Seq(S) /\ Members(t) = {g.left[n]} \ {0} /\ NoRepeat(t)
    <2>1. t \in Seq(S)
      <3>1. CASE g.left[n] = 0
        BY <3>1 DEF Unless
      <3>2. CASE g.left[n] # 0
        <4>1. t = <<g.left[n]>> /\ g.left[n] \in S
          BY <3>2 DEF Unless
        <4>. QED
          BY <4>1, SingletonSeq
      <3>. QED
        BY <3>1, <3>2
    <2>. QED
      BY <2>1, UnlessMembers
  <1>3. PushChildren(g, n) = r \o t
    BY DEF PushChildren
  <1>. HIDE DEF S, r, t
  <1>4. r \o t \in Seq(S) /\ Members(r \o t) = Members(r) \union Members(t)
    BY <1>1, <1>2, JoinedMembers
  <1>5. ASSUME g.left[n] # g.right[n] \/ g.left[n] = 0
        PROVE  NoRepeat(r \o t)
    <2>1. Members(r) \cap Members(t) = {}
      BY <1>1, <1>2, <1>5
    <2>. QED
      BY <1>1, <1>2, <2>1, JoinedNoRepeat
  <1>. QED
    BY <1>1, <1>2, <1>3, <1>4, <1>5 DEF S

LEMMA AfterMembers ==
    ASSUME NEW g, g.kind \in Kinds, NEW n
    PROVE  /\ Members(After(g, n)) = LinksOf(g, n)
           /\ After(g, n) \in Seq(LinksOf(g, n))
           /\ ~Twins(g, n) => NoRepeat(After(g, n))
  <1>1. CASE g.kind \in Lists
    BY <1>1, UnlessMembers DEF After, LinksOf, Lists, Stacks, Kinds
  <1>2. CASE g.kind \in Stacks
    BY <1>2, PushMembers DEF After, LinksOf, Lists, Stacks, Kinds, Twins
  <1>3. CASE g.kind = "crt"
    BY <1>3, UnlessMembers DEF After, LinksOf, Lists, Stacks, Kinds
  <1>4. CASE g.kind = "range"
    BY <1>4 DEF After, LinksOf, Lists, Stacks, Kinds, Members, NoRepeat
  <1>. QED
    BY <1>1, <1>2, <1>3, <1>4 DEF Kinds

LEMMA FirstMembers ==
    ASSUME NEW g, g.kind \in Kinds
    PROVE  /\ Members(First(g)) = LinksOfHead(g)
           /\ First(g) \in Seq(LinksOfHead(g))
           /\ g.kind # "links" \/ ~Twins(g, g.head) => NoRepeat(First(g))
  <1>1. CASE g.kind \in Lists
    <2>1. First(g) = Unless({0, g.head}, Decode(g, g.next[g.head], g.head))
      BY <1>1 DEF First, Lists, Stacks
    <2>2. LinksOfHead(g) = {Decode(g, g.next[g.head], g.head)} \ {0, g.head}
      BY <1>1 DEF LinksOfHead, LinksOf, Lists, Stacks
    <2>. QED
      BY <2>1, <2>2, UnlessMembers
  <1>2. CASE g.kind = "links"
    BY <1>2, PushMembers DEF First, LinksOf, LinksOfHead, Lists, Stacks, Kinds, Twins
  <1>3. CASE g.kind = "tree"
    BY <1>3, UnlessMembers DEF First, LinksOfHead, Lists, Stacks, Kinds
  <1>4. CASE g.kind = "crt"
    <2>1. LinksOfHead(g) = IF g.head \in g.readable THEN {g.next[g.head]} \ {0} ELSE {}
      BY <1>4 DEF LinksOfHead, Lists
    <2>2. First(g) = IF g.head \in g.readable THEN Unless({0}, g.next[g.head]) ELSE <<>>
      BY <1>4 DEF First, Lists, Stacks
    <2>3. CASE g.head \in g.readable
      BY <2>1, <2>2, <2>3, UnlessMembers
    <2>4. CASE g.head \notin g.readable
      <3>1. First(g) = <<>> /\ LinksOfHead(g) = {}
        BY <2>1, <2>2, <2>4
      <3>. QED
        BY <3>1, EmptyMembers
    <2>. QED
      BY <2>3, <2>4
  <1>5. CASE g.kind = "range"
    <2>1. LinksOfHead(g) = IF g.tail = 0 THEN {} ELSE {g.next[g.head]} \ {0}
      BY <1>5 DEF LinksOfHead, Lists
    <2>2. First(g) = IF g.tail = 0 THEN <<>> ELSE Unless({0}, g.next[g.head])
      BY <1>5 DEF First, Lists, Stacks
    <2>3. CASE g.tail # 0
      <3>1. First(g) = Unless({0}, g.next[g.head]) /\ LinksOfHead(g) = {g.next[g.head]} \ {0}
        BY <2>1, <2>2, <2>3
      <3>. QED
        BY <3>1, UnlessMembers
    <2>4. CASE g.tail = 0
      <3>1. First(g) = <<>> /\ LinksOfHead(g) = {}
        BY <2>1, <2>2, <2>4
      <3>. QED
        BY <3>1, EmptyMembers
    <2>. QED
      BY <2>3, <2>4
  <1>. QED
    BY <1>1, <1>2, <1>3, <1>4, <1>5 DEF Kinds, Stacks

-------------------------------------------------------------------------------
(* What can be come by is the least closed set around the links of the     *)
(* head.                                                                   *)
LEMMA ReachableFirst ==
    ASSUME NEW g, IsGraph(g)
    PROVE  LinksOfHead(g) \subseteq Reachable(g)
  BY DEF Reachable, Reach, Enclosing, IsGraph

LEMMA ReachableNext ==
    ASSUME NEW g, IsGraph(g), NEW n \in Reachable(g)
    PROVE  LinksOf(g, n) \subseteq Reachable(g)
  BY DEF Reachable, Reach, Enclosing, Closed, IsGraph

LEMMA ReachableLeast ==
    ASSUME NEW g, NEW S \in SUBSET Words, LinksOfHead(g) \subseteq S, Closed(g, S)
    PROVE  Reachable(g) \subseteq S
  BY DEF Reachable, Reach, Enclosing

LEMMA ReachableWords ==
    ASSUME NEW g
    PROVE  Reachable(g) \subseteq Words
  BY DEF Reachable, Reach

-------------------------------------------------------------------------------
TypeInv ==
    /\ links \in Structures
    /\ turn \in DOMAIN links.graphs
    /\ state \in {"start", "walk", "end", "thrown"}
    /\ pending \in Seq(Reachable(Graph))

(* Everything that links lead to is visited or pending.                    *)
SearchInv ==
    /\ visited \subseteq Reachable(Graph)
    /\ state = "start" => visited = {} /\ pending = <<>>
    /\ state = "walk" =>
        /\ LinksOfHead(Graph) \subseteq visited \union Members(pending)
        /\ \A n \in visited : LinksOf(Graph, n) \subseteq visited \union Members(pending)
    /\ state = "end" => visited = Reachable(Graph) /\ Last
    /\ turn = 1 => filters = {}
    /\ turn # 1 => filters = Reachable(links.graphs[1]) \/ Reachable(Graph) = {}

(* Whatever is visited or pending was come by on the one way to it.        *)
OnceInv ==
    (\A k \in DOMAIN links.graphs : OneWayIn(links.graphs[k])) =>
        /\ again = {}
        /\ state = "walk" =>
            /\ NoRepeat(pending)
            /\ Members(pending) \cap visited = {}
            /\ \A n \in visited \union Members(pending) :
                n \in LinksOfHead(Graph) \/ \E m \in visited : n \in LinksOf(Graph, m)

WalkInv == TypeInv /\ SearchInv /\ OnceInv

LEMMA GraphIsGraph ==
    ASSUME links \in Structures, turn \in DOMAIN links.graphs
    PROVE  /\ IsGraph(Graph) /\ Graph.kind \in Kinds
           /\ Len(links.graphs) \in {1, 2} /\ DOMAIN links.graphs = 1..Len(links.graphs)
  <1>1. /\ links.graphs \in Seq({links.graphs[k] : k \in DOMAIN links.graphs})
        /\ Len(links.graphs) \in {1, 2}
        /\ IsGraph(links.graphs[turn])
    BY StructuresAreGraphs
  <1>2. DOMAIN links.graphs = 1..Len(links.graphs)
    BY <1>1
  <1>. QED
    BY <1>1, <1>2 DEF Graph, IsGraph

(* A vector that is empty leaves nothing that was not visited.             *)
LEMMA AllVisited ==
    ASSUME TypeInv, SearchInv, state = "walk", pending = <<>>
    PROVE  visited = Reachable(Graph)
  <1>1. Members(pending) = {}
    BY EmptyMembers
  <1>2. LinksOfHead(Graph) \subseteq visited /\ Closed(Graph, visited)
    BY <1>1 DEF SearchInv, Closed
  <1>3. visited \in SUBSET Words
    BY ReachableWords DEF SearchInv
  <1>4. Reachable(Graph) \subseteq visited
    BY <1>2, <1>3, ReachableLeast
  <1>. QED
    BY <1>4 DEF SearchInv

LEMMA NothingToVisit ==
    ASSUME NEW g, g.kind \in Kinds, First(g) = <<>>
    PROVE  Reachable(g) = {}
  <1>1. LinksOfHead(g) = {}
    BY FirstMembers, EmptyMembers
  <1>2. Closed(g, {})
    BY DEF Closed
  <1>. QED
    BY <1>1, <1>2, ReachableLeast

(* The end of a walk, whether it had anything to visit or not.             *)
LEMMA FinishKeeps ==
    ASSUME WalkInv, state \in {"start", "walk"}, pending = <<>>, visited = Reachable(Graph),
           Finish, UNCHANGED <<links, pending, again>>
    PROVE  WalkInv'
  <1>. USE GraphIsGraph DEF WalkInv
  <1>1. CASE Last
    <2>1. Graph' = Graph /\ state' = "end" /\ turn' = turn /\ filters' = filters /\ visited' = visited /\ Last'
      BY <1>1 DEF Finish, Graph, Last
    <2>2. TypeInv'
      BY <2>1 DEF TypeInv
    <2>3. SearchInv'
      BY <2>1 DEF SearchInv
    <2>4. OnceInv'
      BY <2>1 DEF OnceInv
    <2>. QED
      BY <2>2, <2>3, <2>4
  <1>2. CASE ~Last
    <2>1. turn = 1 /\ turn' = 2 /\ turn' \in DOMAIN links'.graphs
      <3>1. Len(links.graphs) \in {1, 2} /\ DOMAIN links.graphs = 1..Len(links.graphs)
        BY DEF TypeInv
      <3>2. turn \in 1..Len(links.graphs) /\ turn # Len(links.graphs) /\ turn' = turn + 1
        BY <1>2, <3>1 DEF Finish, Last, TypeInv
      <3>. DEFINE n == Len(links.graphs)
      <3>3. n = 1 \/ n = 2
        BY <3>1
      <3>4. CASE n = 1
        <4>1. turn \in 1..1 /\ turn # 1
          BY <3>2, <3>4
        <4>. QED
          BY <4>1
      <3>5. CASE n = 2
        <4>1. turn \in 1..2 /\ turn # 2 /\ turn' = turn + 1
          BY <3>2, <3>5
        <4>2. turn = 1 /\ turn' = 2
          BY <4>1
        <4>3. 2 \in DOMAIN links.graphs
          BY <3>1, <3>5
        <4>4. links' = links
          BY DEF WalkInv
        <4>. QED
          BY <4>2, <4>3, <4>4
      <3>. QED
        BY <3>3, <3>4, <3>5
    <2>2. state' = "start" /\ filters' = visited /\ visited' = {}
      BY <1>2 DEF Finish
    <2>3. Graph = links.graphs[1]
      BY <2>1 DEF Graph
    <2>4. TypeInv'
      BY <2>1, <2>2 DEF TypeInv
    <2>5. SearchInv'
      BY <2>1, <2>2, <2>3 DEF SearchInv
    <2>6. OnceInv'
      BY <2>2 DEF OnceInv
    <2>. QED
      BY <2>4, <2>5, <2>6
  <1>. QED
    BY <1>1, <1>2

LEMMA StartKeeps ==
    ASSUME WalkInv, Start
    PROVE  WalkInv'
  <1>. USE GraphIsGraph DEF WalkInv
  <1>1. Graph' = Graph /\ state = "start" /\ state' = "walk" /\ pending' = First(Graph) /\ visited = {}
        /\ visited' = visited /\ again' = again /\ filters' = filters /\ turn' = turn /\ links' = links
    BY DEF Start, Graph, SearchInv
  <1>2. Members(pending') = LinksOfHead(Graph) /\ pending' \in Seq(LinksOfHead(Graph))
    BY <1>1, FirstMembers DEF TypeInv
  <1>3. pending' \in Seq(Reachable(Graph))
    BY <1>2, ReachableFirst DEF TypeInv
  <1>4. TypeInv'
    BY <1>1, <1>3 DEF TypeInv
  <1>5. SearchInv'
    BY <1>1, <1>2 DEF SearchInv
  <1>6. OnceInv'
    <2>1. OneWayIn(Graph) => NoRepeat(pending')
      BY <1>1, FirstMembers DEF TypeInv, OneWayIn
    <2>. QED
      BY <1>1, <1>2, <2>1 DEF OnceInv, TypeInv, Graph
  <1>. QED
    BY <1>4, <1>5, <1>6

(* With no blocks of its own a dump is done at once.                       *)
LEMMA UnusedKeeps ==
    ASSUME WalkInv, StartUnused
    PROVE  WalkInv'
  <1>. DEFINE own == Len(links.graphs)
  <1>1. /\ links' = links /\ turn' = own /\ state = "start" /\ state' = "end" /\ turn # own
        /\ pending' = pending /\ visited' = visited /\ again' = again /\ First(links.graphs[own]) = <<>>
    BY DEF StartUnused, Unused, Last
  <1>2. links \in Structures /\ own \in DOMAIN links.graphs /\ IsGraph(links.graphs[own]) /\ own # 1
    <2>1. /\ links \in Structures /\ turn \in 1..own /\ own \in {1, 2}
          /\ DOMAIN links.graphs = 1..own
      BY GraphIsGraph DEF WalkInv, TypeInv
    <2>2. own \in DOMAIN links.graphs
      BY <2>1
    <2>3. own # 1
      BY <1>1, <2>1
    <2>. QED
      BY <2>1, <2>2, <2>3, StructuresAreGraphs
  <1>3. Graph' = links.graphs[own] /\ Reachable(links.graphs[own]) = {}
    BY <1>1, <1>2, NothingToVisit DEF Graph, IsGraph
  <1>4. visited = {} /\ pending = <<>>
    BY <1>1 DEF WalkInv, SearchInv
  <1>5. TypeInv'
    BY <1>1, <1>2, <1>4 DEF TypeInv
  <1>6. SearchInv'
    BY <1>1, <1>2, <1>3, <1>4 DEF SearchInv, Last
  <1>7. OnceInv'
    BY <1>1 DEF WalkInv, OnceInv
  <1>. QED
    BY <1>5, <1>6, <1>7 DEF WalkInv

(* A step of the search.                                                   *)
LEMMA StepKeeps ==
    ASSUME WalkInv, Step
    PROVE  WalkInv'
  <1>. USE GraphIsGraph DEF WalkInv
  <1>. DEFINE R == Reachable(Graph)
              x == Node
              r == Rest
              t == After(Graph, Node)
  <1>1. /\ Graph' = Graph /\ state = "walk" /\ state' = "walk" /\ pending' = r \o t /\ pending # <<>>
        /\ visited' = visited \union {x} /\ filters' = filters /\ turn' = turn /\ links' = links
        /\ again' = IF x \in visited THEN again \union {x} ELSE again
    BY DEF Step, Graph, Visit
  <1>2. pending \in Seq(R) /\ x = pending[Len(pending)] /\ r = SubSeq(pending, 1, Len(pending) - 1)
    BY DEF TypeInv, Node, Rest
  <1>3. /\ x \in R /\ r \in Seq(R) /\ Members(pending) = Members(r) \union {x}
        /\ NoRepeat(pending) => NoRepeat(r) /\ x \notin Members(r)
    <2>. DEFINE p == pending
    <2>1. p \in Seq(R) /\ p # <<>> /\ x = p[Len(p)] /\ r = SubSeq(p, 1, Len(p) - 1)
      BY <1>1, <1>2
    <2>2. Members(pending) = Members(p) /\ NoRepeat(pending) = NoRepeat(p)
      OBVIOUS
    <2>. HIDE DEF R, x, r, p
    <2>. QED
      BY <2>1, <2>2, PoppedMembers
  <1>4. /\ Members(t) = LinksOf(Graph, x) /\ t \in Seq(LinksOf(Graph, x))
        /\ ~Twins(Graph, x) => NoRepeat(t)
    BY AfterMembers DEF TypeInv
  <1>5. LinksOf(Graph, x) \subseteq R
    BY <1>3, ReachableNext DEF TypeInv
  <1>6. t \in Seq(R)
    <2>. HIDE DEF R, x, t
    <2>. QED
      BY <1>4, <1>5
  <1>7. r \o t \in Seq(R) /\ Members(r \o t) = Members(r) \union Members(t)
    <2>. HIDE DEF R, r, t
    <2>. QED
      BY <1>3, <1>6, JoinedMembers
  <1>. HIDE DEF R, x, r, t
  <1>8. TypeInv'
    BY <1>1, <1>7 DEF TypeInv, R
  <1>9. SearchInv'
    <2>1. visited' \union Members(pending') = visited \union Members(pending) \union LinksOf(Graph, x)
      BY <1>1, <1>3, <1>4, <1>7
    <2>2. visited' \subseteq Reachable(Graph)
      BY <1>1, <1>3 DEF SearchInv, R
    <2>. QED
      BY <1>1, <2>1, <2>2 DEF SearchInv
  <1>10. OnceInv'
    <2>. SUFFICES ASSUME \A k \in DOMAIN links.graphs : OneWayIn(links.graphs[k])
                  PROVE  /\ again' = {}
                         /\ NoRepeat(pending')
                         /\ Members(pending') \cap visited' = {}
                         /\ \A n \in visited' \union Members(pending') :
                              n \in LinksOfHead(Graph) \/ \E m \in visited' : n \in LinksOf(Graph, m)
      BY <1>1 DEF OnceInv
    <2>1. OneWayIn(Graph)
      BY DEF Graph, TypeInv
    <2>2. /\ again = {} /\ NoRepeat(pending) /\ Members(pending) \cap visited = {}
          /\ \A n \in visited \union Members(pending) :
                n \in LinksOfHead(Graph) \/ \E m \in visited : n \in LinksOf(Graph, m)
      BY <1>1 DEF OnceInv
    <2>3. x \notin visited /\ x \notin Members(r) /\ NoRepeat(r)
      BY <1>3, <2>2
    <2>4. /\ ~Twins(Graph, x) /\ LinksOf(Graph, x) \cap LinksOfHead(Graph) = {}
          /\ \A m \in R \ {x} : LinksOf(Graph, x) \cap LinksOf(Graph, m) = {}
      BY <1>3, <2>1 DEF OneWayIn, R
    <2>5. LinksOf(Graph, x) \cap (visited \union Members(pending)) = {}
      <3>. SUFFICES ASSUME NEW n \in LinksOf(Graph, x), n \in visited \union Members(pending)
                    PROVE  FALSE
        OBVIOUS
      <3>1. PICK m \in visited : n \in LinksOf(Graph, m)
        BY <2>2, <2>4
      <3>2. m \in R \ {x}
        BY <3>1, <2>3 DEF SearchInv, R
      <3>. QED
        BY <3>1, <3>2, <2>4
    <2>6. NoRepeat(pending')
      <3>1. Members(r) \cap Members(t) = {}
        BY <1>3, <1>4, <2>5
      <3>. QED
        BY <1>1, <1>3, <1>4, <1>6, <2>3, <2>4, <3>1, JoinedNoRepeat
    <2>7. Members(pending') \cap visited' = {}
      BY <1>1, <1>3, <1>4, <1>7, <2>2, <2>3, <2>5
    <2>8. ASSUME NEW n \in visited' \union Members(pending')
          PROVE  n \in LinksOfHead(Graph) \/ \E m \in visited' : n \in LinksOf(Graph, m)
      <3>1. n \in visited \union Members(pending) \/ n \in LinksOf(Graph, x)
        BY <1>1, <1>3, <1>4, <1>7
      <3>. QED
        BY <3>1, <1>1, <2>2
    <2>. QED
      BY <1>1, <2>2, <2>3, <2>6, <2>7, <2>8
  <1>. QED
    BY <1>8, <1>9, <1>10

LEMMA StepThrowsKeeps ==
    ASSUME WalkInv, StepThrows
    PROVE  WalkInv'
  <1>. USE GraphIsGraph DEF WalkInv
  <1>1. /\ Graph' = Graph /\ state = "walk" /\ state' = "thrown" /\ pending' = pending /\ pending # <<>>
        /\ filters' = filters /\ turn' = turn /\ links' = links
        /\ UNCHANGED <<visited, again>> \/ Visit(Node)
    BY DEF StepThrows, Graph
  <1>2. Node \in Reachable(Graph) /\ Node \in Members(pending)
    <2>1. pending \in Seq(Reachable(Graph)) /\ Node = pending[Len(pending)]
      BY DEF TypeInv, Node
    <2>. QED
      <3>1. Len(pending) \in DOMAIN pending
        BY <1>1, <2>1
      <3>. QED
        BY <2>1, <3>1 DEF Members
  <1>3. visited' \subseteq Reachable(Graph)
    BY <1>1, <1>2 DEF Visit, SearchInv
  <1>4. TypeInv'
    BY <1>1 DEF TypeInv
  <1>5. SearchInv'
    BY <1>1, <1>3 DEF SearchInv
  <1>6. OnceInv'
    BY <1>1, <1>2 DEF OnceInv, Visit
  <1>. QED
    BY <1>4, <1>5, <1>6

-------------------------------------------------------------------------------
(* Every walk is such a search.                                            *)
THEOREM WalkIsSearch == Spec => []WalkInv
  <1>1. Init => WalkInv
    <2>. SUFFICES ASSUME Init
                  PROVE  WalkInv
      OBVIOUS
    <2>1. turn \in DOMAIN links.graphs
      <3>1. /\ links.graphs \in Seq({links.graphs[k] : k \in DOMAIN links.graphs})
            /\ Len(links.graphs) \in {1, 2}
        BY StructuresAreGraphs DEF Init
      <3>. QED
        BY <3>1 DEF Init
    <2>2. TypeInv
      BY <2>1 DEF Init, TypeInv
    <2>3. SearchInv /\ OnceInv
      BY DEF Init, SearchInv, OnceInv
    <2>. QED
      BY <2>2, <2>3 DEF WalkInv
  <1>2. WalkInv /\ [Next]_walkers => WalkInv'
    <2>. SUFFICES ASSUME WalkInv, [Next]_walkers
                  PROVE  WalkInv'
      OBVIOUS
    <2>1. CASE Start
      BY <2>1, StartKeeps
    <2>2. CASE StartEmpty
      <3>1. Reachable(Graph) = {}
        BY <2>2, NothingToVisit, GraphIsGraph DEF StartEmpty, WalkInv, TypeInv
      <3>2. pending = <<>> /\ visited = {}
        BY <2>2 DEF StartEmpty, WalkInv, SearchInv
      <3>. QED
        BY <2>2, <3>1, <3>2, FinishKeeps DEF StartEmpty
    <2>8. CASE StartUnused
      BY <2>8, UnusedKeeps
    <2>3. CASE StartThrows
      BY <2>3 DEF StartThrows, WalkInv, TypeInv, SearchInv, OnceInv, Graph, Last
    <2>4. CASE Step
      BY <2>4, StepKeeps
    <2>5. CASE StepThrows
      BY <2>5, StepThrowsKeeps
    <2>6. CASE End
      <3>1. visited = Reachable(Graph)
        BY <2>6, AllVisited DEF End, WalkInv
      <3>. QED
        BY <2>6, <3>1, FinishKeeps DEF End
    <2>7. CASE UNCHANGED walkers
      BY <2>7 DEF walkers, WalkInv, TypeInv, SearchInv, OnceInv, Graph, Last
    <2>. QED
      BY <2>1, <2>2, <2>3, <2>4, <2>5, <2>6, <2>7, <2>8 DEF Next
  <1>. QED
    BY <1>1, <1>2, PTL DEF Spec

(* A walk that comes to its end has delivered what there is, but for what  *)
(* the base dump has as well (list_entry_walker::entries and its kin).     *)
THEOREM WalkMissesNothing == Spec => []NothingMissed
  <1>1. WalkInv => NothingMissed
    <2>. SUFFICES ASSUME WalkInv
                  PROVE  NothingMissed
      OBVIOUS
    <2>1. visited \subseteq Reachable(Graph)
      BY DEF WalkInv, SearchInv
    <2>2. ASSUME state = "end", turn = 1
          PROVE  Delivered = Reachable(Graph)
      BY <2>2 DEF WalkInv, SearchInv, Delivered, IsFiltered
    <2>3. ASSUME state = "end", turn > 1
          PROVE  Delivered = Reachable(Graph) \ (links.same \cap Reachable(links.graphs[1]))
      <3>1. turn # 1
        BY <2>3
      <3>2. /\ visited = Reachable(Graph)
            /\ filters = Reachable(links.graphs[1]) \/ Reachable(Graph) = {}
        BY <2>3, <3>1 DEF WalkInv, SearchInv
      <3>. QED
        BY <3>2 DEF Delivered, IsFiltered
    <2>. QED
      BY <2>1, <2>2, <2>3 DEF NothingMissed
  <1>. QED
    BY <1>1, WalkIsSearch, PTL

(* Nothing is delivered twice if there is one way to each node.            *)
THEOREM WalkDeliversOnce == Spec => []NoneTwice
  <1>1. WalkInv => NoneTwice
    BY DEF WalkInv, OnceInv, NoneTwice
  <1>. QED
    BY <1>1, WalkIsSearch, PTL

(* So a walk gives the readers of the heaps each entry, and gives it once. *)
THEOREM WalkDeliversEach == Spec => []EachDeliveredOnce
BY WalkMissesNothing, WalkDeliversOnce, PTL DEF EachDeliveredOnce
===============================================================================
