---------------------------- MODULE HeapGraph_proofs ----------------------------
(***************************************************************************)
(* For every scene: the references of the graph stay paired from the first *)
(* link to the removal of the system's nodes, and generate_graph throws    *)
(* neither of its two exceptions.                                          *)
(*                                                                         *)
(* The invariant that carries both says which nodes can be pointed to (the *)
(* allocations, which are never roots and which pruning never removes),    *)
(* that a node has no references before its turn to be linked, and that    *)
(* what is true in result_cache has been made a system node by the time    *)
(* the removal reads the cache.                                            *)
(*                                                                         *)
(* The second part shows which allocations are marked as the system's, and *)
(* so which the filter takes out, stage by stage (MarksInv).               *)
(*                                                                         *)
(* The last part is about the display of the graph.                        *)
(***************************************************************************)
EXTENDS HeapGraph, GraphDisplay, WellFoundedInduction, FiniteSetTheorems, SequenceTheorems, TLAPS

Fields == {"kind", "type", "index", "is_system", "can_contain_user_pointers",
           "first", "size", "cells", "variables", "to", "from"}

IsReference(r) == r = [offset |-> r.offset, data |-> r.data, node |-> r.node]

NodesOK ==
    \A i \in DOMAIN nodes :
        /\ DOMAIN nodes[i] = Fields
        /\ nodes[i].type = "root" <=> i \notin DOMAIN Allocations

Linked ==
    \A i \in DOMAIN nodes :
        /\ \A r \in nodes[i].to :
              /\ IsReference(r)
              /\ r.node \in DOMAIN Allocations
              /\ r.node \in DOMAIN nodes
              /\ Back(r, i) \in nodes[r.node].from
        /\ \A r \in nodes[i].from :
              /\ IsReference(r)
              /\ i \in DOMAIN Allocations
              /\ r.node \in DOMAIN nodes
              /\ Back(r, i) \in nodes[r.node].to

Appending ==
    stage \in {"collect", "link"} =>
        /\ nodes \in Seq({nodes[i] : i \in DOMAIN nodes})
        /\ DOMAIN Allocations \subseteq DOMAIN nodes
        /\ result_cache = <<>>
        /\ again = FALSE
        /\ \A i \in DOMAIN nodes : stage = "collect" \/ i >= cursor => nodes[i].to = {}

Gathering ==
    /\ stage = "gather" /\ ~again => \A i \in DOMAIN nodes : i < cursor => i \in Cached
    /\ stage = "remove" =>
          \A i \in DOMAIN nodes : i \in Cached /\ (result_cache[i] => nodes[i].is_system)

GraphInv ==
    /\ scene \in Scenes
    /\ stage \in {"collect", "link", "gather", "remove", "done"}
    /\ cursor \in Nat
    /\ \A i \in DOMAIN nodes : i \in Nat \ {0}
    /\ NodesOK
    /\ Linked
    /\ Appending
    /\ Gathering
    /\ failed = FALSE

-------------------------------------------------------------------------------
(* The heap nodes alone satisfy the invariant: there are no references     *)
(* yet.                                                                    *)
LEMMA InitInv == InitGraph => GraphInv
<1> SUFFICES ASSUME InitGraph PROVE GraphInv
    OBVIOUS
<1>1. /\ DOMAIN nodes = DOMAIN Allocations
      /\ Allocations \in Seq({Allocations[i] : i \in DOMAIN Allocations})
    BY ScenesAssumption DEF InitGraph, IsSequence, AllocationNodes, Allocations
<1>2. DOMAIN nodes = 1..Len(Allocations) /\ Len(Allocations) \in Nat
    BY <1>1
<1>3. nodes \in Seq({nodes[i] : i \in DOMAIN nodes})
  <2>1. nodes = [i \in 1..Len(Allocations) |-> nodes[i]]
    BY <1>1, <1>2 DEF InitGraph, AllocationNodes, Allocations
  <2> QED
    BY <2>1, <1>2
<1>4. \A i \in DOMAIN nodes :
          /\ DOMAIN nodes[i] = Fields
          /\ nodes[i].type # "root"
          /\ nodes[i].to = {}
          /\ nodes[i].from = {}
    BY <1>1 DEF InitGraph, AllocationNodes, Allocations, Node, Fields
<1>5. NodesOK /\ Linked
    BY <1>1, <1>4 DEF NodesOK, Linked
<1>6. Appending /\ Gathering
    BY <1>1, <1>3, <1>4 DEF InitGraph, Appending, Gathering
<1> QED
    BY <1>2, <1>5, <1>6 DEF InitGraph, GraphInv

(* A step of the collection that changes nothing but the marks, the flags  *)
(* and the pointer variables of nodes.                                     *)
SameShape ==
    /\ DOMAIN nodes' = DOMAIN nodes
    /\ nodes' = [i \in DOMAIN nodes |-> nodes'[i]]
    /\ \A i \in DOMAIN nodes :
          /\ DOMAIN nodes'[i] = Fields
          /\ nodes'[i].to = nodes[i].to
          /\ nodes'[i].from = nodes[i].from
          /\ nodes'[i].type = "root" <=> nodes[i].type = "root"

Collecting ==
    /\ stage = "collect"
    /\ UNCHANGED <<scene, stage, cursor, again, result_cache, failed>>

(* Collecting that changes nodes in place, but none of their references,   *)
(* preserves the invariant.                                                *)
LEMMA KeepShape ==
    ASSUME GraphInv, Collecting, SameShape
    PROVE  GraphInv'
<1> USE DEF GraphInv, Collecting
<1>1. Allocations' = Allocations
    BY DEF Allocations
<1>2. NodesOK'
    BY <1>1 DEF NodesOK, SameShape
<1>3. Linked'
    BY <1>1 DEF Linked, SameShape
<1>4. nodes' \in Seq({nodes'[i] : i \in DOMAIN nodes'})
  <2>1. Len(nodes) \in Nat /\ DOMAIN nodes = 1..Len(nodes)
    BY DEF Appending
  <2>2. nodes' = [i \in 1..Len(nodes) |-> nodes'[i]]
    BY <2>1 DEF SameShape
  <2> QED
    BY <2>1, <2>2
<1>5. Appending'
    BY <1>1, <1>4 DEF Appending, SameShape
<1>6. Gathering'
    BY DEF Gathering
<1> QED
    BY <1>2, <1>3, <1>5, <1>6 DEF SameShape

(* A sequence is a sequence of its own elements.                           *)
LEMMA SequenceOfItsElements ==
    ASSUME NEW T, NEW s \in Seq(T)
    PROVE  s \in Seq({s[i] : i \in DOMAIN s})
<1>1. s = [i \in 1..Len(s) |-> s[i]] /\ Len(s) \in Nat /\ DOMAIN s = 1..Len(s)
    OBVIOUS
<1> QED
    BY <1>1

(* A new root without references preserves the invariant.                  *)
LEMMA AppendRoot ==
    ASSUME GraphInv, Collecting, NEW n, nodes' = Append(nodes, n),
           DOMAIN n = Fields, n.type = "root", n.to = {}, n.from = {}
    PROVE  GraphInv'
<1> USE DEF GraphInv, Collecting
<1> DEFINE size == Len(nodes)
           S == {nodes[i] : i \in DOMAIN nodes}
<1>1. Allocations' = Allocations
    BY DEF Allocations
<1>2. nodes \in Seq(S) /\ size \in Nat /\ DOMAIN nodes = 1..size
    BY DEF Appending
<1>3. /\ nodes' \in Seq(S \union {n})
      /\ DOMAIN nodes' = 1..size + 1
      /\ nodes'[size + 1] = n
      /\ \A i \in DOMAIN nodes : nodes'[i] = nodes[i]
  <2>1. nodes \in Seq(S \union {n})
    BY <1>2
  <2> HIDE DEF S
  <2> QED
    BY <1>2, <2>1
<1>4. \A i \in DOMAIN nodes' : i \in DOMAIN nodes \/ i = size + 1
    BY <1>2, <1>3
<1>5. size + 1 \notin DOMAIN Allocations
    BY <1>2 DEF Appending
<1>6. nodes' \in Seq({nodes'[i] : i \in DOMAIN nodes'})
  <2> HIDE DEF S
  <2> QED
    BY <1>3, SequenceOfItsElements
<1>7. NodesOK'
    BY <1>1, <1>3, <1>4, <1>5 DEF NodesOK
<1>8. Linked'
  <2>1. DOMAIN nodes \subseteq DOMAIN nodes'
    BY <1>2, <1>3
  <2>2. \A i \in DOMAIN nodes : nodes[i].to = {}
    BY DEF Appending
  <2>3. \A i \in DOMAIN nodes : nodes[i].from = {}
    BY <2>2 DEF Linked
  <2> QED
    BY <1>3, <1>4, <2>2, <2>3 DEF Linked
<1>9. Appending'
    BY <1>1, <1>2, <1>3, <1>4, <1>6 DEF Appending
<1>10. Gathering'
    BY DEF Gathering
<1> QED
    BY <1>2, <1>3, <1>4, <1>7, <1>8, <1>9, <1>10

(* Nodes that are marked keep their references.                            *)
LEMMA MarkedKeeps ==
    ASSUME NEW ns, NEW places, \A i \in DOMAIN ns : DOMAIN ns[i] = Fields
    PROVE  /\ DOMAIN Marked(ns, places) = DOMAIN ns
           /\ Marked(ns, places) = [i \in DOMAIN ns |-> Marked(ns, places)[i]]
           /\ \A i \in DOMAIN ns :
                 /\ DOMAIN Marked(ns, places)[i] = Fields
                 /\ Marked(ns, places)[i].to = ns[i].to
                 /\ Marked(ns, places)[i].from = ns[i].from
                 /\ Marked(ns, places)[i].is_system = ns[i].is_system
                 /\ i \notin places => Marked(ns, places)[i].type = ns[i].type
                 /\ i \in places => Marked(ns, places)[i].type = "system_allocation"
BY DEF Marked, Fields

(* A lookup by address leads to the node of an allocation.                 *)
LEMMA OwnersAreAllocations ==
    ASSUME NEW a
    PROVE  Owner(a) \subseteq DOMAIN Allocations /\ NodeFor(a) \subseteq DOMAIN Allocations
BY DEF Owner, NodeFor

(* Collecting a variable, a stack, a structure, a pointer or a block       *)
(* preserves the invariant.                                                *)
LEMMA CollectInv == GraphInv /\ Collect => GraphInv'
<1> SUFFICES ASSUME GraphInv, Collect PROVE GraphInv'
    OBVIOUS
<1>1. Collecting
    BY DEF Collect, Collecting
<1>2. \A i \in DOMAIN nodes :
          DOMAIN nodes[i] = Fields /\ (nodes[i].type = "root" <=> i \notin DOMAIN Allocations)
    BY DEF GraphInv, NodesOK
<1>3. ASSUME NEW places, places \subseteq DOMAIN Allocations, nodes' = Marked(nodes, places)
      PROVE  GraphInv'
  <2>1. SameShape
    BY <1>2, <1>3, MarkedKeeps DEF SameShape
  <2> QED
    BY <1>1, <2>1, KeepShape
<1>4. ASSUME NEW kind, NEW system, NEW first, NEW size, NEW cells,
             AddNode(kind, system, first, size, cells)
      PROVE  GraphInv'
  <2> DEFINE n == Node(kind, "root", Len(nodes) + 1, system, first, size, cells)
  <2>1. DOMAIN n = Fields /\ n.type = "root" /\ n.to = {} /\ n.from = {}
    BY DEF Node, Fields
  <2>2. nodes' = Append(nodes, n)
    BY <1>4 DEF AddNode
  <2> HIDE DEF n
  <2> QED
    BY <1>1, <2>1, <2>2, AppendRoot
<1>5. ASSUME UNCHANGED nodes PROVE GraphInv'
  <2>1. nodes = [i \in DOMAIN nodes |-> nodes[i]]
    BY <1>1 DEF GraphInv, Appending, Collecting
  <2>2. SameShape
    BY <1>2, <1>5, <2>1 DEF SameShape
  <2> QED
    BY <1>1, <2>2, KeepShape
<1> DEFINE o == Head(Head(work))
<1>6. CASE CollectGlobal(o.variable)
    BY <1>4, <1>6 DEF CollectGlobal
<1>7. CASE CollectRegister(o.data) \/ CollectStack(o.stack)
    BY <1>4, <1>5, <1>7 DEF CollectRegister, CollectStack
<1>8. CASE CollectSymbol(o)
  <2>1. CASE /\ Owner(o.address) # {}
             /\ nodes' = [i \in DOMAIN nodes |->
                    IF i \notin Owner(o.address) THEN nodes[i]
                    ELSE [nodes[i] EXCEPT
                            !.type = IF o.mark THEN "system_allocation" ELSE @,
                            !.can_contain_user_pointers = @ \/ o.user]]
    <3>1. \A i \in Owner(o.address) : i \in DOMAIN Allocations
      BY OwnersAreAllocations
    <3>2. \A i \in DOMAIN nodes : i \in Owner(o.address) => nodes[i].type # "root"
      BY <1>2, <3>1
    <3>3. SameShape
      BY <1>2, <2>1, <3>2 DEF SameShape, Fields
    <3> QED
      BY <1>1, <3>3, KeepShape
  <2>2. CASE UNCHANGED nodes
    BY <1>5, <2>2
  <2>3. CASE AddNode("symbol", o.mark, o.address, PointerSize, {[at |-> 0, data |-> o.address]})
    BY <1>4, <2>3
  <2> QED
    BY <1>8, <2>1, <2>2, <2>3 DEF CollectSymbol
<1>9. CASE CollectPointer(o)
  <2> DEFINE location == o.base + o.offset
             places == IF PointerNode(o) # {} THEN PointerNode(o) ELSE PointerMetadata(o)
             WithVariable(ns, p) ==
                [i \in DOMAIN ns |->
                    IF i \in p THEN [ns[i] EXCEPT !.variables = @ \union {location}]
                    ELSE ns[i]]
             first == CHOOSE i \in SymbolNode(o.base) : \A j \in SymbolNode(o.base) : i <= j
             fresh == [Node("symbol", "root", Len(nodes) + 1, TRUE, o.base, PointerSize,
                            {[at |-> 0, data |-> o.base]}) EXCEPT !.variables = {location}]
  <2>1. ASSUME NEW p
        PROVE  /\ DOMAIN WithVariable(nodes, p) = DOMAIN nodes
               /\ \A i \in DOMAIN nodes :
                     /\ DOMAIN WithVariable(nodes, p)[i] = Fields
                     /\ WithVariable(nodes, p)[i].to = nodes[i].to
                     /\ WithVariable(nodes, p)[i].from = nodes[i].from
                     /\ WithVariable(nodes, p)[i].type = nodes[i].type
    BY <1>2 DEF Fields
  <2>2. CASE UNCHANGED nodes
    BY <1>5, <2>2
  <2>3. CASE nodes' = Marked(WithVariable(nodes, places), PointerNode(o))
    <3> DEFINE ns == WithVariable(nodes, places)
    <3>1. \A i \in DOMAIN ns : DOMAIN ns[i] = Fields
      BY <2>1
    <3>2. PointerNode(o) \subseteq DOMAIN Allocations
      BY OwnersAreAllocations DEF PointerNode
    <3>3. /\ DOMAIN ns = DOMAIN nodes
          /\ \A i \in DOMAIN nodes : /\ ns[i].to = nodes[i].to
                                     /\ ns[i].from = nodes[i].from
                                     /\ ns[i].type = nodes[i].type
      BY <2>1
    <3> HIDE DEF ns
    <3>4. nodes' = Marked(ns, PointerNode(o))
      BY <2>3 DEF ns
    <3>5. /\ DOMAIN nodes' = DOMAIN ns
          /\ nodes' = [i \in DOMAIN ns |-> nodes'[i]]
          /\ \A i \in DOMAIN ns :
                /\ DOMAIN nodes'[i] = Fields
                /\ nodes'[i].to = ns[i].to
                /\ nodes'[i].from = ns[i].from
                /\ i \notin PointerNode(o) => nodes'[i].type = ns[i].type
                /\ i \in PointerNode(o) => nodes'[i].type = "system_allocation"
      BY <3>1, <3>4, MarkedKeeps
    <3>6. SameShape
      BY <1>2, <3>2, <3>3, <3>5 DEF SameShape
    <3> QED
      BY <1>1, <3>6, KeepShape
  <2>4. CASE nodes' = Append(nodes, fresh)
    <3>1. DOMAIN fresh = Fields /\ fresh.type = "root" /\ fresh.to = {} /\ fresh.from = {}
      BY DEF Node, Fields
    <3> HIDE DEF fresh
    <3> QED
      BY <1>1, <2>4, <3>1, AppendRoot
  <2>5. CASE nodes' = [WithVariable(nodes, {first}) EXCEPT ![first].is_system = TRUE]
    <3> DEFINE ns == WithVariable(nodes, {first})
    <3>1. /\ DOMAIN ns = DOMAIN nodes
          /\ \A i \in DOMAIN nodes : /\ DOMAIN ns[i] = Fields
                                     /\ ns[i].to = nodes[i].to
                                     /\ ns[i].from = nodes[i].from
                                     /\ ns[i].type = nodes[i].type
      BY <2>1
    <3>2. ns = [i \in DOMAIN nodes |-> ns[i]]
      OBVIOUS
    <3> HIDE DEF ns, first
    <3>3. nodes' = [ns EXCEPT ![first].is_system = TRUE]
      BY <2>5 DEF ns
    <3>4. SameShape
      BY <3>1, <3>2, <3>3 DEF SameShape, Fields
    <3> QED
      BY <1>1, <3>4, KeepShape
  <2> QED
    BY <1>9, <2>2, <2>3, <2>4, <2>5 DEF CollectPointer
<1>10. CASE CollectBlock(o.block)
  <2>1. Owner(o.block.address) \subseteq DOMAIN Allocations
    BY OwnersAreAllocations
  <2> QED
    BY <1>3, <1>5, <1>10, <2>1 DEF CollectBlock
<1> QED
    BY <1>6, <1>7, <1>8, <1>9, <1>10 DEF Collect

-------------------------------------------------------------------------------
(* A link is a reference to the node of an allocation.                     *)
LEMMA LinksAreReferences ==
    ASSUME NEW n, NEW l \in Links(n)
    PROVE  IsReference(l) /\ l.node \in DOMAIN Allocations
<1>1. PICK r \in Reads(n) :
          \E d \in Data(n.cells, r.place), i \in Targets(n, r.place, r.index) :
              l = [offset |-> r.index, data |-> d, node |-> i]
    BY DEF Links
<1>2. PICK i \in Targets(n, r.place, r.index) : l.node = i /\ IsReference(l)
    BY <1>1 DEF IsReference
<1>3. i \in DOMAIN Allocations
    BY <1>2, OwnersAreAllocations DEF Targets
<1> QED
    BY <1>2, <1>3

(* A reference written down at its other end, and back again, is the same  *)
(* reference.                                                              *)
LEMMA BackAndForth ==
    ASSUME NEW r, NEW i, IsReference(r)
    PROVE  /\ IsReference(Back(r, i))
           /\ Back(r, i).node = i
           /\ Back(Back(r, i), r.node) = r
BY DEF IsReference, Back

(* generate_references preserves the invariant: it writes both ends of a   *)
(* reference.                                                              *)
LEMMA LinkInv == GraphInv /\ LinkNode => GraphInv'
<1> SUFFICES ASSUME GraphInv, LinkNode PROVE GraphInv'
    OBVIOUS
<1> DEFINE links == Links(nodes[cursor])
           linked == [i \in DOMAIN nodes |->
               [nodes[i] EXCEPT !.to = IF i = cursor THEN links ELSE @,
                                !.from = @ \union From(links, i, cursor)]]
<1>1. /\ stage = "link" /\ stage' = "link"
      /\ cursor \in DOMAIN nodes /\ cursor \in Nat /\ cursor' = cursor + 1
      /\ scene' = scene /\ Allocations' = Allocations
      /\ UNCHANGED <<again, result_cache, failed>>
    BY DEF LinkNode, GraphInv, Allocations
<1>2. /\ nodes \in Seq({nodes[i] : i \in DOMAIN nodes})
      /\ DOMAIN Allocations \subseteq DOMAIN nodes
      /\ \A i \in DOMAIN nodes : i >= cursor => nodes[i].to = {}
    BY <1>1 DEF GraphInv, Appending
<1>3. \A l \in links : IsReference(l) /\ l.node \in DOMAIN Allocations
    BY LinksAreReferences
<1>4. \A i \in DOMAIN nodes :
          DOMAIN nodes[i] = Fields /\ (nodes[i].type = "root" <=> i \notin DOMAIN Allocations)
    BY DEF GraphInv, NodesOK
<1>5. /\ DOMAIN linked = DOMAIN nodes
      /\ \A i \in DOMAIN nodes :
            /\ DOMAIN linked[i] = Fields
            /\ linked[i].to = IF i = cursor THEN links ELSE nodes[i].to
            /\ linked[i].from = nodes[i].from \union From(links, i, cursor)
            /\ linked[i].type = nodes[i].type
    BY <1>4 DEF Fields
<1>6. nodes' = linked \/ nodes' = Marked(linked, {l.node : l \in links})
    BY DEF LinkNode
<1>7. linked = [i \in DOMAIN nodes |-> linked[i]]
    OBVIOUS
<1> HIDE DEF links, linked
<1>8. /\ DOMAIN nodes' = DOMAIN nodes
      /\ nodes' = [i \in DOMAIN nodes |-> nodes'[i]]
      /\ \A i \in DOMAIN nodes :
            /\ DOMAIN nodes'[i] = Fields
            /\ nodes'[i].to = IF i = cursor THEN links ELSE nodes[i].to
            /\ nodes'[i].from = nodes[i].from \union From(links, i, cursor)
            /\ nodes'[i].type = "root" <=> i \notin DOMAIN Allocations
  <2>1. CASE nodes' = linked
    BY <1>4, <1>5, <1>7, <2>1
  <2>2. CASE nodes' = Marked(linked, {l.node : l \in links})
    <3>1. /\ DOMAIN nodes' = DOMAIN linked
          /\ nodes' = [i \in DOMAIN linked |-> nodes'[i]]
          /\ \A i \in DOMAIN linked :
                /\ DOMAIN nodes'[i] = Fields
                /\ nodes'[i].to = linked[i].to
                /\ nodes'[i].from = linked[i].from
                /\ i \notin {l.node : l \in links} => nodes'[i].type = linked[i].type
                /\ i \in {l.node : l \in links} => nodes'[i].type = "system_allocation"
      BY <1>5, <2>2, MarkedKeeps
    <3>2. \A i \in {l.node : l \in links} : i \in DOMAIN Allocations
      BY <1>3
    <3> QED
      BY <1>4, <1>5, <3>1, <3>2
  <2> QED
    BY <1>6, <2>1, <2>2
<1>9. NodesOK'
    BY <1>1, <1>8 DEF NodesOK
<1>10. Linked'
  <2>1. ASSUME NEW i \in DOMAIN nodes, NEW r \in nodes'[i].to
        PROVE  /\ IsReference(r)
               /\ r.node \in DOMAIN Allocations
               /\ r.node \in DOMAIN nodes
               /\ Back(r, i) \in nodes'[r.node].from
    <3>1. CASE i = cursor
      <4>1. r \in links
        BY <1>8, <2>1, <3>1
      <4>2. IsReference(r) /\ r.node \in DOMAIN Allocations /\ r.node \in DOMAIN nodes
        BY <1>2, <1>3, <4>1
      <4>3. Back(r, cursor) \in From(links, r.node, cursor)
        BY <4>1 DEF From
      <4> QED
        BY <1>8, <3>1, <4>2, <4>3
    <3>2. CASE i # cursor
      <4>1. r \in nodes[i].to
        BY <1>8, <2>1, <3>2
      <4> QED
        BY <1>8, <4>1 DEF GraphInv, Linked
    <3> QED
      BY <3>1, <3>2
  <2>2. ASSUME NEW i \in DOMAIN nodes, NEW r \in nodes'[i].from
        PROVE  /\ IsReference(r)
               /\ i \in DOMAIN Allocations
               /\ r.node \in DOMAIN nodes
               /\ Back(r, i) \in nodes'[r.node].to
    <3>1. CASE r \in nodes[i].from
      <4>1. /\ IsReference(r) /\ i \in DOMAIN Allocations
            /\ r.node \in DOMAIN nodes /\ Back(r, i) \in nodes[r.node].to
        BY <3>1 DEF GraphInv, Linked
      <4>2. r.node # cursor
        BY <1>1, <1>2, <4>1
      <4> QED
        BY <1>8, <4>1, <4>2
    <3>2. CASE r \in From(links, i, cursor)
      <4>1. PICK l \in links : l.node = i /\ r = Back(l, cursor)
        BY <3>2 DEF From
      <4>2. IsReference(r) /\ r.node = cursor /\ Back(r, i) = l
        BY <1>3, <4>1, BackAndForth
      <4> QED
        BY <1>1, <1>3, <1>8, <4>1, <4>2
    <3> QED
      BY <1>8, <2>2, <3>1, <3>2
  <2> QED
    BY <1>1, <1>8, <2>1, <2>2 DEF Linked
<1>11. nodes' \in Seq({nodes'[i] : i \in DOMAIN nodes'})
  <2>1. Len(nodes) \in Nat /\ DOMAIN nodes = 1..Len(nodes)
    BY <1>2
  <2>2. nodes' = [i \in 1..Len(nodes) |-> nodes'[i]]
    BY <1>8, <2>1
  <2> QED
    BY <2>1, <2>2
<1>12. Appending'
  <2>1. \A i \in DOMAIN nodes' : i >= cursor' => nodes'[i].to = {}
    <3> SUFFICES ASSUME NEW i \in DOMAIN nodes, i >= cursor + 1 PROVE nodes'[i].to = {}
      BY <1>1, <1>8
    <3>1. i # cursor /\ i >= cursor
      BY <1>1 DEF GraphInv
    <3> QED
      BY <1>2, <1>8, <3>1
  <2>2. result_cache = <<>> /\ again = FALSE
    BY <1>1 DEF GraphInv, Appending
  <2> QED
    BY <1>1, <1>2, <1>8, <1>11, <2>1, <2>2 DEF Appending
<1>13. Gathering'
    BY <1>1 DEF Gathering
<1> QED
    BY <1>1, <1>8, <1>9, <1>10, <1>12, <1>13 DEF GraphInv

(* Dropping the roots without references preserves the invariant: nothing  *)
(* points to a root.                                                       *)
LEMMA PruneInv == GraphInv /\ Prune => GraphInv'
<1> SUFFICES ASSUME GraphInv, Prune PROVE GraphInv'
    OBVIOUS
<1>1. /\ stage' = "gather" /\ cursor' = 1
      /\ scene' = scene /\ Allocations' = Allocations
      /\ nodes' = [i \in {j \in DOMAIN nodes : Kept(nodes[j])} |-> nodes[i]]
      /\ UNCHANGED <<again, result_cache, failed>>
    BY DEF Prune, Allocations
<1>2. /\ DOMAIN nodes' = {j \in DOMAIN nodes : Kept(nodes[j])}
      /\ \A i \in DOMAIN nodes' : i \in DOMAIN nodes /\ nodes'[i] = nodes[i]
    BY <1>1
<1>3. NodesOK'
    BY <1>1, <1>2 DEF GraphInv, NodesOK
<1>4. Linked'
  <2>1. ASSUME NEW i \in DOMAIN nodes', NEW r \in nodes'[i].to
        PROVE  /\ IsReference(r) /\ r.node \in DOMAIN Allocations
               /\ r.node \in DOMAIN nodes' /\ Back(r, i) \in nodes'[r.node].from
    <3>1. /\ IsReference(r) /\ r.node \in DOMAIN Allocations
          /\ r.node \in DOMAIN nodes /\ Back(r, i) \in nodes[r.node].from
      BY <1>2, <2>1 DEF GraphInv, Linked
    <3>2. Kept(nodes[r.node])
      BY <3>1 DEF GraphInv, NodesOK, Kept
    <3> QED
      BY <1>2, <3>1, <3>2
  <2>2. ASSUME NEW i \in DOMAIN nodes', NEW r \in nodes'[i].from
        PROVE  /\ IsReference(r) /\ i \in DOMAIN Allocations
               /\ r.node \in DOMAIN nodes' /\ Back(r, i) \in nodes'[r.node].to
    <3>1. /\ IsReference(r) /\ i \in DOMAIN Allocations
          /\ r.node \in DOMAIN nodes /\ Back(r, i) \in nodes[r.node].to
      BY <1>2, <2>2 DEF GraphInv, Linked
    <3>2. Kept(nodes[r.node])
      BY <3>1 DEF Kept
    <3> QED
      BY <1>2, <3>1, <3>2
  <2> QED
    BY <1>1, <2>1, <2>2 DEF Linked
<1>5. Appending' /\ Gathering'
    <2>1. \A i \in DOMAIN nodes' : ~(i < cursor')  \/ i \in Cached'
      <3>1. DOMAIN nodes = 1..Len(nodes) /\ Len(nodes) \in Nat
        BY DEF GraphInv, Appending, Prune
      <3> QED
        BY <1>1, <1>2, <3>1
    <2> QED
      BY <1>1, <2>1 DEF Appending, Gathering
<1> QED
    BY <1>1, <1>2, <1>3, <1>4, <1>5 DEF GraphInv
-------------------------------------------------------------------------------
(* The change of stage preserves the invariant.                            *)
LEMMA StartLinkingInv == GraphInv /\ StartLinking => GraphInv'
<1> SUFFICES ASSUME GraphInv, StartLinking PROVE GraphInv'
    OBVIOUS
<1>1. Appending' /\ Gathering'
    BY DEF GraphInv, StartLinking, Appending, Gathering, Allocations
<1>2. NodesOK' /\ Linked'
    BY DEF GraphInv, StartLinking, NodesOK, Linked, Allocations
<1> QED
    BY <1>1, <1>2 DEF GraphInv, StartLinking

(* So does going on to the next part.                                      *)
LEMMA NextPartInv == GraphInv /\ NextPart => GraphInv'
BY DEF GraphInv, NextPart, NodesOK, Linked, Appending, Gathering, Allocations, Cached

(* Neither pass of the gathering changes a node, so only the cache counts. *)
LEMMA GatherInv ==
    ASSUME NEW i \in DOMAIN nodes, GraphInv, Gather(i)
    PROVE  GraphInv'
<1>1. /\ stage = "gather" /\ stage' = "gather" /\ cursor' = i + 1
      /\ UNCHANGED <<scene, nodes>> /\ Allocations' = Allocations
      /\ \A j \in DOMAIN nodes : j >= cursor => i <= j
      /\ i \in Nat /\ cursor \in Nat
    BY DEF Gather, GraphInv, Allocations
<1>2. ~Unknown(nodes[i])
    BY DEF Unknown, GraphInv, Linked
<1>3. failed' = FALSE
    BY <1>2 DEF Gather, GraphInv
<1>4. \/ i \in Cached' /\ Cached \subseteq Cached' /\ (again' => again) /\ (again => again')
      \/ again' = TRUE
  <2> DEFINE type == NodeType(nodes[i])
  <2>1. CASE i \in Cached /\ UNCHANGED <<result_cache, again>>
    BY <2>1 DEF Cached
  <2>2. CASE again' = TRUE
    BY <2>2
  <2>3. CASE /\ UNCHANGED again
             /\ result_cache' = [j \in Cached \union {i} |->
                                    IF j = i THEN type = "system_node" ELSE result_cache[j]]
    <3> HIDE DEF type
    <3>1. DOMAIN result_cache' = Cached \union {i}
      BY <2>3
    <3> QED
      BY <2>3, <3>1 DEF Cached
  <2> QED
    BY <2>1, <2>2, <2>3 DEF Gather
<1>5. ~again' => \A j \in DOMAIN nodes : j < i + 1 => j \in Cached'
  <2> SUFFICES ASSUME ~again', NEW j \in DOMAIN nodes, j < i + 1 PROVE j \in Cached'
      OBVIOUS
  <2>1. j \in Nat
    BY DEF GraphInv
  <2>2. j = i \/ j < cursor
    BY <1>1, <2>1
  <2>3. j < cursor /\ ~again => j \in Cached
    BY <1>1 DEF GraphInv, Gathering
  <2> QED
    BY <1>4, <2>2, <2>3
<1>6. NodesOK' /\ Linked'
    BY <1>1 DEF GraphInv, NodesOK, Linked
<1>7. Appending' /\ Gathering'
    BY <1>1, <1>5 DEF Appending, Gathering
<1> QED
    BY <1>1, <1>3, <1>6, <1>7 DEF GraphInv

(* Starting the loop of pass one again preserves the invariant.            *)
LEMMA GatherAgainInv == GraphInv /\ GatherAgain => GraphInv'
<1> SUFFICES ASSUME GraphInv, GatherAgain PROVE GraphInv'
    OBVIOUS
<1>1. NodesOK' /\ Linked'
    BY DEF GraphInv, GatherAgain, NodesOK, Linked, Allocations
<1>2. Appending' /\ Gathering'
  <2>1. \A i \in DOMAIN nodes : ~(i < 1)
    BY DEF GraphInv
  <2> QED
    BY <2>1 DEF GatherAgain, Appending, Gathering
<1> QED
    BY <1>1, <1>2 DEF GraphInv, GatherAgain

(* Pass two preserves the invariant: a node somebody points to is no root. *)
LEMMA MarkGatheredInv == GraphInv /\ MarkGathered => GraphInv'
<1> SUFFICES ASSUME GraphInv, MarkGathered PROVE GraphInv'
    OBVIOUS
<1> DEFINE marked == {i \in DOMAIN nodes : result_cache[i] /\ MarkedHere(nodes[i])}
<1>1. /\ stage = "gather" /\ stage' \in {"remove", "done"}
      /\ UNCHANGED <<scene, cursor, again, result_cache>> /\ Allocations' = Allocations
      /\ nodes' = [i \in DOMAIN nodes |->
              [Marked(nodes, marked)[i] EXCEPT !.is_system = @ \/ result_cache[i]]]
      /\ failed' = (\E i \in marked : nodes[i].type = "root")
      /\ \A i \in DOMAIN nodes : i \in Cached
    BY DEF MarkGathered, AllVisited, Allocations, GraphInv, Gathering
<1>2. \A i \in DOMAIN nodes :
          DOMAIN nodes[i] = Fields /\ (nodes[i].type = "root" <=> i \notin DOMAIN Allocations)
    BY DEF GraphInv, NodesOK
<1>3. \A i \in marked : i \in DOMAIN nodes /\ i \in DOMAIN Allocations
    BY DEF MarkedHere, GraphInv, Linked
<1> HIDE DEF marked
<1>4. failed' = FALSE
    BY <1>1, <1>2, <1>3
<1>5. /\ DOMAIN nodes' = DOMAIN nodes
      /\ \A i \in DOMAIN nodes :
            /\ DOMAIN nodes'[i] = Fields
            /\ nodes'[i].to = nodes[i].to
            /\ nodes'[i].from = nodes[i].from
            /\ nodes'[i].is_system = (nodes[i].is_system \/ result_cache[i])
            /\ nodes'[i].type = "root" <=> i \notin DOMAIN Allocations
  <2> DEFINE ns == Marked(nodes, marked)
  <2>1. \A i \in DOMAIN nodes :
            /\ DOMAIN ns[i] = Fields
            /\ ns[i].to = nodes[i].to
            /\ ns[i].from = nodes[i].from
            /\ ns[i].is_system = nodes[i].is_system
            /\ i \notin marked => ns[i].type = nodes[i].type
            /\ i \in marked => ns[i].type = "system_allocation"
    BY <1>2, MarkedKeeps
  <2>2. nodes' = [i \in DOMAIN nodes |->
                     [ns[i] EXCEPT !.is_system = ns[i].is_system \/ result_cache[i]]]
    BY <1>1
  <2> HIDE DEF ns
  <2> QED
    BY <1>2, <1>3, <2>1, <2>2 DEF Fields
<1>6. NodesOK'
    BY <1>1, <1>5 DEF NodesOK
<1>7. /\ DOMAIN nodes' = DOMAIN nodes
      /\ \A i \in DOMAIN nodes : nodes'[i].to = nodes[i].to /\ nodes'[i].from = nodes[i].from
    BY <1>5
<1>8. Linked'
  <2>1. Allocations' = Allocations /\ Linked
    BY <1>1 DEF GraphInv
  <2> QED
    BY <1>7, <2>1 DEF Linked
<1>9. Appending'
    BY <1>1 DEF Appending
<1>10. Gathering'
  <2>1. \A i \in DOMAIN nodes : result_cache[i] => nodes'[i].is_system
    BY <1>5
  <2>2. Cached' = Cached
    BY <1>1 DEF Cached
  <2> QED
    BY <1>1, <1>7, <2>1, <2>2 DEF Gathering
<1> QED
    BY <1>1, <1>4, <1>6, <1>7, <1>8, <1>9, <1>10 DEF GraphInv

(* The removal of the system nodes preserves the invariant: what is        *)
(* removed is in the cache.                                                *)
LEMMA RemoveInv == GraphInv /\ RemoveSystem => GraphInv'
<1> SUFFICES ASSUME GraphInv, RemoveSystem PROVE GraphInv'
    OBVIOUS
<1> DEFINE cache == [i \in Cached \union DOMAIN nodes |->
                        \/ i \in DOMAIN nodes /\ Removable(nodes[i])
                        \/ i \in Cached /\ result_cache[i]]
           Without(refs) == {r \in refs : ~(r.node \in DOMAIN cache /\ cache[r.node])}
           left == {j \in DOMAIN nodes : ~Removable(nodes[j])}
<1>1. /\ stage = "remove" /\ stage' = "done"
      /\ UNCHANGED <<scene, cursor, failed>> /\ Allocations' = Allocations
      /\ nodes' = [i \in left |->
            [nodes[i] EXCEPT !.to = Without(@), !.from = Without(@)]]
    BY DEF RemoveSystem, Allocations
<1>2. \A i \in DOMAIN nodes : i \in DOMAIN cache /\ (cache[i] <=> Removable(nodes[i]))
    BY <1>1 DEF GraphInv, Gathering, Removable
<1>3. \A i \in DOMAIN nodes : DOMAIN nodes[i] = Fields
    BY DEF GraphInv, NodesOK
<1> HIDE DEF cache
<1>4. /\ DOMAIN nodes' = left
      /\ \A i \in left :
            /\ i \in DOMAIN nodes
            /\ DOMAIN nodes'[i] = Fields
            /\ nodes'[i].to = Without(nodes[i].to)
            /\ nodes'[i].from = Without(nodes[i].from)
            /\ nodes'[i].type = nodes[i].type
    BY <1>1, <1>3 DEF Fields
<1>5. NodesOK'
    BY <1>1, <1>4 DEF GraphInv, NodesOK
<1>6. Linked'
  <2>1. ASSUME NEW i \in left, NEW r \in nodes'[i].to
        PROVE  /\ IsReference(r) /\ r.node \in DOMAIN Allocations
               /\ r.node \in DOMAIN nodes' /\ Back(r, i) \in nodes'[r.node].from
    <3>1. /\ r \in nodes[i].to
          /\ ~(r.node \in DOMAIN cache /\ cache[r.node])
      BY <1>4, <2>1
    <3>2. /\ IsReference(r) /\ r.node \in DOMAIN Allocations
          /\ r.node \in DOMAIN nodes /\ Back(r, i) \in nodes[r.node].from
      BY <1>4, <2>1, <3>1 DEF GraphInv, Linked
    <3>3. r.node \in left
      BY <1>2, <3>1, <3>2
    <3>4. ~(Back(r, i).node \in DOMAIN cache /\ cache[Back(r, i).node])
      BY <1>2, <1>4, <2>1 DEF Back
    <3> QED
      BY <1>4, <3>2, <3>3, <3>4
  <2>2. ASSUME NEW i \in left, NEW r \in nodes'[i].from
        PROVE  /\ IsReference(r) /\ i \in DOMAIN Allocations
               /\ r.node \in DOMAIN nodes' /\ Back(r, i) \in nodes'[r.node].to
    <3>1. /\ r \in nodes[i].from
          /\ ~(r.node \in DOMAIN cache /\ cache[r.node])
      BY <1>4, <2>2
    <3>2. /\ IsReference(r) /\ i \in DOMAIN Allocations
          /\ r.node \in DOMAIN nodes /\ Back(r, i) \in nodes[r.node].to
      BY <1>4, <2>2, <3>1 DEF GraphInv, Linked
    <3>3. r.node \in left
      BY <1>2, <3>1, <3>2
    <3>4. ~(Back(r, i).node \in DOMAIN cache /\ cache[Back(r, i).node])
      BY <1>2, <1>4, <2>2 DEF Back
    <3> QED
      BY <1>4, <3>2, <3>3, <3>4
  <2>3. Allocations' = Allocations /\ DOMAIN nodes' = left
    BY <1>1, <1>4
  <2> QED
    BY <2>1, <2>2, <2>3 DEF Linked
<1>7. Appending' /\ Gathering'
    BY <1>1 DEF Appending, Gathering
<1> QED
    BY <1>1, <1>4, <1>5, <1>6, <1>7 DEF GraphInv

-------------------------------------------------------------------------------
(* The invariant holds throughout generate_graph, for every scene.         *)
THEOREM GraphInvariance == GraphSpec => []GraphInv
<1>1. GraphInv /\ [NextGraph]_vars => GraphInv'
  <2> SUFFICES ASSUME GraphInv, [NextGraph]_vars PROVE GraphInv'
      OBVIOUS
  <2>1. CASE UNCHANGED vars
    BY <2>1 DEF vars, GraphInv, NodesOK, Linked, Appending, Gathering, Allocations,
                 Cached
  <2> QED
    BY <2>1, CollectInv, NextPartInv, StartLinkingInv, LinkInv, PruneInv, GatherInv, GatherAgainInv,
       MarkGatheredInv, RemoveInv DEF NextGraph
<1> QED
    BY <1>1, InitInv, PTL DEF GraphSpec

(* The graph keeps its types.                                              *)
THEOREM GraphTypeCorrect == GraphSpec => []GraphTypeOK
<1>1. GraphInv => GraphTypeOK
    BY DEF GraphInv, NodesOK, Fields, GraphTypeOK
<1> QED
    BY <1>1, GraphInvariance, PTL

(* In every scene and in every state of generate_graph a reference leads   *)
(* to a node that has it from the other side.                              *)
THEOREM ReferencesStayPaired == GraphSpec => []ReferencesPaired
<1>1. GraphInv => ReferencesPaired
    BY DEF GraphInv, Linked, ReferencesPaired, Paired
<1> QED
    BY <1>1, GraphInvariance, PTL

(* generate_graph throws neither of its two exceptions in any scene.       *)
THEOREM GenerateGraphNeverThrows == GraphSpec => []GraphNeverThrows
<1>1. GraphInv => GraphNeverThrows
    BY DEF GraphInv, GraphNeverThrows
<1> QED
    BY <1>1, GraphInvariance, PTL

(* So an index in a node of the graph can always be followed.              *)
THEOREM GraphStaysSound == GraphSpec => []GraphSound
BY ReferencesStayPaired, GenerateGraphNeverThrows, PTL DEF GraphSound

-------------------------------------------------------------------------------
(***************************************************************************)
(* The marks.  Every operation of the collection marks the allocations     *)
(* MarkedBy says, unless it is left out because a pointer at its location  *)
(* was collected before; by LayoutAssumption that one marked the same.     *)
(* Linking marks what the global variables of the system point to, and the *)
(* gathering, which never finds a node of an allocation to be the          *)
(* system's, marks nothing more.                                           *)
(***************************************************************************)
BlockOf(b) == [op |-> "block", block |-> b]

MarkingOps ==
    {Symbol(scene.thread.teb, TRUE, FALSE)}
        \union {Symbol(scene.heaps[h].address, TRUE, scene.heaps[h].user) : h \in DOMAIN scene.heaps}
        \union {PointerOf(p) : p \in Pointers}
        \union {BlockOf(b) : b \in Blocks}

OtherOps ==
    {[op |-> "register", data |-> scene.thread.registers[k]] : k \in DOMAIN scene.thread.registers}
        \union {[op |-> "stack", stack |-> scene.thread.stacks[k]] : k \in DOMAIN scene.thread.stacks}
        \union {Symbol(scene.crt[k].first, FALSE, FALSE) : k \in DOMAIN scene.crt}

GlobalOp(k) == [op |-> "global", variable |-> scene.globals[k]]

MarkedBy(o) ==
    {i \in DOMAIN Allocations :
        \/ o.op = "symbol" /\ o.mark /\ i \in Owner(o.address)
        \/ o.op = "pointer" /\ i \in PointerNode(o)
        \/ o.op = "block" /\ MarksBlocks /\ Foreign(o.block) /\ i \in Owner(o.block.address)}

IsMarked(i) == nodes[i].type = "system_allocation"
Effect(o) == \A i \in MarkedBy(o) : IsMarked(i)
Pending(o) == \E k \in DOMAIN work : \E j \in DOMAIN work[k] : work[k][j] = o

(* The first part, which collects the global variables.                    *)
InGlobals == stage = "collect" /\ Len(work) = Len(scene.heaps) + 3
GlobalsCollected == IF InGlobals THEN Len(nodes) - Len(Allocations) ELSE Len(scene.globals)
GlobalNode(k) ==
    LET g == scene.globals[k] IN
    Node("global", "root", Len(Allocations) + k, g.system, g.first, g.size, g.cells)

WorkLeft ==
    stage = "collect" =>
        /\ IsSequence(work) /\ \A k \in DOMAIN work : IsSequence(work[k])
        /\ Len(work) <= Len(scene.heaps) + 3
        /\ InGlobals =>
              /\ Len(work[1]) = Len(scene.globals) - GlobalsCollected
              /\ \A j \in DOMAIN work[1] : work[1][j] = GlobalOp(GlobalsCollected + j)
        /\ \A k \in DOMAIN work :
              (InGlobals /\ k = 1) \/ \A j \in DOMAIN work[k] : work[k][j] \in MarkingOps \union OtherOps

GlobalNodes ==
    stage \in {"collect", "link"} =>
        /\ cursor # 0 /\ (stage = "collect" => cursor = 1)
        /\ GlobalsCollected \in 0..Len(scene.globals)
        /\ \A k \in 1..GlobalsCollected :
              /\ Len(Allocations) + k \in DOMAIN nodes
              /\ (stage = "collect" \/ Len(Allocations) + k >= cursor) =>
                    nodes[Len(Allocations) + k] = GlobalNode(k)
        /\ \A c \in DOMAIN nodes :
              nodes[c].kind = "global" => \E k \in 1..GlobalsCollected : c = Len(Allocations) + k

HeapNodes ==
    /\ \A i \in DOMAIN nodes :
          /\ nodes[i].kind = "heap" <=> i \in DOMAIN Allocations
          /\ i \in DOMAIN Allocations =>
                nodes[i].is_system = FALSE /\ nodes[i].type \in {"allocation", "system_allocation"}
    /\ stage # "done" =>
          /\ DOMAIN Allocations \subseteq DOMAIN nodes
          /\ \A i \in Cached : i \in DOMAIN Allocations => result_cache[i] = FALSE

HeldAtCollect(i) == Allocations[i].area \/ \E o \in MarkingOps : i \in MarkedBy(o)

HeldByGlobal(i, k) ==
    /\ "no_mark_global_variable_data_pointers" \notin scene.options
    /\ scene.globals[k].system /\ ~scene.globals[k].filtered
    /\ i \in GlobalTargets(k)

Held(i) == HeldAtCollect(i) \/ \E k \in DOMAIN scene.globals : HeldByGlobal(i, k)
HeldSoFar(i) ==
    HeldAtCollect(i) \/ \E k \in DOMAIN scene.globals : Len(Allocations) + k < cursor /\ HeldByGlobal(i, k)

Marks ==
    \A i \in DOMAIN Allocations :
        /\ stage = "collect" => /\ Allocations[i].area => IsMarked(i)
                                /\ IsMarked(i) => HeldAtCollect(i)
        /\ stage = "link" => (IsMarked(i) <=> HeldSoFar(i))
        /\ stage \in {"gather", "remove"} => (IsMarked(i) <=> Held(i))
        /\ stage = "remove" => "no_filter_heap_entries" \notin scene.options
        /\ stage = "done" =>
              /\ i \in DOMAIN nodes => (IsMarked(i) <=> Held(i))
              /\ i \in DOMAIN nodes <=> ("no_filter_heap_entries" \in scene.options \/ ~Held(i))

Performed ==
    stage = "collect" =>
        /\ \A o \in MarkingOps : Pending(o) \/ Effect(o)
        /\ \A p \in Pointers : p.base + p.offset \in ignored => Effect(PointerOf(p))

MarksInv == GraphInv /\ WorkLeft /\ GlobalNodes /\ HeapNodes /\ Marks /\ Performed

-------------------------------------------------------------------------------
(* What only reads the scene does not change with the rest of the state.   *)
LEMMA OwnersStay ==
    ASSUME scene' = scene
    PROVE  /\ Allocations' = Allocations
           /\ \A a : NodeFor(a)' = NodeFor(a) /\ Owner(a)' = Owner(a)
<1>1. Allocations' = Allocations
    BY DEF Allocations
<1>2. ASSUME NEW a PROVE NodeFor(a)' = NodeFor(a)
    BY <1>1 DEF NodeFor
<1>3. ASSUME NEW a PROVE Owner(a)' = Owner(a)
    BY <1>1, <1>2 DEF Owner
<1> QED
    BY <1>1, <1>2, <1>3

LEMMA LinksStay ==
    ASSUME scene' = scene
    PROVE  \A n : Links(n)' = Links(n)
<1> TAKE n
<1>1. ASSUME NEW place, NEW index PROVE Targets(n, place, index)' = Targets(n, place, index)
    BY OwnersStay DEF Targets
<1>2. Hits(n)' = Hits(n)
    BY <1>1 DEF Hits
<1>3. Reads(n)' = Reads(n)
    BY <1>2 DEF Reads
<1> QED
    BY <1>1, <1>3 DEF Links

LEMMA MarkedByStays ==
    ASSUME scene' = scene
    PROVE  /\ MarkingOps' = MarkingOps
           /\ OtherOps' = OtherOps
           /\ \A o : MarkedBy(o)' = MarkedBy(o)
           /\ \A i : HeldAtCollect(i)' <=> HeldAtCollect(i)
<1>1. MarkingOps' = MarkingOps
    BY DEF MarkingOps, Pointers, Blocks
<1>2. OtherOps' = OtherOps
    BY DEF OtherOps
<1>3. ASSUME NEW o PROVE MarkedBy(o)' = MarkedBy(o)
  <2>1. PointerNode(o)' = PointerNode(o)
    BY OwnersStay DEF PointerNode
  <2>2. MarksBlocks' <=> MarksBlocks
    BY DEF MarksBlocks
  <2>3. \A a : IsCrtEntry(a)' <=> IsCrtEntry(a)
    BY DEF IsCrtEntry
  <2>4. \A b : Foreign(b)' <=> Foreign(b)
    BY <2>3 DEF Foreign
  <2> QED
    BY <2>1, <2>2, <2>4, OwnersStay DEF MarkedBy
<1>4. ASSUME NEW i PROVE HeldAtCollect(i)' <=> HeldAtCollect(i)
    BY <1>1, <1>3, OwnersStay DEF HeldAtCollect
<1> QED
    BY <1>1, <1>2, <1>3, <1>4

LEMMA HeldStays ==
    ASSUME scene' = scene
    PROVE  /\ \A k : GlobalNode(k)' = GlobalNode(k)
           /\ \A i, k : HeldByGlobal(i, k)' <=> HeldByGlobal(i, k)
           /\ \A i : Held(i)' <=> Held(i)
<1>1. ASSUME NEW k PROVE GlobalNode(k)' = GlobalNode(k)
    BY OwnersStay DEF GlobalNode
<1>4. ASSUME NEW k PROVE GlobalTargets(k)' = GlobalTargets(k)
    BY LinksStay, OwnersStay DEF GlobalTargets
<1>5. ASSUME NEW i, NEW k PROVE HeldByGlobal(i, k)' <=> HeldByGlobal(i, k)
    BY <1>4 DEF HeldByGlobal
<1>6. ASSUME NEW i PROVE Held(i)' <=> Held(i)
    BY <1>5, MarkedByStays DEF Held
<1> QED
    BY <1>1, <1>5, <1>6

(* The node of an allocation is the one found for the addresses in it.     *)
LEMMA OneNode ==
    ASSUME scene \in Scenes, NEW i \in DOMAIN Allocations, NEW x \in Nat,
           Allocations[i].first <= x, x <= LastAddress(Allocations[i])
    PROVE  NodeFor(x) = {i}
<1>1. \A j \in DOMAIN Allocations :
          /\ Allocations[j].first \in Nat /\ LastAddress(Allocations[j]) \in Nat
          /\ Allocations[j].first <= LastAddress(Allocations[j])
    BY LayoutAssumption DEF Allocations, LastAddress
<1>2. \A j \in DOMAIN Allocations : i = j \/ Apart(Allocations[i], Allocations[j])
    BY LayoutAssumption DEF Allocations
<1>3. \A j \in DOMAIN Allocations :
          LastAddress(Allocations[j]) >= x =>
              i = j \/ LastAddress(Allocations[i]) < LastAddress(Allocations[j])
    BY <1>1, <1>2 DEF Apart
<1>4. i \in NodeFor(x)
    BY <1>1, <1>3 DEF NodeFor
<1>5. \A j \in NodeFor(x) : j = i
    BY <1>1, <1>3 DEF NodeFor
<1> QED
    BY <1>4, <1>5

(* A pointer of a structure belongs to the allocation that both the        *)
(* structure and the pointer lie in, whichever structure it is found in.   *)
LEMMA PointersByLocation ==
    ASSUME scene \in Scenes, NEW p \in Pointers
    PROVE  /\ PointerNode(PointerOf(p)) =
                 {i \in DOMAIN Allocations : ContainsAddress(Allocations[i].check, p.base + p.offset)}
           /\ \A i : i \in PointerNode(PointerOf(p)) <=>
                     i \in Owner(p.base) /\ i \in Owner(p.base + p.offset)
<1> DEFINE location == p.base + p.offset
<1>1. p.base \in Nat /\ p.offset \in Nat /\ location \in Nat
    BY LayoutAssumption DEF Pointers
<1>2. ASSUME NEW i \in DOMAIN Allocations, ContainsAddress(Allocations[i].check, location)
      PROVE  /\ NodeFor(p.base) = {i} /\ NodeFor(location) = {i}
             /\ ContainsAddress(Allocations[i].check, p.base)
  <2>1. \A x \in {p.base, location} :
            /\ Allocations[i].first <= x /\ x <= LastAddress(Allocations[i])
            /\ ContainsAddress(Allocations[i].check, x)
    BY <1>2, LayoutAssumption DEF Allocations, Pointers
  <2> HIDE DEF location
  <2> QED
    BY <1>1, <2>1, OneNode
<1>3. PointerNode(PointerOf(p)) =
          {i \in NodeFor(p.base) : ContainsAddress(Allocations[i].check, location)}
    BY DEF PointerNode, PointerOf
<1> HIDE DEF location
<1>4. \A i : i \in PointerNode(PointerOf(p)) <=>
             i \in DOMAIN Allocations /\ ContainsAddress(Allocations[i].check, location)
    BY <1>2, <1>3, OwnersAreAllocations
<1>5. \A i : i \in PointerNode(PointerOf(p)) <=> i \in Owner(p.base) /\ i \in Owner(location)
    BY <1>2, <1>3, <1>4, OwnersAreAllocations DEF Owner
<1> QED
    BY <1>4, <1>5 DEF location

LEMMA SameLocationSameMarks ==
    ASSUME scene \in Scenes, NEW p \in Pointers, NEW q \in Pointers,
           p.base + p.offset = q.base + q.offset
    PROVE  MarkedBy(PointerOf(p)) = MarkedBy(PointerOf(q))
<1>1. PointerNode(PointerOf(p)) = PointerNode(PointerOf(q))
    BY PointersByLocation
<1>2. PointerOf(p).op = "pointer" /\ PointerOf(q).op = "pointer"
    BY DEF PointerOf
<1> HIDE DEF PointerOf
<1> QED
    BY <1>1, <1>2 DEF MarkedBy

(* What an operation of the collection marks.                              *)
LEMMA MarksOfOperations ==
    /\ \A a, user : MarkedBy(Symbol(a, TRUE, user)) = Owner(a)
    /\ \A o \in OtherOps : MarkedBy(o) = {}
    /\ \A k : MarkedBy(GlobalOp(k)) = {}
    /\ \A p : MarkedBy(PointerOf(p)) = PointerNode(PointerOf(p))
    /\ \A b, i : i \in MarkedBy(BlockOf(b)) <=> MarksBlocks /\ Foreign(b) /\ i \in Owner(b.address)
<1>1. ASSUME NEW a, NEW user PROVE MarkedBy(Symbol(a, TRUE, user)) = Owner(a)
    BY OwnersAreAllocations DEF MarkedBy, Symbol
<1>2. ASSUME NEW o \in OtherOps PROVE MarkedBy(o) = {}
    BY DEF OtherOps, MarkedBy, Symbol
<1>3. ASSUME NEW k PROVE MarkedBy(GlobalOp(k)) = {}
    BY DEF MarkedBy, GlobalOp
<1>4. ASSUME NEW p PROVE MarkedBy(PointerOf(p)) = PointerNode(PointerOf(p))
  <2>1. PointerOf(p).op = "pointer"
    BY DEF PointerOf
  <2>2. PointerNode(PointerOf(p)) \subseteq DOMAIN Allocations
    BY OwnersAreAllocations DEF PointerNode
  <2> HIDE DEF PointerOf
  <2> QED
    BY <2>1, <2>2 DEF MarkedBy
<1>5. ASSUME NEW b, NEW i
      PROVE  i \in MarkedBy(BlockOf(b)) <=> MarksBlocks /\ Foreign(b) /\ i \in Owner(b.address)
  <2>1. BlockOf(b).op = "block" /\ BlockOf(b).block = b
    BY DEF BlockOf
  <2> HIDE DEF BlockOf
  <2> QED
    BY <2>1, OwnersAreAllocations DEF MarkedBy
<1> QED
    BY <1>1, <1>2, <1>3, <1>4, <1>5

(* What is held is what the system holds and what the debug CRT does not   *)
(* know.                                                                   *)
LEMMA HeldBecause ==
    ASSUME scene \in Scenes, NEW i \in DOMAIN Allocations
    PROVE  Held(i) <=> \/ HeldBySystem(i)
                       \/ \E b \in Blocks : MarksBlocks /\ Foreign(b) /\ i \in Owner(b.address)
<1> DEFINE ByStructure == \E s \in Structures : i \in Owner(s.first)
           ByPointer == \E p \in Pointers : i \in Owner(p.base) /\ i \in Owner(p.base + p.offset)
           ByBlock == \E b \in Blocks : MarksBlocks /\ Foreign(b) /\ i \in Owner(b.address)
           ByGlobal == \E k \in DOMAIN scene.globals : HeldByGlobal(i, k)
<1>1. (\E o \in MarkingOps : i \in MarkedBy(o)) <=> ByStructure \/ ByPointer \/ ByBlock
  <2>1. ByStructure <=>
            \/ i \in Owner(scene.thread.teb)
            \/ \E h \in DOMAIN scene.heaps : i \in Owner(scene.heaps[h].address)
    <3>1. ASSUME NEW s \in Structures
          PROVE  s.first = scene.thread.teb \/ \E h \in DOMAIN scene.heaps : s.first = scene.heaps[h].address
      BY DEF Structures
    <3>2. [first |-> scene.thread.teb] \in Structures
      BY DEF Structures
    <3>3. \A h \in DOMAIN scene.heaps : [first |-> scene.heaps[h].address] \in Structures
      BY DEF Structures
    <3>4. \A a : [first |-> a].first = a
      OBVIOUS
    <3> QED
      BY <3>1, <3>2, <3>3, <3>4
  <2>2. ByPointer <=> \E p \in Pointers : i \in MarkedBy(PointerOf(p))
    BY MarksOfOperations, PointersByLocation
  <2>3. ByBlock <=> \E b \in Blocks : i \in MarkedBy(BlockOf(b))
    BY MarksOfOperations
  <2>4. (\E o \in MarkingOps : i \in MarkedBy(o)) <=>
            \/ i \in MarkedBy(Symbol(scene.thread.teb, TRUE, FALSE))
            \/ \E h \in DOMAIN scene.heaps :
                  i \in MarkedBy(Symbol(scene.heaps[h].address, TRUE, scene.heaps[h].user))
            \/ \E p \in Pointers : i \in MarkedBy(PointerOf(p))
            \/ \E b \in Blocks : i \in MarkedBy(BlockOf(b))
    BY DEF MarkingOps
  <2> HIDE DEF ByStructure, ByPointer, ByBlock
  <2> QED
    BY <2>1, <2>2, <2>3, <2>4, MarksOfOperations
<1>2. HeldBySystem(i) <=> Allocations[i].area \/ ByStructure \/ ByPointer \/ ByGlobal
    BY DEF HeldBySystem, HeldByGlobal
<1>3. Held(i) <=> Allocations[i].area \/ (\E o \in MarkingOps : i \in MarkedBy(o)) \/ ByGlobal
    BY DEF Held, HeldAtCollect
<1> HIDE DEF ByStructure, ByPointer, ByBlock, ByGlobal
<1>4. Held(i) <=> HeldBySystem(i) \/ ByBlock
    BY <1>1, <1>2, <1>3
<1> QED
    BY <1>4 DEF ByBlock
-------------------------------------------------------------------------------
(* r is t put behind s.                                                    *)
Joins(s, t, r) ==
    /\ IsSequence(r)
    /\ Len(r) = Len(s) + Len(t)
    /\ \A i \in 1..Len(s) : r[i] = s[i]
    /\ \A i \in 1..Len(t) : r[Len(s) + i] = t[i]
    /\ \A i \in 1..Len(r) : i \in 1..Len(s) \/ \E j \in 1..Len(t) : i = Len(s) + j

LEMMA Behind ==
    ASSUME NEW s, NEW t, IsSequence(s), IsSequence(t)
    PROVE  Joins(s, t, s \o t)
<1> DEFINE T == {s[i] : i \in DOMAIN s} \union {t[i] : i \in DOMAIN t}
<1>1. s \in Seq(T) /\ t \in Seq(T)
    BY DEF IsSequence
<1> HIDE DEF T
<1>2. s \o t \in Seq(T) /\ Len(s) \in Nat /\ Len(t) \in Nat
    BY <1>1
<1>3. IsSequence(s \o t)
    BY <1>2, SequenceOfItsElements DEF IsSequence
<1>4. Len(s \o t) = Len(s) + Len(t)
    BY <1>1
<1>5. \A i \in 1..Len(s \o t) : i \in 1..Len(s) \/ \E j \in 1..Len(t) : i = Len(s) + j
  <2> SUFFICES ASSUME NEW i \in 1..Len(s) + Len(t), i \notin 1..Len(s)
               PROVE  \E j \in 1..Len(t) : i = Len(s) + j
      BY <1>4
  <2>1. i - Len(s) \in 1..Len(t) /\ i = Len(s) + (i - Len(s))
    BY <1>2
  <2> QED
    BY <2>1
<1>6. /\ \A i \in 1..Len(s) : (s \o t)[i] = s[i]
      /\ \A i \in 1..Len(t) : (s \o t)[Len(s) + i] = t[i]
    BY <1>1, <1>2
<1> QED
    BY <1>3, <1>4, <1>5, <1>6 DEF Joins

(* A function on the places of a sequence is a sequence.                   *)
LEMMA PlaceByPlace ==
    ASSUME NEW s, IsSequence(s), NEW f, f = [i \in DOMAIN s |-> f[i]]
    PROVE  IsSequence(f) /\ Len(f) = Len(s) /\ DOMAIN f = 1..Len(f)
<1>1. DOMAIN s = 1..Len(s) /\ Len(s) \in Nat
    BY DEF IsSequence
<1>2. f = [i \in 1..Len(s) |-> f[i]]
    BY <1>1
<1>3. f \in Seq({f[i] : i \in DOMAIN f}) /\ Len(f) = Len(s)
    BY <1>1, <1>2
<1> QED
    BY <1>3 DEF IsSequence

(* A part of the collection: a structure, its pointers and more.           *)
Collects(a, s, t, r) ==
    /\ IsSequence(r)
    /\ \E j \in DOMAIN r : r[j] = a
    /\ \A k \in 1..Len(s) : \E j \in DOMAIN r : r[j] = s[k]
    /\ \A k \in 1..Len(t) : \E j \in DOMAIN r : r[j] = t[k]
    /\ \A j \in DOMAIN r :
          r[j] = a \/ (\E k \in 1..Len(s) : r[j] = s[k]) \/ (\E k \in 1..Len(t) : r[j] = t[k])

LEMMA ThreeSequences ==
    ASSUME NEW a, NEW s, NEW t, IsSequence(s), IsSequence(t),
           NEW r, r = <<a>> \o s \o t
    PROVE  Collects(a, s, t, r)
<1>1. IsSequence(<<a>>) /\ Len(<<a>>) = 1 /\ <<a>>[1] = a
    BY DEF IsSequence
<1> DEFINE f == <<a>>
           u == f \o s
<1> HIDE DEF f
<1>2. /\ IsSequence(u) /\ Len(u) = 1 + Len(s) /\ u[1] = a
      /\ \A k \in 1..Len(s) : u[1 + k] = s[k]
      /\ \A i \in 1..Len(u) : i = 1 \/ \E k \in 1..Len(s) : i = 1 + k
  <2>1. Joins(f, s, u)
    BY <1>1, Behind DEF f
  <2>2. f[1] = a /\ Len(f) = 1
    BY DEF f
  <2> HIDE DEF u
  <2>3. IsSequence(u) /\ Len(u) = 1 + Len(s)
    BY <2>1, <2>2 DEF Joins
  <2>4. u[1] = a
    <3>1. 1 \in 1..Len(f)
      BY <2>2
    <3> QED
      BY <2>1, <2>2, <3>1 DEF Joins
  <2>5. \A k \in 1..Len(s) : u[1 + k] = s[k]
    BY <2>1, <2>2 DEF Joins
  <2>6. \A i \in 1..Len(u) : i = 1 \/ \E k \in 1..Len(s) : i = 1 + k
    <3>1. \A i \in 1..Len(f) : i = 1
      BY <2>2
    <3> QED
      BY <2>1, <2>2, <3>1 DEF Joins
  <2> QED
    BY <2>3, <2>4, <2>5, <2>6
<1>3. r = u \o t
    BY DEF f
<1>4. Len(s) \in Nat /\ Len(t) \in Nat
    BY DEF IsSequence
<1> HIDE DEF u
<1>5. /\ IsSequence(r) /\ Len(r) = Len(u) + Len(t)
      /\ \A i \in 1..Len(u) : r[i] = u[i]
      /\ \A i \in 1..Len(t) : r[Len(u) + i] = t[i]
      /\ \A i \in 1..Len(r) : i \in 1..Len(u) \/ \E k \in 1..Len(t) : i = Len(u) + k
  <2>1. Joins(u, t, r)
    BY <1>2, <1>3, Behind
  <2> QED
    BY <2>1 DEF Joins
<1>6. DOMAIN r = 1..Len(r)
    BY <1>5 DEF IsSequence
<1>7. \E j \in DOMAIN r : r[j] = a
  <2>1. 1 \in DOMAIN r /\ 1 \in 1..Len(u)
    BY <1>2, <1>4, <1>5, <1>6
  <2> QED
    BY <1>2, <1>5, <2>1
<1>8. ASSUME NEW k \in 1..Len(s) PROVE \E j \in DOMAIN r : r[j] = s[k]
  <2>1. 1 + k \in DOMAIN r /\ 1 + k \in 1..Len(u)
    BY <1>2, <1>4, <1>5, <1>6
  <2> QED
    BY <1>2, <1>5, <2>1
<1>9. ASSUME NEW k \in 1..Len(t) PROVE \E j \in DOMAIN r : r[j] = t[k]
  <2>1. Len(u) + k \in DOMAIN r
    BY <1>2, <1>4, <1>5, <1>6
  <2> QED
    BY <1>5, <2>1
<1>10. ASSUME NEW j \in DOMAIN r
       PROVE  r[j] = a \/ (\E k \in 1..Len(s) : r[j] = s[k]) \/ (\E k \in 1..Len(t) : r[j] = t[k])
  <2>1. CASE j \in 1..Len(u)
    BY <1>2, <1>5, <2>1
  <2>2. CASE \E k \in 1..Len(t) : j = Len(u) + k
    BY <1>5, <2>2
  <2> QED
    BY <1>5, <1>6, <2>1, <2>2
<1> QED
    BY <1>5, <1>7, <1>8, <1>9, <1>10 DEF Collects

Listed(o, part) == \E j \in DOMAIN part : part[j] = o
OfStructures(part) ==
    IsSequence(part) /\ \A j \in DOMAIN part : part[j] \in MarkingOps \union OtherOps

LEMMA ThreadPart ==
    ASSUME scene \in Scenes
    PROVE  /\ OfStructures(ThreadOperations(scene))
           /\ Listed(Symbol(scene.thread.teb, TRUE, FALSE), ThreadOperations(scene))
           /\ \A k \in DOMAIN scene.thread.pointers :
                 Listed(PointerOf(scene.thread.pointers[k]), ThreadOperations(scene))
<1> DEFINE thread == scene.thread
           a == Symbol(thread.teb, TRUE, FALSE)
           p == ForEach(thread.pointers, PointerOf)
           g == ForEach(thread.registers, LAMBDA r : [op |-> "register", data |-> r])
           t == ForEach(thread.stacks, LAMBDA x : [op |-> "stack", stack |-> x])
           u == <<a>> \o p \o g
           part == ThreadOperations(scene)
<1>1. IsSequence(thread.pointers) /\ IsSequence(thread.registers) /\ IsSequence(thread.stacks)
    BY ScenesAssumption
<1>2. /\ p = [k \in DOMAIN thread.pointers |-> PointerOf(thread.pointers[k])]
      /\ g = [k \in DOMAIN thread.registers |-> [op |-> "register", data |-> thread.registers[k]]]
      /\ t = [k \in DOMAIN thread.stacks |-> [op |-> "stack", stack |-> thread.stacks[k]]]
    BY DEF ForEach
<1>3. part = u \o t
    BY DEF ThreadOperations
<1>4. a \in MarkingOps
    BY DEF MarkingOps
<1>5. \A k \in DOMAIN thread.pointers : PointerOf(thread.pointers[k]) \in MarkingOps
    BY DEF MarkingOps, Pointers, StructurePointers
<1>6. /\ \A k \in DOMAIN thread.registers : [op |-> "register", data |-> thread.registers[k]] \in OtherOps
      /\ \A k \in DOMAIN thread.stacks : [op |-> "stack", stack |-> thread.stacks[k]] \in OtherOps
    BY DEF OtherOps
<1> HIDE DEF thread, a, p, g, t
<1>7. /\ IsSequence(p) /\ DOMAIN p = 1..Len(p) /\ DOMAIN p = DOMAIN thread.pointers
      /\ IsSequence(g) /\ DOMAIN g = 1..Len(g) /\ DOMAIN g = DOMAIN thread.registers
      /\ IsSequence(t) /\ DOMAIN t = 1..Len(t) /\ DOMAIN t = DOMAIN thread.stacks
  <2>1. IsSequence(p) /\ DOMAIN p = 1..Len(p) /\ DOMAIN p = DOMAIN thread.pointers
    BY <1>1, <1>2, PlaceByPlace
  <2>2. IsSequence(g) /\ DOMAIN g = 1..Len(g) /\ DOMAIN g = DOMAIN thread.registers
    BY <1>1, <1>2, PlaceByPlace
  <2>3. IsSequence(t) /\ DOMAIN t = 1..Len(t) /\ DOMAIN t = DOMAIN thread.stacks
    BY <1>1, <1>2, PlaceByPlace
  <2> QED
    BY <2>1, <2>2, <2>3
<1>8. /\ \A k \in DOMAIN p : p[k] = PointerOf(thread.pointers[k]) /\ p[k] \in MarkingOps
      /\ \A k \in DOMAIN g : g[k] \in OtherOps
      /\ \A k \in DOMAIN t : t[k] \in OtherOps
    BY <1>2, <1>5, <1>6, <1>7
<1>9. /\ IsSequence(u)
      /\ Listed(a, u)
      /\ \A k \in DOMAIN p : Listed(p[k], u)
      /\ \A j \in DOMAIN u : u[j] = a \/ (\E k \in DOMAIN p : u[j] = p[k]) \/ (\E k \in DOMAIN g : u[j] = g[k])
  <2>1. Collects(a, p, g, u)
    BY <1>7, ThreeSequences
  <2> HIDE DEF u
  <2> QED
    BY <1>7, <2>1 DEF Collects, Listed
<1> HIDE DEF u, part
<1>10. Joins(u, t, part) /\ DOMAIN u = 1..Len(u) /\ Len(u) \in Nat /\ Len(t) \in Nat
  <2>1. Joins(u, t, part)
    BY <1>3, <1>7, <1>9, Behind
  <2> QED
    BY <1>7, <1>9, <2>1 DEF IsSequence
<1>11. IsSequence(part) /\ DOMAIN part = 1..Len(part) /\ Len(part) = Len(u) + Len(t)
    BY <1>10 DEF Joins, IsSequence
<1>12. ASSUME NEW o, Listed(o, u) PROVE Listed(o, part)
  <2>1. PICK j \in DOMAIN u : u[j] = o
    BY <1>12 DEF Listed
  <2>2. j \in DOMAIN part /\ part[j] = u[j]
    BY <1>10, <1>11 DEF Joins
  <2> QED
    BY <2>1, <2>2 DEF Listed
<1>13. \A j \in DOMAIN part : (\E k \in DOMAIN u : part[j] = u[k]) \/ (\E k \in DOMAIN t : part[j] = t[k])
  <2> TAKE j \in DOMAIN part
  <2>1. j \in 1..Len(u) \/ \E k \in 1..Len(t) : j = Len(u) + k
    BY <1>10, <1>11 DEF Joins
  <2>2. CASE j \in 1..Len(u)
    BY <1>10, <2>2 DEF Joins
  <2>3. CASE \E k \in 1..Len(t) : j = Len(u) + k
    BY <1>7, <1>10, <2>3 DEF Joins
  <2> QED
    BY <2>1, <2>2, <2>3
<1>14. \A j \in DOMAIN part : part[j] \in MarkingOps \union OtherOps
    BY <1>4, <1>8, <1>9, <1>13
<1>15. Listed(a, part) /\ \A k \in DOMAIN thread.pointers : Listed(PointerOf(thread.pointers[k]), part)
    BY <1>7, <1>8, <1>9, <1>12
<1> QED
    BY <1>11, <1>14, <1>15 DEF OfStructures, a, part, thread

LEMMA HeapPart ==
    ASSUME scene \in Scenes, NEW h \in DOMAIN scene.heaps
    PROVE  LET heap == scene.heaps[h]
               part == HeapOperations(heap) IN
           /\ OfStructures(part)
           /\ Listed(Symbol(heap.address, TRUE, heap.user), part)
           /\ \A k \in DOMAIN heap.pointers : Listed(PointerOf(heap.pointers[k]), part)
           /\ \A k \in DOMAIN heap.blocks : Listed(BlockOf(heap.blocks[k]), part)
<1> DEFINE heap == scene.heaps[h]
           a == Symbol(heap.address, TRUE, heap.user)
           p == ForEach(heap.pointers, PointerOf)
           t == ForEach(heap.blocks, LAMBDA b : [op |-> "block", block |-> b])
           part == HeapOperations(heap)
<1>1. IsSequence(heap.pointers) /\ IsSequence(heap.blocks)
    BY ScenesAssumption
<1>2. /\ p = [k \in DOMAIN heap.pointers |-> PointerOf(heap.pointers[k])]
      /\ t = [k \in DOMAIN heap.blocks |-> BlockOf(heap.blocks[k])]
    BY DEF ForEach, BlockOf
<1>3. part = <<a>> \o p \o t
    BY DEF HeapOperations
<1>4. a \in MarkingOps
    BY DEF MarkingOps
<1>5. \A k \in DOMAIN heap.pointers : PointerOf(heap.pointers[k]) \in MarkingOps
  <2>1. {heap.pointers[k] : k \in DOMAIN heap.pointers} \subseteq Pointers
    BY DEF Pointers, StructurePointers
  <2> QED
    BY <2>1 DEF MarkingOps
<1>6. \A k \in DOMAIN heap.blocks : BlockOf(heap.blocks[k]) \in MarkingOps
  <2>1. {heap.blocks[k] : k \in DOMAIN heap.blocks} \subseteq Blocks
    BY DEF Blocks
  <2> QED
    BY <2>1 DEF MarkingOps
<1> HIDE DEF heap, a, p, t, part
<1>7. /\ IsSequence(p) /\ DOMAIN p = 1..Len(p) /\ DOMAIN p = DOMAIN heap.pointers
      /\ IsSequence(t) /\ DOMAIN t = 1..Len(t) /\ DOMAIN t = DOMAIN heap.blocks
  <2>1. IsSequence(p) /\ DOMAIN p = 1..Len(p) /\ DOMAIN p = DOMAIN heap.pointers
    BY <1>1, <1>2, PlaceByPlace
  <2>2. IsSequence(t) /\ DOMAIN t = 1..Len(t) /\ DOMAIN t = DOMAIN heap.blocks
    BY <1>1, <1>2, PlaceByPlace
  <2> QED
    BY <2>1, <2>2
<1>8. /\ \A k \in DOMAIN p : p[k] = PointerOf(heap.pointers[k]) /\ p[k] \in MarkingOps
      /\ \A k \in DOMAIN t : t[k] = BlockOf(heap.blocks[k]) /\ t[k] \in MarkingOps
    BY <1>2, <1>5, <1>6, <1>7
<1>9. /\ IsSequence(part)
      /\ Listed(a, part)
      /\ \A k \in DOMAIN p : Listed(p[k], part)
      /\ \A k \in DOMAIN t : Listed(t[k], part)
      /\ \A j \in DOMAIN part :
            part[j] = a \/ (\E k \in DOMAIN p : part[j] = p[k]) \/ (\E k \in DOMAIN t : part[j] = t[k])
  <2>1. Collects(a, p, t, part)
    BY <1>3, <1>7, ThreeSequences
  <2> QED
    BY <1>7, <2>1 DEF Collects, Listed
<1>10. \A j \in DOMAIN part : part[j] \in MarkingOps \union OtherOps
    BY <1>4, <1>8, <1>9
<1>11. /\ \A k \in DOMAIN heap.pointers : Listed(PointerOf(heap.pointers[k]), part)
       /\ \A k \in DOMAIN heap.blocks : Listed(BlockOf(heap.blocks[k]), part)
    BY <1>7, <1>8, <1>9
<1>12. OfStructures(part)
    BY <1>9, <1>10 DEF OfStructures
<1> QED
    BY <1>9, <1>11, <1>12 DEF a, part, heap

(* The work at the start: the globals, the thread, the blocks of the debug *)
(* CRT and the heaps.                                                      *)
LEMMA PartsOfWork ==
    ASSUME scene \in Scenes
    PROVE  /\ IsSequence(Parts(scene))
           /\ Len(Parts(scene)) = Len(scene.heaps) + 3
           /\ Parts(scene)[1] = GlobalOperations(scene)
           /\ Parts(scene)[2] = ThreadOperations(scene)
           /\ Parts(scene)[3] = CrtOperations(scene)
           /\ \A h \in DOMAIN scene.heaps : Parts(scene)[3 + h] = HeapOperations(scene.heaps[h])
           /\ \A k \in DOMAIN Parts(scene) : k \in 1..3 \/ \E h \in DOMAIN scene.heaps : k = 3 + h
<1> DEFINE s == <<GlobalOperations(scene), ThreadOperations(scene), CrtOperations(scene)>>
           t == ForEach(scene.heaps, HeapOperations)
           parts == Parts(scene)
<1>1. /\ IsSequence(s) /\ Len(s) = 3 /\ s[1] = GlobalOperations(scene)
      /\ s[2] = ThreadOperations(scene) /\ s[3] = CrtOperations(scene)
    BY DEF IsSequence
<1>2. t = [h \in DOMAIN scene.heaps |-> HeapOperations(scene.heaps[h])]
    BY DEF ForEach
<1>3. parts = s \o t
    BY DEF Parts
<1>4. IsSequence(scene.heaps)
    BY ScenesAssumption
<1>5. /\ DOMAIN scene.heaps = 1..Len(scene.heaps) /\ Len(scene.heaps) \in Nat
    BY <1>4 DEF IsSequence
<1> HIDE DEF s, t, parts
<1>6. IsSequence(t) /\ Len(t) = Len(scene.heaps)
    BY <1>2, <1>4, PlaceByPlace
<1>7. Joins(s, t, parts)
    BY <1>1, <1>3, <1>6, Behind
<1>8. DOMAIN parts = 1..Len(parts)
    BY <1>7 DEF Joins, IsSequence
<1>9. /\ IsSequence(parts) /\ Len(parts) = Len(scene.heaps) + 3
      /\ \A i \in 1..3 : parts[i] = s[i]
      /\ \A i \in 1..Len(scene.heaps) : parts[3 + i] = t[i]
      /\ \A i \in 1..Len(parts) : i \in 1..3 \/ \E j \in 1..Len(scene.heaps) : i = 3 + j
    BY <1>1, <1>5, <1>6, <1>7 DEF Joins
<1>10. parts[1] = s[1] /\ parts[2] = s[2] /\ parts[3] = s[3]
    BY <1>9
<1>11. /\ \A h \in DOMAIN scene.heaps : parts[3 + h] = HeapOperations(scene.heaps[h])
       /\ \A k \in DOMAIN parts : k \in 1..3 \/ \E h \in DOMAIN scene.heaps : k = 3 + h
    BY <1>2, <1>5, <1>8, <1>9
<1> QED
    BY <1>1, <1>9, <1>10, <1>11 DEF parts

LEMMA InitMarks == InitGraph => MarksInv
<1> SUFFICES ASSUME InitGraph PROVE MarksInv
    OBVIOUS
<1>1. /\ scene \in Scenes /\ stage = "collect" /\ cursor = 1 /\ ignored = {} /\ result_cache = <<>>
      /\ work = Parts(scene) /\ nodes = AllocationNodes(scene)
    BY DEF InitGraph
<1>2. /\ IsSequence(Allocations) /\ IsSequence(scene.heaps) /\ IsSequence(scene.globals)
      /\ IsSequence(scene.crt)
    BY <1>1, ScenesAssumption DEF Allocations
<1>3. nodes = [i \in DOMAIN Allocations |->
                  LET a == Allocations[i] IN
                  Node("heap", IF a.area THEN "system_allocation" ELSE "allocation",
                       i, FALSE, a.first, a.size, a.cells)]
    BY <1>1 DEF AllocationNodes, Allocations
<1>4. /\ DOMAIN nodes = DOMAIN Allocations
      /\ \A i \in DOMAIN nodes :
            /\ nodes[i].kind = "heap" /\ nodes[i].is_system = FALSE
            /\ Allocations[i].area => nodes[i].type = "system_allocation"
            /\ ~Allocations[i].area => nodes[i].type = "allocation"
    BY <1>3 DEF Node
<1>5. Len(nodes) = Len(Allocations) /\ Len(Allocations) \in Nat
  <2>1. nodes = [i \in DOMAIN Allocations |-> nodes[i]]
    BY <1>3
  <2> QED
    BY <1>2, <2>1, PlaceByPlace DEF IsSequence
<1>6. InGlobals /\ GlobalsCollected = 0
    BY <1>1, <1>5, PartsOfWork DEF InGlobals, GlobalsCollected
<1>7. WorkLeft
  <2> DEFINE parts == Parts(scene)
  <2>1. GlobalOperations(scene) = [k \in DOMAIN scene.globals |-> GlobalOp(k)]
    BY DEF GlobalOperations, ForEach, GlobalOp
  <2>2. IsSequence(GlobalOperations(scene)) /\ Len(GlobalOperations(scene)) = Len(scene.globals)
    BY <1>2, <2>1, PlaceByPlace
  <2>3. OfStructures(CrtOperations(scene))
    <3>1. CrtOperations(scene) = [k \in DOMAIN scene.crt |-> Symbol(scene.crt[k].first, FALSE, FALSE)]
      BY DEF CrtOperations, ForEach
    <3>2. IsSequence(CrtOperations(scene))
      BY <1>2, <3>1, PlaceByPlace
    <3>3. \A k \in DOMAIN scene.crt : Symbol(scene.crt[k].first, FALSE, FALSE) \in OtherOps
      BY DEF OtherOps
    <3> QED
      BY <3>1, <3>2, <3>3 DEF OfStructures
  <2>4. \A k \in DOMAIN parts : k # 1 => OfStructures(parts[k])
    <3> SUFFICES ASSUME NEW k \in DOMAIN parts, k # 1 PROVE OfStructures(parts[k])
        OBVIOUS
    <3>1. k \in 1..3 \/ \E h \in DOMAIN scene.heaps : k = 3 + h
      BY <1>1, PartsOfWork
    <3>2. CASE k \in 1..3
      <4>1. k = 2 \/ k = 3
        BY <3>2
      <4> QED
        BY <1>1, <2>3, <4>1, PartsOfWork, ThreadPart
    <3>3. CASE \E h \in DOMAIN scene.heaps : k = 3 + h
      <4>1. PICK h \in DOMAIN scene.heaps : k = 3 + h
        BY <3>3
      <4>2. OfStructures(HeapOperations(scene.heaps[h]))
        BY <1>1, HeapPart
      <4>3. parts[3 + h] = HeapOperations(scene.heaps[h])
        BY <1>1, PartsOfWork
      <4> QED
        BY <4>1, <4>2, <4>3
    <3> QED
      BY <3>1, <3>2, <3>3
  <2>5. /\ IsSequence(parts) /\ Len(parts) = Len(scene.heaps) + 3
        /\ parts[1] = GlobalOperations(scene)
    BY <1>1, PartsOfWork
  <2> HIDE DEF parts
  <2>6. \A k \in DOMAIN parts : IsSequence(parts[k])
    BY <2>2, <2>4, <2>5 DEF OfStructures
  <2>7. \A k \in DOMAIN parts :
            k = 1 \/ \A j \in DOMAIN parts[k] : parts[k][j] \in MarkingOps \union OtherOps
    BY <2>4 DEF OfStructures
  <2>8. /\ Len(parts[1]) = Len(scene.globals) - 0
        /\ \A j \in DOMAIN parts[1] : parts[1][j] = GlobalOp(0 + j)
    <3>1. DOMAIN parts[1] = 1..Len(scene.globals) /\ Len(scene.globals) \in Nat
      BY <1>2, <2>1, <2>5 DEF IsSequence
    <3>2. \A j \in DOMAIN parts[1] : 0 + j = j
      BY <3>1
    <3> QED
      BY <2>1, <2>2, <2>5, <3>1, <3>2
  <2>9. Len(scene.heaps) + 3 <= Len(scene.heaps) + 3
    BY <1>2 DEF IsSequence
  <2>10. work = parts
    BY <1>1 DEF parts
  <2> QED
    BY <1>6, <2>5, <2>6, <2>7, <2>8, <2>9, <2>10 DEF WorkLeft
<1>8. GlobalNodes
  <2>1. Len(scene.globals) \in Nat
    BY <1>2 DEF IsSequence
  <2> QED
    BY <1>1, <1>4, <1>6, <2>1 DEF GlobalNodes
<1>9. HeapNodes
    BY <1>1, <1>4 DEF HeapNodes, Cached
<1>10. Marks
    BY <1>1, <1>4 DEF Marks, IsMarked, HeldAtCollect
<1>11. Performed
  <2>1. \A part : \A k \in DOMAIN work : work[k] = part => \A o : Listed(o, part) => Pending(o)
    BY DEF Listed, Pending
  <2>2. Len(scene.heaps) \in Nat /\ DOMAIN scene.heaps = 1..Len(scene.heaps)
    BY <1>2 DEF IsSequence
  <2>3. DOMAIN work = 1..Len(scene.heaps) + 3
    BY <1>1, PartsOfWork DEF IsSequence
  <2>4. 2 \in DOMAIN work /\ \A h \in DOMAIN scene.heaps : 3 + h \in DOMAIN work
    BY <2>2, <2>3
  <2>5. \A o : Listed(o, ThreadOperations(scene)) => Pending(o)
    BY <1>1, <2>1, <2>4, PartsOfWork
  <2>6. \A h \in DOMAIN scene.heaps : \A o : Listed(o, HeapOperations(scene.heaps[h])) => Pending(o)
    BY <1>1, <2>1, <2>4, PartsOfWork
  <2>7. \A p \in Pointers : Pending(PointerOf(p))
    <3> SUFFICES ASSUME NEW p \in Pointers PROVE Pending(PointerOf(p))
        OBVIOUS
    <3>1. CASE \E k \in DOMAIN scene.thread.pointers : p = scene.thread.pointers[k]
      BY <1>1, <2>5, <3>1, ThreadPart
    <3>2. CASE \E h \in DOMAIN scene.heaps : \E k \in DOMAIN scene.heaps[h].pointers :
                  p = scene.heaps[h].pointers[k]
      BY <1>1, <2>6, <3>2, HeapPart
    <3> QED
      BY <3>1, <3>2 DEF Pointers, StructurePointers
  <2>8. \A b \in Blocks : Pending(BlockOf(b))
    <3> SUFFICES ASSUME NEW b \in Blocks PROVE Pending(BlockOf(b))
        OBVIOUS
    <3>1. \E h \in DOMAIN scene.heaps : \E k \in DOMAIN scene.heaps[h].blocks :
              b = scene.heaps[h].blocks[k]
      BY DEF Blocks
    <3> QED
      BY <1>1, <2>6, <3>1, HeapPart
  <2>9. /\ Pending(Symbol(scene.thread.teb, TRUE, FALSE))
        /\ \A h \in DOMAIN scene.heaps :
              Pending(Symbol(scene.heaps[h].address, TRUE, scene.heaps[h].user))
    BY <1>1, <2>5, <2>6, ThreadPart, HeapPart
  <2>10. \A o \in MarkingOps : Pending(o)
    BY <2>7, <2>8, <2>9 DEF MarkingOps
  <2> QED
    BY <1>1, <2>10 DEF Performed
<1> QED
    BY <1>7, <1>8, <1>9, <1>10, <1>11, InitInv DEF MarksInv

(* A step that takes nothing from the work but an empty part marks         *)
(* nothing.                                                                *)
LEMMA NextPartMarks == MarksInv /\ NextPart => MarksInv'
<1> SUFFICES ASSUME MarksInv, NextPart PROVE MarksInv'
    OBVIOUS
<1>1. /\ stage = "collect" /\ work # <<>> /\ Head(work) = <<>> /\ work' = Tail(work)
      /\ UNCHANGED <<scene, stage, nodes, ignored, cursor, result_cache>>
    BY DEF NextPart
<1>2. GraphInv' /\ scene \in Scenes
    BY NextPartInv DEF MarksInv, GraphInv
<1>3. /\ IsSequence(work) /\ Len(work) <= Len(scene.heaps) + 3
      /\ \A k \in DOMAIN work : IsSequence(work[k])
    BY <1>1 DEF MarksInv, WorkLeft
<1>4. Len(scene.heaps) \in Nat /\ Len(scene.globals) \in Nat
    BY <1>2, ScenesAssumption DEF IsSequence
<1>5. /\ Len(work) \in Nat \ {0} /\ DOMAIN work = 1..Len(work) /\ work[1] = <<>>
      /\ IsSequence(work') /\ Len(work') = Len(work) - 1 /\ DOMAIN work' = 1..Len(work')
      /\ \A k \in 1..Len(work') : work'[k] = work[k + 1]
  <2> DEFINE T == {work[i] : i \in DOMAIN work}
  <2>1. work \in Seq(T)
    BY <1>3 DEF IsSequence
  <2> HIDE DEF T
  <2>2. Tail(work) \in Seq(T) /\ Len(work) \in Nat \ {0}
    BY <1>1, <2>1
  <2>3. IsSequence(work')
    <3>1. work' \in Seq(T)
      BY <1>1, <2>2
    <3> QED
      BY <3>1, SequenceOfItsElements DEF IsSequence
  <2>4. /\ DOMAIN work = 1..Len(work) /\ work[1] = <<>>
        /\ Len(work') = Len(work) - 1 /\ DOMAIN work' = 1..Len(work')
        /\ \A k \in 1..Len(work') : work'[k] = work[k + 1]
    BY <1>1, <2>1, <2>2
  <2> QED
    BY <1>1, <2>2, <2>3, <2>4
<1>6. Allocations' = Allocations
    BY <1>1 DEF Allocations
<1>7. ~InGlobals' /\ GlobalsCollected' = Len(scene.globals)
  <2>1. Len(work') # Len(scene.heaps) + 3
    <3>1. \A n, h \in Nat : n <= h + 3 => n - 1 # h + 3
      OBVIOUS
    <3>2. Len(work) \in Nat /\ Len(work') = Len(work) - 1
      BY <1>5
    <3> QED
      BY <1>3, <1>4, <3>1, <3>2
  <2>2. ~InGlobals'
    BY <1>1, <2>1 DEF InGlobals
  <2> QED
    BY <1>1, <2>2 DEF GlobalsCollected
<1>8. GlobalsCollected = Len(scene.globals)
  <2>1. CASE InGlobals
    <3>1. 0 = Len(scene.globals) - GlobalsCollected
      BY <1>1, <1>5, <2>1 DEF MarksInv, WorkLeft
    <3>2. GlobalsCollected \in 0..Len(scene.globals)
      BY <1>1 DEF MarksInv, GlobalNodes
    <3> QED
      BY <1>4, <3>1, <3>2
  <2> QED
    BY <2>1 DEF GlobalsCollected
<1>9. WorkLeft'
  <2>1. ASSUME NEW k \in DOMAIN work'
        PROVE  /\ k + 1 \in DOMAIN work /\ k + 1 # 1 /\ work'[k] = work[k + 1]
    BY <1>5
  <2>2. \A k \in DOMAIN work' : IsSequence(work'[k])
    BY <1>3, <2>1
  <2>3. \A k \in DOMAIN work' : \A j \in DOMAIN work'[k] : work'[k][j] \in MarkingOps \union OtherOps
    BY <1>1, <2>1 DEF MarksInv, WorkLeft
  <2>4. Len(work') <= Len(scene.heaps) + 3
    BY <1>3, <1>4, <1>5
  <2> QED
    BY <1>1, <1>5, <1>7, <2>2, <2>3, <2>4, MarkedByStays DEF WorkLeft
<1>10. GlobalNodes'
    BY <1>1, <1>6, <1>7, <1>8, HeldStays DEF MarksInv, GlobalNodes
<1>11. HeapNodes' /\ Marks'
    BY <1>1, <1>6, MarkedByStays DEF MarksInv, HeapNodes, Marks, IsMarked, Cached
<1>12. Performed'
  <2>1. ASSUME NEW o PROVE Effect(o)' <=> Effect(o)
    BY <1>1, MarkedByStays DEF Effect, IsMarked
  <2>2. ASSUME NEW o, Pending(o) PROVE Pending(o)'
    <3>1. PICK k \in DOMAIN work : \E j \in DOMAIN work[k] : work[k][j] = o
      BY <2>2 DEF Pending
    <3>2. k # 1
      BY <1>5, <3>1
    <3>3. k - 1 \in DOMAIN work' /\ work'[k - 1] = work[k]
      BY <1>5, <3>2
    <3> QED
      BY <3>1, <3>3 DEF Pending
  <2>3. Pointers' = Pointers
    BY <1>1 DEF Pointers
  <2> QED
    BY <1>1, <2>1, <2>2, <2>3, MarkedByStays DEF MarksInv, Performed
<1> QED
    BY <1>2, <1>9, <1>10, <1>11, <1>12 DEF MarksInv

(* With all the work done every operation has had its effect.              *)
LEMMA StartLinkingMarks == MarksInv /\ StartLinking => MarksInv'
<1> SUFFICES ASSUME MarksInv, StartLinking PROVE MarksInv'
    OBVIOUS
<1>1. /\ stage = "collect" /\ stage' = "link" /\ work = <<>> /\ work' = work
      /\ UNCHANGED <<scene, nodes, ignored, cursor, result_cache>>
    BY DEF StartLinking
<1>2. GraphInv' /\ scene \in Scenes
    BY StartLinkingInv DEF MarksInv, GraphInv
<1>3. Allocations' = Allocations
    BY <1>1 DEF Allocations
<1>4. /\ Len(scene.heaps) \in Nat /\ Len(scene.globals) \in Nat /\ Len(Allocations) \in Nat
      /\ DOMAIN scene.globals = 1..Len(scene.globals)
    BY <1>2, ScenesAssumption DEF IsSequence, Allocations
<1>5. GlobalsCollected = Len(scene.globals) /\ GlobalsCollected' = Len(scene.globals)
  <2>1. Len(work) # Len(scene.heaps) + 3
    BY <1>1, <1>4
  <2> QED
    BY <1>1, <2>1 DEF GlobalsCollected, InGlobals
<1>6. cursor = 1
    BY <1>1 DEF MarksInv, GlobalNodes
<1>7. GlobalNodes'
    BY <1>1, <1>3, <1>5, HeldStays DEF MarksInv, GlobalNodes
<1>8. HeapNodes'
    BY <1>1, <1>3 DEF MarksInv, HeapNodes, Cached
<1>9. \A o \in MarkingOps : Effect(o)
  <2>1. \A o : ~Pending(o)
    BY <1>1 DEF Pending
  <2> QED
    BY <1>1, <2>1 DEF MarksInv, Performed
<1>10. Marks'
  <2>1. \A i : IsMarked(i)' <=> IsMarked(i)
    BY <1>1 DEF IsMarked
  <2>2. ASSUME NEW i \in DOMAIN Allocations PROVE IsMarked(i) <=> HeldAtCollect(i)
    BY <1>1, <1>9 DEF MarksInv, Marks, HeldAtCollect, Effect
  <2>3. \A k \in DOMAIN scene.globals : ~(Len(Allocations) + k < 1)
    BY <1>4
  <2>4. ASSUME NEW i PROVE HeldSoFar(i)' <=> HeldAtCollect(i)
    BY <1>1, <1>3, <1>6, <2>3, MarkedByStays DEF HeldSoFar
  <2> QED
    BY <1>1, <1>3, <2>1, <2>2, <2>4 DEF Marks
<1>11. WorkLeft' /\ Performed'
    BY <1>1 DEF WorkLeft, Performed
<1> QED
    BY <1>2, <1>7, <1>8, <1>10, <1>11 DEF MarksInv

(* Every global variable has been linked by the time the roots without     *)
(* references are dropped.                                                 *)
LEMMA PruneMarks == MarksInv /\ Prune => MarksInv'
<1> SUFFICES ASSUME MarksInv, Prune PROVE MarksInv'
    OBVIOUS
<1>1. /\ stage = "link" /\ stage' = "gather" /\ cursor \notin DOMAIN nodes
      /\ UNCHANGED <<scene, result_cache>>
      /\ nodes' = [i \in {j \in DOMAIN nodes : Kept(nodes[j])} |-> nodes[i]]
    BY DEF Prune
<1>2. GraphInv' /\ scene \in Scenes
    BY PruneInv DEF MarksInv, GraphInv
<1>3. Allocations' = Allocations
    BY <1>1 DEF Allocations
<1>4. /\ \A i \in DOMAIN nodes' : i \in DOMAIN nodes /\ nodes'[i] = nodes[i]
      /\ \A i \in DOMAIN Allocations : i \in DOMAIN nodes' /\ nodes'[i] = nodes[i]
  <2>1. \A i \in DOMAIN Allocations : i \in DOMAIN nodes /\ nodes[i].type # "root"
    BY <1>1 DEF MarksInv, GraphInv, NodesOK, HeapNodes
  <2> QED
    BY <1>1, <2>1 DEF Kept
<1>5. HeapNodes'
    BY <1>1, <1>3, <1>4 DEF MarksInv, HeapNodes, Cached
<1>6. ASSUME NEW k \in DOMAIN scene.globals PROVE Len(Allocations) + k < cursor
  <2>1. DOMAIN nodes = 1..Len(nodes) /\ Len(nodes) \in Nat
    BY <1>1 DEF MarksInv, GraphInv, Appending
  <2>2. cursor \in Nat /\ cursor # 0
    BY <1>1 DEF MarksInv, GraphInv, GlobalNodes
  <2>3. GlobalsCollected = Len(scene.globals)
    BY <1>1 DEF GlobalsCollected, InGlobals
  <2>4. k \in 1..GlobalsCollected
    BY <1>2, <2>3, ScenesAssumption DEF IsSequence
  <2>5. Len(Allocations) + k \in DOMAIN nodes
    BY <1>1, <2>4 DEF MarksInv, GlobalNodes
  <2> QED
    BY <1>1, <2>1, <2>2, <2>5
<1>7. Marks'
  <2>1. ASSUME NEW i \in DOMAIN Allocations PROVE IsMarked(i)' <=> IsMarked(i)
    BY <1>4 DEF IsMarked
  <2>2. ASSUME NEW i \in DOMAIN Allocations PROVE HeldSoFar(i) <=> Held(i)
    BY <1>6 DEF HeldSoFar, Held
  <2>3. ASSUME NEW i \in DOMAIN Allocations PROVE IsMarked(i) <=> HeldSoFar(i)
    BY <1>1 DEF MarksInv, Marks
  <2> QED
    BY <1>1, <1>3, <2>1, <2>2, <2>3, HeldStays DEF Marks
<1>8. WorkLeft' /\ GlobalNodes' /\ Performed'
    BY <1>1 DEF WorkLeft, GlobalNodes, Performed
<1> QED
    BY <1>2, <1>5, <1>7, <1>8 DEF MarksInv

(* The gathering decides of no allocation that it is the system's: it      *)
(* would have to point to one that is.                                     *)
LEMMA GatherMarks ==
    ASSUME NEW i \in DOMAIN nodes, MarksInv, Gather(i)
    PROVE  MarksInv'
<1>1. /\ stage = "gather" /\ stage' = "gather" /\ UNCHANGED <<scene, nodes>>
      /\ \/ UNCHANGED result_cache
         \/ result_cache' = [j \in Cached \union {i} |->
                                IF j = i THEN NodeType(nodes[i]) = "system_node" ELSE result_cache[j]]
    BY DEF Gather
<1>2. GraphInv'
    BY GatherInv DEF MarksInv
<1>3. Allocations' = Allocations
    BY <1>1 DEF Allocations
<1>4. /\ \A j \in Cached : j \in DOMAIN Allocations => result_cache[j] = FALSE
      /\ i \in DOMAIN Allocations => nodes[i].kind = "heap" /\ nodes[i].is_system = FALSE
    BY <1>1 DEF MarksInv, HeapNodes
<1>5. i \in DOMAIN Allocations => NodeType(nodes[i]) # "system_node"
  <2> SUFFICES ASSUME i \in DOMAIN Allocations PROVE NodeType(nodes[i]) # "system_node"
      OBVIOUS
  <2>1. \A r \in nodes[i].to : r.node \in DOMAIN Allocations
    BY DEF MarksInv, GraphInv, Linked
  <2>2. ~SystemTarget(nodes[i])
    BY <1>4, <2>1 DEF SystemTarget
  <2> QED
    BY <1>4, <2>2 DEF NodeType
<1>6. \A j \in Cached' : j \in DOMAIN Allocations => result_cache'[j] = FALSE
  <2>1. CASE UNCHANGED result_cache
    BY <1>4, <2>1 DEF Cached
  <2>2. CASE result_cache' = [j \in Cached \union {i} |->
                                 IF j = i THEN NodeType(nodes[i]) = "system_node" ELSE result_cache[j]]
    <3>1. Cached' = Cached \union {i}
      BY <2>2 DEF Cached
    <3>2. ASSUME NEW j \in Cached', j \in DOMAIN Allocations PROVE result_cache'[j] = FALSE
      <4>1. CASE j = i
        BY <1>5, <2>2, <3>1, <3>2, <4>1
      <4>2. CASE j # i
        BY <1>4, <2>2, <3>1, <3>2, <4>2
      <4> QED
        BY <4>1, <4>2
    <3> QED
      BY <3>2
  <2> QED
    BY <1>1, <2>1, <2>2
<1>7. HeapNodes'
    BY <1>1, <1>3, <1>6 DEF MarksInv, HeapNodes
<1>8. Marks'
    BY <1>1, <1>3, HeldStays DEF MarksInv, Marks, IsMarked
<1>9. WorkLeft' /\ GlobalNodes' /\ Performed'
    BY <1>1 DEF WorkLeft, GlobalNodes, Performed
<1> QED
    BY <1>2, <1>7, <1>8, <1>9 DEF MarksInv

LEMMA GatherAgainMarks == MarksInv /\ GatherAgain => MarksInv'
<1> SUFFICES ASSUME MarksInv, GatherAgain PROVE MarksInv'
    OBVIOUS
<1>1. stage = "gather" /\ stage' = "gather" /\ UNCHANGED <<scene, nodes, result_cache>>
    BY DEF GatherAgain
<1>2. GraphInv' /\ Allocations' = Allocations
    BY <1>1, GatherAgainInv DEF MarksInv, Allocations
<1>3. HeapNodes'
    BY <1>1, <1>2 DEF MarksInv, HeapNodes, Cached
<1>4. Marks'
    BY <1>1, <1>2, HeldStays DEF MarksInv, Marks, IsMarked
<1>5. WorkLeft' /\ GlobalNodes' /\ Performed'
    BY <1>1 DEF WorkLeft, GlobalNodes, Performed
<1> QED
    BY <1>2, <1>3, <1>4, <1>5 DEF MarksInv

(* So pass two finds no allocation to mark.                                *)
LEMMA MarkGatheredMarks == MarksInv /\ MarkGathered => MarksInv'
<1> SUFFICES ASSUME MarksInv, MarkGathered PROVE MarksInv'
    OBVIOUS
<1> DEFINE marked == {i \in DOMAIN nodes : result_cache[i] /\ MarkedHere(nodes[i])}
<1>1. /\ stage = "gather" /\ ~again
      /\ stage' = (IF "no_filter_heap_entries" \in scene.options THEN "done" ELSE "remove")
      /\ UNCHANGED <<scene, result_cache>>
      /\ nodes' = [i \in DOMAIN nodes |->
              [Marked(nodes, marked)[i] EXCEPT !.is_system = @ \/ result_cache[i]]]
      /\ \A i \in DOMAIN nodes : i \in Cached
    BY DEF MarkGathered, AllVisited, MarksInv, GraphInv, Gathering
<1>2. GraphInv' /\ Allocations' = Allocations
    BY <1>1, MarkGatheredInv DEF MarksInv, Allocations
<1>3. /\ DOMAIN Allocations \subseteq DOMAIN nodes
      /\ \A i \in Cached : i \in DOMAIN Allocations => result_cache[i] = FALSE
      /\ \A i \in DOMAIN nodes : DOMAIN nodes[i] = Fields
    BY <1>1 DEF MarksInv, HeapNodes, GraphInv, NodesOK
<1>4. \A i \in DOMAIN nodes : i \notin marked
  <2> SUFFICES ASSUME NEW i \in DOMAIN nodes, result_cache[i], MarkedHere(nodes[i]) PROVE FALSE
      OBVIOUS
  <2>1. i \in DOMAIN Allocations
    BY DEF MarkedHere, MarksInv, GraphInv, Linked
  <2> QED
    BY <1>1, <1>3, <2>1
<1> HIDE DEF marked
<1>5. ASSUME NEW i \in DOMAIN nodes
      PROVE  /\ nodes'[i].kind = nodes[i].kind /\ nodes'[i].type = nodes[i].type
             /\ nodes'[i].is_system = (nodes[i].is_system \/ result_cache[i])
  <2>1. Marked(nodes, marked)[i] = nodes[i]
    BY <1>4 DEF Marked
  <2>2. nodes'[i] = [Marked(nodes, marked)[i] EXCEPT
                         !.is_system = Marked(nodes, marked)[i].is_system \/ result_cache[i]]
    BY <1>1
  <2>3. nodes'[i] = [nodes[i] EXCEPT !.is_system = nodes[i].is_system \/ result_cache[i]]
    BY <2>1, <2>2
  <2> QED
    BY <1>3, <2>3 DEF Fields
<1>6. DOMAIN nodes' = DOMAIN nodes
    BY <1>1
<1>7. HeapNodes'
  <2>1. ASSUME NEW i \in DOMAIN Allocations PROVE nodes'[i].is_system = FALSE
    <3>1. i \in DOMAIN nodes /\ i \in Cached /\ result_cache[i] = FALSE
      BY <1>1, <1>3
    <3>2. nodes[i].is_system = FALSE
      BY <3>1 DEF MarksInv, HeapNodes
    <3> QED
      BY <1>5, <3>1, <3>2
  <2>2. Cached' = Cached
    BY <1>1 DEF Cached
  <2>3. \A i \in DOMAIN nodes :
            /\ nodes'[i].kind = "heap" <=> i \in DOMAIN Allocations
            /\ i \in DOMAIN Allocations => nodes'[i].type \in {"allocation", "system_allocation"}
    BY <1>5 DEF MarksInv, HeapNodes
  <2> QED
    BY <1>1, <1>2, <1>3, <1>6, <2>1, <2>2, <2>3 DEF HeapNodes
<1>8. Marks'
  <2>1. ASSUME NEW i \in DOMAIN Allocations PROVE (IsMarked(i)' <=> IsMarked(i)) /\ i \in DOMAIN nodes'
    BY <1>3, <1>5, <1>6 DEF IsMarked
  <2>2. ASSUME NEW i \in DOMAIN Allocations PROVE IsMarked(i) <=> Held(i)
    BY <1>1 DEF MarksInv, Marks
  <2> QED
    BY <1>1, <1>2, <2>1, <2>2, HeldStays DEF Marks
<1>9. WorkLeft' /\ GlobalNodes' /\ Performed'
    BY <1>1 DEF WorkLeft, GlobalNodes, Performed
<1> QED
    BY <1>2, <1>7, <1>8, <1>9 DEF MarksInv

(* The removal takes out the marked allocations: none is a system node.    *)
LEMMA RemoveMarks == MarksInv /\ RemoveSystem => MarksInv'
<1> SUFFICES ASSUME MarksInv, RemoveSystem PROVE MarksInv'
    OBVIOUS
<1> DEFINE left == {j \in DOMAIN nodes : ~Removable(nodes[j])}
           Without(refs) == {r \in refs : ~(r.node \in DOMAIN result_cache' /\ result_cache'[r.node])}
<1>1. /\ stage = "remove" /\ stage' = "done" /\ scene' = scene
      /\ nodes' = [i \in left |-> [nodes[i] EXCEPT !.to = Without(@), !.from = Without(@)]]
    BY DEF RemoveSystem
<1>2. GraphInv' /\ Allocations' = Allocations
    BY <1>1, RemoveInv DEF MarksInv, Allocations
<1>3. /\ DOMAIN Allocations \subseteq DOMAIN nodes
      /\ \A i \in DOMAIN nodes : DOMAIN nodes[i] = Fields
      /\ \A i \in DOMAIN Allocations : nodes[i].is_system = FALSE
    BY <1>1 DEF MarksInv, HeapNodes, GraphInv, NodesOK
<1> HIDE DEF Without
<1>4. /\ DOMAIN nodes' = left
      /\ \A i \in left : /\ nodes'[i].kind = nodes[i].kind
                         /\ nodes'[i].type = nodes[i].type
                         /\ nodes'[i].is_system = nodes[i].is_system
    BY <1>1, <1>3 DEF Fields
<1>5. \A i \in DOMAIN Allocations : i \in left <=> ~IsMarked(i)
    BY <1>3 DEF Removable, IsMarked
<1>6. HeapNodes'
    BY <1>1, <1>2, <1>4 DEF MarksInv, HeapNodes
<1>7. Marks'
  <2>1. ASSUME NEW i \in DOMAIN Allocations
        PROVE  (IsMarked(i) <=> Held(i)) /\ "no_filter_heap_entries" \notin scene.options
    BY <1>1 DEF MarksInv, Marks
  <2>2. ASSUME NEW i \in left PROVE IsMarked(i)' <=> IsMarked(i)
    BY <1>4 DEF IsMarked
  <2> HIDE DEF left
  <2> QED
    BY <1>1, <1>2, <1>4, <1>5, <2>1, <2>2, HeldStays DEF Marks
<1>8. WorkLeft' /\ GlobalNodes' /\ Performed'
    BY <1>1 DEF WorkLeft, GlobalNodes, Performed
<1> QED
    BY <1>2, <1>6, <1>7, <1>8 DEF MarksInv

(* A global variable of a system module whose type is not filtered marks   *)
(* what it points to.                                                      *)
LEMMA GlobalMarks ==
    ASSUME scene \in Scenes, NEW k \in DOMAIN scene.globals
    PROVE  MarksTargets(GlobalNode(k)) <=>
              /\ "no_mark_global_variable_data_pointers" \notin scene.options
              /\ scene.globals[k].system /\ ~scene.globals[k].filtered
<1>1. /\ GlobalNode(k).kind = "global" /\ GlobalNode(k).is_system = scene.globals[k].system
      /\ GlobalNode(k).first = scene.globals[k].first
    BY DEF GlobalNode, Node
<1>2. \A g \in DOMAIN scene.globals :
          scene.globals[g].first = scene.globals[k].first =>
              scene.globals[g].filtered = scene.globals[k].filtered
    BY LayoutAssumption
<1> HIDE DEF GlobalNode
<1>3. (\A g \in DOMAIN scene.globals :
          scene.globals[g].first = scene.globals[k].first => ~scene.globals[g].filtered) <=>
      ~scene.globals[k].filtered
    BY <1>2
<1> QED
    BY <1>1, <1>3 DEF MarksTargets

(* Linking a node marks what the operations say of it, and the nodes after *)
(* it stay what they are.                                                  *)
LEMMA LinkMarks == MarksInv /\ LinkNode => MarksInv'
<1> SUFFICES ASSUME MarksInv, LinkNode PROVE MarksInv'
    OBVIOUS
<1> DEFINE links == Links(nodes[cursor])
           linked == [i \in DOMAIN nodes |->
               [nodes[i] EXCEPT !.to = IF i = cursor THEN links ELSE @,
                                !.from = @ \union From(links, i, cursor)]]
           places == {l.node : l \in links}
<1>1. /\ stage = "link" /\ stage' = "link" /\ cursor \in DOMAIN nodes /\ cursor' = cursor + 1
      /\ UNCHANGED <<scene, result_cache>>
      /\ nodes' = IF MarksTargets(nodes[cursor]) THEN Marked(linked, places) ELSE linked
    BY DEF LinkNode
<1>2. GraphInv' /\ scene \in Scenes /\ Allocations' = Allocations
    BY <1>1, LinkInv DEF MarksInv, GraphInv, Allocations
<1>3. /\ \A i \in DOMAIN nodes : DOMAIN nodes[i] = Fields
      /\ \A i \in DOMAIN nodes : nodes[i].kind = "heap" <=> i \in DOMAIN Allocations
      /\ DOMAIN Allocations \subseteq DOMAIN nodes
      /\ cursor \in Nat /\ cursor # 0 /\ Len(Allocations) \in Nat
  <2>1. Len(Allocations) \in Nat
    BY <1>2, ScenesAssumption DEF IsSequence, Allocations
  <2>2. \A i \in DOMAIN nodes : DOMAIN nodes[i] = Fields
    BY DEF MarksInv, GraphInv, NodesOK
  <2>3. \A i \in DOMAIN nodes : nodes[i].kind = "heap" <=> i \in DOMAIN Allocations
    BY DEF MarksInv, HeapNodes
  <2>4. DOMAIN Allocations \subseteq DOMAIN nodes
    BY <1>1 DEF MarksInv, HeapNodes
  <2>5. cursor \in Nat /\ cursor # 0
    BY <1>1 DEF MarksInv, GraphInv, GlobalNodes
  <2> QED
    BY <2>1, <2>2, <2>3, <2>4, <2>5
<1>4. /\ \A l \in links : l.node \in DOMAIN Allocations
      /\ \A i : i \notin DOMAIN Allocations => From(links, i, cursor) = {} /\ i \notin places
  <2>1. \A l \in links : l.node \in DOMAIN Allocations
    BY LinksAreReferences
  <2> QED
    BY <2>1 DEF From
<1>5. ASSUME NEW i \in DOMAIN nodes
      PROVE  /\ linked[i].kind = nodes[i].kind /\ linked[i].type = nodes[i].type
             /\ linked[i].is_system = nodes[i].is_system /\ DOMAIN linked[i] = Fields
    BY <1>3 DEF Fields
<1>6. DOMAIN linked = DOMAIN nodes
    OBVIOUS
<1> HIDE DEF places, linked, links
<1>7. ASSUME NEW i \in DOMAIN nodes
      PROVE  /\ nodes'[i].kind = nodes[i].kind
             /\ nodes'[i].is_system = nodes[i].is_system
             /\ i \notin places \/ ~MarksTargets(nodes[cursor]) => nodes'[i].type = nodes[i].type
             /\ i \in places /\ MarksTargets(nodes[cursor]) => nodes'[i].type = "system_allocation"
             /\ i \notin places \/ ~MarksTargets(nodes[cursor]) => nodes'[i] = linked[i]
  <2>1. CASE ~MarksTargets(nodes[cursor])
    BY <1>1, <1>5, <2>1
  <2>2. CASE MarksTargets(nodes[cursor])
    <3>1. nodes' = Marked(linked, places)
      BY <1>1, <2>2
    <3>2. /\ i \notin places => nodes'[i] = linked[i]
          /\ i \in places => nodes'[i] = [linked[i] EXCEPT !.type = "system_allocation"]
      BY <1>6, <3>1 DEF Marked
    <3>3. i \in places => /\ nodes'[i].kind = linked[i].kind /\ nodes'[i].is_system = linked[i].is_system
                          /\ nodes'[i].type = "system_allocation"
      BY <1>5, <3>2 DEF Fields
    <3> QED
      BY <1>5, <2>2, <3>2, <3>3
  <2> QED
    BY <2>1, <2>2
<1>8. DOMAIN nodes' = DOMAIN nodes
    BY <1>1, <1>6 DEF Marked
<1>9. HeapNodes'
  <2>1. ASSUME NEW i \in DOMAIN nodes
        PROVE  /\ nodes'[i].kind = "heap" <=> i \in DOMAIN Allocations
               /\ i \in DOMAIN Allocations =>
                     nodes'[i].is_system = FALSE /\ nodes'[i].type \in {"allocation", "system_allocation"}
    <3>1. i \in DOMAIN Allocations =>
              nodes[i].is_system = FALSE /\ nodes[i].type \in {"allocation", "system_allocation"}
      BY DEF MarksInv, HeapNodes
    <3> QED
      BY <1>3, <1>7, <3>1
  <2>2. \A i \in Cached' : i \in DOMAIN Allocations => result_cache'[i] = FALSE
    BY <1>1 DEF MarksInv, HeapNodes, Cached
  <2> QED
    BY <1>1, <1>2, <1>3, <1>8, <2>1, <2>2 DEF HeapNodes
<1>10. GlobalsCollected = Len(scene.globals) /\ GlobalsCollected' = Len(scene.globals)
    BY <1>1 DEF GlobalsCollected, InGlobals
<1>11. Len(scene.globals) \in Nat /\ DOMAIN scene.globals = 1..Len(scene.globals)
    BY <1>2, ScenesAssumption DEF IsSequence
<1>12. \A k \in DOMAIN scene.globals :
          /\ Len(Allocations) + k \in DOMAIN nodes
          /\ Len(Allocations) + k \notin DOMAIN Allocations
          /\ Len(Allocations) + k >= cursor => nodes[Len(Allocations) + k] = GlobalNode(k)
  <2>1. DOMAIN Allocations = 1..Len(Allocations)
    BY <1>2, ScenesAssumption DEF IsSequence, Allocations
  <2>2. \A k \in DOMAIN scene.globals : Len(Allocations) + k \notin DOMAIN Allocations
    BY <1>3, <1>11, <2>1
  <2> QED
    BY <1>1, <1>10, <1>11, <2>2 DEF MarksInv, GlobalNodes
<1>13. GlobalNodes'
  <2>1. ASSUME NEW k \in DOMAIN scene.globals, Len(Allocations) + k >= cursor + 1
        PROVE  nodes'[Len(Allocations) + k] = GlobalNode(k)
    <3> DEFINE i == Len(Allocations) + k
    <3>1. i \in DOMAIN nodes /\ i \notin DOMAIN Allocations /\ i >= cursor /\ i # cursor
      BY <1>3, <1>11, <1>12, <2>1
    <3>2. nodes[i] = GlobalNode(k)
      BY <1>12, <3>1
    <3>3. nodes'[i] = linked[i]
      BY <1>4, <1>7, <3>1
    <3>4. linked[i] = [nodes[i] EXCEPT !.to = nodes[i].to, !.from = nodes[i].from \union {}]
      BY <1>4, <3>1 DEF linked
    <3> HIDE DEF i
    <3>5. [GlobalNode(k) EXCEPT !.to = GlobalNode(k).to, !.from = GlobalNode(k).from \union {}] = GlobalNode(k)
      BY DEF GlobalNode, Node
    <3> QED
      BY <3>2, <3>3, <3>4, <3>5 DEF i
  <2>2. \A c \in DOMAIN nodes' :
            nodes'[c].kind = "global" => \E k \in 1..GlobalsCollected : c = Len(Allocations) + k
    <3> SUFFICES ASSUME NEW c \in DOMAIN nodes, nodes'[c].kind = "global"
                 PROVE  \E k \in 1..GlobalsCollected : c = Len(Allocations) + k
        BY <1>8
    <3>1. nodes[c].kind = "global"
      BY <1>7
    <3> QED
      BY <1>1, <3>1 DEF MarksInv, GlobalNodes
  <2>3. cursor + 1 # 0 /\ GlobalsCollected \in 0..Len(scene.globals)
    BY <1>3, <1>10, <1>11
  <2>4. \A k \in 1..GlobalsCollected' :
            /\ Len(Allocations) + k \in DOMAIN nodes'
            /\ Len(Allocations) + k >= cursor' => nodes'[Len(Allocations) + k] = GlobalNode(k)
    BY <1>1, <1>8, <1>10, <1>11, <1>12, <2>1
  <2> QED
    BY <1>1, <1>2, <1>10, <2>2, <2>3, <2>4, HeldStays DEF GlobalNodes
<1>14. ASSUME NEW i \in DOMAIN Allocations
       PROVE  HeldSoFar(i)' <=> HeldSoFar(i) \/ (i \in places /\ MarksTargets(nodes[cursor]))
  <2>1. HeldSoFar(i)' <=>
            \/ HeldAtCollect(i)
            \/ \E k \in DOMAIN scene.globals : Len(Allocations) + k < cursor + 1 /\ HeldByGlobal(i, k)
    BY <1>1, <1>2, MarkedByStays, HeldStays DEF HeldSoFar
  <2>2. \A k \in DOMAIN scene.globals :
            Len(Allocations) + k < cursor + 1 <=>
                Len(Allocations) + k < cursor \/ Len(Allocations) + k = cursor
    BY <1>3, <1>11
  <2>3. ASSUME NEW k \in DOMAIN scene.globals, Len(Allocations) + k = cursor
        PROVE  HeldByGlobal(i, k) <=> i \in places /\ MarksTargets(nodes[cursor])
    <3>1. nodes[cursor] = GlobalNode(k)
      BY <1>3, <1>12, <2>3
    <3>2. GlobalTargets(k) = places
      BY <3>1 DEF GlobalTargets, GlobalNode, places, links
    <3> QED
      BY <1>2, <3>1, <3>2, GlobalMarks DEF HeldByGlobal
  <2>4. MarksTargets(nodes[cursor]) => \E k \in DOMAIN scene.globals : Len(Allocations) + k = cursor
    <3>1. MarksTargets(nodes[cursor]) => nodes[cursor].kind = "global"
      BY DEF MarksTargets
    <3>2. nodes[cursor].kind = "global" => \E k \in 1..GlobalsCollected : cursor = Len(Allocations) + k
      BY <1>1 DEF MarksInv, GlobalNodes
    <3> QED
      BY <1>10, <1>11, <3>1, <3>2
  <2> QED
    BY <2>1, <2>2, <2>3, <2>4 DEF HeldSoFar
<1>15. Marks'
  <2>1. ASSUME NEW i \in DOMAIN Allocations PROVE IsMarked(i)' <=> HeldSoFar(i)'
    <3>1. i \in DOMAIN nodes /\ (IsMarked(i) <=> HeldSoFar(i))
      BY <1>1, <1>3 DEF MarksInv, Marks
    <3>2. IsMarked(i)' <=> IsMarked(i) \/ (i \in places /\ MarksTargets(nodes[cursor]))
      BY <1>7, <3>1 DEF IsMarked
    <3> QED
      BY <1>14, <3>1, <3>2
  <2> QED
    BY <1>1, <1>2, <2>1 DEF Marks
<1>16. WorkLeft' /\ Performed'
    BY <1>1 DEF WorkLeft, Performed
<1> QED
    BY <1>2, <1>9, <1>13, <1>15, <1>16 DEF MarksInv

(* What an operation other than the collection of a global variable does   *)
(* to the nodes.                                                           *)
Skipped(o) == o.op = "pointer" /\ o.base + o.offset \in ignored

Touches(o) ==
    /\ \A i \in DOMAIN nodes :
          /\ i \in DOMAIN nodes'
          /\ nodes'[i].kind = nodes[i].kind
          /\ nodes[i].kind = "global" => nodes'[i] = nodes[i]
          /\ nodes[i].kind = "heap" =>
                /\ nodes'[i].is_system = nodes[i].is_system
                /\ nodes'[i].type = IF i \in MarkedBy(o) /\ ~Skipped(o)
                                    THEN "system_allocation" ELSE nodes[i].type
    /\ \A i \in DOMAIN nodes' \ DOMAIN nodes : nodes'[i].kind \notin {"heap", "global"}

(* The node at the end.                                                    *)
LEMMA Appended ==
    ASSUME GraphInv, stage = "collect", NEW n, nodes' = Append(nodes, n)
    PROVE  /\ DOMAIN nodes = 1..Len(nodes) /\ Len(nodes) \in Nat
           /\ DOMAIN nodes' = 1..Len(nodes) + 1
           /\ Len(nodes') = Len(nodes) + 1
           /\ nodes'[Len(nodes) + 1] = n
           /\ \A i \in DOMAIN nodes : i \in DOMAIN nodes' /\ nodes'[i] = nodes[i]
           /\ \A i \in DOMAIN nodes' : i \in DOMAIN nodes \/ i = Len(nodes) + 1
<1> DEFINE S == {nodes[i] : i \in DOMAIN nodes}
<1>1. nodes \in Seq(S)
    BY DEF GraphInv, Appending
<1>2. nodes \in Seq(S \union {n})
    BY <1>1
<1> HIDE DEF S
<1> QED
    BY <1>1, <1>2

LEMMA AppendTouches ==
    ASSUME GraphInv, stage = "collect", NEW n, nodes' = Append(nodes, n),
           n.kind \notin {"heap", "global"},
           NEW o, MarkedBy(o) = {} \/ Skipped(o)
    PROVE  Touches(o)
<1>1. /\ DOMAIN nodes = 1..Len(nodes) /\ Len(nodes) \in Nat
      /\ DOMAIN nodes' = 1..Len(nodes) + 1
      /\ nodes'[Len(nodes) + 1] = n
      /\ \A i \in DOMAIN nodes : nodes'[i] = nodes[i]
    BY Appended
<1>2. DOMAIN nodes \subseteq DOMAIN nodes'
    BY <1>1
<1>3. \A i \in DOMAIN nodes' \ DOMAIN nodes : i = Len(nodes) + 1
    BY <1>1
<1> QED
    BY <1>1, <1>2, <1>3 DEF Touches

(* The first node of a structure exists if there is one.                   *)
LEMMA FirstSymbolNode ==
    ASSUME GraphInv, NEW address, SymbolNode(address) # {}
    PROVE  LET first == CHOOSE i \in SymbolNode(address) : \A j \in SymbolNode(address) : i <= j IN
           first \in DOMAIN nodes /\ nodes[first].kind = "symbol"
<1>1. SymbolNode(address) \subseteq Nat
    BY DEF SymbolNode, GraphInv
<1>2. PICK i \in SymbolNode(address) :
          \A j \in SymbolNode(address) : ~(<<j, i>> \in OpToRel(<, Nat))
    BY <1>1, NatLessThanWellFounded, WFMin
<1>3. \A j \in SymbolNode(address) : i <= j
  <2> SUFFICES ASSUME NEW j \in SymbolNode(address), j < i PROVE FALSE
      BY <1>1
  <2>1. <<j, i>> \in OpToRel(<, Nat)
    BY <1>1 DEF OpToRel
  <2> QED
    BY <1>2, <2>1
<1> QED
    BY <1>3 DEF SymbolNode

LEMMA OperationTouches ==
    ASSUME GraphInv, HeapNodes, stage = "collect", NEW o,
           \/ o.op = "register" /\ CollectRegister(o.data)
           \/ o.op = "stack" /\ CollectStack(o.stack)
           \/ o.op = "symbol" /\ CollectSymbol(o)
           \/ o.op = "pointer" /\ CollectPointer(o)
           \/ o.op = "block" /\ CollectBlock(o.block)
    PROVE  Touches(o)
<1>1. /\ \A i \in DOMAIN nodes : DOMAIN nodes[i] = Fields
      /\ \A i \in DOMAIN nodes : nodes[i].kind = "heap" <=> i \in DOMAIN Allocations
      /\ DOMAIN Allocations \subseteq DOMAIN nodes
    BY DEF GraphInv, NodesOK, HeapNodes
<1>2. ASSUME UNCHANGED nodes, MarkedBy(o) = {} \/ Skipped(o)
      PROVE  Touches(o)
    BY <1>2 DEF Touches
<1>3. ASSUME NEW places, MarkedBy(o) = places, places \subseteq DOMAIN Allocations, ~Skipped(o),
             nodes' = Marked(nodes, places)
      PROVE  Touches(o)
  <2>1. DOMAIN nodes' = DOMAIN nodes
    BY <1>3 DEF Marked
  <2>2. ASSUME NEW i \in DOMAIN nodes
        PROVE  /\ i \in places => nodes'[i] = [nodes[i] EXCEPT !.type = "system_allocation"]
               /\ i \notin places => nodes'[i] = nodes[i]
    BY <1>3 DEF Marked
  <2>3. ASSUME NEW i \in places
        PROVE  /\ nodes'[i].kind = nodes[i].kind /\ nodes'[i].is_system = nodes[i].is_system
               /\ nodes'[i].type = "system_allocation" /\ nodes[i].kind = "heap" /\ i \in DOMAIN nodes
    <3>1. i \in DOMAIN nodes /\ nodes[i].kind = "heap" /\ DOMAIN nodes[i] = Fields
      BY <1>1, <1>3
    <3>2. nodes'[i] = [nodes[i] EXCEPT !.type = "system_allocation"]
      BY <2>2, <3>1
    <3> QED
      BY <3>1, <3>2 DEF Fields
  <2> QED
    BY <1>3, <2>1, <2>2, <2>3 DEF Touches
<1>4. CASE o.op = "register" /\ CollectRegister(o.data)
  <2>1. MarkedBy(o) = {}
    BY <1>4 DEF MarkedBy
  <2>2. ASSUME AddNode("context", FALSE, 0, PointerSize, {[at |-> 0, data |-> o.data]}) PROVE Touches(o)
    BY <2>1, <2>2, AppendTouches DEF AddNode, Node
  <2> QED
    BY <1>2, <1>4, <2>1, <2>2 DEF CollectRegister
<1>5. CASE o.op = "stack" /\ CollectStack(o.stack)
  <2>1. MarkedBy(o) = {}
    BY <1>5 DEF MarkedBy
  <2> QED
    BY <1>5, <2>1, AppendTouches DEF CollectStack, AddNode, Node
<1>6. CASE o.op = "symbol" /\ CollectSymbol(o)
  <2>1. /\ ~Skipped(o)
        /\ \A i : i \in MarkedBy(o) <=> o.mark /\ i \in Owner(o.address)
    BY <1>6, OwnersAreAllocations DEF MarkedBy, Skipped
  <2>2. CASE /\ Owner(o.address) # {}
             /\ nodes' = [i \in DOMAIN nodes |->
                    IF i \notin Owner(o.address) THEN nodes[i]
                    ELSE [nodes[i] EXCEPT
                            !.type = IF o.mark THEN "system_allocation" ELSE @,
                            !.can_contain_user_pointers = @ \/ o.user]]
    <3>1. DOMAIN nodes' = DOMAIN nodes
      BY <2>2
    <3>2. \A i \in DOMAIN nodes : i \notin Owner(o.address) => nodes'[i] = nodes[i]
      BY <2>2
    <3>3. ASSUME NEW i \in Owner(o.address)
          PROVE  /\ i \in DOMAIN nodes /\ nodes[i].kind = "heap"
                 /\ nodes'[i].kind = nodes[i].kind /\ nodes'[i].is_system = nodes[i].is_system
                 /\ nodes'[i].type = IF o.mark THEN "system_allocation" ELSE nodes[i].type
      <4>1. i \in DOMAIN nodes /\ nodes[i].kind = "heap" /\ DOMAIN nodes[i] = Fields
        BY <1>1, OwnersAreAllocations
      <4>2. nodes'[i] = [nodes[i] EXCEPT
                            !.type = IF o.mark THEN "system_allocation" ELSE nodes[i].type,
                            !.can_contain_user_pointers = nodes[i].can_contain_user_pointers \/ o.user]
        BY <2>2, <4>1
      <4> QED
        BY <4>1, <4>2 DEF Fields
    <3> QED
      BY <2>1, <3>1, <3>2, <3>3 DEF Touches
  <2>3. CASE Owner(o.address) = {} /\ UNCHANGED nodes
    BY <1>2, <2>1, <2>3
  <2>4. CASE /\ Owner(o.address) = {}
             /\ AddNode("symbol", o.mark, o.address, PointerSize, {[at |-> 0, data |-> o.address]})
    <3>1. MarkedBy(o) = {}
      BY <2>1, <2>4
    <3> QED
      BY <2>4, <3>1, AppendTouches DEF AddNode, Node
  <2> QED
    BY <1>6, <2>2, <2>3, <2>4 DEF CollectSymbol
<1>7. CASE o.op = "pointer" /\ CollectPointer(o)
  <2> DEFINE location == o.base + o.offset
             places == IF PointerNode(o) # {} THEN PointerNode(o) ELSE PointerMetadata(o)
             WithVariable(ns, p) ==
                [i \in DOMAIN ns |->
                    IF i \in p THEN [ns[i] EXCEPT !.variables = @ \union {location}]
                    ELSE ns[i]]
             first == CHOOSE i \in SymbolNode(o.base) : \A j \in SymbolNode(o.base) : i <= j
             fresh == [Node("symbol", "root", Len(nodes) + 1, TRUE, o.base, PointerSize,
                            {[at |-> 0, data |-> o.base]}) EXCEPT !.variables = {location}]
  <2>1. MarkedBy(o) = PointerNode(o) /\ PointerNode(o) \subseteq DOMAIN Allocations
    BY <1>7, OwnersAreAllocations DEF MarkedBy, PointerNode
  <2>2. places \subseteq DOMAIN Allocations
    BY OwnersAreAllocations DEF PointerNode, PointerMetadata
  <2>3. Skipped(o) <=> location \in ignored
    BY <1>7 DEF Skipped
  <2>4. ASSUME NEW p, NEW i \in DOMAIN nodes
        PROVE  /\ i \notin p => WithVariable(nodes, p)[i] = nodes[i]
               /\ DOMAIN WithVariable(nodes, p)[i] = Fields
               /\ WithVariable(nodes, p)[i].kind = nodes[i].kind
               /\ WithVariable(nodes, p)[i].type = nodes[i].type
               /\ WithVariable(nodes, p)[i].is_system = nodes[i].is_system
    BY <1>1 DEF Fields
  <2>5. \A p : DOMAIN WithVariable(nodes, p) = DOMAIN nodes
    OBVIOUS
  <2>6. fresh.kind = "symbol"
    BY DEF Node
  <2>7. places = {} => PointerNode(o) = {}
    OBVIOUS
  <2>8. SymbolNode(o.base) # {} => first \in DOMAIN nodes /\ nodes[first].kind = "symbol"
    BY FirstSymbolNode
  <2>9. \/ location \in ignored /\ UNCHANGED nodes
        \/ location \notin ignored /\ nodes' = Marked(WithVariable(nodes, places), PointerNode(o))
        \/ places = {} /\ nodes' = Append(nodes, fresh)
        \/ /\ places = {} /\ SymbolNode(o.base) # {}
           /\ nodes' = [WithVariable(nodes, {first}) EXCEPT ![first].is_system = TRUE]
    BY <1>7 DEF CollectPointer
  <2> HIDE DEF WithVariable, places, first, fresh, location
  <2>10. CASE location \in ignored /\ UNCHANGED nodes
    BY <1>2, <2>3, <2>10
  <2>11. CASE location \notin ignored /\ nodes' = Marked(WithVariable(nodes, places), PointerNode(o))
    <3> DEFINE ns == WithVariable(nodes, places)
    <3>1. /\ DOMAIN ns = DOMAIN nodes
          /\ \A i \in DOMAIN nodes : /\ i \notin places => ns[i] = nodes[i]
                                     /\ DOMAIN ns[i] = Fields
                                     /\ ns[i].kind = nodes[i].kind
                                     /\ ns[i].type = nodes[i].type
                                     /\ ns[i].is_system = nodes[i].is_system
      BY <2>4, <2>5
    <3> HIDE DEF ns
    <3>2. nodes' = Marked(ns, PointerNode(o))
      BY <2>11 DEF ns
    <3>3. /\ DOMAIN nodes' = DOMAIN nodes
          /\ \A i \in DOMAIN nodes :
                /\ i \notin PointerNode(o) => nodes'[i] = ns[i]
                /\ i \in PointerNode(o) => nodes'[i] = [ns[i] EXCEPT !.type = "system_allocation"]
      BY <3>1, <3>2 DEF Marked
    <3>4. ASSUME NEW i \in DOMAIN nodes, i \in PointerNode(o)
          PROVE  /\ nodes'[i].kind = nodes[i].kind /\ nodes'[i].is_system = nodes[i].is_system
                 /\ nodes'[i].type = "system_allocation" /\ nodes[i].kind = "heap"
      BY <1>1, <2>1, <3>1, <3>3, <3>4 DEF Fields
    <3>5. ASSUME NEW i \in DOMAIN nodes, nodes[i].kind = "global" PROVE nodes'[i] = nodes[i]
      BY <1>1, <2>1, <2>2, <3>1, <3>3, <3>5
    <3>6. ASSUME NEW i \in DOMAIN nodes, i \notin PointerNode(o)
          PROVE  /\ nodes'[i].kind = nodes[i].kind /\ nodes'[i].is_system = nodes[i].is_system
                 /\ nodes'[i].type = nodes[i].type
      BY <3>1, <3>3, <3>6
    <3> QED
      BY <2>1, <2>3, <2>11, <3>3, <3>4, <3>5, <3>6 DEF Touches
  <2>12. CASE places = {} /\ nodes' = Append(nodes, fresh)
    BY <2>1, <2>6, <2>7, <2>12, AppendTouches
  <2>13. CASE /\ places = {} /\ SymbolNode(o.base) # {}
              /\ nodes' = [WithVariable(nodes, {first}) EXCEPT ![first].is_system = TRUE]
    <3> DEFINE ns == WithVariable(nodes, {first})
    <3>1. /\ DOMAIN ns = DOMAIN nodes
          /\ \A i \in DOMAIN nodes : /\ i # first => ns[i] = nodes[i]
                                     /\ DOMAIN ns[i] = Fields
                                     /\ ns[i].kind = nodes[i].kind
      BY <2>4, <2>5
    <3> HIDE DEF ns
    <3>2. nodes' = [ns EXCEPT ![first] = [ns[first] EXCEPT !.is_system = TRUE]]
      BY <2>13 DEF ns
    <3>3. /\ DOMAIN nodes' = DOMAIN nodes
          /\ \A i \in DOMAIN nodes : i # first => nodes'[i] = nodes[i]
          /\ nodes'[first] = [ns[first] EXCEPT !.is_system = TRUE]
      BY <2>8, <2>13, <3>1, <3>2
    <3>4. nodes'[first].kind = "symbol"
      BY <2>8, <2>13, <3>1, <3>3 DEF Fields
    <3> QED
      BY <2>1, <2>7, <2>8, <2>13, <3>3, <3>4 DEF Touches
  <2> QED
    BY <2>9, <2>10, <2>11, <2>12, <2>13
<1>8. CASE o.op = "block" /\ CollectBlock(o.block)
  <2>1. /\ ~Skipped(o)
        /\ MarksBlocks /\ Foreign(o.block) => MarkedBy(o) = Owner(o.block.address)
        /\ ~(MarksBlocks /\ Foreign(o.block)) => MarkedBy(o) = {}
    BY <1>8, OwnersAreAllocations DEF MarkedBy, Skipped
  <2>2. Owner(o.block.address) \subseteq DOMAIN Allocations
    BY OwnersAreAllocations
  <2> QED
    BY <1>2, <1>3, <1>8, <2>1, <2>2 DEF CollectBlock
<1> QED
    BY <1>4, <1>5, <1>6, <1>7, <1>8

(* The work after one operation.                                           *)
LEMMA WorkShrinks ==
    ASSUME IsSequence(work), \A k \in DOMAIN work : IsSequence(work[k]),
           work # <<>>, Head(work) # <<>>,
           work' = <<Tail(Head(work))>> \o Tail(work)
    PROVE  /\ 1 \in DOMAIN work /\ 1 \in DOMAIN work[1]
           /\ Head(Head(work)) = work[1][1]
           /\ IsSequence(work') /\ DOMAIN work' = DOMAIN work /\ Len(work') = Len(work)
           /\ \A k \in DOMAIN work : k # 1 => work'[k] = work[k]
           /\ IsSequence(work'[1]) /\ Len(work'[1]) = Len(work[1]) - 1
           /\ \A j \in DOMAIN work'[1] : j + 1 \in DOMAIN work[1] /\ work'[1][j] = work[1][j + 1]
           /\ \A j \in DOMAIN work[1] : j # 1 =>
                 j - 1 \in DOMAIN work'[1] /\ work'[1][j - 1] = work[1][j]
<1> DEFINE T == {work[i] : i \in DOMAIN work}
           part == work[1]
           P == {part[i] : i \in DOMAIN part}
           rest == Tail(part)
<1>1. work \in Seq(T)
    BY DEF IsSequence
<1> HIDE DEF T
<1>2. /\ Len(work) \in Nat \ {0} /\ DOMAIN work = 1..Len(work) /\ Head(work) = part
      /\ Tail(work) \in Seq(T) /\ Len(Tail(work)) = Len(work) - 1
      /\ \A k \in 1..Len(work) - 1 : Tail(work)[k] = work[k + 1]
    BY <1>1
<1>3. part \in Seq(P)
    BY <1>2 DEF IsSequence
<1> HIDE DEF P, part
<1>4. /\ Len(part) \in Nat \ {0} /\ DOMAIN part = 1..Len(part) /\ Head(part) = part[1]
      /\ rest \in Seq(P) /\ Len(rest) = Len(part) - 1
      /\ \A k \in 1..Len(part) - 1 : rest[k] = part[k + 1]
    BY <1>2, <1>3
<1>5. work' = <<rest>> \o Tail(work)
    BY <1>2
<1> HIDE DEF rest
<1>6. IsSequence(rest) /\ DOMAIN rest = 1..Len(part) - 1
    BY <1>4, SequenceOfItsElements DEF IsSequence
<1>7. /\ IsSequence(work') /\ DOMAIN work' = 1..Len(work) /\ Len(work') = Len(work)
      /\ work'[1] = rest
      /\ \A k \in 1..Len(work) : k # 1 => work'[k] = work[k]
  <2> DEFINE one == <<rest>>
  <2>1. IsSequence(one) /\ Len(one) = 1 /\ one[1] = rest
    BY DEF IsSequence
  <2> DEFINE tail == Tail(work)
  <2>3. work' = one \o tail /\ tail \in Seq(T)
    BY <1>2, <1>5
  <2> HIDE DEF one, tail
  <2>2. IsSequence(tail)
    BY <2>3, SequenceOfItsElements DEF IsSequence
  <2>4. Joins(one, tail, work')
    BY <2>1, <2>2, <2>3, Behind
  <2>5. Len(tail) = Len(work) - 1 /\ \A k \in 1..Len(work) - 1 : tail[k] = work[k + 1]
    BY <1>2 DEF tail
  <2>6. IsSequence(work') /\ Len(work') = Len(work)
    BY <1>2, <2>1, <2>4, <2>5 DEF Joins
  <2>7. DOMAIN work' = 1..Len(work)
    BY <2>6 DEF IsSequence
  <2>8. work'[1] = rest
    BY <2>1, <2>4 DEF Joins
  <2>9. ASSUME NEW k \in 1..Len(work), k # 1 PROVE work'[k] = work[k]
    <3>1. k - 1 \in 1..Len(tail) /\ k = 1 + (k - 1)
      BY <1>2, <2>5, <2>9
    <3>2. work'[1 + (k - 1)] = tail[k - 1]
      BY <2>1, <2>4, <3>1 DEF Joins
    <3>3. tail[k - 1] = work[(k - 1) + 1]
      BY <2>5, <3>1
    <3> QED
      BY <1>2, <3>1, <3>2, <3>3
  <2> QED
    BY <2>6, <2>7, <2>8, <2>9
<1>8. \A j \in DOMAIN rest : j + 1 \in DOMAIN part /\ rest[j] = part[j + 1]
    BY <1>4, <1>6
<1>9. \A j \in DOMAIN part : j # 1 => j - 1 \in DOMAIN rest /\ rest[j - 1] = part[j]
    BY <1>4, <1>6
<1>10. Len(rest) = Len(part) - 1 /\ 1 \in DOMAIN part /\ 1 \in DOMAIN work
    BY <1>2, <1>4
<1>11. Head(Head(work)) = part[1]
    BY <1>2, <1>4
<1> QED
    BY <1>2, <1>6, <1>7, <1>8, <1>9, <1>10, <1>11 DEF part

(* An operation of the collection marks what it should: the one that was   *)
(* left out because of its location had been done by the one before.       *)
LEMMA CollectMarks == MarksInv /\ Collect => MarksInv'
<1> SUFFICES ASSUME MarksInv, Collect PROVE MarksInv'
    OBVIOUS
<1> DEFINE o == Head(Head(work))
           done == GlobalsCollected
<1>1. /\ stage = "collect" /\ stage' = "collect" /\ work # <<>> /\ Head(work) # <<>>
      /\ work' = <<Tail(Head(work))>> \o Tail(work)
      /\ UNCHANGED <<scene, cursor, result_cache>>
    BY DEF Collect
<1>2. GraphInv /\ GraphInv' /\ scene \in Scenes /\ Allocations' = Allocations
    BY <1>1, CollectInv DEF MarksInv, GraphInv, Allocations
<1>3. /\ IsSequence(work) /\ Len(work) <= Len(scene.heaps) + 3
      /\ \A k \in DOMAIN work : IsSequence(work[k])
    BY <1>1 DEF MarksInv, WorkLeft
<1>4. /\ 1 \in DOMAIN work /\ 1 \in DOMAIN work[1] /\ o = work[1][1]
      /\ IsSequence(work') /\ DOMAIN work' = DOMAIN work /\ Len(work') = Len(work)
      /\ \A k \in DOMAIN work : k # 1 => work'[k] = work[k]
      /\ IsSequence(work'[1]) /\ Len(work'[1]) = Len(work[1]) - 1
      /\ \A j \in DOMAIN work'[1] : j + 1 \in DOMAIN work[1] /\ work'[1][j] = work[1][j + 1]
      /\ \A j \in DOMAIN work[1] : j # 1 => j - 1 \in DOMAIN work'[1] /\ work'[1][j - 1] = work[1][j]
    BY <1>1, <1>3, WorkShrinks
<1>5. \/ o.op = "global" /\ CollectGlobal(o.variable)
      \/ /\ \/ o.op = "register" /\ CollectRegister(o.data)
            \/ o.op = "stack" /\ CollectStack(o.stack)
            \/ o.op = "symbol" /\ CollectSymbol(o)
            \/ o.op = "pointer" /\ CollectPointer(o)
            \/ o.op = "block" /\ CollectBlock(o.block)
    BY DEF Collect
<1>6. /\ UNCHANGED ignored \/ (o.op = "pointer" /\ ignored' = ignored \union {o.base + o.offset})
    BY <1>5 DEF CollectGlobal, CollectRegister, CollectStack, CollectSymbol, CollectPointer, CollectBlock
<1>7. /\ Len(scene.heaps) \in Nat /\ Len(scene.globals) \in Nat /\ Len(Allocations) \in Nat
      /\ DOMAIN scene.globals = 1..Len(scene.globals)
      /\ DOMAIN Allocations = 1..Len(Allocations)
    BY <1>2, ScenesAssumption DEF IsSequence, Allocations
<1> HIDE DEF o
<1>8. InGlobals' <=> InGlobals
    BY <1>1, <1>4 DEF InGlobals
<1>9. /\ done \in 0..Len(scene.globals)
      /\ \A k \in 1..done : /\ Len(Allocations) + k \in DOMAIN nodes
                            /\ nodes[Len(Allocations) + k] = GlobalNode(k)
      /\ \A c \in DOMAIN nodes : nodes[c].kind = "global" => \E k \in 1..done : c = Len(Allocations) + k
      /\ cursor # 0 /\ cursor = 1
    BY <1>1 DEF MarksInv, GlobalNodes
<1>10. ASSUME InGlobals
       PROVE  /\ o = GlobalOp(done + 1) /\ done + 1 \in DOMAIN scene.globals
              /\ DOMAIN nodes = 1..Len(Allocations) + done /\ Len(nodes) = Len(Allocations) + done
              /\ nodes' = Append(nodes, GlobalNode(done + 1))
              /\ Len(Allocations) + (done + 1) \in DOMAIN nodes'
              /\ nodes'[Len(Allocations) + (done + 1)] = GlobalNode(done + 1)
              /\ \A i \in DOMAIN nodes : i \in DOMAIN nodes' /\ nodes'[i] = nodes[i]
              /\ \A i \in DOMAIN nodes' : i \in DOMAIN nodes \/ i = Len(Allocations) + (done + 1)
              /\ GlobalsCollected' = done + 1
  <2>1. /\ Len(work[1]) = Len(scene.globals) - done
        /\ \A j \in DOMAIN work[1] : work[1][j] = GlobalOp(done + j)
    BY <1>1, <1>10 DEF MarksInv, WorkLeft
  <2>2. DOMAIN work[1] = 1..Len(work[1]) /\ Len(work[1]) \in Nat
    BY <1>3, <1>4 DEF IsSequence
  <2>3. o = GlobalOp(done + 1)
    BY <1>4, <2>1
  <2>4. done + 1 \in DOMAIN scene.globals
    <3>1. 1 <= Len(work[1])
      BY <1>4, <2>2
    <3> HIDE DEF done
    <3> QED
      BY <1>7, <1>9, <2>1, <2>2, <3>1
  <2>5. DOMAIN nodes = 1..Len(nodes) /\ Len(nodes) \in Nat
    BY <1>1, <1>2 DEF GraphInv, Appending
  <2>6. done = Len(nodes) - Len(Allocations)
    BY <1>10 DEF GlobalsCollected
  <2>7. Len(nodes) = Len(Allocations) + done
    BY <1>7, <2>5, <2>6
  <2>8. nodes' = Append(nodes, GlobalNode(done + 1))
    <3> HIDE DEF done
    <3>1. o.op = "global" /\ o.variable = scene.globals[done + 1]
      BY <2>3 DEF GlobalOp
    <3>2. CollectGlobal(scene.globals[done + 1])
      BY <1>5, <3>1
    <3>3. Len(nodes) + 1 = Len(Allocations) + (done + 1)
      BY <1>7, <1>9, <2>7
    <3> QED
      BY <3>2, <3>3 DEF CollectGlobal, AddNode, GlobalNode
  <2>9. /\ DOMAIN nodes' = 1..Len(nodes) + 1 /\ Len(nodes') = Len(nodes) + 1
        /\ nodes'[Len(nodes) + 1] = GlobalNode(done + 1)
        /\ \A i \in DOMAIN nodes : i \in DOMAIN nodes' /\ nodes'[i] = nodes[i]
        /\ \A i \in DOMAIN nodes' : i \in DOMAIN nodes \/ i = Len(nodes) + 1
    BY <1>1, <1>2, <2>8, Appended
  <2>10. GlobalsCollected' = Len(nodes') - Len(Allocations)
    BY <1>1, <1>2, <1>8, <1>10 DEF GlobalsCollected
  <2> HIDE DEF done
  <2>11. Len(nodes) + 1 = Len(Allocations) + (done + 1) /\ GlobalsCollected' = done + 1
    BY <1>7, <1>9, <2>7, <2>9, <2>10
  <2>12. Len(nodes) + 1 \in DOMAIN nodes'
    BY <2>5, <2>9
  <2> QED
    BY <2>3, <2>4, <2>5, <2>7, <2>8, <2>9, <2>11, <2>12
<1>11. ASSUME ~InGlobals
       PROVE  /\ o \in MarkingOps \union OtherOps
              /\ Touches(o)
              /\ done = Len(scene.globals) /\ GlobalsCollected' = Len(scene.globals)
  <2>1. o \in MarkingOps \union OtherOps
    BY <1>1, <1>4, <1>11 DEF MarksInv, WorkLeft
  <2>2. o.op # "global"
    BY <2>1 DEF MarkingOps, OtherOps, Symbol, PointerOf, BlockOf
  <2>3. Touches(o)
    BY <1>1, <1>2, <1>5, <2>2, OperationTouches DEF MarksInv
  <2> QED
    BY <1>1, <1>8, <1>11, <2>1, <2>3 DEF GlobalsCollected
<1>12. \A k, j : k \in DOMAIN work' /\ j \in DOMAIN work'[k] =>
           \/ k # 1 /\ work'[k] = work[k]
           \/ k = 1 /\ j + 1 \in DOMAIN work[1] /\ work'[1][j] = work[1][j + 1]
    BY <1>4
<1>13. WorkLeft'
  <2>1. \A k \in DOMAIN work' : IsSequence(work'[k])
    BY <1>3, <1>4
  <2>2. ASSUME InGlobals
        PROVE  /\ Len(work'[1]) = Len(scene.globals) - GlobalsCollected'
               /\ \A j \in DOMAIN work'[1] : work'[1][j] = GlobalOp(GlobalsCollected' + j)
    <3>1. /\ Len(work[1]) = Len(scene.globals) - done
          /\ \A j \in DOMAIN work[1] : work[1][j] = GlobalOp(done + j)
      BY <1>1, <2>2 DEF MarksInv, WorkLeft
    <3>2. GlobalsCollected' = done + 1
      BY <1>10, <2>2
    <3> HIDE DEF done
    <3>3. Len(work'[1]) = Len(scene.globals) - GlobalsCollected'
      BY <1>4, <1>7, <1>9, <3>1, <3>2
    <3>4. ASSUME NEW j \in DOMAIN work'[1] PROVE work'[1][j] = GlobalOp(GlobalsCollected' + j)
      <4>1. j + 1 \in DOMAIN work[1] /\ work'[1][j] = work[1][j + 1]
        BY <1>4
      <4>2. j \in Nat
        BY <1>4 DEF IsSequence
      <4>3. done + (j + 1) = (done + 1) + j
        BY <1>9, <4>2
      <4> QED
        BY <3>1, <3>2, <4>1, <4>3
    <3> QED
      BY <3>3, <3>4
  <2>3. ASSUME NEW k \in DOMAIN work', ~(InGlobals /\ k = 1), NEW j \in DOMAIN work'[k]
        PROVE  work'[k][j] \in MarkingOps \union OtherOps
    <3>1. \A i \in DOMAIN work[k] : work[k][i] \in MarkingOps \union OtherOps
      BY <1>1, <1>4, <2>3 DEF MarksInv, WorkLeft
    <3> QED
      BY <1>12, <2>3, <3>1
  <2>4. \A k \in DOMAIN work' :
            (InGlobals /\ k = 1) \/ \A j \in DOMAIN work'[k] : work'[k][j] \in MarkingOps \union OtherOps
    BY <2>3
  <2>5. \A k : GlobalOp(k)' = GlobalOp(k)
    BY <1>1 DEF GlobalOp
  <2> QED
    BY <1>1, <1>3, <1>4, <1>8, <2>1, <2>2, <2>4, <2>5, MarkedByStays DEF WorkLeft
<1>14. GlobalNodes'
  <2>1. CASE InGlobals
    <3> DEFINE next == done + 1
    <3>1. /\ next \in 1..Len(scene.globals) /\ GlobalsCollected' = next
          /\ \A k \in 1..next : k = next \/ k \in 1..done
          /\ \A k \in 1..done : k \in 1..next
          /\ next \in 1..next
      <4> HIDE DEF done
      <4> QED
        BY <1>7, <1>9, <1>10, <2>1
    <3>2. /\ nodes'[Len(Allocations) + next] = GlobalNode(next)
          /\ \A i \in DOMAIN nodes : i \in DOMAIN nodes' /\ nodes'[i] = nodes[i]
          /\ Len(Allocations) + next \in DOMAIN nodes'
          /\ \A c \in DOMAIN nodes' : c \in DOMAIN nodes \/ c = Len(Allocations) + next
      BY <1>10, <2>1
    <3> HIDE DEF next
    <3>5. \A k \in 1..next : /\ Len(Allocations) + k \in DOMAIN nodes'
                             /\ nodes'[Len(Allocations) + k] = GlobalNode(k)
      BY <1>9, <3>1, <3>2
    <3>6. \A c \in DOMAIN nodes' : nodes'[c].kind = "global" => \E k \in 1..next : c = Len(Allocations) + k
      BY <1>9, <3>1, <3>2
    <3>7. next \in 0..Len(scene.globals)
      BY <1>7, <3>1
    <3> QED
      BY <1>1, <1>2, <1>9, <3>1, <3>5, <3>6, <3>7, HeldStays DEF GlobalNodes
  <2>2. CASE ~InGlobals
    <3>1. Touches(o) /\ GlobalsCollected' = done
      BY <1>11, <2>2
    <3>2. \A k \in 1..done : nodes[Len(Allocations) + k].kind = "global"
      <4>1. \A k : GlobalNode(k).kind = "global"
        BY DEF GlobalNode, Node
      <4> QED
        BY <1>9, <4>1
    <3> HIDE DEF done
    <3>3. \A k \in 1..done : /\ Len(Allocations) + k \in DOMAIN nodes'
                             /\ nodes'[Len(Allocations) + k] = GlobalNode(k)
      BY <1>9, <3>1, <3>2 DEF Touches
    <3>4. \A c \in DOMAIN nodes' : nodes'[c].kind = "global" => c \in DOMAIN nodes /\ nodes[c].kind = "global"
      BY <3>1 DEF Touches
    <3> QED
      BY <1>1, <1>2, <1>9, <3>1, <3>3, <3>4, HeldStays DEF GlobalNodes
  <2> QED
    BY <2>1, <2>2
<1>15. /\ \A i \in DOMAIN nodes :
              /\ i \in DOMAIN nodes' /\ nodes'[i].kind = nodes[i].kind
              /\ nodes[i].kind = "heap" =>
                    /\ nodes'[i].is_system = nodes[i].is_system
                    /\ nodes'[i].type = IF i \in MarkedBy(o) /\ ~Skipped(o)
                                        THEN "system_allocation" ELSE nodes[i].type
       /\ \A i \in DOMAIN nodes' \ DOMAIN nodes : nodes'[i].kind # "heap"
  <2>1. CASE InGlobals
    <3>1. MarkedBy(o) = {}
      BY <1>10, <2>1, MarksOfOperations
    <3>2. \A i \in DOMAIN nodes : i \in DOMAIN nodes' /\ nodes'[i] = nodes[i]
      BY <1>10, <2>1
    <3>3. \A i \in DOMAIN nodes' \ DOMAIN nodes : i = Len(Allocations) + (done + 1)
      BY <1>10, <2>1
    <3>4. nodes'[Len(Allocations) + (done + 1)].kind = "global"
      BY <1>10, <2>1 DEF GlobalNode, Node
    <3> HIDE DEF done
    <3> QED
      BY <3>1, <3>2, <3>3, <3>4
  <2>2. CASE ~InGlobals
    BY <1>11, <2>2 DEF Touches
  <2> QED
    BY <2>1, <2>2
<1>16. DOMAIN Allocations \subseteq DOMAIN nodes
       /\ \A i \in DOMAIN nodes : nodes[i].kind = "heap" <=> i \in DOMAIN Allocations
    BY <1>1 DEF MarksInv, HeapNodes
<1>17. ASSUME NEW i \in DOMAIN Allocations
       PROVE  /\ IsMarked(i) => IsMarked(i)'
              /\ i \in MarkedBy(o) /\ ~Skipped(o) => IsMarked(i)'
              /\ IsMarked(i)' => IsMarked(i) \/ i \in MarkedBy(o)
    BY <1>15, <1>16 DEF IsMarked
<1>18. HeapNodes'
  <2>1. ASSUME NEW i \in DOMAIN nodes'
        PROVE  nodes'[i].kind = "heap" <=> i \in DOMAIN Allocations
    BY <1>15, <1>16
  <2>2. ASSUME NEW i \in DOMAIN Allocations
        PROVE  nodes'[i].is_system = FALSE /\ nodes'[i].type \in {"allocation", "system_allocation"}
    <3>1. i \in DOMAIN nodes /\ nodes[i].kind = "heap"
          /\ nodes[i].is_system = FALSE /\ nodes[i].type \in {"allocation", "system_allocation"}
      BY <1>16 DEF MarksInv, HeapNodes
    <3> QED
      BY <1>15, <3>1
  <2>3. \A i \in Cached' : i \in DOMAIN Allocations => result_cache'[i] = FALSE
    BY <1>1 DEF MarksInv, HeapNodes, Cached
  <2> QED
    BY <1>2, <1>15, <1>16, <2>1, <2>2, <2>3 DEF HeapNodes
<1>19. MarkedBy(o) = {} \/ o \in MarkingOps
  <2>1. CASE InGlobals
    BY <1>10, <2>1, MarksOfOperations
  <2>2. CASE ~InGlobals
    BY <1>11, <2>2, MarksOfOperations
  <2> QED
    BY <2>1, <2>2
<1>20. Marks'
  <2>1. ASSUME NEW i \in DOMAIN Allocations
        PROVE  /\ Allocations[i].area => IsMarked(i)'
               /\ IsMarked(i)' => HeldAtCollect(i)
    <3>1. (Allocations[i].area => IsMarked(i)) /\ (IsMarked(i) => HeldAtCollect(i))
      BY <1>1 DEF MarksInv, Marks
    <3>2. i \in MarkedBy(o) => HeldAtCollect(i)
      BY <1>19 DEF HeldAtCollect
    <3> QED
      BY <1>17, <3>1, <3>2
  <2> QED
    BY <1>1, <1>2, <2>1, MarkedByStays DEF Marks
<1>21. \A x : MarkedBy(x) \subseteq DOMAIN Allocations
    BY DEF MarkedBy
<1>22. ASSUME NEW x PROVE /\ Effect(x) => Effect(x)'
                          /\ MarkedBy(x) = MarkedBy(o) /\ ~Skipped(o) => Effect(x)'
  <2>1. Effect(x)' <=> \A i \in MarkedBy(x) : IsMarked(i)'
    BY <1>1, MarkedByStays DEF Effect
  <2> QED
    BY <1>17, <1>21, <2>1 DEF Effect
<1>23. ASSUME o \in MarkingOps, o.op = "pointer" PROVE \E p \in Pointers : o = PointerOf(p)
    BY <1>23 DEF MarkingOps, Symbol, BlockOf
<1>24. \A p : PointerOf(p).base = p.base /\ PointerOf(p).offset = p.offset
    BY DEF PointerOf
<1>25. ASSUME o \in MarkingOps, Skipped(o) PROVE Effect(o)
  <2>1. PICK p \in Pointers : o = PointerOf(p)
    BY <1>23, <1>25 DEF Skipped
  <2>2. p.base + p.offset \in ignored
    BY <1>24, <1>25, <2>1 DEF Skipped
  <2> QED
    BY <1>1, <2>1, <2>2 DEF MarksInv, Performed
<1>26. ASSUME NEW x \in MarkingOps PROVE Pending(x)' \/ Effect(x)'
  <2>1. CASE Effect(x)
    BY <1>22, <2>1
  <2>2. CASE x = o
    BY <1>22, <1>25, <1>26, <2>2
  <2>3. CASE Pending(x) /\ x # o
    <3>0. PICK k \in DOMAIN work : \E j \in DOMAIN work[k] : work[k][j] = x
      BY <2>3 DEF Pending
    <3>1. PICK j \in DOMAIN work[k] : work[k][j] = x
      BY <3>0
    <3>2. CASE k # 1
      <4>1. k \in DOMAIN work' /\ j \in DOMAIN work'[k] /\ work'[k][j] = x
        BY <1>4, <3>1, <3>2
      <4> QED
        BY <4>1 DEF Pending
    <3>3. CASE k = 1
      <4>1. j # 1
        BY <1>4, <2>3, <3>1, <3>3
      <4>2. 1 \in DOMAIN work' /\ j - 1 \in DOMAIN work'[1] /\ work'[1][j - 1] = x
        BY <1>4, <3>1, <3>3, <4>1
      <4> QED
        BY <4>2 DEF Pending
    <3> QED
      BY <3>2, <3>3
  <2> QED
    BY <1>1, <2>1, <2>2, <2>3 DEF MarksInv, Performed
<1>27. ASSUME NEW p \in Pointers, p.base + p.offset \in ignored' PROVE Effect(PointerOf(p))'
  <2>1. CASE p.base + p.offset \in ignored
    <3>1. Effect(PointerOf(p))
      BY <1>1, <2>1 DEF MarksInv, Performed
    <3> QED
      BY <1>22, <3>1
  <2>2. CASE p.base + p.offset \notin ignored
    <3>1. o.op = "pointer" /\ p.base + p.offset = o.base + o.offset
      BY <1>6, <1>27, <2>2
    <3>2. o \in MarkingOps
      <4>1. CASE InGlobals
        <5>1. o.op = "global"
          BY <1>10, <4>1 DEF GlobalOp
        <5> QED
          BY <3>1, <5>1
      <4>2. CASE ~InGlobals
        <5>1. \A x \in OtherOps : x.op # "pointer"
          BY DEF OtherOps, Symbol
        <5> QED
          BY <1>11, <3>1, <4>2, <5>1
      <4> QED
        BY <4>1, <4>2
    <3>3. PICK q \in Pointers : o = PointerOf(q)
      BY <1>23, <3>1, <3>2
    <3>4. p.base + p.offset = q.base + q.offset
      BY <1>24, <3>1, <3>3
    <3>5. MarkedBy(PointerOf(p)) = MarkedBy(o)
      BY <1>2, <3>3, <3>4, SameLocationSameMarks
    <3>6. ~Skipped(o)
      BY <2>2, <3>1 DEF Skipped
    <3> QED
      BY <1>22, <3>5, <3>6
  <2> QED
    BY <2>1, <2>2
<1>28. Performed'
  <2>1. Pointers' = Pointers
    BY <1>1 DEF Pointers
  <2>2. ASSUME NEW p PROVE PointerOf(p)' = PointerOf(p)
    OBVIOUS
  <2> QED
    BY <1>1, <1>26, <1>27, <2>1, MarkedByStays DEF Performed
<1> QED
    BY <1>2, <1>13, <1>14, <1>18, <1>20, <1>28 DEF MarksInv

(* Every allocation is marked exactly if it is held, in every state.       *)
THEOREM MarksInvariance == GraphSpec => []MarksInv
<1>1. MarksInv /\ [NextGraph]_vars => MarksInv'
  <2> SUFFICES ASSUME MarksInv, [NextGraph]_vars PROVE MarksInv'
      OBVIOUS
  <2>1. CASE UNCHANGED vars
    <3>1. UNCHANGED <<scene, stage, work, nodes, ignored, cursor, result_cache>> /\ UNCHANGED vars
      BY <2>1 DEF vars
    <3>2. GraphInv'
      BY <3>1 DEF MarksInv, vars, GraphInv, NodesOK, Linked, Appending, Gathering, Allocations, Cached
    <3>3. Allocations' = Allocations /\ (InGlobals' <=> InGlobals) /\ Pointers' = Pointers
      BY <3>1 DEF Allocations, InGlobals, Pointers
    <3>4. GlobalsCollected' = GlobalsCollected
      BY <3>1, <3>3 DEF GlobalsCollected
    <3>5. WorkLeft'
      <4>1. \A k : GlobalOp(k)' = GlobalOp(k)
        BY <3>1 DEF GlobalOp
      <4> QED
        BY <3>1, <3>3, <3>4, <4>1, MarkedByStays DEF MarksInv, WorkLeft
    <3>6. GlobalNodes'
      BY <3>1, <3>3, <3>4, HeldStays DEF MarksInv, GlobalNodes
    <3>7. HeapNodes'
      BY <3>1, <3>3 DEF MarksInv, HeapNodes, Cached
    <3>8. Marks'
      <4>1. \A i : IsMarked(i)' <=> IsMarked(i)
        BY <3>1 DEF IsMarked
      <4>2. \A i : HeldSoFar(i)' <=> HeldSoFar(i)
        BY <3>1, <3>3, MarkedByStays, HeldStays DEF HeldSoFar
      <4> QED
        BY <3>1, <3>3, <4>1, <4>2, MarkedByStays, HeldStays DEF MarksInv, Marks
    <3>9. Performed'
      <4>1. \A o : Effect(o)' <=> Effect(o)
        BY <3>1, MarkedByStays DEF Effect, IsMarked
      <4>2. \A o : Pending(o)' <=> Pending(o)
        BY <3>1 DEF Pending
      <4>3. \A p : PointerOf(p)' = PointerOf(p)
        OBVIOUS
      <4> QED
        BY <3>1, <3>3, <4>1, <4>2, <4>3, MarkedByStays DEF MarksInv, Performed
    <3> QED
      BY <3>2, <3>5, <3>6, <3>7, <3>8, <3>9 DEF MarksInv
  <2> QED
    BY <2>1, CollectMarks, NextPartMarks, StartLinkingMarks, LinkMarks, PruneMarks, GatherMarks,
       GatherAgainMarks, MarkGatheredMarks, RemoveMarks DEF NextGraph
<1> QED
    BY <1>1, InitMarks, PTL DEF GraphSpec

(* A block that the debug CRT knows is found in its list by any address of *)
(* the allocation that lies in it.                                         *)
LEMMA CrtEntryFound ==
    ASSUME scene \in Scenes, NEW i \in DOMAIN Allocations, OfCrt(i),
           NEW address \in Nat, i \in Owner(address)
    PROVE  IsCrtEntry(address)
<1>1. PICK k \in DOMAIN scene.crt : Contains(scene.crt[k], Allocations[i])
    BY DEF OfCrt
<1>2. /\ scene.crt[k].first <= Allocations[i].check.first
      /\ LastAddress(Allocations[i]) <= LastAddress(scene.crt[k])
    BY <1>1, LayoutAssumption DEF Allocations
<1>3. /\ LastAddress(Allocations[i]) >= address
      /\ Allocations[i].check.first <= address
    BY DEF Owner, NodeFor, ContainsAddress
<1>4. \A l \in DOMAIN scene.crt :
          /\ scene.crt[l].first \in Nat /\ LastAddress(scene.crt[l]) \in Nat
          /\ scene.crt[l].first <= LastAddress(scene.crt[l])
          /\ scene.crt[k] = scene.crt[l] \/ Apart(scene.crt[k], scene.crt[l])
    BY LayoutAssumption DEF LastAddress
<1>5. scene.crt[k].first <= address /\ LastAddress(scene.crt[k]) >= address
  <2>1. LastAddress(Allocations[i]) \in Nat /\ LastAddress(scene.crt[k]) \in Nat
    <3>1. Allocations[i].first \in Nat /\ Allocations[i].size \in Nat
      BY LayoutAssumption DEF Allocations
    <3> QED
      BY <1>4, <3>1 DEF LastAddress
  <2>2. LastAddress(scene.crt[k]) >= address
    BY <1>2, <1>3, <2>1
  <2>3. scene.crt[k].first <= address
    <3>1. Allocations[i].check.first \in Nat
      BY LayoutAssumption DEF Allocations
    <3> QED
      BY <1>2, <1>3, <1>4, <3>1
  <2> QED
    BY <2>2, <2>3
<1>6. ASSUME NEW l \in DOMAIN scene.crt, LastAddress(scene.crt[l]) >= address
      PROVE  LastAddress(scene.crt[k]) <= LastAddress(scene.crt[l])
  <2>1. CASE scene.crt[k] = scene.crt[l]
    BY <1>4, <2>1
  <2>2. CASE Apart(scene.crt[k], scene.crt[l])
    BY <1>4, <1>5, <1>6, <2>2 DEF Apart
  <2> QED
    BY <1>4, <2>1, <2>2
<1>7. scene.crt[k] \in LowerBound({scene.crt[l] : l \in DOMAIN scene.crt}, address)
    BY <1>5, <1>6 DEF LowerBound
<1> QED
    BY <1>5, <1>7 DEF IsCrtEntry

(* In every scene the filter takes out what the system holds and the       *)
(* blocks that the debug CRT does not know, and nothing else; an           *)
(* allocation of the debug CRT that nothing of the system holds is kept.   *)
THEOREM MarksStayRight == GraphSpec => []MarksRight
<1>1. ASSUME MarksInv PROVE FilterExact
  <2> SUFFICES ASSUME stage = "done", "no_filter_heap_entries" \notin scene.options
               PROVE  Shown = {i \in DOMAIN Allocations :
                                  ~HeldBySystem(i) /\ ~\E b \in Blocks :
                                      MarksBlocks /\ Foreign(b) /\ i \in Owner(b.address)}
      BY DEF FilterExact
  <2>1. \A i \in DOMAIN nodes : nodes[i].kind = "heap" <=> i \in DOMAIN Allocations
    BY <1>1 DEF MarksInv, HeapNodes
  <2>2. \A i \in DOMAIN Allocations : i \in DOMAIN nodes <=> ~Held(i)
    BY <1>1 DEF MarksInv, Marks
  <2>3. Shown = {i \in DOMAIN Allocations : ~Held(i)}
    BY <2>1, <2>2 DEF Shown
  <2>4. scene \in Scenes
    BY <1>1 DEF MarksInv, GraphInv
  <2> QED
    BY <2>3, <2>4, HeldBecause
<1>2. ASSUME MarksInv PROVE CrtAllocationsKept
  <2> SUFFICES ASSUME stage = "done", NEW i \in DOMAIN Allocations,
                      OfCrt(i), ~HeldBySystem(i), ~InSubsegment(i)
               PROVE  i \in DOMAIN nodes /\ nodes[i].type = "allocation"
      BY DEF CrtAllocationsKept
  <2>1. scene \in Scenes
    BY <1>2 DEF MarksInv, GraphInv
  <2>2. ASSUME NEW b \in Blocks, Foreign(b), i \in Owner(b.address) PROVE FALSE
    <3>1. b.address \in Nat
      BY <2>1, LayoutAssumption DEF Blocks
    <3>2. IsCrtEntry(b.address)
      BY <2>1, <2>2, <3>1, CrtEntryFound
    <3>3. b.subsegment
      BY <2>2, <3>2 DEF Foreign
    <3> QED
      BY <2>2, <3>3 DEF InSubsegment
  <2>3. ~Held(i)
    BY <2>1, <2>2, HeldBecause
  <2>4. i \in DOMAIN nodes /\ ~IsMarked(i)
    BY <1>2, <2>3 DEF MarksInv, Marks
  <2> QED
    BY <1>2, <2>4 DEF MarksInv, HeapNodes, IsMarked
<1>3. MarksInv => MarksRight
    BY <1>1, <1>2 DEF MarksRight
<1> QED
    BY <1>3, MarksInvariance, PTL

-------------------------------------------------------------------------------
(***************************************************************************)
(* GraphDisplay.  The saved states are a path of the graph                 *)
(* (StatesFormPath); as no node is on it twice it is no longer than the    *)
(* graph, which bounds the call depth below the limit the option sets.     *)
(* RootInv follows the node at the left margin: the limit on the call      *)
(* depth and the limit on the references never cut off anything of it.     *)
(***************************************************************************)

\* StatesFormPath for any graph and any sequence of states.
PathIn(refs, p) ==
    \A i \in 1 .. Len(p) :
       /\ p[i].parents = {p[j].node : j \in 1 .. i}
       /\ \A j \in 1 .. (i - 1) : p[j].node # p[i].node
       /\ i < Len(p) => /\ p[i].print_offset \in 1 .. Len(refs[p[i].node])
                        /\ p[i + 1].node = refs[p[i].node][p[i].print_offset]

\* Sequences of the same length with the same elements are equal.
LEMMA SameSequence ==
  ASSUME NEW S, NEW p \in Seq(S), NEW q \in Seq(S), Len(p) = Len(q),
         \A i \in 1 .. Len(p) : p[i] = q[i]
  PROVE  p = q
  OBVIOUS

\* PathIn is StatesFormPath of what the display holds.
LEMMA PathInIsPath == StatesFormPath <=> PathIn(display.refs, Path)
  BY DEF StatesFormPath, PathIn, Refs

\* The last state may move on to its next references.
LEMMA AdvancedPath ==
  ASSUME NEW refs, NEW p \in Seq(States), NEW s \in States, NEW t \in States,
         PathIn(refs, Append(p, s)), t.node = s.node, t.parents = s.parents
  PROVE  PathIn(refs, Append(p, t))
<1> DEFINE P == Append(p, s)
           Q == Append(p, t)
<1>1. /\ Len(P) = Len(p) + 1 /\ Len(Q) = Len(p) + 1 /\ Len(p) \in Nat
      /\ \A i \in 1 .. Len(p) : P[i] = p[i] /\ Q[i] = p[i]
      /\ P[Len(p) + 1] = s /\ Q[Len(p) + 1] = t
  OBVIOUS
<1>2. \A i \in 1 .. Len(Q) : Q[i].node = P[i].node /\ Q[i].parents = P[i].parents
  BY <1>1
<1> SUFFICES ASSUME NEW i \in 1 .. Len(Q)
             PROVE  /\ Q[i].parents = {Q[j].node : j \in 1 .. i}
                    /\ \A j \in 1 .. (i - 1) : Q[j].node # Q[i].node
                    /\ i < Len(Q) => /\ Q[i].print_offset \in 1 .. Len(refs[Q[i].node])
                                     /\ Q[i + 1].node = refs[Q[i].node][Q[i].print_offset]
  BY DEF PathIn
<1>3. /\ P[i].parents = {P[j].node : j \in 1 .. i}
      /\ \A j \in 1 .. (i - 1) : P[j].node # P[i].node
      /\ i < Len(P) => /\ P[i].print_offset \in 1 .. Len(refs[P[i].node])
                       /\ P[i + 1].node = refs[P[i].node][P[i].print_offset]
  BY <1>1 DEF PathIn
<1>4. Q[i].parents = {Q[j].node : j \in 1 .. i}
  <2>1. \A j \in 1 .. i : Q[j].node = P[j].node
    BY <1>1, <1>2
  <2>2. {Q[j].node : j \in 1 .. i} = {P[j].node : j \in 1 .. i}
    BY <2>1
  <2> QED  BY <2>2, <1>2, <1>3
<1>5. \A j \in 1 .. (i - 1) : Q[j].node # Q[i].node
  BY <1>1, <1>2, <1>3
<1>6. i < Len(Q) => /\ Q[i].print_offset \in 1 .. Len(refs[Q[i].node])
                    /\ Q[i + 1].node = refs[Q[i].node][Q[i].print_offset]
  <2> SUFFICES ASSUME i < Len(Q) PROVE /\ Q[i].print_offset \in 1 .. Len(refs[Q[i].node])
                                       /\ Q[i + 1].node = refs[Q[i].node][Q[i].print_offset]
    OBVIOUS
  <2>1. Q[i] = P[i] /\ Q[i + 1].node = P[i + 1].node
    BY <1>1, <1>2
  <2> QED  BY <2>1, <1>1, <1>3
<1> QED  BY <1>4, <1>5, <1>6

\* A child that is none of the parents extends the path.
LEMMA ExtendedPath ==
  ASSUME NEW refs, NEW p \in Seq(States), NEW s \in States, NEW c \in States,
         PathIn(refs, Append(p, s)),
         s.print_offset \in 1 .. Len(refs[s.node]),
         c.node = refs[s.node][s.print_offset],
         c.node \notin s.parents,
         c.parents = s.parents \cup {c.node}
  PROVE  PathIn(refs, Append(Append(p, s), c))
<1> DEFINE P == Append(p, s)
           Q == Append(P, c)
           n == Len(p) + 1
<1>1. /\ P \in Seq(States) /\ n \in Nat /\ Len(P) = n /\ P[n] = s
  OBVIOUS
<1>2. /\ Len(Q) = n + 1 /\ Q[n + 1] = c
      /\ \A i \in 1 .. n : Q[i] = P[i]
  BY <1>1
<1>3. s.parents = {P[j].node : j \in 1 .. n}
  BY <1>1 DEF PathIn
<1> HIDE DEF P, Q
<1> SUFFICES ASSUME NEW i \in 1 .. Len(Q)
             PROVE  /\ Q[i].parents = {Q[j].node : j \in 1 .. i}
                    /\ \A j \in 1 .. (i - 1) : Q[j].node # Q[i].node
                    /\ i < Len(Q) => /\ Q[i].print_offset \in 1 .. Len(refs[Q[i].node])
                                     /\ Q[i + 1].node = refs[Q[i].node][Q[i].print_offset]
  BY DEF PathIn, Q, P
<1>4. CASE i = n + 1
  <2>1. {Q[j].node : j \in 1 .. n + 1} = {P[j].node : j \in 1 .. n} \cup {c.node}
    <3>1. 1 .. n + 1 = (1 .. n) \cup {n + 1}
      BY <1>1
    <3>2. {Q[j].node : j \in 1 .. n} = {P[j].node : j \in 1 .. n}
      BY <1>2
    <3>3. {Q[j].node : j \in 1 .. n + 1} = {Q[j].node : j \in 1 .. n} \cup {Q[n + 1].node}
      BY <3>1
    <3> QED  BY <3>2, <3>3, <1>2
  <2>2. \A j \in 1 .. n : Q[j].node # c.node
    BY <1>2, <1>3
  <2>3. i - 1 = n /\ ~(i < Len(Q)) /\ Q[i] = c
    BY <1>1, <1>2, <1>4
  <2> QED  BY <2>1, <2>2, <2>3, <1>3, <1>4
<1>5. CASE i = n
  <2>1. /\ P[n].parents = {P[j].node : j \in 1 .. n}
        /\ \A j \in 1 .. (n - 1) : P[j].node # P[n].node
    BY <1>1 DEF PathIn, P
  <2>2. {Q[j].node : j \in 1 .. n} = {P[j].node : j \in 1 .. n}
    BY <1>2
  <2>3. \A j \in 1 .. (n - 1) : Q[j] = P[j]
    BY <1>1, <1>2
  <2>4. Q[n] = s /\ Q[n + 1] = c
    BY <1>1, <1>2
  <2> QED  BY <2>1, <2>2, <2>3, <2>4, <1>1, <1>5
<1>6. CASE i < n
  <2>1. i \in 1 .. Len(P) /\ i < Len(P) /\ i + 1 \in 1 .. n
    BY <1>1, <1>6
  <2>2. /\ P[i].parents = {P[j].node : j \in 1 .. i}
        /\ \A j \in 1 .. (i - 1) : P[j].node # P[i].node
        /\ /\ P[i].print_offset \in 1 .. Len(refs[P[i].node])
           /\ P[i + 1].node = refs[P[i].node][P[i].print_offset]
    BY <2>1 DEF PathIn, P
  <2>3. \A j \in 1 .. i : Q[j] = P[j]
    BY <2>1, <1>2, <1>1
  <2>4. {Q[j].node : j \in 1 .. i} = {P[j].node : j \in 1 .. i}
    BY <2>3
  <2>5. Q[i] = P[i] /\ Q[i + 1] = P[i + 1]
    BY <2>1, <1>2
  <2>6. \A j \in 1 .. (i - 1) : Q[j] = P[j]
    BY <2>1, <2>3
  <2> QED  BY <2>2, <2>4, <2>5, <2>6
<1> QED  BY <1>1, <1>2, <1>4, <1>5, <1>6

\* A path without its last state is a path.
LEMMA ShorterPath ==
  ASSUME NEW refs, NEW p \in Seq(States), NEW s \in States, PathIn(refs, Append(p, s))
  PROVE  PathIn(refs, p)
<1> DEFINE P == Append(p, s)
<1>1. /\ Len(P) = Len(p) + 1 /\ Len(p) \in Nat
      /\ \A i \in 1 .. Len(p) : P[i] = p[i]
  OBVIOUS
<1> HIDE DEF P
<1> SUFFICES ASSUME NEW i \in 1 .. Len(p)
             PROVE  /\ p[i].parents = {p[j].node : j \in 1 .. i}
                    /\ \A j \in 1 .. (i - 1) : p[j].node # p[i].node
                    /\ i < Len(p) => /\ p[i].print_offset \in 1 .. Len(refs[p[i].node])
                                     /\ p[i + 1].node = refs[p[i].node][p[i].print_offset]
  BY DEF PathIn
<1>2. i \in 1 .. Len(P) /\ i < Len(P)
  BY <1>1
<1>3. /\ P[i].parents = {P[j].node : j \in 1 .. i}
      /\ \A j \in 1 .. (i - 1) : P[j].node # P[i].node
      /\ P[i].print_offset \in 1 .. Len(refs[P[i].node])
      /\ P[i + 1].node = refs[P[i].node][P[i].print_offset]
  BY <1>2 DEF PathIn, P
<1>4. \A j \in 1 .. i : P[j] = p[j]
  BY <1>1
<1>5. {p[j].node : j \in 1 .. i} = {P[j].node : j \in 1 .. i}
  BY <1>4
<1>6. \A j \in 1 .. (i - 1) : P[j] = p[j]
  BY <1>4
<1>7. i < Len(p) => P[i + 1] = p[i + 1]
  BY <1>1
<1> QED  BY <1>1, <1>3, <1>5, <1>6, <1>7

\* No node is on a path twice: a path is no longer than the graph.
LEMMA PathIsShort ==
  ASSUME NEW refs, NEW p \in Seq(States), PathIn(refs, p)
  PROVE  Cardinality(Nodes) \in Nat /\ Len(p) <= Cardinality(Nodes)
<1> DEFINE f == [i \in 1 .. Len(p) |-> p[i].node]
<1>1. Len(p) \in Nat /\ \A i \in 1 .. Len(p) : p[i] \in States
  OBVIOUS
<1>2. f \in [1 .. Len(p) -> Nodes]
  BY <1>1 DEF States
<1>3. \A i, j \in 1 .. Len(p) : i < j => p[i].node # p[j].node
  <2> SUFFICES ASSUME NEW i \in 1 .. Len(p), NEW j \in 1 .. Len(p), i < j
               PROVE  p[i].node # p[j].node
    OBVIOUS
  <2>1. i \in 1 .. (j - 1)
    BY <1>1
  <2> QED  BY <2>1 DEF PathIn
<1>4. \A i, j \in 1 .. Len(p) : i # j => f[i] # f[j]
  BY <1>1, <1>3
<1>5. f \in Injection(1 .. Len(p), Nodes)
  BY <1>2, <1>4 DEF Injection, IsInjective
<1> HIDE DEF f
<1>6. IsFiniteSet(Nodes)
  BY DisplayAssumption
<1>7. Cardinality(1 .. Len(p)) <= Cardinality(Nodes)
  BY <1>5, <1>6, FS_Injection
<1>8. Cardinality(1 .. Len(p)) = Len(p)
  <2>1. 1 \in Int /\ Len(p) \in Int
    BY <1>1
  <2>2. Cardinality(1 .. Len(p)) = IF 1 > Len(p) THEN 0 ELSE Len(p) - 1 + 1
    BY <2>1, FS_Interval, Zenon
  <2> QED  BY <2>2, <1>1
<1>9. Cardinality(Nodes) \in Nat
  BY <1>6, FS_CardinalityType
<1> QED  BY <1>7, <1>8, <1>9

----------------------------------------------------------------------------

\* What the marks of the code say about the history: a node that was descended
\* into is marked, the nodes of the path are begun, and as long as no reference
\* was passed over a marked node with references is begun.
MarksKept ==
    /\ \A n \in Nodes : expanded[n] <= 1 /\ (expanded[n] = 1 => n \in printed)
    /\ \A i \in 1 .. Len(Path) : Path[i].node \in started
    /\ ~lost => \A n \in printed : Refs(n) # <<>> => n \in started

Labels == NothingLostWithinDepth /\ LabelsTrueWithinDepth

DisplayInv == DisplayTypeOK /\ StatesFormPath /\ MarksKept /\ Labels

\* The invariant holds at the start.
LEMMA InitDisplayInv == InitDisplay => DisplayInv
<1> SUFFICES ASSUME InitDisplay PROVE DisplayInv
  OBVIOUS
<1> USE DEF InitDisplay
<1>1. IsScene(display)
  BY DisplayAssumption
<1>2. Path = <<>>
  BY DEF Path
<1>3. DisplayTypeOK
  <2>1. queue \in Seq(Nodes)
    BY <1>1 DEF IsScene
  <2>2. depth \in 1 .. Len(node_stack) + 1
    OBVIOUS
  <2>3. expanded \in [Nodes -> Nat]
    OBVIOUS
  <2>4. shown \in [Nodes -> SUBSET Nat]
    OBVIOUS
  <2>5. node_stack \in Seq(States)
    OBVIOUS
  <2>6. depth = 1 /\ state = None /\ lost \in BOOLEAN /\ printed \subseteq Nodes /\ started \subseteq Nodes
    OBVIOUS
  <2> HIDE DEF InitDisplay
  <2>7. state = None => node_stack = <<>>
    BY DEF InitDisplay
  <2> QED  BY <1>1, <2>1, <2>2, <2>3, <2>4, <2>5, <2>6, <2>7 DEF DisplayTypeOK
<1>4. StatesFormPath
  BY <1>2 DEF StatesFormPath
<1>5. MarksKept
  BY <1>2 DEF MarksKept
<1>6. Labels
  BY DEF Labels, NothingLostWithinDepth, LabelsTrueWithinDepth
<1> QED  BY <1>3, <1>4, <1>5, <1>6 DEF DisplayInv

\* What a step that works on a state finds.
LEMMA StateFacts ==
  ASSUME DisplayTypeOK, state # None
  PROVE  /\ state \in States /\ state.node \in Nodes
         /\ node_stack \in Seq(States)
         /\ Refs(state.node) \in Seq(Nodes)
         /\ Path = Append(node_stack, state)
         /\ Advanced(state) \in States
         /\ Advanced(state).node = state.node
         /\ Advanced(state).parents = state.parents
         /\ Advanced(state).print_offset = state.print_offset + 1
         /\ More(state) => /\ state.print_offset + 1 \in 1 .. Len(Refs(state.node))
                           /\ Child(state) \in Nodes
                           /\ Child(state) = Refs(state.node)[state.print_offset + 1]
         /\ Advanced(state) # None
<1>1. state \in States /\ node_stack \in Seq(States)
  BY DEF DisplayTypeOK
<1>2. Refs(state.node) \in Seq(Nodes) /\ state.node \in Nodes
  BY <1>1 DEF DisplayTypeOK, IsScene, States, Refs
<1>3. /\ Advanced(state) \in States
      /\ Advanced(state).node = state.node
      /\ Advanced(state).parents = state.parents
      /\ Advanced(state).print_offset = state.print_offset + 1
  BY <1>1 DEF Advanced, States
<1>4. More(state) => /\ state.print_offset + 1 \in 1 .. Len(Refs(state.node))
                     /\ Child(state) \in Nodes
                     /\ Child(state) = Refs(state.node)[state.print_offset + 1]
  BY <1>1, <1>2 DEF More, Child, States
<1>5. Advanced(state) # None
  BY <1>3, DisplayAssumption
<1> QED  BY <1>1, <1>2, <1>3, <1>4, <1>5 DEF Path

\* A state that has moved on and nothing else of the path has changed.
LEMMA MovedOn ==
  ASSUME DisplayInv, state # None, More(state),
         state' = Advanced(state), node_stack' = node_stack, display' = display
  PROVE  /\ StatesFormPath'
         /\ Path' = Append(node_stack, Advanced(state))
         /\ \A i \in 1 .. Len(Path') : Path'[i].node \in started
<1>1. DisplayTypeOK /\ StatesFormPath /\ MarksKept
  BY DEF DisplayInv
<1>2. Path' = Append(node_stack, Advanced(state))
  BY <1>1, StateFacts DEF Path
<1>3. PathIn(display.refs, Append(node_stack, state))
  BY <1>1, PathInIsPath, StateFacts
<1>4. PathIn(display.refs, Append(node_stack, Advanced(state)))
  <2>1. /\ node_stack \in Seq(States) /\ state \in States /\ Advanced(state) \in States
        /\ Advanced(state).node = state.node /\ Advanced(state).parents = state.parents
    BY <1>1, StateFacts
  <2> QED  BY <2>1, <1>3, AdvancedPath
<1>5. StatesFormPath'
  <2>1. PathIn(display'.refs, Path')
    BY <1>2, <1>4
  <2> QED  BY <2>1 DEF StatesFormPath, PathIn, Refs
<1>6. \A i \in 1 .. Len(Path') : Path'[i].node \in started
  <2>1. /\ Path = Append(node_stack, state) /\ node_stack \in Seq(States)
        /\ Advanced(state).node = state.node
    BY <1>1, StateFacts
  <2>2. \A i \in 1 .. Len(Path) : Path[i].node \in started
    BY <1>1 DEF MarksKept
  <2>3. /\ Len(Append(node_stack, state)) = Len(node_stack) + 1
        /\ Len(Append(node_stack, Advanced(state))) = Len(node_stack) + 1
        /\ Len(node_stack) \in Nat
        /\ \A i \in 1 .. Len(node_stack) :
              Append(node_stack, state)[i] = Append(node_stack, Advanced(state))[i]
        /\ Append(node_stack, state)[Len(node_stack) + 1] = state
        /\ Append(node_stack, Advanced(state))[Len(node_stack) + 1] = Advanced(state)
    BY <2>1
  <2> QED  BY <2>1, <2>2, <2>3, <1>2
<1> QED  BY <1>2, <1>5, <1>6

\* generate_display_node_and_print keeps the invariant.
LEMMA RootKeepsInv == DisplayInv /\ DisplayRoot => DisplayInv'
<1> SUFFICES ASSUME DisplayInv, DisplayRoot PROVE DisplayInv'
  OBVIOUS
<1>1. DisplayTypeOK /\ StatesFormPath /\ MarksKept /\ Labels
  BY DEF DisplayInv
<1>2. /\ state = None /\ queue # <<>> /\ queue' = Tail(queue)
      /\ display' = display /\ printed' = printed /\ node_stack' = node_stack /\ depth' = depth
      /\ line' = line /\ expanded' = expanded /\ shown' = shown /\ lost' = lost
  BY DEF DisplayRoot
<1>3. node_stack = <<>> /\ Path = <<>> /\ depth = 1
  BY <1>1, <1>2 DEF DisplayTypeOK, Path
<1> DEFINE n == Head(queue)
           s == StateFor(n, RootSize(n), {})
<1>4. n \in Nodes /\ queue' \in Seq(Nodes) /\ Refs(n) \in Seq(Nodes)
  <2>1. queue \in Seq(Nodes) /\ IsScene(display)
    BY <1>1 DEF DisplayTypeOK
  <2>2. \A m \in Nodes : Refs(m) \in Seq(Nodes)
    BY <2>1 DEF IsScene, Refs
  <2>3. n \in Nodes /\ queue' \in Seq(Nodes)
    BY <2>1, <1>2
  <2> QED  BY <2>2, <2>3
<1>5. s \in States /\ s.node = n /\ s.parents = {n}
  BY <1>4 DEF StateFor, RootSize, States
<1>6. s # None
  BY <1>5, DisplayAssumption
<1>7. \/ state' = None /\ started' = started
      \/ state' = s /\ started' = started \cup {n}
  BY <1>2 DEF DisplayRoot
<1> HIDE DEF s
<1>8. DisplayTypeOK'
  BY <1>1, <1>2, <1>3, <1>4, <1>5, <1>6, <1>7 DEF DisplayTypeOK
<1>9. \/ Path' = <<>>
      \/ Path' = <<s>> /\ started' = started \cup {n}
  BY <1>2, <1>3, <1>6, <1>7 DEF Path
<1>10. StatesFormPath'
  <2>1. CASE Path' = <<>>
    BY <2>1 DEF StatesFormPath
  <2>2. CASE Path' = <<s>>
    <3>1. Len(Path') = 1 /\ Path'[1] = s
      BY <2>2
    <3>2. {Path'[j].node : j \in 1 .. 1} = {n}
      BY <3>1, <1>5
    <3> QED  BY <3>1, <3>2, <1>5 DEF StatesFormPath
  <2> QED  BY <1>9, <2>1, <2>2
<1>11. MarksKept'
  <2>1. \A i \in 1 .. Len(Path') : Path'[i].node \in started'
    BY <1>9, <1>5
  <2>2. ~lost => \A m \in printed : Refs(m)' # <<>> => m \in started'
    BY <1>1, <1>2, <1>7 DEF MarksKept, Refs
  <2> QED  BY <2>1, <2>2, <1>1, <1>2 DEF MarksKept
<1>12. Labels'
  BY <1>1, <1>2, <1>7 DEF Labels, NothingLostWithinDepth, LabelsTrueWithinDepth
<1> QED  BY <1>8, <1>10, <1>11, <1>12 DEF DisplayInv

\* A displayed reference keeps the invariant, descended into or not.
LEMMA ChildKeepsInv == DisplayInv /\ DisplayChild => DisplayInv'
<1> SUFFICES ASSUME DisplayInv, DisplayChild PROVE DisplayInv'
  OBVIOUS
<1>1. DisplayTypeOK /\ StatesFormPath /\ MarksKept /\ Labels
  BY DEF DisplayInv
<1> DEFINE child   == Child(state)
           cycle   == CycleEnd(state, child)
           already == AlreadyLogged(child)
           c       == StateFor(child, display.limit, state.parents)
<1>2. /\ state # None /\ More(state) /\ ~AtLimit
      /\ display' = display /\ queue' = queue /\ lost' = lost
      /\ printed' = printed \cup {child}
      /\ shown' = [shown EXCEPT ![state.node] = @ \cup {state.print_offset + 1}]
      /\ line' = [parent |-> state.node, child |-> child, self |-> IsSelf(state, child),
                  cycle |-> cycle, already |-> already]
  BY DEF DisplayChild
<1>3. /\ state \in States /\ state.node \in Nodes /\ node_stack \in Seq(States)
      /\ Path = Append(node_stack, state)
      /\ Advanced(state) \in States
      /\ Advanced(state).node = state.node
      /\ Advanced(state).parents = state.parents
      /\ Advanced(state).print_offset = state.print_offset + 1
      /\ state.print_offset + 1 \in 1 .. Len(Refs(state.node))
      /\ child \in Nodes
      /\ child = Refs(state.node)[state.print_offset + 1]
      /\ Advanced(state) # None
  BY <1>1, <1>2, StateFacts
<1>4. shown' \in [Nodes -> SUBSET Nat]
  BY <1>1, <1>2, <1>3 DEF DisplayTypeOK, States
<1>5. line'.child = child /\ line'.already = already
  BY <1>2
<1>6. /\ state.parents = {Path[j].node : j \in 1 .. Len(Path)}
      /\ Len(Path) = Len(node_stack) + 1
  <2>1. /\ Len(Path) = Len(node_stack) + 1 /\ Len(node_stack) \in Nat
        /\ Path[Len(Path)] = state
    BY <1>3
  <2>2. Len(Path) \in 1 .. Len(Path)
    BY <2>1
  <2>3. Path[Len(Path)].parents = {Path[j].node : j \in 1 .. Len(Path)}
    BY <1>1, <2>2 DEF StatesFormPath
  <2> QED  BY <2>1, <2>3
<1>7. cycle => child \in started
  BY <1>1, <1>6 DEF CycleEnd, MarksKept
<1>8. ~lost /\ already => child \in started
  BY <1>1 DEF AlreadyLogged, MarksKept
<1>9. CASE /\ cycle \/ already \/ Refs(child) = <<>>
           /\ state' = Advanced(state)
           /\ node_stack' = node_stack /\ depth' = depth /\ expanded' = expanded /\ started' = started
  <2>1. DisplayTypeOK'
    BY <1>1, <1>2, <1>3, <1>4, <1>9 DEF DisplayTypeOK
  <2>2. StatesFormPath' /\ \A i \in 1 .. Len(Path') : Path'[i].node \in started
    BY <1>2, <1>9, MovedOn
  <2>3. MarksKept'
    <3>1. \A n \in Nodes : expanded[n] <= 1 /\ (expanded[n] = 1 => n \in printed')
      BY <1>1, <1>2 DEF MarksKept
    <3>2. ~lost => \A n \in printed' : Refs(n) # <<>> => n \in started
      BY <1>1, <1>2, <1>7, <1>8, <1>9 DEF MarksKept
    <3>3. \A n \in Nodes : Refs(n)' = Refs(n)
      BY <1>2 DEF Refs
    <3>4. printed' \subseteq Nodes
      BY <2>1 DEF DisplayTypeOK
    <3> QED  BY <3>1, <3>2, <3>3, <3>4, <2>2, <1>2, <1>9 DEF MarksKept
  <2>4. Labels'
    BY <1>1, <1>2, <1>5, <1>8, <1>9 DEF Labels, NothingLostWithinDepth, LabelsTrueWithinDepth
  <2> QED  BY <2>1, <2>2, <2>3, <2>4 DEF DisplayInv
<1>10. CASE /\ ~(cycle \/ already \/ Refs(child) = <<>>)
            /\ node_stack' = Append(node_stack, Advanced(state))
            /\ state' = c
            /\ depth' = depth + 1
            /\ expanded' = [expanded EXCEPT ![child] = @ + 1]
            /\ started' = started \cup {child}
  <2>1. c \in States /\ c.node = child /\ c.parents = state.parents \cup {child}
    <3>1. display.limit \in Nat
      BY <1>1 DEF DisplayTypeOK, IsScene
    <3> QED  BY <3>1, <1>3 DEF StateFor, States
  <2>2. c # None
    BY <2>1, DisplayAssumption
  <2>3. child \notin printed /\ expanded[child] = 0
    <3>1. child \notin printed
      BY <1>10 DEF AlreadyLogged
    <3>2. expanded[child] \in Nat
      BY <1>1, <1>3 DEF DisplayTypeOK
    <3>3. expanded[child] <= 1 /\ (expanded[child] = 1 => child \in printed)
      BY <1>1, <1>3 DEF MarksKept
    <3> HIDE DEF child
    <3> QED  BY <3>1, <3>2, <3>3
  <2> HIDE DEF c
  <2>4. /\ node_stack' \in Seq(States) /\ Len(node_stack') = Len(node_stack) + 1
        /\ Len(node_stack) \in Nat
    BY <1>3, <1>10
  <2>5. DisplayTypeOK'
    <3>1. depth \in Nat /\ depth' \in 1 .. Len(node_stack') + 1
      BY <2>4, <1>1, <1>10 DEF DisplayTypeOK
    <3>2. depth' < display.max
      <4>1. display.max \in Nat
        BY <1>1 DEF DisplayTypeOK, IsScene
      <4> QED  BY <4>1, <3>1, <1>2, <1>10 DEF AtLimit
    <3>3. expanded' \in [Nodes -> Nat]
      BY <1>1, <1>3, <1>10 DEF DisplayTypeOK
    <3>4. started' \subseteq Nodes /\ printed' \subseteq Nodes
      BY <1>1, <1>2, <1>3, <1>10 DEF DisplayTypeOK
    <3>5. IsScene(display') /\ queue' \in Seq(Nodes) /\ lost' \in BOOLEAN
      BY <1>1, <1>2 DEF DisplayTypeOK
    <3>6. state' \in States /\ state' # None
      BY <1>10, <2>1, <2>2
    <3> QED  BY <3>1, <3>2, <3>3, <3>4, <3>5, <3>6, <2>4, <1>2, <1>4 DEF DisplayTypeOK
  <2>6. Path' = Append(Append(node_stack, Advanced(state)), c)
    BY <1>10, <2>2 DEF Path
  <2>7. PathIn(display.refs, Append(node_stack, Advanced(state)))
    <3>1. PathIn(display.refs, Append(node_stack, state))
      BY <1>1, <1>3, PathInIsPath
    <3> QED  BY <3>1, <1>3, AdvancedPath
  <2>8. PathIn(display.refs, Path')
    <3>1. /\ Advanced(state).print_offset \in 1 .. Len(display.refs[Advanced(state).node])
          /\ c.node = display.refs[Advanced(state).node][Advanced(state).print_offset]
      BY <1>3, <2>1 DEF Refs
    <3>2. c.node \notin Advanced(state).parents
      BY <1>10, <1>3, <2>1 DEF CycleEnd
    <3>3. c.parents = Advanced(state).parents \cup {c.node}
      BY <1>3, <2>1
    <3> QED  BY <3>1, <3>2, <3>3, <2>1, <2>6, <2>7, <1>3, ExtendedPath
  <2>9. StatesFormPath'
    <3>1. PathIn(display'.refs, Path')
      BY <2>8, <1>2
    <3> QED  BY <3>1 DEF StatesFormPath, PathIn, Refs
  <2>10. \A i \in 1 .. Len(Path') : Path'[i].node \in started'
    <3> DEFINE P == Append(node_stack, state)
               Q == Append(Append(node_stack, Advanced(state)), c)
    <3>1. /\ Len(P) = Len(node_stack) + 1 /\ Len(Q) = Len(node_stack) + 2 /\ Len(node_stack) \in Nat
          /\ \A i \in 1 .. Len(node_stack) : Q[i] = P[i]
          /\ P[Len(node_stack) + 1] = state /\ Q[Len(node_stack) + 1] = Advanced(state)
          /\ Q[Len(node_stack) + 2] = c
      BY <1>3
    <3>2. \A i \in 1 .. Len(P) : P[i].node \in started
      BY <1>1, <1>3 DEF MarksKept
    <3> HIDE DEF P, Q
    <3>3. \A i \in 1 .. Len(node_stack) + 1 : Q[i].node \in started
      BY <3>1, <3>2, <1>3
    <3>4. Q[Len(node_stack) + 2].node \in started'
      BY <3>1, <2>1, <1>10
    <3>5. \A i \in 1 .. Len(Q) : Q[i].node \in started'
      BY <3>1, <3>3, <3>4, <1>10
    <3> QED  BY <3>5, <2>6 DEF Q
  <2>11. MarksKept'
    <3>1. \A n \in Nodes : expanded'[n] <= 1 /\ (expanded'[n] = 1 => n \in printed')
      BY <1>1, <1>2, <1>3, <1>10, <2>3 DEF MarksKept, DisplayTypeOK
    <3>2. ~lost => \A n \in printed' : Refs(n) # <<>> => n \in started'
      BY <1>1, <1>2, <1>10 DEF MarksKept
    <3>3. \A n \in Nodes : Refs(n)' = Refs(n)
      BY <1>2 DEF Refs
    <3>4. printed' \subseteq Nodes
      BY <2>5 DEF DisplayTypeOK
    <3> QED  BY <3>1, <3>2, <3>3, <3>4, <2>10, <1>2 DEF MarksKept
  <2>12. Labels'
    BY <1>1, <1>2, <1>5, <1>10 DEF Labels, NothingLostWithinDepth, LabelsTrueWithinDepth
  <2> QED  BY <2>5, <2>9, <2>11, <2>12 DEF DisplayInv
<1> QED
  <2>1. \/ /\ cycle \/ already \/ Refs(child) = <<>>
           /\ state' = Advanced(state)
           /\ UNCHANGED <<node_stack, depth, expanded, started>>
        \/ /\ ~(cycle \/ already \/ Refs(child) = <<>>)
           /\ node_stack' = Append(node_stack, Advanced(state))
           /\ state' = c
           /\ depth' = depth + 1
           /\ expanded' = [expanded EXCEPT ![child] = @ + 1]
           /\ started' = started \cup {child}
    BY DEF DisplayChild
  <2> QED  BY <2>1, <1>9, <1>10

\* A reference passed over keeps the invariant: the path is as long as the calls are deep.
LEMMA PassOverKeepsInv == DisplayInv /\ PassOver => DisplayInv'
<1> SUFFICES ASSUME DisplayInv, PassOver PROVE DisplayInv'
  OBVIOUS
<1>1. DisplayTypeOK /\ StatesFormPath /\ MarksKept /\ Labels
  BY DEF DisplayInv
<1>2. /\ state # None /\ More(state) /\ AtLimit
      /\ printed' = printed \cup {Child(state)}
      /\ lost' = TRUE /\ state' = Advanced(state) /\ depth' = 1
      /\ display' = display /\ queue' = queue /\ node_stack' = node_stack /\ line' = line
      /\ expanded' = expanded /\ started' = started /\ shown' = shown
  BY DEF PassOver
<1>3. /\ state \in States /\ node_stack \in Seq(States)
      /\ Path = Append(node_stack, state)
      /\ Advanced(state) \in States /\ Advanced(state) # None
      /\ Child(state) \in Nodes
  BY <1>1, <1>2, StateFacts
<1>4. DisplayTypeOK'
  BY <1>1, <1>2, <1>3 DEF DisplayTypeOK
<1>5. StatesFormPath' /\ \A i \in 1 .. Len(Path') : Path'[i].node \in started
  BY <1>2, MovedOn
<1>6. MarksKept'
  BY <1>1, <1>2, <1>5 DEF MarksKept
<1>7. display.max <= Cardinality(Nodes) + 1
  <2>1. PathIn(display.refs, Append(node_stack, state))
    BY <1>1, <1>3, PathInIsPath
  <2>2. Append(node_stack, state) \in Seq(States) /\ Len(Append(node_stack, state)) = Len(node_stack) + 1
    BY <1>3
  <2>3. Cardinality(Nodes) \in Nat /\ Len(node_stack) + 1 <= Cardinality(Nodes)
    BY <2>1, <2>2, PathIsShort
  <2>4. depth \in 1 .. Len(node_stack) + 1 /\ Len(node_stack) \in Nat /\ display.max \in Nat
    BY <1>1, <1>3 DEF DisplayTypeOK, IsScene
  <2> QED  BY <2>3, <2>4, <1>2 DEF AtLimit
<1>8. Labels'
  BY <1>2, <1>7 DEF Labels, NothingLostWithinDepth, LabelsTrueWithinDepth
<1> QED  BY <1>4, <1>5, <1>6, <1>8 DEF DisplayInv

\* A call that returns keeps the invariant.
LEMMA EndKeepsInv == DisplayInv /\ EndOfReferences => DisplayInv'
<1> SUFFICES ASSUME DisplayInv, EndOfReferences PROVE DisplayInv'
  OBVIOUS
<1>1. DisplayTypeOK /\ StatesFormPath /\ MarksKept /\ Labels
  BY DEF DisplayInv
<1>2. /\ state # None /\ depth' = Returned
      /\ display' = display /\ queue' = queue /\ printed' = printed /\ line' = line
      /\ expanded' = expanded /\ started' = started /\ shown' = shown /\ lost' = lost
  BY DEF EndOfReferences
<1>3. /\ state \in States /\ node_stack \in Seq(States) /\ Path = Append(node_stack, state)
  BY <1>1, <1>2, StateFacts
<1>4. Labels'
  BY <1>1, <1>2 DEF Labels, NothingLostWithinDepth, LabelsTrueWithinDepth
<1>5. CASE node_stack = <<>> /\ state' = None /\ node_stack' = node_stack
  <2>1. depth' = 1
    BY <1>1, <1>2, <1>5 DEF DisplayTypeOK, Returned
  <2>2. DisplayTypeOK'
    BY <1>1, <1>2, <1>5, <2>1 DEF DisplayTypeOK
  <2>3. Path' = <<>>
    BY <1>5 DEF Path
  <2>4. StatesFormPath'
    BY <2>3 DEF StatesFormPath
  <2>5. MarksKept'
    BY <2>3, <1>1, <1>2 DEF MarksKept, Refs
  <2> QED  BY <2>2, <2>4, <2>5, <1>4 DEF DisplayInv
<1>6. CASE /\ node_stack # <<>>
           /\ state' = node_stack[Len(node_stack)]
           /\ node_stack' = SubSeq(node_stack, 1, Len(node_stack) - 1)
  <2>1. /\ Len(node_stack) \in Nat /\ Len(node_stack) >= 1
        /\ node_stack[Len(node_stack)] \in States
        /\ node_stack' \in Seq(States) /\ Len(node_stack') = Len(node_stack) - 1
        /\ Append(node_stack', node_stack[Len(node_stack)]) = node_stack
    <3> DEFINE m == Len(node_stack)
               q == SubSeq(node_stack, 1, m - 1)
    <3>1. m \in Nat /\ m >= 1 /\ node_stack[m] \in States
      BY <1>3, <1>6
    <3>2. q \in Seq(States) /\ Len(q) = m - 1 /\ \A i \in 1 .. (m - 1) : q[i] = node_stack[i]
      <4>1. \A i \in 1 .. (m - 1) : node_stack[i] \in States
        BY <1>3
      <4>2. 1 \in Int /\ m - 1 \in Int
        BY <3>1
      <4>3. /\ q \in Seq(States)
            /\ Len(q) = IF 1 <= m - 1 THEN m - 1 - 1 + 1 ELSE 0
            /\ \A i \in 1 .. m - 1 - 1 + 1 : q[i] = node_stack[1 + i - 1]
        BY <4>1, <4>2, SubSeqProperties
      <4> HIDE DEF q, m
      <4>4. m - 1 - 1 + 1 = m - 1 /\ (IF 1 <= m - 1 THEN m - 1 - 1 + 1 ELSE 0) = m - 1
        BY <3>1
      <4>5. \A i \in 1 .. (m - 1) : 1 + i - 1 = i
        BY <3>1
      <4>6. \A i \in 1 .. (m - 1) : q[i] = node_stack[1 + i - 1]
        BY <4>3, <4>4
      <4>7. \A i \in 1 .. (m - 1) : q[i] = node_stack[i]
        BY <4>5, <4>6
      <4> QED  BY <4>3, <4>4, <4>7
    <3> HIDE DEF q
    <3>3. Append(q, node_stack[m]) = node_stack
      <4>1. Append(q, node_stack[m]) \in Seq(States) /\ Len(Append(q, node_stack[m])) = m
        BY <3>1, <3>2
      <4>2. \A i \in 1 .. m : Append(q, node_stack[m])[i] = node_stack[i]
        BY <3>1, <3>2
      <4> QED  BY <4>1, <4>2, <1>3, SameSequence
    <3> QED  BY <3>1, <3>2, <3>3, <1>6 DEF q
  <2>2. state' \in States /\ state' # None
    BY <2>1, <1>6, DisplayAssumption
  <2>3. Path' = node_stack
    BY <2>1, <2>2, <1>6 DEF Path
  <2>4. depth' \in 1 .. Len(node_stack') + 1 /\ (depth' = 1 \/ depth' < display.max)
    <3>1. display.max \in Nat
      BY <1>1 DEF DisplayTypeOK, IsScene
    <3> QED  BY <3>1, <2>1, <1>1, <1>2 DEF DisplayTypeOK, Returned
  <2>5. DisplayTypeOK'
    BY <2>1, <2>2, <2>4, <1>1, <1>2 DEF DisplayTypeOK
  <2>6. PathIn(display.refs, node_stack)
    <3>1. PathIn(display.refs, Append(node_stack, state))
      BY <1>1, <1>3, PathInIsPath
    <3> QED  BY <3>1, <1>3, ShorterPath
  <2>7. StatesFormPath'
    <3>1. PathIn(display'.refs, Path')
      BY <2>3, <2>6, <1>2
    <3> QED  BY <3>1 DEF StatesFormPath, PathIn, Refs
  <2>8. MarksKept'
    <3>1. \A i \in 1 .. Len(node_stack) : node_stack[i].node \in started
      <4>1. \A i \in 1 .. Len(Append(node_stack, state)) : Append(node_stack, state)[i].node \in started
        BY <1>1, <1>3 DEF MarksKept
      <4>2. /\ Len(Append(node_stack, state)) = Len(node_stack) + 1
            /\ \A i \in 1 .. Len(node_stack) : Append(node_stack, state)[i] = node_stack[i]
        BY <1>3
      <4> QED  BY <4>1, <4>2, <2>1
    <3> QED  BY <3>1, <2>3, <1>1, <1>2 DEF MarksKept, Refs
  <2> QED  BY <2>5, <2>7, <2>8, <1>4 DEF DisplayInv
<1> QED  BY <1>5, <1>6 DEF EndOfReferences

\* The invariant is inductive.
LEMMA DisplayInductive == DisplayInv /\ [NextDisplay]_displayVars => DisplayInv'
<1>1. CASE NextDisplay
  BY <1>1, RootKeepsInv, ChildKeepsInv, PassOverKeepsInv, EndKeepsInv DEF NextDisplay
<1>2. CASE UNCHANGED displayVars
  <2>1. Path' = Path
    BY <1>2 DEF displayVars, Path
  <2>2. DisplayTypeOK = DisplayTypeOK'
    BY <1>2 DEF displayVars, DisplayTypeOK
  <2>3. StatesFormPath = StatesFormPath'
    BY <1>2, <2>1 DEF displayVars, StatesFormPath, Refs
  <2>4. MarksKept = MarksKept'
    BY <1>2, <2>1 DEF displayVars, MarksKept, Refs
  <2>5. Labels = Labels'
    BY <1>2 DEF displayVars, Labels, NothingLostWithinDepth, LabelsTrueWithinDepth
  <2> QED  BY <2>2, <2>3, <2>4, <2>5 DEF DisplayInv
<1> QED  BY <1>1, <1>2

\* The invariant holds of every display.
LEMMA DisplayInvariant == DisplaySpec => []DisplayInv
BY InitDisplayInv, DisplayInductive, PTL DEF DisplaySpec

\* The call depth of continue_display_node stays below the limit of the option,
\* for every graph, limit and order of the nodes.
THEOREM DisplayTypeCorrect == DisplaySpec => []DisplayTypeOK
<1>1. DisplayInv => DisplayTypeOK
  BY DEF DisplayInv
<1> QED  BY <1>1, DisplayInvariant, PTL

\* The states of continue_display_node and of node_stack are a path of the
\* graph without repetitions, also after the calls have returned early.
THEOREM StatesStayPath == DisplaySpec => []StatesFormPath
<1>1. DisplayInv => StatesFormPath
  BY DEF DisplayInv
<1> QED  BY <1>1, DisplayInvariant, PTL

\* display_node descends into a node at most once.
THEOREM NodesDescendedOnce == DisplaySpec => []DescendedOnce
<1>1. DisplayInv => DescendedOnce
  BY DEF DisplayInv, MarksKept, DescendedOnce
<1> QED  BY <1>1, DisplayInvariant, PTL

\* Together: the display follows the graph, however often it is taken up again.
THEOREM DisplayFollowsGraph == DisplaySpec => []FollowsGraph
BY StatesStayPath, NodesDescendedOnce, PTL DEF FollowsGraph

\* continue_display_node passes no reference over as long as the option leaves
\* room for one call per node.
THEOREM NothingIsLostWithinDepth == DisplaySpec => []NothingLostWithinDepth
<1>1. DisplayInv => NothingLostWithinDepth
  BY DEF DisplayInv, Labels
<1> QED  BY <1>1, DisplayInvariant, PTL

\* Until a reference is passed over, "already logged children" is true.
THEOREM LabelsAreTrueWithinDepth == DisplaySpec => []LabelsTrueWithinDepth
<1>1. DisplayInv => LabelsTrueWithinDepth
  BY DEF DisplayInv, Labels
<1> QED  BY <1>1, DisplayInvariant, PTL

----------------------------------------------------------------------------

\* The state of the node at the left margin.
Root == IF node_stack = <<>> THEN state ELSE node_stack[1]

\* A node that is still in the queue.
InQueue(n) == \E i \in 1 .. Len(queue) : queue[i] = n

\* Only references of the graph are displayed; the node at the left margin has
\* no limit on its references, and all it has passed were displayed; every
\* other node is still in the queue or was displayed with all its references.
RootInv ==
    /\ \A n \in Nodes : shown[n] \subseteq 1 .. Len(Refs(n))
    /\ Root # None =>
          /\ Root.print_max_size = Len(Refs(Root.node))
          /\ Root.print_offset <= Len(Refs(Root.node))
          /\ 1 .. Root.print_offset \subseteq shown[Root.node]
    /\ \A n \in Nodes :
          \/ InQueue(n)
          \/ Root # None /\ Root.node = n
          \/ shown[n] = 1 .. Len(Refs(n))

RootsInv == display.max >= 3 => RootInv

\* The left margin with what has been displayed, for any root, display and queue.
Margin(root, refs, displayed, waiting) ==
    /\ \A n \in Nodes : displayed[n] \subseteq 1 .. Len(refs[n])
    /\ root # None =>
          /\ root.print_max_size = Len(refs[root.node])
          /\ root.print_offset <= Len(refs[root.node])
          /\ 1 .. root.print_offset \subseteq displayed[root.node]
    /\ \A n \in Nodes :
          \/ n \in waiting
          \/ root # None /\ root.node = n
          \/ displayed[n] = 1 .. Len(refs[n])

Waiting == {n \in Nodes : InQueue(n)}

\* RootInv is the margin of what the display holds.
LEMMA RootInvIsMargin == RootInv <=> Margin(Root, display.refs, shown, Waiting)
BY DEF RootInv, Margin, Refs, Waiting

\* The first of the states on a path, when there is one.
LEMMA RootIsState ==
  ASSUME DisplayTypeOK
  PROVE  /\ Root \in States \cup {None}
         /\ (Root = None) <=> (state = None)
         /\ node_stack # <<>> => Root \in States
<1>1. /\ state \in States \cup {None} /\ node_stack \in Seq(States)
      /\ state = None => node_stack = <<>>
  BY DEF DisplayTypeOK
<1>2. CASE node_stack = <<>>
  BY <1>1, <1>2 DEF Root
<1>3. CASE node_stack # <<>>
  <2>1. node_stack[1] \in States
    BY <1>1, <1>3
  <2>2. node_stack[1] # None
    BY <2>1, DisplayAssumption
  <2> QED  BY <2>1, <2>2, <1>1, <1>3 DEF Root
<1> QED  BY <1>2, <1>3

\* At the start all the nodes are in the queue.
LEMMA InitRoots == InitDisplay => RootsInv
<1> SUFFICES ASSUME InitDisplay PROVE RootInv
  BY DEF RootsInv
<1>1. IsScene(display) /\ queue = display.order /\ Root = None
  BY DisplayAssumption DEF InitDisplay, Root
<1>2. \A n \in Nodes : InQueue(n)
  BY <1>1 DEF IsScene, InQueue
<1>3. \A n \in Nodes : shown[n] = {}
  BY DEF InitDisplay
<1> QED  BY <1>1, <1>2, <1>3 DEF RootInv

\* A node leaves the queue for the left margin.
LEMMA RootKeepsRoots == DisplayInv /\ RootInv /\ DisplayRoot => RootInv'
<1> SUFFICES ASSUME DisplayInv, RootInv, DisplayRoot PROVE RootInv'
  OBVIOUS
<1>1. DisplayTypeOK
  BY DEF DisplayInv
<1> DEFINE n == Head(queue)
           s == StateFor(n, RootSize(n), {})
<1>2. /\ state = None /\ queue # <<>> /\ queue' = Tail(queue)
      /\ display' = display /\ node_stack' = node_stack /\ shown' = shown
      /\ IF Refs(n) = <<>> THEN state' = state ELSE state' = s
  BY DEF DisplayRoot
<1>3. Root = None /\ Root' = state'
  BY <1>1, <1>2 DEF DisplayTypeOK, Root
<1>4. /\ queue \in Seq(Nodes) /\ n \in Nodes /\ Refs(n) \in Seq(Nodes)
  BY <1>1, <1>2 DEF DisplayTypeOK, IsScene, Refs
<1>5. \A m \in Nodes : InQueue(m) => m = n \/ InQueue(m)'
  <2> SUFFICES ASSUME NEW m \in Nodes, NEW i \in 1 .. Len(queue), queue[i] = m, m # n
               PROVE  \E j \in 1 .. Len(Tail(queue)) : Tail(queue)[j] = m
    BY <1>2 DEF InQueue
  <2>1. i # 1 /\ i \in Nat
    BY <1>4
  <2>2. i - 1 \in 1 .. Len(Tail(queue)) /\ Tail(queue)[i - 1] = queue[i]
    BY <2>1, <1>4, <1>2
  <2> QED  BY <2>2
<1>6. Margin(None, display.refs, shown, Waiting)
  BY <1>3, RootInvIsMargin
<1>7. /\ s.node = n /\ s.print_max_size = Len(Refs(n)) /\ s.print_offset = 0
      /\ Len(Refs(n)) \in Nat
  BY <1>4 DEF StateFor, RootSize
<1>8. Margin(Root', display.refs, shown, Waiting')
  <2>1. \A m \in Nodes : shown[m] \subseteq 1 .. Len(display.refs[m])
    BY <1>6 DEF Margin
  <2>2. \A m \in Nodes : \/ m = n
                         \/ m \in Waiting'
                         \/ shown[m] = 1 .. Len(display.refs[m])
    BY <1>5, <1>6 DEF Margin, Waiting
  <2>3. CASE Refs(n) = <<>>
    <3>1. Root' = None
      BY <2>3, <1>2, <1>3
    <3>2. shown[n] = 1 .. Len(display.refs[n])
      BY <2>1, <2>3, <1>4 DEF Refs
    <3> QED  BY <3>1, <3>2, <2>1, <2>2 DEF Margin
  <2>4. CASE Refs(n) # <<>>
    <3>1. Root' = s
      BY <2>4, <1>2, <1>3
    <3>2. 1 .. s.print_offset = {}
      BY <1>7
    <3>3. s # None
      <4>1. s \in States
        BY <1>4 DEF StateFor, RootSize, States
      <4> QED  BY <4>1, DisplayAssumption
    <3> HIDE DEF s, n
    <3>4. s.print_max_size = Len(display.refs[s.node]) /\ s.print_offset <= Len(display.refs[s.node])
      BY <1>7 DEF Refs
    <3>5. Margin(s, display.refs, shown, Waiting')
      <4>1. \A m \in Nodes : \/ m \in Waiting'
                             \/ s # None /\ s.node = m
                             \/ shown[m] = 1 .. Len(display.refs[m])
        BY <2>2, <3>3, <1>7
      <4>2. 1 .. s.print_offset \subseteq shown[s.node]
        BY <3>2
      <4> QED  BY <4>1, <4>2, <3>4, <2>1 DEF Margin
    <3> QED  BY <3>1, <3>5
  <2> QED  BY <2>3, <2>4
<1>9. Margin(Root', display'.refs, shown', Waiting')
  BY <1>2, <1>8
<1> QED  BY <1>9 DEF RootInv, Margin, Refs, Waiting

\* A displayed reference.
LEMMA ChildKeepsRoots == DisplayInv /\ RootInv /\ DisplayChild => RootInv'
<1> SUFFICES ASSUME DisplayInv, RootInv, DisplayChild PROVE RootInv'
  OBVIOUS
<1>1. DisplayTypeOK
  BY DEF DisplayInv
<1>2. /\ state # None /\ More(state) /\ display' = display /\ queue' = queue
      /\ shown' = [shown EXCEPT ![state.node] = @ \cup {state.print_offset + 1}]
      /\ \/ node_stack' = node_stack /\ state' = Advanced(state)
         \/ /\ node_stack' = Append(node_stack, Advanced(state))
            /\ state' = StateFor(Child(state), display.limit, state.parents)
  BY DEF DisplayChild
<1>3. /\ state \in States /\ state.node \in Nodes /\ node_stack \in Seq(States)
      /\ Advanced(state).node = state.node
      /\ Advanced(state).print_offset = state.print_offset + 1
      /\ Advanced(state) # None
      /\ state.print_offset + 1 \in 1 .. Len(Refs(state.node))
  BY <1>1, <1>2, StateFacts
<1>4. Advanced(state).print_max_size = state.print_max_size
  BY <1>3 DEF Advanced, States
<1>5. shown \in [Nodes -> SUBSET Nat]
  BY <1>1 DEF DisplayTypeOK
<1> DEFINE k == state.print_offset + 1
           refs == display.refs
<1>6. Margin(Root, refs, shown, Waiting)
  BY RootInvIsMargin
<1>7. /\ \A m \in Nodes : shown'[m] \subseteq 1 .. Len(refs[m])
      /\ \A m \in Nodes : shown[m] \subseteq shown'[m]
      /\ k \in shown'[state.node]
      /\ \A m \in Nodes : shown[m] = 1 .. Len(refs[m]) => shown'[m] = 1 .. Len(refs[m])
  <2>1. \A m \in Nodes : shown'[m] = IF m = state.node THEN shown[m] \cup {k} ELSE shown[m]
    BY <1>2, <1>3, <1>5
  <2>2. k \in 1 .. Len(refs[state.node])
    BY <1>3 DEF Refs
  <2> HIDE DEF k, refs
  <2>3. \A m \in Nodes : shown[m] \subseteq 1 .. Len(refs[m])
    BY <1>6 DEF Margin
  <2> QED  BY <2>1, <2>2, <2>3, <1>3
<1>8. Waiting' = Waiting
  BY <1>2 DEF Waiting, InQueue
<1>9. CASE node_stack = <<>>
  <2>1. Root = state /\ Root' = Advanced(state)
    BY <1>2, <1>9 DEF Root
  <2>2. 1 .. Advanced(state).print_offset = (1 .. state.print_offset) \cup {k}
    <3>1. state.print_offset \in Nat
      BY <1>3 DEF States
    <3> QED  BY <3>1, <1>3
  <2>3. Advanced(state).print_offset <= Len(refs[state.node])
    BY <1>3 DEF Refs
  <2> HIDE DEF k, refs
  <2>4. Margin(Root', refs, shown', Waiting)
    BY <2>1, <2>2, <2>3, <1>2, <1>3, <1>4, <1>6, <1>7 DEF Margin
  <2>5. Margin(Root', display'.refs, shown', Waiting')
    BY <2>4, <1>2, <1>8 DEF refs
  <2> QED  BY <2>5 DEF RootInv, Margin, Refs, Waiting
<1>10. CASE node_stack # <<>>
  <2>1. Root' = Root
    BY <1>2, <1>3, <1>10 DEF Root
  <2>2. Root \in States
    BY <1>1, <1>10, RootIsState
  <2>3. Root.node \in Nodes
    BY <2>2 DEF States
  <2> HIDE DEF k, refs
  <2>4. Margin(Root, refs, shown', Waiting)
    BY <2>3, <1>6, <1>7 DEF Margin
  <2>5. Margin(Root', display'.refs, shown', Waiting')
    BY <2>1, <2>4, <1>2, <1>8 DEF refs
  <2> QED  BY <2>5 DEF RootInv, Margin, Refs, Waiting
<1> QED  BY <1>9, <1>10

\* A reference that is passed over is never one of the node at the left margin.
LEMMA PassOverKeepsRoots ==
  DisplayInv /\ RootInv /\ display.max >= 3 /\ PassOver => RootInv'
<1> SUFFICES ASSUME DisplayInv, RootInv, display.max >= 3, PassOver PROVE RootInv'
  OBVIOUS
<1>1. DisplayTypeOK
  BY DEF DisplayInv
<1>2. /\ state # None /\ AtLimit /\ display' = display /\ queue' = queue /\ shown' = shown
      /\ node_stack' = node_stack
  BY DEF PassOver
<1>3. node_stack # <<>>
  <2> SUFFICES ASSUME node_stack = <<>> PROVE FALSE
    OBVIOUS
  <2>1. Len(node_stack) = 0 /\ display.max \in Nat
    BY <1>1 DEF DisplayTypeOK, IsScene
  <2>2. depth = 1
    BY <2>1, <1>1 DEF DisplayTypeOK
  <2> QED  BY <2>1, <2>2, <1>2 DEF AtLimit
<1>4. Root' = Root
  BY <1>2, <1>3 DEF Root
<1> QED  BY <1>2, <1>4 DEF RootInv, Refs, InQueue

\* The node at the left margin is done when all its references were displayed.
LEMMA EndKeepsRoots == DisplayInv /\ RootInv /\ EndOfReferences => RootInv'
<1> SUFFICES ASSUME DisplayInv, RootInv, EndOfReferences PROVE RootInv'
  OBVIOUS
<1>1. DisplayTypeOK
  BY DEF DisplayInv
<1>2. /\ state # None /\ ~More(state) /\ display' = display /\ queue' = queue /\ shown' = shown
  BY DEF EndOfReferences
<1>3. /\ state \in States /\ state.node \in Nodes /\ node_stack \in Seq(States)
      /\ Refs(state.node) \in Seq(Nodes)
  BY <1>1, <1>2, StateFacts
<1>4. CASE node_stack = <<>> /\ state' = None /\ node_stack' = node_stack
  <2>1. Root = state /\ Root' = None
    BY <1>4 DEF Root
  <2>2. /\ state.print_max_size = Len(Refs(state.node))
        /\ state.print_offset <= Len(Refs(state.node))
        /\ 1 .. state.print_offset \subseteq shown[state.node]
        /\ shown[state.node] \subseteq 1 .. Len(Refs(state.node))
    BY <1>2, <1>3, <2>1 DEF RootInv
  <2>3. state.print_offset = Len(Refs(state.node))
    <3>1. state.print_offset \in Nat /\ Len(Refs(state.node)) \in Nat
      BY <1>3 DEF States
    <3> QED  BY <3>1, <2>2, <1>2 DEF More
  <2>4. shown[state.node] = 1 .. Len(Refs(state.node))
    BY <2>2, <2>3
  <2>5. \A n \in Nodes : InQueue(n) \/ shown[n] = 1 .. Len(Refs(n))
    BY <2>1, <2>4 DEF RootInv
  <2>6. \A n \in Nodes : shown[n] \subseteq 1 .. Len(Refs(n))
    BY DEF RootInv
  <2> QED  BY <2>1, <2>5, <2>6, <1>2 DEF RootInv, Refs, InQueue
<1>5. CASE /\ node_stack # <<>>
           /\ state' = node_stack[Len(node_stack)]
           /\ node_stack' = SubSeq(node_stack, 1, Len(node_stack) - 1)
  <2>1. Root' = Root
    <3> DEFINE m == Len(node_stack)
    <3>1. m \in Nat /\ m >= 1
      BY <1>3, <1>5
    <3>2. CASE m = 1
      <4>1. SubSeq(node_stack, 1, m - 1) = <<>>
        BY <3>2, <1>3
      <4>2. node_stack' = <<>> /\ state' = node_stack[1]
        BY <4>1, <3>2, <1>5
      <4> QED  BY <4>2, <1>5 DEF Root
    <3>3. CASE m > 1
      <4>1. Len(SubSeq(node_stack, 1, m - 1)) = m - 1 /\ SubSeq(node_stack, 1, m - 1)[1] = node_stack[1]
        BY <3>1, <3>3, <1>3
      <4>2. SubSeq(node_stack, 1, m - 1) # <<>>
        BY <4>1, <3>1, <3>3
      <4>3. node_stack' # <<>> /\ node_stack'[1] = node_stack[1]
        BY <4>1, <4>2, <1>5
      <4> QED  BY <4>3, <1>5 DEF Root
    <3> HIDE DEF m
    <3>4. m = 1 \/ m > 1
      BY <3>1
    <3> QED  BY <3>2, <3>3, <3>4
  <2> QED  BY <2>1, <1>2 DEF RootInv, Refs, InQueue
<1> QED  BY <1>4, <1>5 DEF EndOfReferences

\* With room for one call below the left margin the invariant is inductive.
LEMMA RootsInductive == DisplayInv /\ RootsInv /\ [NextDisplay]_displayVars => RootsInv'
<1> SUFFICES ASSUME DisplayInv, RootsInv, [NextDisplay]_displayVars, display'.max >= 3 PROVE RootInv'
  BY DEF RootsInv
<1>1. display' = display
  BY DEF NextDisplay, DisplayRoot, DisplayChild, PassOver, EndOfReferences, displayVars
<1>2. RootInv /\ display.max >= 3
  BY <1>1 DEF RootsInv
<1>3. CASE NextDisplay
  BY <1>2, <1>3, RootKeepsRoots, ChildKeepsRoots, PassOverKeepsRoots, EndKeepsRoots DEF NextDisplay
<1>4. CASE UNCHANGED displayVars
  BY <1>2, <1>4 DEF displayVars, RootInv, Root, Refs, InQueue
<1> QED  BY <1>3, <1>4

\* Every node of the graph stands at the left margin with all of its
\* references when the display is done, though display_node stops at the limit
\* on the call depth: that limit cuts off only what is below another node.
THEOREM EveryReferenceDisplayed == DisplaySpec => []AllReferencesDisplayed
<1>1. DisplayInv /\ RootsInv => AllReferencesDisplayed
  <2> SUFFICES ASSUME DisplayInv, RootsInv, Done, display.max >= 3, NEW n \in Nodes
               PROVE  shown[n] = 1 .. Len(Refs(n))
    BY DEF AllReferencesDisplayed
  <2>1. RootInv /\ DisplayTypeOK
    BY DEF RootsInv, DisplayInv
  <2>2. Root = None
    BY <2>1, RootIsState DEF Done
  <2>3. ~InQueue(n)
    BY DEF Done, InQueue
  <2> QED  BY <2>1, <2>2, <2>3 DEF RootInv
<1> QED  BY <1>1, InitRoots, RootsInductive, DisplayInvariant, PTL DEF DisplaySpec

===============================================================================
