----------------------------- MODULE ListWalkers ------------------------------
(***************************************************************************)
(* The walks over the lists and trees of a process, each a generator that  *)
(* is resumed for one entry after the other:                               *)
(*   list, coded  list_entry_walker: a ring of LIST_ENTRY through its head; *)
(*                coded, if every link is stored combined with the address *)
(*                it lies at                                               *)
(*   tree         rtl_rb_tree_walker: the nodes below a root               *)
(*   links        rtl_balanced_links_walker: the nodes below a head, which *)
(*                is no entry                                              *)
(*   crt          crt_heap: from the first block until the link is 0; with *)
(*                a base dump its blocks are walked first and leave out    *)
(*                what is the same in both, unless there is nothing to     *)
(*                leave them out of                                        *)
(*   range        dph_heap::walk_list: from a head up to a tail            *)
(* The memory is that of a dump, so that a node may be missing and a link  *)
(* may lead anywhere.  No walk remembers where it has been.                *)
(*                                                                         *)
(* A graph is a record [kind, head, tail, readable, next, left, right],    *)
(* the last three functions from the nodes to words.  What leads to the    *)
(* first node is next[head]: the link in the head of a list, the field     *)
(* Root of a tree, the variable of the CRT, the field of a debug page heap.*)
(* A structure is [graphs, same]: the graphs that are walked one after the *)
(* other, at most a base and its successor, and the CRT blocks that have   *)
(* the same number and size in both.                                       *)
(***************************************************************************)
EXTENDS Integers, Sequences, FiniteSets

CONSTANTS
    Words,          \* of the process: addresses, and 0
    Structures,     \* what is walked
    MaxPending      \* bound on the vector of a tree walk, met in cycles only

VARIABLES
    links,      \* the structure that is walked
    turn,       \* which of its graphs
    state,      \* "start", "walk", "end", "thrown"
    pending,    \* the vector nodes of a tree walk; of a list the address of
                \* the entry that comes next
    visited,    \* the nodes the walk has come by
    again,      \* those it has come by more than once
    filters     \* the blocks of the base dump

walkers == <<links, turn, state, pending, visited, again, filters>>

-------------------------------------------------------------------------------
Bits == 4
Bit(n, k) == (n \div 2^k) % 2

XorTable ==
    [a, b \in 0..(2^Bits - 1) |->
        CHOOSE x \in 0..(2^Bits - 1) :
            \A k \in 0..(Bits - 1) : Bit(x, k) = (Bit(a, k) + Bit(b, k)) % 2]

Xor(a, b) == XorTable[a, b]

(* address_decoder: only the list of the subsegments of the variable size  *)
(* heap has one.                                                           *)
Decode(g, word, parent) == IF g.kind = "coded" THEN Xor(word, parent) ELSE word

Lists == {"list", "coded"}
Stacks == {"tree", "links"}

Unless(hold, n) == IF n \in hold THEN <<>> ELSE <<n>>

(* Of a tree the right child is put on the vector before the left one.     *)
PushChildren(g, n) == Unless({0}, g.right[n]) \o Unless({0}, g.left[n])

(* Slip for After: a list is taken to end with 0.                          *)
SlipAfter(g, n) ==
    CASE g.kind \in Lists -> Unless({0}, Decode(g, g.next[n], n))
      [] g.kind \in Stacks -> PushChildren(g, n)
      [] g.kind = "crt" -> Unless({0}, g.next[n])
      [] g.kind = "range" -> IF n = g.tail THEN <<>> ELSE <<g.next[n]>>

(* What the walk goes on to after a node.                                  *)
After(g, n) ==
    CASE g.kind \in Lists -> Unless({g.head}, Decode(g, g.next[n], n))
      [] g.kind \in Stacks -> PushChildren(g, n)
      [] g.kind = "crt" -> Unless({0}, g.next[n])
      [] g.kind = "range" -> IF n = g.tail THEN <<>> ELSE <<g.next[n]>>

(* Where it begins.  The variable of the CRT is read when the crt_heap is  *)
(* constructed, and counts as 0 if it is not there.                        *)
First(g) ==
    CASE g.kind \in Lists -> Unless({0, g.head}, Decode(g, g.next[g.head], g.head))
      [] g.kind = "tree" -> Unless({0}, g.next[g.head])
      [] g.kind = "links" -> PushChildren(g, g.head)
      [] g.kind = "crt" -> IF g.head \in g.readable THEN Unless({0}, g.next[g.head]) ELSE <<>>
      [] g.kind = "range" -> IF g.tail = 0 THEN <<>> ELSE Unless({0}, g.next[g.head])

FirstThrows(g) == g.kind # "crt" /\ g.head \notin g.readable

(* get_field_pointer takes a stored 0 for an error: only the first link of *)
(* a list, those of trees and those of the CRT are read as they are.  The  *)
(* next_alloc_address of a debug page heap is read without a check too.    *)
AfterThrows(g, n) ==
    \/ n \notin g.readable
    \/ g.kind \in Lists /\ g.next[n] = 0

(* The entries of the CRT and of the lists of the debug page heap read     *)
(* their fields when they are constructed, before they are delivered.      *)
ReadFirst(g) == g.kind \in {"crt", "range"}

-------------------------------------------------------------------------------
Graph == links.graphs[turn]

Last == turn = Len(links.graphs)

(* is_using_crt_heap: the blocks of a base dump are not asked for if the   *)
(* dump that is compared with it has none.                                 *)
Unused == ~Last /\ First(links.graphs[Len(links.graphs)]) = <<>>

StartUnused ==
    /\ state = "start"
    /\ Unused
    /\ state' = "end"
    /\ turn' = Len(links.graphs)
    /\ UNCHANGED <<links, pending, visited, again, filters>>

(* The walk of a base dump ends in that of the dump itself.                *)
Finish ==
    /\ state' = IF Last THEN "end" ELSE "start"
    /\ turn' = IF Last THEN turn ELSE turn + 1
    /\ filters' = IF Last THEN filters ELSE visited
    /\ visited' = IF Last THEN visited ELSE {}

Start ==
    /\ state = "start"
    /\ ~Unused
    /\ ~FirstThrows(Graph)
    /\ First(Graph) # <<>>
    /\ state' = "walk"
    /\ pending' = First(Graph)
    /\ UNCHANGED <<links, turn, visited, again, filters>>

StartEmpty ==
    /\ state = "start"
    /\ ~Unused
    /\ ~FirstThrows(Graph)
    /\ First(Graph) = <<>>
    /\ Finish
    /\ UNCHANGED <<links, pending, again>>

StartThrows ==
    /\ state = "start"
    /\ FirstThrows(Graph)
    /\ state' = "thrown"
    /\ UNCHANGED <<links, turn, pending, visited, again, filters>>

Node == pending[Len(pending)]

Rest == SubSeq(pending, 1, Len(pending) - 1)

Visit(n) ==
    /\ visited' = visited \union {n}
    /\ again' = IF n \in visited THEN again \union {n} ELSE again

(* Slip for Step: what was pending is forgotten for the children.          *)
SlipStep ==
    /\ state = "walk"
    /\ pending # <<>>
    /\ ~AfterThrows(Graph, Node)
    /\ Len(pending) <= MaxPending
    /\ Visit(Node)
    /\ pending' = IF After(Graph, Node) = <<>> THEN Rest ELSE After(Graph, Node)
    /\ UNCHANGED <<links, turn, state, filters>>

(* The generator delivers the node and is resumed.                         *)
Step ==
    /\ state = "walk"
    /\ pending # <<>>
    /\ ~AfterThrows(Graph, Node)
    /\ Len(pending) <= MaxPending
    /\ Visit(Node)
    /\ pending' = Rest \o After(Graph, Node)
    /\ UNCHANGED <<links, turn, state, filters>>

StepThrows ==
    /\ state = "walk"
    /\ pending # <<>>
    /\ AfterThrows(Graph, Node)
    /\ IF ReadFirst(Graph) THEN UNCHANGED <<visited, again>> ELSE Visit(Node)
    /\ state' = "thrown"
    /\ UNCHANGED <<links, turn, pending, filters>>

End ==
    /\ state = "walk"
    /\ pending = <<>>
    /\ Finish
    /\ UNCHANGED <<links, pending, again>>

Init ==
    /\ links \in Structures
    /\ turn = 1
    /\ state = "start"
    /\ pending = <<>>
    /\ visited = {}
    /\ again = {}
    /\ filters = {}

Next == Start \/ StartEmpty \/ StartUnused \/ StartThrows \/ Step \/ StepThrows \/ End

Spec == Init /\ [][Next]_walkers /\ WF_walkers(Next)

(* crt_entry::operator== and is_filtered.                                  *)
IsFiltered(n) == n \in filters /\ n \in links.same

Delivered == {n \in visited : ~IsFiltered(n)}

-------------------------------------------------------------------------------
(* What is there: the nodes a node links to, and those that the head does. *)
LinksOf(g, n) ==
    CASE g.kind \in Lists -> {Decode(g, g.next[n], n)} \ {g.head}
      [] g.kind \in Stacks -> {g.left[n], g.right[n]} \ {0}
      [] g.kind = "crt" -> {g.next[n]} \ {0}
      [] g.kind = "range" -> {g.next[n] : m \in {n} \ {g.tail}}

LinksOfHead(g) ==
    CASE g.kind = "links" -> LinksOf(g, g.head)
      [] g.kind \in Lists -> LinksOf(g, g.head) \ {0}
      [] g.kind = "crt" /\ g.head \notin g.readable -> {}
      [] g.kind = "range" /\ g.tail = 0 -> {}
      [] OTHER -> {g.next[g.head]} \ {0}

(* The nodes that can be come by from those in A.                          *)
Closed(g, S) == \A n \in S : LinksOf(g, n) \subseteq S

Enclosing(g, A) == {S \in SUBSET Words : A \subseteq S /\ Closed(g, S)}

Reach(g, A) == LET enclosing == Enclosing(g, A) IN {n \in Words : \A S \in enclosing : n \in S}

Reachable(g) == Reach(g, LinksOfHead(g))

(* A walk that comes to its end has delivered every entry there is, and no *)
(* walk delivers what its structure does not lead to; of the blocks of the *)
(* CRT exactly those are left out that the base dump has as well.          *)
NothingMissed ==
    /\ visited # {} => visited \subseteq Reachable(Graph)
    /\ state = "end" /\ turn = 1 => Delivered = Reachable(Graph)
    /\ state = "end" /\ turn > 1 =>
        Delivered = Reachable(Graph) \ (links.same \cap Reachable(links.graphs[1]))

(* No node is come by on two ways.                                         *)
Twins(g, n) == g.kind \in Stacks /\ g.left[n] = g.right[n] /\ g.left[n] # 0

OneWayIn(g) ==
    /\ g.kind # "links" \/ ~Twins(g, g.head)
    /\ LET reachable == Reachable(g) IN
       \A m \in reachable :
        /\ ~Twins(g, m)
        /\ LinksOf(g, m) \cap LinksOfHead(g) = {}
        /\ \A n \in reachable \ {m} : LinksOf(g, m) \cap LinksOf(g, n) = {}

(* No entry is delivered twice unless two links lead to it.                *)
NoneTwice == again = {} \/ \E k \in DOMAIN links.graphs : ~OneWayIn(links.graphs[k])

(* What the readers of the heaps rely on when they add what a walk         *)
(* delivers: each entry comes, and comes once.                             *)
EachDeliveredOnce == NothingMissed /\ NoneTwice

(* What the walks are given: a graph, or the CRT lists of two dumps, whose *)
(* links lead to words of the process.                                     *)
Kinds == Lists \union Stacks \union {"crt", "range"}

IsGraph(g) ==
    /\ g.kind \in Kinds
    /\ LinksOfHead(g) \subseteq Words
    /\ \A n \in Words : LinksOf(g, n) \subseteq Words

ASSUME StructuresAreGraphs ==
    \A s \in Structures :
        /\ s.graphs \in Seq({s.graphs[k] : k \in DOMAIN s.graphs})
        /\ Len(s.graphs) = 1 \/ (Len(s.graphs) = 2 /\ \A k \in {1, 2} : s.graphs[k].kind = "crt")
        /\ \A k \in DOMAIN s.graphs : IsGraph(s.graphs[k])

Stopped == state \in {"end", "thrown"}

Cyclic(g) == \E n \in Reachable(g) : n \in Reach(g, LinksOf(g, n))

Sound(g) == ~FirstThrows(g) /\ \A n \in Reachable(g) : ~AfterThrows(g, n)

(* The graphs that are come to: of a base dump if its blocks are needed.   *)
Walked ==
    LET own == Len(links.graphs) IN
    {k \in DOMAIN links.graphs : k = own \/ LinksOfHead(links.graphs[own]) # {}}

(* A walk stops, unless links lead into a cycle that misses the head or    *)
(* the tail; then it never does, as long as all of it can be read.  With a *)
(* base dump a cycle in either list holds up both, but for a dump that has *)
(* no blocks of its own: it does not touch the list of the base.           *)
StopsUnlessCyclic ==
    /\ (\A k \in Walked : ~Cyclic(links.graphs[k])) => <>Stopped
    /\ ((\A k \in Walked : Sound(links.graphs[k]))
          /\ (\E k \in Walked : Cyclic(links.graphs[k]))) => []~Stopped
===============================================================================
