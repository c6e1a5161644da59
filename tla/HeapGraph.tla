------------------------------- MODULE HeapGraph -------------------------------
(***************************************************************************)
(* process_heap_graph::generate_graph: the graph of which allocation,      *)
(* global variable, register or stack points to which allocation, and the  *)
(* removal of what belongs to the system.                                  *)
(*                                                                         *)
(* A scene is what one dump shows to the generator:                        *)
(*   allocations  process_heaps::entries(), a sequence of                  *)
(*                [first, size, check, metadata, area, cells]: the user    *)
(*                data, the ranges of contains_address_range and           *)
(*                contains_metadata_address_range, whether a system area   *)
(*                address lies in it, and what it points to                *)
(*   globals      the global variables: [first, size, cells, system,       *)
(*                filtered] (in a system module; of a filtered type)       *)
(*   thread       [teb, pointers, registers, stacks]                       *)
(*   crt          the blocks in the debug CRT's list, [first, size]        *)
(*   heaps        the structures of the heaps: [address, user, pointers,   *)
(*                blocks]; a block is [address, subsegment]                *)
(*   options      the options that are set                                 *)
(* Cells are the pointers stored in some memory: [at, data].  A read that  *)
(* does not start at a cell yields no address of the dump.  A pointer of a *)
(* structure is [base, offset]: the structure it is found in and where.    *)
(***************************************************************************)
EXTENDS HeapRanges, Sequences, FiniteSets

CONSTANTS
    Scenes,         \* the dumps
    PointerSize     \* of the target machine

IsSequence(s) == s \in Seq({s[i] : i \in DOMAIN s})

ASSUME ScenesAssumption ==
    \A s \in Scenes :
        /\ IsSequence(s.allocations) /\ IsSequence(s.globals) /\ IsSequence(s.crt) /\ IsSequence(s.heaps)
        /\ IsSequence(s.thread.pointers) /\ IsSequence(s.thread.registers) /\ IsSequence(s.thread.stacks)
        /\ \A k \in DOMAIN s.heaps : IsSequence(s.heaps[k].pointers) /\ IsSequence(s.heaps[k].blocks)

StructurePointers(s) ==
    {s.thread.pointers[k] : k \in DOMAIN s.thread.pointers} \union
    UNION {{s.heaps[h].pointers[k] : k \in DOMAIN s.heaps[h].pointers} : h \in DOMAIN s.heaps}

(* How a dump is laid out.  The list of allocations is as add_heap_entry   *)
(* makes it, apart (see EntriesApart of HeapEntryMap), and so is the list  *)
(* of the debug CRT, whose blocks begin with their header and end behind   *)
(* the gap.  A structure of the system that has a pointer in an allocation *)
(* lies in its user data.  A variable is of one type.                      *)
ASSUME LayoutAssumption ==
    \A s \in Scenes :
        /\ \A i \in DOMAIN s.allocations :
              LET a == s.allocations[i] IN
              /\ a.first \in Nat /\ a.size \in Nat /\ a.check.first \in Nat
              /\ \A j \in DOMAIN s.allocations : i = j \/ Apart(a, s.allocations[j])
              /\ \A p \in StructurePointers(s) :
                    \/ ~ContainsAddress(a.check, p.base + p.offset)
                    \/ \A x \in {p.base, p.base + p.offset} :
                          a.first <= x /\ x <= LastAddress(a) /\ ContainsAddress(a.check, x)
              /\ \A k \in DOMAIN s.crt : Contains(s.crt[k], a) =>
                    s.crt[k].first <= a.check.first /\ LastAddress(a) <= LastAddress(s.crt[k])
        /\ \A k \in DOMAIN s.crt :
              /\ s.crt[k].first \in Nat /\ s.crt[k].size \in Nat
              /\ \A l \in DOMAIN s.crt : s.crt[k] = s.crt[l] \/ Apart(s.crt[k], s.crt[l])
        /\ \A p \in StructurePointers(s) : p.base \in Nat /\ p.offset \in Nat
        /\ \A h \in DOMAIN s.heaps : \A k \in DOMAIN s.heaps[h].blocks : s.heaps[h].blocks[k].address \in Nat
        /\ \A g, h \in DOMAIN s.globals :
              s.globals[g].first = s.globals[h].first => s.globals[g].filtered = s.globals[h].filtered

VARIABLES
    scene,
    stage,          \* the step of generate_graph that is next
    work,           \* stage "collect": what is left to collect, part by part
    nodes,          \* nodes_, by get_next_process_heap_graph_node_index
    ignored,        \* ignore_pointers
    cursor,         \* stages "link" and "gather": the loop is to go on from here
    default_other,  \* default_mark_as_other_node
    again,          \* node_to_process
    result_cache,
    failed          \* an exception left generate_graph

vars == <<scene, stage, work, nodes, ignored, cursor, default_other, again,
          result_cache, failed>>

-------------------------------------------------------------------------------
Allocations == scene.allocations

(* The node that lower_bound in heap_entries leads to, as a set.  The heap *)
(* nodes come first in nodes_, in the order of the allocations.            *)
NodeFor(address) ==
    {i \in DOMAIN Allocations :
        /\ LastAddress(Allocations[i]) >= address
        /\ \A j \in DOMAIN Allocations : LastAddress(Allocations[j]) >= address
              => LastAddress(Allocations[i]) <= LastAddress(Allocations[j])}

Owner(address) ==
    {i \in NodeFor(address) : ContainsAddress(Allocations[i].check, address)}

MetadataOwner(address) ==
    {i \in NodeFor(address) : ContainsAddress(Allocations[i].metadata, address)} \ Owner(address)

(* is_crt_entry.                                                           *)
IsCrtEntry(address) ==
    \E c \in LowerBound({scene.crt[i] : i \in DOMAIN scene.crt}, address) : c.first <= address

(* What generate_allocation_references, generate_global_variable_-         *)
(* references, generate_thread_context_references and                      *)
(* generate_heap_metadata_symbol_references go through, in their order.    *)
Symbol(address, mark, user) == [op |-> "symbol", address |-> address, mark |-> mark, user |-> user]
PointerOf(p) == [op |-> "pointer", base |-> p.base, offset |-> p.offset]
ForEach(seq, Op(_)) == [i \in DOMAIN seq |-> Op(seq[i])]

GlobalOperations(s) ==
    ForEach(s.globals, LAMBDA g : [op |-> "global", variable |-> g])

ThreadOperations(s) ==
    <<Symbol(s.thread.teb, TRUE, FALSE)>>
        \o ForEach(s.thread.pointers, PointerOf)
        \o ForEach(s.thread.registers, LAMBDA r : [op |-> "register", data |-> r])
        \o ForEach(s.thread.stacks, LAMBDA t : [op |-> "stack", stack |-> t])

CrtOperations(s) == ForEach(s.crt, LAMBDA c : Symbol(c.first, FALSE, FALSE))

HeapOperations(h) ==
    <<Symbol(h.address, TRUE, h.user)>>
        \o ForEach(h.pointers, PointerOf)
        \o ForEach(h.blocks, LAMBDA b : [op |-> "block", block |-> b])

Parts(s) ==
    <<GlobalOperations(s), ThreadOperations(s), CrtOperations(s)>> \o ForEach(s.heaps, HeapOperations)

-------------------------------------------------------------------------------
(* A new node.  Nodes are only ever appended and removed, so the order of  *)
(* their indices is their order in nodes_; index is 0 outside of nodes_.   *)
Node(kind, type, index, system, first, size, cells) ==
    [kind |-> kind, type |-> type, index |-> index, is_system |-> system,
     can_contain_user_pointers |-> FALSE,
     first |-> first, size |-> size, cells |-> cells,
     variables |-> {}, to |-> {}, from |-> {}]

AllocationNodes(s) ==
    [i \in DOMAIN s.allocations |->
        LET a == s.allocations[i] IN
        Node("heap", IF a.area THEN "system_allocation" ELSE "allocation",
             i, FALSE, a.first, a.size, a.cells)]

AddNode(kind, system, first, size, cells) ==
    nodes' = Append(nodes, Node(kind, "root", Len(nodes) + 1, system, first, size, cells))

SymbolNode(address) ==
    {i \in DOMAIN nodes : nodes[i].kind = "symbol" /\ nodes[i].first = address}

(* mark_as_system_allocation of the heap nodes at the given places.        *)
Marked(ns, places) ==
    [i \in DOMAIN ns |->
        IF i \in places THEN [ns[i] EXCEPT !.type = "system_allocation"] ELSE ns[i]]

InitGraph ==
    /\ scene \in Scenes
    /\ stage = "collect"
    /\ work = Parts(scene)
    /\ nodes = AllocationNodes(scene)
    /\ ignored = {}
    /\ cursor = 1
    /\ default_other = FALSE
    /\ again = FALSE
    /\ result_cache = <<>>
    /\ failed = FALSE

(* generate_global_variable_references.  The allocation that is marked if  *)
(* the variable starts in one is a copy of the node.                       *)
CollectGlobal(g) ==
    /\ AddNode("global", g.system, g.first, g.size, g.cells)
    /\ UNCHANGED ignored

(* generate_thread_context_reference.                                      *)
CollectRegister(data) ==
    /\ \/ data = 0 /\ UNCHANGED nodes
       \/ data # 0 /\ AddNode("context", FALSE, 0, PointerSize, {[at |-> 0, data |-> data]})
    /\ UNCHANGED ignored

(* generate_thread_stack_references.                                       *)
CollectStack(t) ==
    /\ AddNode("stack", FALSE, 0, t.size, t.cells)
    /\ UNCHANGED ignored

(* add_symbol_reference.  can_contain_user_pointers is set on a copy if    *)
(* the structure becomes a node of its own.                                *)
CollectSymbol(o) ==
    /\ \/ /\ Owner(o.address) # {}
          /\ nodes' = [i \in DOMAIN nodes |->
                 IF i \notin Owner(o.address) THEN nodes[i]
                 ELSE [nodes[i] EXCEPT
                         !.type = IF o.mark THEN "system_allocation" ELSE @,
                         !.can_contain_user_pointers = @ \/ o.user]]
       \/ /\ Owner(o.address) = {}
          /\ MetadataOwner(o.address) # {}
          /\ UNCHANGED nodes
       \/ /\ Owner(o.address) = {}
          /\ MetadataOwner(o.address) = {}
          /\ AddNode("symbol", o.mark, o.address, PointerSize, {[at |-> 0, data |-> o.address]})
    /\ UNCHANGED ignored

(* Slip for PointerNode: the range of the node is not tested.              *)
SlipPointerNodeNearest(o) == NodeFor(o.base)

(* generate_pointer_symbol_reference, always called with mark_as_system:   *)
(* the node is looked for by the address of the structure, the pointer     *)
(* itself has to lie in it.                                                *)
PointerNode(o) ==
    {i \in NodeFor(o.base) : ContainsAddress(Allocations[i].check, o.base + o.offset)}
PointerMetadata(o) ==
    {i \in NodeFor(o.base) : ContainsAddress(Allocations[i].metadata, o.base + o.offset)}
        \ PointerNode(o)

CollectPointer(o) ==
    LET location == o.base + o.offset
        places == IF PointerNode(o) # {} THEN PointerNode(o) ELSE PointerMetadata(o)
        WithVariable(ns, p) ==
            [i \in DOMAIN ns |-> IF i \in p THEN [ns[i] EXCEPT !.variables = @ \union {location}]
                                            ELSE ns[i]]
    IN
    \/ /\ location \in ignored
       /\ UNCHANGED <<nodes, ignored>>
    \/ /\ location \notin ignored
       /\ ignored' = ignored \union {location}
       /\ \/ /\ places # {}
             /\ nodes' = Marked(WithVariable(nodes, places), PointerNode(o))
          \/ /\ places = {}
             /\ SymbolNode(o.base) = {}
             /\ nodes' = Append(nodes,
                    [Node("symbol", "root", Len(nodes) + 1, TRUE, o.base, PointerSize,
                          {[at |-> 0, data |-> o.base]}) EXCEPT !.variables = {location}])
          \/ /\ places = {}
             /\ SymbolNode(o.base) # {}
             /\ LET first == CHOOSE i \in SymbolNode(o.base) :
                                 \A j \in SymbolNode(o.base) : i <= j IN
                nodes' = [WithVariable(nodes, {first}) EXCEPT ![first].is_system = TRUE]

(* mark_all_non_crt_entries_as_system and its likes: only with a debug     *)
(* CRT, and not for its blocks.  A back end subsegment always goes.        *)
MarksBlocks == scene.crt # <<>> /\ "no_mark_all_crt_entries" \notin scene.options
Foreign(b) == b.subsegment \/ ~IsCrtEntry(b.address)

CollectBlock(b) ==
    /\ \/ MarksBlocks /\ Foreign(b) /\ nodes' = Marked(nodes, Owner(b.address))
       \/ ~(MarksBlocks /\ Foreign(b)) /\ UNCHANGED nodes
    /\ UNCHANGED ignored

Collect ==
    /\ stage = "collect"
    /\ work # <<>> /\ Head(work) # <<>>
    /\ work' = <<Tail(Head(work))>> \o Tail(work)
    /\ LET o == Head(Head(work)) IN
       \/ o.op = "global" /\ CollectGlobal(o.variable)
       \/ o.op = "register" /\ CollectRegister(o.data)
       \/ o.op = "stack" /\ CollectStack(o.stack)
       \/ o.op = "symbol" /\ CollectSymbol(o)
       \/ o.op = "pointer" /\ CollectPointer(o)
       \/ o.op = "block" /\ CollectBlock(o.block)
    /\ UNCHANGED <<scene, stage, cursor, default_other, again, result_cache, failed>>

(* The next of the functions, or the next heap.                            *)
NextPart ==
    /\ stage = "collect"
    /\ work # <<>> /\ Head(work) = <<>>
    /\ work' = Tail(work)
    /\ UNCHANGED <<scene, stage, nodes, ignored, cursor, default_other, again, result_cache, failed>>

StartLinking ==
    /\ stage = "collect"
    /\ work = <<>>
    /\ stage' = "link"
    /\ UNCHANGED <<scene, work, nodes, ignored, cursor, default_other, again, result_cache, failed>>

-------------------------------------------------------------------------------
(* mini_dump_memory_stream::find_pattern with process_entry_reference as   *)
(* its check: what a node is found to point to.  place is the byte that is *)
(* read; index counts the reads, and is what the check is given as the     *)
(* offset.  A hit goes on one byte behind the pointer.                     *)
Data(cells, place) == {c.data : c \in {d \in cells : d.at = place}}

(* find_symbol_variable_reference: a pointer variable of the structure     *)
(* that lies elsewhere over the address rules a hit out.                   *)
Overlapped(n, address) ==
    /\ \E v \in n.variables : v <= address /\ address < v + PointerSize
    /\ address \notin n.variables

Targets(n, place, index) ==
    {i \in UNION {Owner(d) : d \in Data(n.cells, place)} :
        /\ i # n.index
        /\ ~Overlapped(n, n.first + index)}

Hits(n) ==
    {r \in [place : 0..n.size, index : 0..n.size] : Targets(n, r.place, r.index) # {}}

ReadsOf(size, hits) ==
    LET From[place \in 0..size + PointerSize + 1, index \in 0..size] ==
            LET read == [place |-> place, index |-> index] IN
            IF place + PointerSize > size THEN {}
            ELSE {read} \union
                 IF read \notin hits THEN From[place + 1, index + 1]
                 ELSE From[place + 1 + PointerSize, index + 1]
    IN  From[0, 0]

Reads(n) == ReadsOf(n.size, Hits(n))

Links(n) ==
    UNION {{[offset |-> r.index, data |-> d, node |-> i] :
               d \in Data(n.cells, r.place), i \in Targets(n, r.place, r.index)} : r \in Reads(n)}

(* is_system_global_variable.                                              *)
MarksTargets(n) ==
    /\ n.kind = "global"
    /\ n.is_system
    /\ "no_mark_global_variable_data_pointers" \notin scene.options
    /\ \A g \in DOMAIN scene.globals :
          scene.globals[g].first = n.first => ~scene.globals[g].filtered

(* generate_references, for one node.                                      *)
(* A reference as it is written down at its other end.                     *)
Back(r, i) == [offset |-> r.offset, data |-> r.data, node |-> i]
From(links, i, source) == {Back(l, source) : l \in {k \in links : k.node = i}}

LinkNode ==
    /\ stage = "link"
    /\ cursor \in DOMAIN nodes
    /\ cursor' = cursor + 1
    /\ LET links == Links(nodes[cursor])
           linked == [i \in DOMAIN nodes |->
               [nodes[i] EXCEPT !.to = IF i = cursor THEN links ELSE @,
                                !.from = @ \union From(links, i, cursor)]]
       IN  nodes' = IF MarksTargets(nodes[cursor])
                    THEN Marked(linked, {l.node : l \in links}) ELSE linked
    /\ UNCHANGED <<scene, stage, work, ignored, default_other, again, result_cache, failed>>

(* remove_all_non_allocation_with_empty_to_references.                     *)
Kept(n) == n.type # "root" \/ n.to # {}

Prune ==
    /\ stage = "link"
    /\ cursor \notin DOMAIN nodes
    /\ nodes' = [i \in {j \in DOMAIN nodes : Kept(nodes[j])} |-> nodes[i]]
    /\ stage' = "gather"
    /\ cursor' = 1
    /\ UNCHANGED <<scene, work, ignored, default_other, again, result_cache, failed>>

-------------------------------------------------------------------------------
(* The loop of pass one has come to the end of nodes_.                     *)
AllVisited == \A i \in DOMAIN nodes : i < cursor

Cached == DOMAIN result_cache

(* get_node_type of a node that is not in result_cache.  Of the references *)
(* of an allocation only those to nodes already in the cache are followed. *)
SystemTarget(n) == \E r \in n.to : r.node \in Cached /\ result_cache[r.node]
Postponed(n) == ~default_other /\ \E r \in n.to : r.node \notin Cached

(* Slip for NodeType: an unknown target always postpones the decision.     *)
SlipNodeTypePostpones(n) ==
    IF n.is_system THEN "system_node"
    ELSE IF n.kind # "heap" \/ n.can_contain_user_pointers THEN "other_node"
    ELSE IF SystemTarget(n) THEN "system_node"
    ELSE IF \E r \in n.to : r.node \notin Cached THEN "requires_other_node_processing"
    ELSE "other_node"

NodeType(n) ==
    IF n.is_system THEN "system_node"
    ELSE IF n.kind # "heap" \/ n.can_contain_user_pointers THEN "other_node"
    ELSE IF SystemTarget(n) THEN "system_node"
    ELSE IF Postponed(n) THEN "requires_other_node_processing"
    ELSE "other_node"

(* get_node_from_index throws.                                             *)
Unknown(n) ==
    /\ n.kind = "heap" /\ ~n.is_system /\ ~n.can_contain_user_pointers
    /\ \E r \in n.to : r.node \in Cached \ DOMAIN nodes

(* Pass one of find_and_mark_system_nodes, for one node.                   *)
Gather(i) ==
    /\ stage = "gather"
    /\ i >= cursor
    /\ \A j \in DOMAIN nodes : j >= cursor => i <= j
    /\ cursor' = i + 1
    /\ LET type == NodeType(nodes[i]) IN
       \/ i \in Cached /\ UNCHANGED <<result_cache, again, failed>>
       \/ /\ i \notin Cached
          /\ type = "requires_other_node_processing"
          /\ again' = TRUE
          /\ failed' = Unknown(nodes[i])
          /\ UNCHANGED result_cache
       \/ /\ i \notin Cached
          /\ type # "requires_other_node_processing"
          /\ result_cache' = [j \in Cached \union {i} |->
                                IF j = i THEN type = "system_node" ELSE result_cache[j]]
          /\ failed' = Unknown(nodes[i])
          /\ UNCHANGED again
    /\ UNCHANGED <<scene, stage, work, nodes, ignored, default_other>>

GatherAgain ==
    /\ stage = "gather"
    /\ AllVisited
    /\ again
    /\ again' = FALSE
    /\ cursor' = 1
    /\ default_other' = TRUE
    /\ UNCHANGED <<scene, stage, work, nodes, ignored, result_cache, failed>>

(* Pass two: a node somebody points to becomes a system allocation.        *)
MarkedHere(n) == n.from # {} /\ n.type # "system_allocation"

MarkGathered ==
    /\ stage = "gather"
    /\ AllVisited
    /\ ~again
    /\ LET marked == {i \in DOMAIN nodes : result_cache[i] /\ MarkedHere(nodes[i])} IN
       /\ failed' = (\E i \in marked : nodes[i].type = "root")
       /\ nodes' = [i \in DOMAIN nodes |->
              [Marked(nodes, marked)[i] EXCEPT !.is_system = @ \/ result_cache[i]]]
    /\ stage' = IF "no_filter_heap_entries" \in scene.options THEN "done" ELSE "remove"
    /\ UNCHANGED <<scene, work, ignored, cursor, default_other, again, result_cache>>

Removable(n) == n.type = "system_allocation" \/ n.is_system

(* Slip for RemoveSystem: the predicate does not write to result_cache.    *)
SlipRemoveGathered ==
    /\ stage = "remove"
    /\ UNCHANGED result_cache
    /\ LET Without(refs) == {r \in refs : r.node \notin {i \in Cached : result_cache[i]}} IN
       nodes' = [i \in {j \in DOMAIN nodes : ~Removable(nodes[j])} |->
                    [nodes[i] EXCEPT !.to = Without(@), !.from = Without(@)]]
    /\ stage' = "done"
    /\ UNCHANGED <<scene, work, ignored, cursor, default_other, again, failed>>

(* remove_all_system_nodes.  The predicate of remove_if enters what it     *)
(* removes into result_cache, from where the references are cleared.       *)
RemoveSystem ==
    /\ stage = "remove"
    /\ result_cache' =
          [i \in Cached \union DOMAIN nodes |->
              \/ i \in DOMAIN nodes /\ Removable(nodes[i])
              \/ i \in Cached /\ result_cache[i]]
    /\ LET Without(refs) ==
               {r \in refs : ~(r.node \in DOMAIN result_cache' /\ result_cache'[r.node])} IN
       nodes' = [i \in {j \in DOMAIN nodes : ~Removable(nodes[j])} |->
                    [nodes[i] EXCEPT !.to = Without(@), !.from = Without(@)]]
    /\ stage' = "done"
    /\ UNCHANGED <<scene, work, ignored, cursor, default_other, again, failed>>

NextGraph ==
    /\ ~failed
    /\ \/ Collect \/ NextPart \/ StartLinking \/ LinkNode \/ Prune
       \/ (\E i \in DOMAIN nodes : Gather(i)) \/ GatherAgain
       \/ MarkGathered \/ RemoveSystem

GraphSpec == InitGraph /\ [][NextGraph]_vars /\ WF_vars(NextGraph)
-------------------------------------------------------------------------------
(* The type invariant.                                                     *)
GraphTypeOK ==
    /\ scene \in Scenes
    /\ stage \in {"collect", "link", "gather", "remove", "done"}
    /\ cursor \in Nat
    /\ \A i \in DOMAIN nodes :
          /\ i \in Nat \ {0}
          /\ DOMAIN nodes[i] = {"kind", "type", "index", "is_system", "can_contain_user_pointers",
                                "first", "size", "cells", "variables", "to", "from"}

(* A reference always leads to a node of the graph that has the same       *)
(* reference from the other side, also after the removal of nodes.  The    *)
(* display of the graph looks nodes up by these indices and throws if one  *)
(* is missing.                                                             *)
Paired(i, r, back) ==
    r.node \in DOMAIN nodes /\ Back(r, i) \in back

ReferencesPaired ==
    \A i \in DOMAIN nodes :
        /\ \A r \in nodes[i].to : Paired(i, r, nodes[r.node].from)
        /\ \A r \in nodes[i].from : Paired(i, r, nodes[r.node].to)

(* "graph node type not allocation" and "Graph Allocation Nodes does not   *)
(* contain node index" are never thrown.                                   *)
GraphNeverThrows == ~failed

(* At every stage of generate_graph the indices in the nodes can be        *)
(* followed: no lookup by one of them throws, here or in the display.      *)
GraphSound == ReferencesPaired /\ GraphNeverThrows

(* What makes an allocation one of the system's, read off the dump.        *)
Structures == {[first |-> scene.thread.teb]} \union
              {[first |-> scene.heaps[h].address] : h \in DOMAIN scene.heaps}
Pointers == StructurePointers(scene)
Blocks == UNION {{scene.heaps[h].blocks[k] : k \in DOMAIN scene.heaps[h].blocks} :
                    h \in DOMAIN scene.heaps}

(* What a global variable points to; its node comes behind those of the    *)
(* allocations.                                                            *)
GlobalTargets(k) ==
    LET g == scene.globals[k] IN
    {l.node : l \in Links(Node("global", "root", Len(Allocations) + k, g.system, g.first, g.size, g.cells))}

HeldBySystem(i) ==
    \/ Allocations[i].area
    \/ \E s \in Structures : i \in Owner(s.first)
    \/ \E p \in Pointers : i \in Owner(p.base) /\ i \in Owner(p.base + p.offset)
    \/ /\ "no_mark_global_variable_data_pointers" \notin scene.options
       /\ \E k \in DOMAIN scene.globals :
             scene.globals[k].system /\ ~scene.globals[k].filtered /\ i \in GlobalTargets(k)

Shown == {i \in DOMAIN nodes : nodes[i].kind = "heap"}

(* The filter takes out what the system holds, and the blocks of the heaps *)
(* that the debug CRT does not know, and nothing else, although marks are  *)
(* set in four passes and read by a fifth one through a cache of its own.  *)
FilterExact ==
    stage = "done" /\ "no_filter_heap_entries" \notin scene.options =>
        Shown = {i \in DOMAIN Allocations :
                    ~HeldBySystem(i) /\ ~\E b \in Blocks :
                        MarksBlocks /\ Foreign(b) /\ i \in Owner(b.address)}

(* An allocation the program made through the debug CRT stays in the graph *)
(* and is not marked, unless something of the system points to it or lies  *)
(* in it: this is what the test program asserts of its own allocations.    *)
OfCrt(i) == \E k \in DOMAIN scene.crt : Contains(scene.crt[k], Allocations[i])
InSubsegment(i) == \E b \in Blocks : b.subsegment /\ i \in Owner(b.address)
CrtAllocationsKept ==
    stage = "done" =>
        \A i \in DOMAIN Allocations :
            OfCrt(i) /\ ~HeldBySystem(i) /\ ~InSubsegment(i) =>
                i \in DOMAIN nodes /\ nodes[i].type = "allocation"

(* What the graph shows is the program's own: nothing of the system is     *)
(* left in it, nothing of the program is taken out of it or marked.        *)
MarksRight == FilterExact /\ CrtAllocationsKept

(* generate_graph comes to its end: the second pass over the nodes decides *)
(* whatever the first one postponed, also where allocations point to each  *)
(* other in a cycle.                                                       *)
GraphFinishes == <>(stage = "done")
===============================================================================
