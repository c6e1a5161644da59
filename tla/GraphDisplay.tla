---------------------------- MODULE GraphDisplay ----------------------------
(***************************************************************************)
(* The display of an allocation graph (MiniDumper,                         *)
(* dump_mini_dump_heap_graph.cpp).  Every node is displayed in turn, and   *)
(* under it, recursively, the nodes it points to.  A node is descended     *)
(* into once over the whole display ("already logged children") and never  *)
(* below itself ("cycle end"); below the first level at most "limit"       *)
(* references of a node are displayed.                                     *)
(*                                                                         *)
(* The recursion of display_node and continue_display_node keeps the state *)
(* of every node being displayed in node_stack, so that at the limit on    *)
(* the call depth all calls return and generate_display_node_and_print     *)
(* takes the display up again from the stack.  "depth" is call_depth: how  *)
(* many of the states on the stack have a call of their own.               *)
(***************************************************************************)
EXTENDS Naturals, Sequences, FiniteSets

CONSTANTS
    Nodes,      \* the node indexes of the graph
    Displays,   \* graphs and options
    None        \* no state being displayed; no line printed

\* node_display_state
States == [node : Nodes, print_offset : Nat, print_max_size : Nat, parents : SUBSET Nodes]

\* References lead to nodes of the graph, which is what process_heap_graph
\* leaves behind (HeapGraph, GraphNeverThrows), and the order in which the
\* nodes are displayed is a permutation of all of them: it comes from sorting.
IsScene(s) ==
    /\ DOMAIN s.refs = Nodes
    /\ \A n \in Nodes : s.refs[n] \in Seq(Nodes)
    /\ s.order \in Seq(Nodes)
    /\ \A n \in Nodes : \E i \in 1 .. Len(s.order) : s.order[i] = n
    /\ s.limit \in Nat
    /\ s.max \in Nat

ASSUME DisplayAssumption ==
    /\ IsFiniteSet(Nodes)
    /\ None \notin States
    /\ \A s \in Displays : IsScene(s)

VARIABLES
    display,    \* refs: to_references by offset; kind: alternative of the variant; order;
                \* limit: display_heap_graph_to_reference_limit; max: graph_display_max_call_depth
    queue,      \* the nodes still to display
    printed,    \* printed_nodes
    node_stack,
    state,      \* the state continue_display_node works on
    depth,      \* call_depth
    line,       \* the last line printed for a reference
    expanded,   \* history: how often a node was descended into from another
    started,    \* history: the nodes whose references were begun
    shown,      \* history: the references of each node that were displayed
    lost        \* history: a reference was passed over

displayVars == <<display, queue, printed, node_stack, state, depth, line, expanded, started, shown, lost>>

Refs(n) == display.refs[n]

InitDisplay ==
    /\ display \in Displays
    /\ queue = display.order
    /\ printed = {}
    /\ node_stack = <<>>
    /\ state = None
    /\ depth = 1
    /\ line = None
    /\ expanded = [n \in Nodes |-> 0]
    /\ started = {}
    /\ shown = [n \in Nodes |-> {}]
    /\ lost = FALSE

\* The state for the references of n, which stand below the nodes "parents".
StateFor(n, size, parents) ==
    [node |-> n, print_offset |-> 0, print_max_size |-> size, parents |-> parents \cup {n}]

\* Slip: the limit on the references holds at the left margin too.
SlipLimited(n) == display.limit

RootSize(n) == Len(Refs(n))

\* generate_display_node_and_print: the next node of the graph, at the left
\* margin and with all of its references.
DisplayRoot ==
    /\ state = None
    /\ queue # <<>>
    /\ queue' = Tail(queue)
    /\ LET n == Head(queue)
       IN IF Refs(n) = <<>>
            THEN UNCHANGED <<state, started>>
            ELSE /\ state' = StateFor(n, RootSize(n), {})
                 /\ started' = started \cup {n}
    /\ UNCHANGED <<display, printed, node_stack, depth, line, expanded, shown, lost>>

More(s) == s.print_offset < s.print_max_size /\ s.print_offset < Len(Refs(s.node))

Child(s) == Refs(s.node)[s.print_offset + 1]

\* Slip: the display does not move to the next reference.
SlipStuck(s) == s

Advanced(s) == [s EXCEPT !.print_offset = @ + 1]

CycleEnd(s, child) == child \in s.parents

\* Slip: a node is not remembered before its references are done.
SlipForgetful(child) == FALSE

AlreadyLogged(child) == child \in printed /\ Refs(child) # <<>>

\* get_node_attributes is given graph_node.index() == child_node.index(): the
\* index of one node, and which alternative of the variant the other is.
IsSelf(s, child) == s.node = display.kind[child]


\* Slip: the limit is taken one call too early.
SlipEarly == depth + 2 >= display.max

AtLimit == depth + 1 >= display.max

\* continue_display_node, a reference within the call depth: the child's line
\* and, if it has to be descended into, the child's own state.
DisplayChild ==
    /\ state # None
    /\ More(state)
    /\ ~AtLimit
    /\ LET child   == Child(state)
           cycle   == CycleEnd(state, child)
           already == AlreadyLogged(child)
       IN /\ line' = [parent |-> state.node, child |-> child, self |-> IsSelf(state, child),
                      cycle |-> cycle, already |-> already]
          /\ printed' = printed \cup {child}
          /\ shown' = [shown EXCEPT ![state.node] = @ \cup {state.print_offset + 1}]
          /\ IF cycle \/ already \/ Refs(child) = <<>>
               THEN /\ state' = Advanced(state)
                    /\ UNCHANGED <<node_stack, depth, expanded, started>>
               ELSE /\ node_stack' = Append(node_stack, Advanced(state))
                    /\ state' = StateFor(child, display.limit, state.parents)
                    /\ depth' = depth + 1
                    /\ expanded' = [expanded EXCEPT ![child] = @ + 1]
                    /\ started' = started \cup {child}
    /\ UNCHANGED <<display, queue, lost>>

\* continue_display_node, a reference at the limit on the call depth: the
\* child is marked and passed over, the state goes on the stack and every
\* call returns; the loop of generate_display_node_and_print takes the state
\* from the stack again and goes on with its next reference.
PassOver ==
    /\ state # None
    /\ More(state)
    /\ AtLimit
    /\ printed' = printed \cup {Child(state)}
    /\ lost' = TRUE
    /\ state' = Advanced(state)
    /\ depth' = 1
    /\ UNCHANGED <<display, queue, node_stack, line, expanded, started, shown>>

Returned == IF depth > 1 THEN depth - 1 ELSE 1

\* The references of a state are done: its call returns to the call for the
\* state below it on the stack, or, in the outermost call, to the loop that
\* takes that state from the stack.
EndOfReferences ==
    /\ state # None
    /\ ~More(state)
    /\ IF node_stack = <<>>
         THEN /\ state' = None
              /\ UNCHANGED node_stack
         ELSE /\ state' = node_stack[Len(node_stack)]
              /\ node_stack' = SubSeq(node_stack, 1, Len(node_stack) - 1)
    /\ depth' = Returned
    /\ UNCHANGED <<display, queue, printed, line, expanded, started, shown, lost>>

NextDisplay == DisplayRoot \/ DisplayChild \/ PassOver \/ EndOfReferences

\* One thread displays the graph: a step that can be taken is taken.
DisplaySpec == InitDisplay /\ [][NextDisplay]_displayVars /\ WF_displayVars(NextDisplay)

----------------------------------------------------------------------------

\* The states of the nodes being displayed, outermost first.
Path == IF state = None THEN node_stack ELSE Append(node_stack, state)

Done == state = None /\ queue = <<>>

\* The type invariant.  The call depth never exceeds what the option
\* --hgmaxcalldepth allows (dump_file_options.cpp).
DisplayTypeOK ==
    /\ IsScene(display)
    /\ queue \in Seq(Nodes)
    /\ printed \subseteq Nodes /\ started \subseteq Nodes
    /\ node_stack \in Seq(States)
    /\ state \in States \cup {None}
    /\ state = None => node_stack = <<>>
    /\ depth \in 1 .. Len(node_stack) + 1
    /\ depth = 1 \/ depth < display.max
    /\ expanded \in [Nodes -> Nat]
    /\ shown \in [Nodes -> SUBSET Nat]
    /\ lost \in BOOLEAN

\* The saved states always are one chain of references: each state is for the
\* child its predecessor displayed last, its parents are the nodes up to and
\* including its own, and no node is displayed below itself, also after the
\* display was taken up again from the stack.
StatesFormPath ==
    \A i \in 1 .. Len(Path) :
       LET s == Path[i] IN
       /\ s.parents = {Path[j].node : j \in 1 .. i}
       /\ \A j \in 1 .. (i - 1) : Path[j].node # s.node
       /\ i < Len(Path) =>
             /\ s.print_offset \in 1 .. Len(Refs(s.node))
             /\ Path[i + 1].node = Refs(s.node)[s.print_offset]

\* No node is descended into twice from other nodes, however many references
\* lead to it: the display is no longer than the graph.
DescendedOnce == \A n \in Nodes : expanded[n] <= 1

\* The display follows the graph: along one path that can be taken up again
\* where the calls left it, and into each node once.
FollowsGraph == StatesFormPath /\ DescendedOnce

\* Every node stands at the left margin once, with all of its references, even
\* if the call depth is exceeded below it; the option must leave room for one
\* call, which 0, 1 and 2 do not.
AllReferencesDisplayed ==
    Done /\ display.max >= 3 => \A n \in Nodes : shown[n] = 1 .. Len(Refs(n))

\* No reference is passed over while the call depth allows for a chain through
\* all the nodes.
NothingLostWithinDepth == lost => display.max <= Cardinality(Nodes) + 1

\* As long as no reference was passed over, "already logged children" is
\* printed only of nodes whose references were displayed or are being displayed.
LabelsTrueWithinDepth == ~lost /\ line # None /\ line.already => line.child \in started

\* The display of every graph, with or without cycles, comes to its end.
DisplayEnds == <>Done
=============================================================================
