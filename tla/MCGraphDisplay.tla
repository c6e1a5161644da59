-------------------------- MODULE MCGraphDisplay --------------------------
(***************************************************************************)
(* Four allocations (alternative 3 of the variant) with up to two          *)
(* references each: chains, diamonds, cycles, self references, and two     *)
(* references to one node.  The call depth reaches from one that stops the *)
(* first call to one no chain of four nodes exceeds.                       *)
(***************************************************************************)
EXTENDS GraphDisplay

Lists == {<<>>} \cup {<<n>> : n \in Nodes} \cup {<<n, m>> \in Nodes \X Nodes : n < m}

Limits == {[limit |-> 1, max |-> 2], [limit |-> 2, max |-> 3], [limit |-> 2, max |-> 4],
           [limit |-> 1, max |-> 5], [limit |-> 2, max |-> 6]}

SceneOf(refs, options) ==
    [refs |-> refs, kind |-> [n \in Nodes |-> 3], order |-> <<1, 2, 3, 4>>,
     limit |-> options.limit, max |-> options.max]

MCDisplays == {SceneOf(refs, options) : refs \in [Nodes -> Lists], options \in Limits}
              \cup {SceneOf([refs EXCEPT ![1] = <<2, 2>>], options) :
                        refs \in [Nodes -> {<<1>>, <<3, 4>>}], options \in Limits}
=============================================================================
