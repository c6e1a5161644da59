---------------------------- MODULE MCListWalkers -----------------------------
(***************************************************************************)
(* Every structure of a head and up to three nodes whose links lead to     *)
(* any of them, to the head or to 0, with any of the nodes missing.        *)
(***************************************************************************)
EXTENDS ListWalkers, TLC

MCNodes == {1, 2, 3}
MCHead == 4

MCWords == 0..4

Total(f) == [n \in MCWords |-> IF n \in DOMAIN f THEN f[n] ELSE 0]

Readables == {MCNodes \union {MCHead}} \union {(MCNodes \union {MCHead}) \ {m} : m \in {1, 3}}

GraphOf(kind, tail, readable, next, left, right) ==
    [kind |-> kind, head |-> MCHead, tail |-> tail, readable |-> readable,
     next |-> Total(next), left |-> Total(left), right |-> Total(right)]

Links(to) == [MCNodes \union {MCHead} -> to]

Alone(g) == [graphs |-> <<g>>, same |-> {}]

ListGraphs == {GraphOf("list", 0, r, f, <<>>, <<>>) : r \in Readables, f \in Links(0..MCHead)}

(* Links as they are stored: 0 leads to the node itself.                   *)
CodedGraphs ==
    {GraphOf("coded", 0, r, [n \in DOMAIN f |-> Xor(n, f[n])], <<>>, <<>>) : r \in Readables, f \in Links(0..MCHead)}

CrtGraphs == {GraphOf("crt", 0, r, f, <<>>, <<>>) : r \in Readables, f \in Links(0..3)}

RangeGraphs == {GraphOf("range", t, r, f, <<>>, <<>>) : t \in {0, 2, 3}, r \in Readables, f \in Links(0..3)}

TreeGraphs ==
    {GraphOf("tree", 0, r, MCHead :> 1, l, m) :
        r \in {MCNodes \union {MCHead}, {1, 2, MCHead}}, l \in [MCNodes -> 0..3], m \in [MCNodes -> {0, 2, 3}]}

LinksGraphs ==
    {GraphOf("links", 0, r, <<>>, (MCHead :> 1) @@ l, (MCHead :> 2) @@ m) :
        r \in Readables, l \in [MCNodes -> {0, 1, 3}], m \in [MCNodes -> {0, 2, 3}]}

Headless ==
    {GraphOf(k, 2, r, MCHead :> n, <<>>, <<>>) :
        k \in {"list", "tree", "links", "crt", "range"},
        r \in {MCNodes, MCNodes \union {MCHead}}, n \in {0, 1}}

(* With a base dump whose list may be damaged too.                         *)
Differences ==
    {[graphs |-> <<GraphOf("crt", 0, r, f, <<>>, <<>>), g>>, same |-> {1, 2}] :
        r \in {MCNodes \union {MCHead}, {1, 2}, {1, 3, MCHead}},
        f \in {h \in Links(0..3) : h[MCHead] \in {0, 1} /\ h[3] \in {0, 2}},
        g \in {GraphOf("crt", 0, MCNodes \union {MCHead}, 4 :> 3 @@ 3 :> 2 @@ 2 :> 1, <<>>, <<>>),
               GraphOf("crt", 0, MCNodes, <<>>, <<>>, <<>>)}}

MCStructures ==
    {Alone(g) : g \in Headless \union ListGraphs \union CodedGraphs \union CrtGraphs \union RangeGraphs
                        \union TreeGraphs \union LinksGraphs}
    \union Differences
===============================================================================
