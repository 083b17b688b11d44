----------------------------- MODULE MCLifecycle -----------------------------
(* Two clients whose subgraphs share a source and a mid node, as the trades   *)
(* of examples/fx_pricing do, plus direct registrations.                      *)
EXTENDS Lifecycle

CONSTANTS src, mid, k1, k2

MCNodeId == {src, mid, k1, k2}
MCKind == [n \in MCNodeId |-> CASE n = src -> "Source"
                                [] n = mid -> "Compute"
                                [] OTHER   -> "Sink"]
MCGuarded == {src}

Src     == [id |-> src, deps |-> <<>>]
Mid     == [id |-> mid, deps |-> <<src>>]
Pub1    == [id |-> k1, deps |-> <<mid>>]
\* A sink that reads one node twice.
Pub2    == [id |-> k2, deps |-> <<mid, mid>>]
\* The mid node built again, later, to read from a sink's reader: a cycle.
Looped  == [id |-> mid, deps |-> <<k2>>]

\* Two sharing subgraphs, one that registers its source twice, one that only
\* refers to a node it does not register, and the empty one.
MCScript == {<<Src, Mid, Pub1>>, <<Src, Mid, Src, Pub2>>, <<Pub1>>, <<>>}
MCDirect == {Src, Looped}

\* The two trades of the example, each with a publisher of its own.
MCTrades == {<<Src, Mid, Pub1>>, <<Src, Mid, [Pub2 EXCEPT !.deps = <<mid>>]>>}
==============================================================================
