------------------------------ MODULE MCEngine -------------------------------
(* Subgraphs that share a source and a mid node, one apart from them, and one *)
(* over nodes built before, an async node among them, merged into and dropped *)
(* from an engine whose sources keep sending.                                 *)
EXTENDS Engine, TLC

CONSTANTS s1, s2, mid, out, a, both, k1, k2, k3, k4

MCNodeId == {s1, s2, mid, out, a, both, k1, k2, k3, k4}
MCKind == [n \in MCNodeId |-> CASE n \in {s1, s2}         -> "Source"
                                [] n \in {k1, k2, k3, k4} -> "Sink"
                                [] n = a                  -> "AsyncCompute"
                                [] OTHER                  -> "Compute"]

S1  == [id |-> s1, deps |-> <<>>]
Mid == [id |-> mid, deps |-> <<s1>>]
Out == [id |-> out, deps |-> <<mid, s1>>]
K1  == [id |-> k1, deps |-> <<mid, mid>>]
K2  == [id |-> k2, deps |-> <<out, mid>>]
S2  == [id |-> s2, deps |-> <<>>]
K4  == [id |-> k4, deps |-> <<s2>>]

\* Built through graph(): a node that reads s2 both directly and through the
\* async node a, and that may be given a strategy.
A    == [id |-> a, deps |-> <<s2>>]
Both == [id |-> both, deps |-> <<s2, a>>]

MCDirect == {S2, A, Both}
MCStrategy == {<<both, "PropagateError">>}

\* Merged onto these nodes.
K3 == [id |-> k3, deps |-> <<both, a>>]

\* The first two share s1 and mid; the third shares nothing with them.
MCScript == {<<S1, Mid, K1>>, <<S1, Mid, Out, K2>>, <<S2, K4>>, <<K3>>}

\* What the clients of this run keep to, the conditions of the theorems in
\* EngineFreshProofs.  Acyclic holds as well: of the registrations above none reads
\* from a later one.
SoundUse == Unshared /\ InputsBrought /\ SinksReach /\ NoAsyncWaves
SoundSpec == EngineInit /\ [][EngineNext /\ SoundUse']_allVars

\* The handles differ in nothing but their name.
Symmetry == Permutations(Handle)

NoScript == {}
==============================================================================
