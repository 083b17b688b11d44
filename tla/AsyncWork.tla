------------------------------ MODULE AsyncWork ------------------------------
(***************************************************************************)
(* What the engine relies on of the async manager: a job that a cycle hands *)
(* over is delivered once, in a later cycle, or never, when it is cancelled *)
(* for a newer one of its node or its task stops.  Jobs of the nodes in     *)
(* Lossless are never dropped.  Nothing is said of how many run at a time   *)
(* or in which order they end: that is the business of AsyncManager, which  *)
(* is shown to implement this specification, and module Engine assumes no   *)
(* more.                                                                    *)
(***************************************************************************)
EXTENDS Naturals, Sequences

CONSTANTS
    Node,       \* async compute nodes
    Lossless    \* nodes none of whose jobs may be dropped

VARIABLES
    open,       \* jobs <<n, k>> handed over and neither delivered nor dropped
    requested,  \* node -> number of jobs handed over
    delivered   \* node -> the numbers of its jobs that were delivered, in order

vars == <<open, requested, delivered>>

JobsOf(n) == {j \in open : j[1] = n}

Init ==
    /\ open = {}
    /\ requested = [n \in Node |-> 0]
    /\ delivered = [n \in Node |-> <<>>]

\* The jobs in S are given up.
MayDrop(S) == \A j \in S : j[1] \notin Lossless

\* A new job of n, for which others of n may be given up.
Request(n) ==
    /\ requested' = [requested EXCEPT ![n] = @ + 1]
    /\ \E dropped \in SUBSET JobsOf(n) :
        /\ MayDrop(dropped)
        /\ open' = (open \ dropped) \cup {<<n, requested[n] + 1>>}
    /\ UNCHANGED delivered

Deliver(j) ==
    /\ open' = open \ {j}
    /\ delivered' = [delivered EXCEPT ![j[1]] = Append(@, j[2])]
    /\ UNCHANGED requested

Drop(j) ==
    /\ MayDrop({j})
    /\ open' = open \ {j}
    /\ UNCHANGED <<requested, delivered>>

Next ==
    \/ \E n \in Node : Request(n)
    \/ \E j \in open : Deliver(j) \/ Drop(j)

Spec == Init /\ [][Next]_vars
=============================================================================
