------------------------------- MODULE MCAsync -------------------------------
(* Async nodes of every policy, in and outside the one concurrency group.     *)
EXTENDS AsyncManager

CONSTANTS
    p,              \* outside groups: Queue, may panic
    g1, g2, g3,     \* in group 1: Queue
    w, d,           \* in group 1: LatestWins, Debounce
    r               \* Queue, built now outside groups and now in group 1

PolicyOf(n) == CASE n = w -> "LatestWins"
                 [] n = d -> "Debounce"
                 [] OTHER -> "Queue"
GroupsOf(n) == CASE n = p -> {0}
                 [] n = r -> {0, 1}
                 [] OTHER -> {1}

MCBuilds == UNION {{[id |-> n, policy |-> PolicyOf(n), group_id |-> g] : g \in GroupsOf(n)}
                    : n \in Node}
==============================================================================
