------------------------------ MODULE Lifecycle ------------------------------
(***************************************************************************)
(* The node lifecycle of the engine: the registry Graph::entries with its   *)
(* reference counts (graph.rs), the subgraph builder, merge and the RAII    *)
(* SubgraphHandle (subgraph.rs), recursive activation and deactivation      *)
(* (engine.rs) and the two edge maps of Topology (topology.rs).             *)
(*                                                                          *)
(* The engine is single threaded: a public method runs to its end before    *)
(* another starts.  `phase' says how far the method being run has come, and *)
(* the recursion of activate_node and deactivate_node is an explicit stack  *)
(* of frames, `work', popped one frame per step in the order of the calls.  *)
(* Every draining method first empties pending_removals; which one it was   *)
(* is only chosen once that is done (phase "body"), which makes no          *)
(* difference because the drain does not depend on it.                      *)
(*                                                                          *)
(* The effects of the same functions on the value store and on the error    *)
(* strategies are added by module Engine, which extends this one.           *)
(***************************************************************************)
EXTENDS Naturals, Sequences, FiniteSets, Functions

CONSTANTS
    NodeId,     \* node identities
    Kind,       \* NodeKind of each identity: a NodeId is scoped by its node type
    Guarded,    \* sources whose activation callback returns a guard
    Handle,     \* slots for subgraph handles: bounds the handles alive at once
    Script,     \* the subgraphs clients build: sequences of registrations
    Direct,     \* registrations clients may make through Engine::graph()
    MaxDirect   \* bound on the direct registrations of one node

NodeKind == {"Source", "Compute", "Sink", "AsyncCompute"}

\* A registration: an identity with the dependencies it is built with.
Registration == [id : NodeId, deps : Seq(NodeId)]

ASSUME KindAssumption == Kind \in [NodeId -> NodeKind]
ASSUME GuardedAssumption == Guarded \subseteq {n \in NodeId : Kind[n] = "Source"}
ASSUME HandleAssumption == IsFiniteSet(Handle)
\* A SubgraphBuilder has no builder for async nodes.
ASSUME ScriptAssumption == Script \subseteq Seq({r \in Registration : Kind[r.id] # "AsyncCompute"})
ASSUME DirectAssumption == Direct \subseteq Registration
ASSUME MaxDirectAssumption == MaxDirect \in Nat

VARIABLES
    entries,            \* Graph::entries: registered id -> [deps, ref_count]
    deps,               \* Topology::deps: id -> its dependencies
    dependents,         \* Topology::dependents: how often n is in d's list, as [d][n]
    active,             \* Engine::active
    guards,             \* ids that hold a guard in Engine::guards
    handles,            \* slot -> [state, node_ids, left] of a SubgraphHandle
    pending_removals,   \* dropped handles, in the order of their drops
    work,               \* frames of the recursion in progress
    phase,              \* progress of the public method being run
    direct              \* how often a node was registered through graph()

registry == <<entries, deps, dependents, active, guards>>
vars == <<registry, handles, pending_removals, work, phase, direct>>

Frame == [op : {"deactivate", "sink", "enter", "finish"}, id : NodeId]
Frames(op, ids) == [i \in DOMAIN ids |-> [op |-> op, id |-> ids[i]]]

\* The number of times x occurs in the sequence s.
Occurrences(s, x) == Cardinality({i \in DOMAIN s : s[i] = x})

-----------------------------------------------------------------------------
(* SubgraphBuilder: every registration is recorded in node_ids, but only    *)
(* the first one of an identity becomes a descriptor.                       *)

node_ids(script) == [i \in DOMAIN script |-> script[i].id]

descriptors(script) ==
    [n \in {script[i].id : i \in DOMAIN script} |->
        LET first == CHOOSE i \in DOMAIN script :
                        /\ script[i].id = n
                        /\ \A j \in 1..(i - 1) : script[j].id # n
        IN  script[first].deps]

\* Mutant: a new entry is counted again.
register_twice(d) ==
    [n \in DOMAIN entries \cup DOMAIN d |->
        IF n \notin DOMAIN d THEN entries[n]
        ELSE IF n \in DOMAIN entries
             THEN [entries[n] EXCEPT !.ref_count = @ + 1]
             ELSE [deps |-> d[n], ref_count |-> 2]]

\* Graph::register_node for each descriptor d: id -> deps.
register_node(d) ==
    [n \in DOMAIN entries \cup DOMAIN d |->
        IF n \notin DOMAIN d THEN entries[n]
        ELSE IF n \in DOMAIN entries
             THEN [entries[n] EXCEPT !.ref_count = @ + 1]
             ELSE [deps |-> d[n], ref_count |-> 1]]

\* Mutant: one reverse edge per dependency, however often it is named.
add_edge_once(id, ds) ==
    /\ deps' = [n \in DOMAIN deps \cup {id} |-> IF n = id THEN ds ELSE deps[n]]
    /\ dependents' = [d \in NodeId |->
                        [dependents[d] EXCEPT ![id] = IF d \in Range(ds) THEN 1 ELSE @]]

\* Topology::add_node: one reverse edge per occurrence of a dependency.
add_node(id, ds) ==
    /\ deps' = [n \in DOMAIN deps \cup {id} |-> IF n = id THEN ds ELSE deps[n]]
    /\ dependents' = [d \in NodeId |->
                        [dependents[d] EXCEPT ![id] = @ + Occurrences(ds, d)]]

\* Mutant: the edges into id's dependencies stay.
remove_own_list(id) ==
    /\ deps' = [n \in DOMAIN deps \ {id} |-> deps[n]]
    /\ dependents' = [dependents EXCEPT ![id] = [n \in NodeId |-> 0]]

\* Topology::remove_node: the edges into id's dependencies go, then id's own list.
remove_node(id) ==
    LET cut(d, n) == d = id \/ (n = id /\ id \in DOMAIN deps /\ d \in Range(deps[id]))
    IN  /\ deps' = [n \in DOMAIN deps \ {id} |-> deps[n]]
        /\ dependents' = [d \in NodeId |-> [n \in NodeId |->
                            IF cut(d, n) THEN 0 ELSE dependents[d][n]]]

-----------------------------------------------------------------------------
NoHandle == [state |-> "free", node_ids |-> <<>>, left |-> 0]

Init ==
    /\ entries = [n \in {} |-> 0]
    /\ deps = [n \in {} |-> <<>>]
    /\ dependents = [d \in NodeId |-> [n \in NodeId |-> 0]]
    /\ active = {}
    /\ guards = {}
    /\ handles = [h \in Handle |-> NoHandle]
    /\ pending_removals = <<>>
    /\ work = <<>>
    /\ phase = "idle"
    /\ direct = [n \in NodeId |-> 0]

\* SubgraphHandle::drop, outside the engine: the ids are only queued.
DropHandle(h) ==
    /\ phase = "idle"
    /\ handles[h].state = "live"
    /\ \/ /\ handles[h].node_ids # <<>>
          /\ pending_removals' = Append(pending_removals, h)
          /\ handles' = [handles EXCEPT ![h].state = "queued"]
       \/ /\ handles[h].node_ids = <<>>
          /\ handles' = [handles EXCEPT ![h] = NoHandle]
          /\ UNCHANGED pending_removals
    /\ UNCHANGED <<registry, work, phase, direct>>

\* A client calls one of the public methods that drain.
Call ==
    /\ phase = "idle"
    /\ phase' = "drain"
    /\ UNCHANGED <<registry, handles, pending_removals, work, direct>>

\* Mutant: the check is made before the decrement.
SharedBefore(id) == entries[id].ref_count > 0

\* Somebody else still refers to id: its count, one lower, is above 0.
Shared(id) == entries[id].ref_count > 1

\* Mutant: the guard is never dropped.
keep_guard(id) == UNCHANGED guards

\* Dropping the guard ends the activity that the source's callback started.
drop_guard(id) == guards' = IF Kind[id] = "Source" THEN guards \ {id} ELSE guards

\* deactivate_node(id), up to its recursive calls, which go on top of `rest'.
deactivate_node(id, rest) ==
    \/ /\ id \notin DOMAIN entries
       /\ work' = rest
       /\ UNCHANGED registry
    \/ /\ id \in DOMAIN entries /\ Shared(id)
       /\ entries' = [entries EXCEPT ![id].ref_count = @ - 1]
       /\ work' = rest
       /\ UNCHANGED <<deps, dependents, active, guards>>
    \/ /\ id \in DOMAIN entries /\ ~Shared(id)
       /\ entries' = [n \in DOMAIN entries \ {id} |-> entries[n]]
       /\ drop_guard(id)
       /\ remove_node(id)
       /\ active' = active \ {id}
       /\ work' = Frames("deactivate", entries[id].deps) \o rest

\* Mutant: the id registered first is left out.
DrainShort ==
    /\ phase = "drain" /\ work = <<>> /\ pending_removals # <<>>
    /\ LET h    == Head(pending_removals)
           left == handles[h].left
       IN  \/ /\ left > 1
              /\ deactivate_node(handles[h].node_ids[left], <<>>)
              /\ handles' = [handles EXCEPT ![h].left = left - 1]
              /\ UNCHANGED pending_removals
           \/ /\ left = 1
              /\ handles' = [handles EXCEPT ![h] = NoHandle]
              /\ pending_removals' = Tail(pending_removals)
              /\ UNCHANGED <<registry, work>>
    /\ UNCHANGED <<phase, direct>>

\* drain_pending_removals: the next id, in reverse, of the oldest dropped handle.
DrainNext ==
    /\ phase = "drain" /\ work = <<>> /\ pending_removals # <<>>
    /\ LET h    == Head(pending_removals)
           left == handles[h].left
       IN  /\ deactivate_node(handles[h].node_ids[left], <<>>)
           /\ \/ /\ left > 1
                 /\ handles' = [handles EXCEPT ![h].left = left - 1]
                 /\ UNCHANGED pending_removals
              \/ /\ left = 1
                 /\ handles' = [handles EXCEPT ![h] = NoHandle]
                 /\ pending_removals' = Tail(pending_removals)
    /\ UNCHANGED <<phase, direct>>

\* Mutant: an id that is no longer registered is tried again.
CascadeAgain ==
    /\ phase = "drain" /\ work # <<>>
    /\ deactivate_node(Head(work).id,
                       IF Head(work).id \in DOMAIN entries THEN Tail(work) ELSE work)
    /\ UNCHANGED <<handles, pending_removals, phase, direct>>

\* The recursive call of deactivate_node on top of the stack.
CascadeNext ==
    /\ phase = "drain" /\ work # <<>>
    /\ deactivate_node(Head(work).id, Tail(work))
    /\ UNCHANGED <<handles, pending_removals, phase, direct>>

\* The drain is over: the method goes on with what is its own.
EndDrain ==
    /\ phase = "drain" /\ work = <<>> /\ pending_removals = <<>>
    /\ phase' = "body"
    /\ UNCHANGED <<registry, handles, pending_removals, work, direct>>

\* Engine::graph() followed by a builder's build(&mut graph): no handle.
Build(r) ==
    /\ phase = "body"
    /\ direct[r.id] < MaxDirect
    /\ entries' = register_node([n \in {r.id} |-> r.deps])
    /\ direct' = [direct EXCEPT ![r.id] = @ + 1]
    /\ phase' = "idle"
    /\ UNCHANGED <<deps, dependents, active, guards, handles, pending_removals, work>>

\* Engine::merge: register the descriptors, then go over the ids for the sinks.
Merge(h, script) ==
    /\ phase = "body"
    /\ handles[h].state = "free"
    /\ entries' = register_node(descriptors(script))
    /\ handles' = [handles EXCEPT ![h] = [state    |-> "live",
                                          node_ids |-> node_ids(script),
                                          left     |-> Len(script)]]
    /\ work' = Frames("sink", node_ids(script))
    /\ phase' = "activate"
    /\ UNCHANGED <<deps, dependents, active, guards, pending_removals, direct>>

\* Engine::activate_sink, with any NodeRef a client holds.
ActivateSink(id) ==
    /\ phase = "body"
    /\ work' = Frames("enter", <<id>>)
    /\ phase' = "activate"
    /\ UNCHANGED <<registry, handles, pending_removals, direct>>

\* activate_node up to its recursive calls; "finish" is what follows them.  The
\* loop of merge calls it for sinks only.
EnterNode ==
    /\ phase = "activate" /\ work # <<>> /\ Head(work).op \in {"sink", "enter"}
    /\ LET id   == Head(work).id
           skip == \/ id \in active \/ id \notin DOMAIN entries
                   \/ Head(work).op = "sink" /\ Kind[id] # "Sink"
       IN  \/ /\ skip
              /\ work' = Tail(work)
              /\ UNCHANGED registry
           \/ /\ ~skip
              /\ add_node(id, entries[id].deps)
              /\ active' = active \cup {id}
              /\ work' = Frames("enter", entries[id].deps)
                           \o Frames("finish", <<id>>) \o Tail(work)
              /\ UNCHANGED <<entries, guards>>
    /\ UNCHANGED <<handles, pending_removals, phase, direct>>

\* AnyNodeImpl::activate: the guards the activation callback of id returns.
activate(id) == {id} \cap Guarded

\* activate_node after its recursive calls: a source's activation callback runs.
FinishNode ==
    /\ phase = "activate" /\ work # <<>> /\ Head(work).op = "finish"
    /\ guards' = guards \cup activate(Head(work).id)
    /\ work' = Tail(work)
    /\ UNCHANGED <<entries, deps, dependents, active, handles, pending_removals,
                   phase, direct>>

\* The method returns: at once, or when the activations are over.
Return ==
    /\ \/ phase = "body"
       \/ phase = "activate" /\ work = <<>>
    /\ phase' = "idle"
    /\ UNCHANGED <<registry, handles, pending_removals, work, direct>>

\* The steps of a method that has been called.
Step ==
    \/ DrainNext \/ CascadeNext \/ EndDrain
    \/ EnterNode \/ FinishNode \/ Return

Next ==
    \/ \E h \in Handle : DropHandle(h)
    \/ Call
    \/ \E r \in Direct : Build(r)
    \/ \E h \in Handle, script \in Script : Merge(h, script)
    \/ \E id \in NodeId : ActivateSink(id)
    \/ Step

Spec == Init /\ [][Next]_vars

\* A method that runs goes on: it never waits for anything.
FairSpec == Spec /\ WF_vars(Step)
-----------------------------------------------------------------------------
(* What clients can keep to: the code does not enforce it, and a property   *)
(* that depends on it says so.                                              *)

\* The nodes that a handle names, and whether their deactivation has not begun.
Named(h) == Range(handles[h].node_ids)
Whole(h) == handles[h].left = Len(handles[h].node_ids)

\* A dropped handle shares no node with another one, none of its nodes was built
\* through graph(), and they read from each other only.
Unshared ==
    \A p \in Handle : handles[p].state = "queued" =>
        \A n \in Named(p) :
            /\ direct[n] = 0
            /\ \A h \in Handle \ {p} : n \notin Named(h)
            /\ n \in DOMAIN entries => Range(entries[n].deps) \subseteq Named(p)

\* Who brings a node brings what it reads from: a handle names the dependencies of its
\* nodes, or they were built through graph() as those of the nodes built there were.
InputsBrought ==
    \A n \in DOMAIN entries : \A d \in Range(entries[n].deps) :
        /\ direct[n] > 0 => direct[d] > 0
        /\ \A h \in Handle : n \in Named(h) => d \in Named(h) \/ direct[d] > 0

\* A subgraph's nodes are there for its sinks: those that are none, as far as one takes
\* them together, have a reader in the subgraph besides themselves.
SinksReach ==
    \A h \in Handle : Whole(h) =>
        \A S \in SUBSET {n \in Named(h) : Kind[n] # "Sink"} :
            S # {} => \E n \in (Named(h) \cap DOMAIN entries) \ S :
                          Range(entries[n].deps) \cap S # {}

\* The registered nodes do not depend on each other in a circle: every set of them
\* has one that reads from none of the set.
Acyclic ==
    \A S \in SUBSET DOMAIN entries :
        S # {} => \E n \in S : Range(entries[n].deps) \cap S = {}

-----------------------------------------------------------------------------
(* Properties                                                               *)

\* Every variable has its type: positive counts, well-formed frames and handles.
TypeOK ==
    /\ DOMAIN entries \subseteq NodeId
    /\ entries \in [DOMAIN entries -> [deps : Seq(NodeId), ref_count : Nat \ {0}]]
    /\ DOMAIN deps \subseteq NodeId
    /\ deps \in [DOMAIN deps -> Seq(NodeId)]
    /\ dependents \in [NodeId -> [NodeId -> Nat]]
    /\ active \subseteq NodeId
    /\ guards \subseteq NodeId
    /\ handles \in [Handle -> [state    : {"free", "live", "queued"},
                               node_ids : Seq(NodeId),
                               left     : Nat]]
    /\ \A h \in Handle : handles[h].left <= Len(handles[h].node_ids)
    /\ pending_removals \in Seq(Handle)
    /\ work \in Seq(Frame)
    /\ phase \in {"idle", "drain", "body", "activate"}
    /\ direct \in [NodeId -> 0..MaxDirect]

\* The topology describes exactly the active nodes, all of them registered, and
\* add_node and remove_node never leave a reverse edge to a node that is gone or
\* no longer reads from that dependency: whatever the order of merges, drops and
\* cascades, dirty_set only ever reaches active nodes.
WiringSound ==
    /\ DOMAIN deps = active
    /\ active \subseteq DOMAIN entries
    /\ \A n \in active : deps[n] = entries[n].deps
    /\ \A d, n \in NodeId : dependents[d][n] > 0 =>
            n \in active /\ dependents[d][n] = Occurrences(deps[n], d)

\* A source's guard is held exactly as long as the source is active: activation
\* never misses or repeats the callback of a registration, and deactivation
\* (RAII of on_activate's guard) never leaks one.
GuardsMatch == phase # "activate" => guards = active \cap Guarded

\* The ids of merged subgraphs whose deactivation is still to come, one claim
\* for each entry of a handle's node_ids.
Claims(n) ==
    UNION {{<<h, i>> : i \in {j \in 1..handles[h].left : handles[h].node_ids[j] = n}}
            : h \in Handle}

\* No reference is taken that nobody will give back: a node's ref_count never
\* exceeds the claims of the handles on it and its direct registrations, so
\* merge, which registers descriptors but hands out node_ids, never leaks.
RefsClaimed ==
    \A n \in DOMAIN entries : entries[n].ref_count <= direct[n] + Cardinality(Claims(n))

\* Once every handle is dropped and drained, the registry, the active set, the
\* topology and the guards are empty but for nodes registered through graph().
NoLeak ==
    (phase = "idle" /\ \A h \in Handle : handles[h].state = "free") =>
        \A n \in DOMAIN entries \cup active \cup DOMAIN deps \cup guards : direct[n] > 0

\* activate_node and deactivate_node always come to an end, also when the
\* dependencies of nodes registered at different times form a cycle: every call
\* of a public method returns.
CallsReturn == (phase = "drain") ~> (phase = "idle")

\* Nodes that several merged subgraphs name stay registered as long as one of
\* their handles is alive (examples/fx_pricing/README.md, lines 31-34).
SharedStayAlive ==
    \A h \in Handle : handles[h].state = "live" =>
        \A n \in Range(handles[h].node_ids) : n \in DOMAIN entries

\* With subgraphs that share no node, a node is registered exactly while its
\* handle lives: reverse order, cascade and repeated deactivation of the same
\* id remove every node of a dropped handle and none of another, and nothing
\* that was registered through graph().
ExactLifetime ==
    phase = "idle" => DOMAIN entries = {n \in NodeId : Claims(n) # {} \/ direct[n] > 0}

\* With subgraphs that share no node, every active node reads, between the calls
\* and while a cycle or a method's own work begins, from active nodes
\* and is in their lists of dependents as often as it names them, so every
\* update reaches it.
Connected ==
    phase \in {"idle", "body"} =>
        \A n \in active :
            /\ Range(deps[n]) \subseteq active
            /\ \A d \in NodeId : dependents[d][n] = Occurrences(deps[n], d)
=============================================================================
