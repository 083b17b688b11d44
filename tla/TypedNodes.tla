----------------------------- MODULE TypedNodes ------------------------------
(***************************************************************************)
(* Node identities and their types: NodeId and NodeRef<T> (node_ref.rs),    *)
(* Sender<T> (sender.rs), the builders with their typestate (builder/*.rs,  *)
(* input_tuple.rs) and the type-erased ValueStore (value_store.rs).         *)
(*                                                                          *)
(* The compiler checks the types of NodeRefs and Senders; registry, channel *)
(* and store are erased and go by the NodeId alone, and a downcast that     *)
(* fails is a missing input.  A value is its type here.  When nodes are     *)
(* registered, activated and removed is the business of Lifecycle: here     *)
(* they are, at any time, one by one.                                       *)
(***************************************************************************)
EXTENDS Naturals, Sequences, FiniteSets, Functions

CONSTANTS
    Declared,   \* nodes clients build: [scope, key, kind, output, inputs]
    KeyHash,    \* DefaultHasher on the keys
    MaxMessages \* bound on the values on their way at once

Unit == "()"
Scope == {d.scope : d \in Declared}
Type == {d.output : d \in Declared} \cup {Unit}
NodeKind == {"Source", "Compute", "Sink", "AsyncCompute"}

ASSUME DeclaredAssumption ==
    \A d \in Declared : /\ d.kind \in NodeKind
                        /\ d.kind = "Sink" => d.output = Unit
                        /\ d.kind = "Source" <=> d.inputs = <<>>
                        /\ Range(d.inputs) \subseteq Type
                        /\ d.key \in DOMAIN KeyHash
ASSUME MaxMessagesAssumption == MaxMessages \in Nat

VARIABLES
    entries,        \* id -> [kind, deps, output, inputs] of its first registration
    refs,           \* the NodeRefs clients hold: [id, type]
    building,       \* the builder in use: [node, dep_ids], or none
    senders,        \* the Senders handed to activation callbacks: [id, type]
    messages,       \* values on their way to the store: [id, type]
    value_store     \* id -> the type of its value

vars == <<entries, refs, building, senders, messages, value_store>>

NoBuilder == [dep_ids |-> <<>>]
Typed(id, t) == [id |-> id, type |-> t]

\* Mutant: the type of the node's value is taken for the type of the node.
from_key_of_value(d) == [type_id |-> d.output, key_hash |-> KeyHash[d.key]]

\* Mutant: one scope for all nodes.
from_key_only(d) == [type_id |-> CHOOSE s \in Scope : TRUE, key_hash |-> KeyHash[d.key]]

\* NodeId::from_key: the scope is the node's own type or, for nodes made of
\* closures, one marker type per kind.
from_key(d) == [type_id |-> d.scope, key_hash |-> KeyHash[d.key]]

Init ==
    /\ entries = [i \in {} |-> {}]
    /\ refs = {} /\ senders = {} /\ messages = {}
    /\ building = NoBuilder
    /\ value_store = [i \in {} |-> {}]

-----------------------------------------------------------------------------
(* Builders                                                                 *)

new(d) ==
    /\ building = NoBuilder
    /\ building' = [node |-> d, dep_ids |-> <<>>]
    /\ UNCHANGED <<entries, refs, senders, messages, value_store>>

\* Mutant: the dependency is put in front of the others.
dep_first(r) ==
    /\ building # NoBuilder
    /\ Len(building.dep_ids) < Len(building.node.inputs)
    /\ r.type = building.node.inputs[Len(building.dep_ids) + 1]
    /\ building' = [building EXCEPT !.dep_ids = <<r.id>> \o @]
    /\ UNCHANGED <<entries, refs, senders, messages, value_store>>

\* dep, for the input whose turn it is: the NodeRef must have its type.
dep(r) ==
    /\ building # NoBuilder
    /\ Len(building.dep_ids) < Len(building.node.inputs)
    /\ r.type = building.node.inputs[Len(building.dep_ids) + 1]
    /\ building' = [building EXCEPT !.dep_ids = Append(@, r.id)]
    /\ UNCHANGED <<entries, refs, senders, messages, value_store>>

\* build: the caller gets a NodeRef of the type it asked for, also when the
\* identity is registered already and only counted.
build ==
    /\ building # NoBuilder /\ Len(building.dep_ids) = Len(building.node.inputs)
    /\ LET d  == building.node
           id == from_key(d)
           e  == [kind |-> d.kind, deps |-> building.dep_ids,
                  output |-> d.output, inputs |-> d.inputs]
       IN  /\ refs' = refs \cup {Typed(id, d.output)}
           /\ entries' = [i \in DOMAIN entries \cup {id} |->
                            IF i \in DOMAIN entries THEN entries[i] ELSE e]
    /\ building' = NoBuilder
    /\ UNCHANGED <<senders, messages, value_store>>

\* A builder may also be dropped before it is built.
Abandon ==
    /\ building # NoBuilder
    /\ building' = NoBuilder
    /\ UNCHANGED <<entries, refs, senders, messages, value_store>>

\* The last reference is gone: deactivate_node.
Remove(id) ==
    /\ entries' = [i \in DOMAIN entries \ {id} |-> entries[i]]
    /\ value_store' = [i \in DOMAIN value_store \ {id} |-> value_store[i]]
    /\ UNCHANGED <<refs, building, senders, messages>>

-----------------------------------------------------------------------------
(* Values                                                                   *)

\* The activation callback gets a Sender of the type of the implementation.
activate(id) ==
    /\ entries[id].kind = "Source"
    /\ senders' = senders \cup {Typed(id, entries[id].output)}
    /\ UNCHANGED <<entries, refs, building, messages, value_store>>

Post(m) ==
    /\ Cardinality(messages) < MaxMessages
    /\ messages' = messages \cup {m}
    /\ UNCHANGED <<entries, refs, building, senders, value_store>>

\* Sender::send; a Sender may outlive its source.
send(s) == Post(s)

\* EngineHandle::update_source, with any NodeRef.
update_source(r) == Post(r)

\* A cycle takes a message or a result of a task: set_by_id.
set_by_id(m) ==
    /\ messages' = messages \ {m}
    /\ value_store' = [i \in DOMAIN value_store \cup {m.id} |->
                        IF i = m.id THEN m.type ELSE value_store[i]]
    /\ UNCHANGED <<entries, refs, building, senders>>

\* get_by_id(&deps[i])?.downcast_ref::<T>()? for every input.
Extract(id) ==
    \A i \in DOMAIN entries[id].deps :
        /\ entries[id].deps[i] \in DOMAIN value_store
        /\ value_store[entries[id].deps[i]] = entries[id].inputs[i]

\* compute: a new value; without its inputs the old one stays or goes, by the
\* node's error strategy.
compute(id) ==
    /\ entries[id].kind = "Compute"
    /\ \/ /\ Extract(id)
          /\ value_store' = [i \in DOMAIN value_store \cup {id} |->
                                IF i = id THEN entries[id].output ELSE value_store[i]]
       \/ /\ ~Extract(id)
          /\ value_store' = [i \in DOMAIN value_store \ {id} |-> value_store[i]]
    /\ UNCHANGED <<entries, refs, building, senders, messages>>

\* compute_async: the future boxes a value of the implementation's type, which
\* arrives later, whatever became of the node.
compute_async(id) ==
    /\ entries[id].kind = "AsyncCompute" /\ Extract(id)
    /\ Post(Typed(id, entries[id].output))

Next ==
    \/ \E d \in Declared : new(d)
    \/ \E r \in refs : dep(r) \/ update_source(r)
    \/ build \/ Abandon
    \/ \E id \in DOMAIN entries : Remove(id) \/ activate(id) \/ compute(id) \/ compute_async(id)
    \/ \E s \in senders : send(s)
    \/ \E m \in messages : set_by_id(m)

Spec == Init /\ [][Next]_vars

\* What the closure nodes of one kind, which share a scope, can keep to: two of them with
\* one key, or with keys of one hash, produce values of one type.
TypesAgree ==
    \A d, e \in Declared :
        d.scope = e.scope /\ KeyHash[d.key] = KeyHash[e.key] => d.output = e.output

-----------------------------------------------------------------------------
(* Properties                                                               *)

NodeId == [type_id : Scope, key_hash : Range(KeyHash)]
TypedId == [id : NodeId, type : Type]

\* Every variable has its type.
TypeOK ==
    /\ DOMAIN entries \subseteq NodeId /\ DOMAIN value_store \subseteq NodeId
    /\ Range(value_store) \subseteq Type
    /\ refs \subseteq TypedId /\ senders \subseteq TypedId /\ messages \subseteq TypedId
    /\ \A id \in DOMAIN entries : Range(entries[id].deps) \subseteq NodeId

\* "TypeId scopes keys by concrete node type so different node types never collide."
\* (node_ref.rs, line 8): as long as the closure nodes of one kind use each key with
\* one type, a value read through a NodeRef<T> is a T, after any sequence of
\* registrations, removals, late messages and results, although nodes of all
\* kinds share the store.
WellTyped ==
    \A r \in refs : r.id \in DOMAIN value_store => value_store[r.id] = r.type

\* Under the same condition no downcast of an input ever fails: a node misses an
\* input only when there is no value, not because the value has another type or
\* the place of another input.
InputsFit ==
    \A id \in DOMAIN entries : \A i \in DOMAIN entries[id].deps :
        LET d == entries[id].deps[i]
        IN  d \in DOMAIN value_store => value_store[d] = entries[id].inputs[i]

=============================================================================
