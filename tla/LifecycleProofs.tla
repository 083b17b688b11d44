--------------------------- MODULE LifecycleProofs ---------------------------
(***************************************************************************)
(* Proofs about module Lifecycle, for any nodes, subgraphs and number of    *)
(* handles: its type invariant, the soundness of the wiring, that every     *)
(* reference taken by a merge is given back by the handle it returns, that  *)
(* guards and registry are empty once all handles are gone, that active     *)
(* nodes stay connected, and that a handle's drain takes away exactly what  *)
(* its merge brought.                                                       *)
(***************************************************************************)
EXTENDS Lifecycle, SequenceTheorems, FiniteSetTheorems, WellFoundedInduction, TLAPS

-----------------------------------------------------------------------------
(* The operators                                                            *)

\* A function on 1..n is a sequence.
LEMMA SeqIntro ==
    ASSUME NEW S, NEW n \in Nat, NEW f \in [1..n -> S]
    PROVE  f \in Seq(S) /\ Len(f) = n
  BY SeqDef

\* Every nonempty set of naturals has a least element.
LEMMA LeastNat ==
    ASSUME NEW T \in SUBSET Nat, T # {}
    PROVE  \E x \in T : \A y \in T : x <= y
  <1>. DEFINE R == OpToRel(<, Nat)
  <1>1. PICK x \in T : \A y \in T : <<y, x>> \notin R
    <2>1. IsWellFoundedOn(R, Nat)
      BY NatLessThanWellFounded
    <2>. HIDE DEF R
    <2>. QED
      BY <2>1, WFMin
  <1>2. \A y \in T : ~(y < x)
    BY <1>1 DEF OpToRel
  <1>. QED
    BY <1>2

\* The frames made from a sequence of ids form a sequence of frames.
LEMMA FramesType ==
    ASSUME NEW op \in {"deactivate", "sink", "enter", "finish"},
           NEW ids \in Seq(NodeId)
    PROVE  Frames(op, ids) \in Seq(Frame)
  <1>1. ids \in [1..Len(ids) -> NodeId] /\ Len(ids) \in Nat
    BY LenProperties
  <1>2. Frames(op, ids) \in [1..Len(ids) -> Frame]
    BY <1>1 DEF Frames, Frame
  <1>. QED
    BY <1>1, <1>2, SeqIntro

\* The top of a stack of frames is a frame of a node, and the rest a stack.
LEMMA TopType ==
    ASSUME NEW w \in Seq(Frame), w # <<>>
    PROVE  /\ Head(w).id \in NodeId
           /\ Tail(w) \in Seq(Frame)
  <1>1. Head(w) \in Frame /\ Tail(w) \in Seq(Frame)
    BY HeadTailProperties
  <1>. QED
    BY <1>1 DEF Frame

\* The registrations of a subgraph.
LEMMA ScriptType ==
    ASSUME NEW script \in Script
    PROVE  /\ Len(script) \in Nat
           /\ script \in [1..Len(script) -> Registration]
           /\ DOMAIN script = 1..Len(script)
  <1>1. script \in Seq(Registration)
    BY ScriptAssumption, SeqMonotonic
  <1>. QED
    BY <1>1, LenProperties

\* A subgraph's node_ids are ids, as many as it has registrations.
LEMMA NodeIdsType ==
    ASSUME NEW script \in Script
    PROVE  /\ node_ids(script) \in Seq(NodeId)
           /\ Len(node_ids(script)) = Len(script)
  <1>1. node_ids(script) \in [1..Len(script) -> NodeId]
    BY ScriptType DEF node_ids, Registration
  <1>. QED
    BY <1>1, ScriptType, SeqIntro

\* A builder's descriptors are nodes with dependencies they were built with.
LEMMA DescriptorsType ==
    ASSUME NEW script \in Script
    PROVE  /\ DOMAIN descriptors(script) \subseteq NodeId
           /\ \A n \in DOMAIN descriptors(script) : descriptors(script)[n] \in Seq(NodeId)
  <1>1. DOMAIN descriptors(script) = {script[i].id : i \in DOMAIN script}
    BY DEF descriptors
  <1>2. \A i \in DOMAIN script : script[i].id \in NodeId /\ script[i].deps \in Seq(NodeId)
    BY ScriptType DEF Registration
  <1>3. ASSUME NEW n \in DOMAIN descriptors(script)
        PROVE  descriptors(script)[n] \in Seq(NodeId)
    <2>. DEFINE Hits == {i \in 1..Len(script) : script[i].id = n}
    <2>1. PICK i \in Hits : \A j \in Hits : i <= j
      <3>1. Hits # {} /\ Hits \in SUBSET Nat
        BY <1>1, <1>3, ScriptType
      <3>. QED
        BY <3>1, LeastNat
    <2>2. \E k \in DOMAIN script : /\ script[k].id = n
                                   /\ \A j \in 1..(k - 1) : script[j].id # n
      BY <2>1, ScriptType
    <2>. QED
      BY <1>1, <1>2, <1>3, <2>2 DEF descriptors
  <1>. QED
    BY <1>1, <1>2, <1>3

\* Occurrences counts.
LEMMA OccurrencesType ==
    ASSUME NEW s \in Seq(NodeId), NEW x
    PROVE  Occurrences(s, x) \in Nat
  <1>1. IsFiniteSet(1..Len(s)) /\ DOMAIN s = 1..Len(s)
    BY LenProperties, FS_Interval
  <1>2. IsFiniteSet({i \in DOMAIN s : s[i] = x})
    BY <1>1, FS_Subset
  <1>. QED
    BY <1>2, FS_CardinalityType DEF Occurrences

-----------------------------------------------------------------------------
(* The type invariant                                                       *)

Entry == [deps : Seq(NodeId), ref_count : Nat \ {0}]

\* The type of the registry, the part that deactivation and activation write.
RegistryOK ==
    /\ DOMAIN entries \subseteq NodeId
    /\ entries \in [DOMAIN entries -> Entry]
    /\ DOMAIN deps \subseteq NodeId
    /\ deps \in [DOMAIN deps -> Seq(NodeId)]
    /\ dependents \in [NodeId -> [NodeId -> Nat]]
    /\ active \subseteq NodeId
    /\ guards \subseteq NodeId

\* Counting an entry up or down leaves its dependencies alone.
LEMMA CountEntry ==
    ASSUME NEW e \in Entry, NEW c \in Nat \ {0}
    PROVE  /\ [e EXCEPT !.ref_count = c] \in Entry
           /\ [e EXCEPT !.ref_count = c].deps = e.deps
           /\ [e EXCEPT !.ref_count = c].ref_count = c
  BY DEF Entry

\* register_node keeps the registry's type.
LEMMA RegisterType ==
    ASSUME RegistryOK, NEW d, DOMAIN d \subseteq NodeId,
           \A n \in DOMAIN d : d[n] \in Seq(NodeId),
           entries' = register_node(d),
           UNCHANGED <<deps, dependents, active, guards>>
    PROVE  RegistryOK'
  <1>1. DOMAIN entries' = DOMAIN entries \cup DOMAIN d
    BY DEF register_node
  <1>2. ASSUME NEW n \in DOMAIN entries'
        PROVE  entries'[n] \in Entry
    <2>1. CASE n \notin DOMAIN d
      BY <1>1, <2>1 DEF register_node, RegistryOK
    <2>2. CASE n \in DOMAIN d /\ n \in DOMAIN entries
      <3>1. entries[n] \in Entry /\ entries[n].ref_count + 1 \in Nat \ {0}
        BY <2>2 DEF RegistryOK, Entry
      <3>2. entries'[n] = [entries[n] EXCEPT !.ref_count = entries[n].ref_count + 1]
        BY <1>1, <2>2 DEF register_node
      <3>. QED
        BY <3>1, <3>2, CountEntry
    <2>3. CASE n \in DOMAIN d /\ n \notin DOMAIN entries
      BY <1>1, <2>3 DEF register_node, Entry
    <2>. QED
      BY <2>1, <2>2, <2>3
  <1>3. entries' \in [DOMAIN entries' -> Entry]
    BY <1>2 DEF register_node
  <1>. QED
    BY <1>1, <1>3 DEF RegistryOK

\* add_node keeps the type of the topology.
LEMMA AddType ==
    ASSUME RegistryOK, NEW id \in NodeId, NEW ds \in Seq(NodeId), add_node(id, ds)
    PROVE  /\ DOMAIN deps' \subseteq NodeId
           /\ deps' \in [DOMAIN deps' -> Seq(NodeId)]
           /\ dependents' \in [NodeId -> [NodeId -> Nat]]
  <1>1. \A d \in NodeId : Occurrences(ds, d) \in Nat
    BY OccurrencesType
  <1>. QED
    BY <1>1 DEF RegistryOK, add_node

\* remove_node keeps the type of the topology.
LEMMA RemoveType ==
    ASSUME RegistryOK, NEW id \in NodeId, remove_node(id)
    PROVE  /\ DOMAIN deps' \subseteq NodeId
           /\ deps' \in [DOMAIN deps' -> Seq(NodeId)]
           /\ dependents' \in [NodeId -> [NodeId -> Nat]]
  BY DEF RegistryOK, remove_node

\* deactivate_node keeps the type of the registry and of the stack.
LEMMA DeactivateType ==
    ASSUME RegistryOK, NEW id \in NodeId, NEW rest \in Seq(Frame),
           deactivate_node(id, rest)
    PROVE  RegistryOK' /\ work' \in Seq(Frame)
  <1>1. CASE id \notin DOMAIN entries /\ work' = rest /\ UNCHANGED registry
    BY <1>1 DEF RegistryOK, registry
  <1>2. CASE /\ id \in DOMAIN entries /\ Shared(id)
             /\ entries' = [entries EXCEPT ![id].ref_count = @ - 1]
             /\ work' = rest
             /\ UNCHANGED <<deps, dependents, active, guards>>
    <2>1. entries[id] \in Entry /\ entries[id].ref_count - 1 \in Nat \ {0}
      BY <1>2 DEF RegistryOK, Entry, Shared
    <2>2. [entries[id] EXCEPT !.ref_count = entries[id].ref_count - 1] \in Entry
      BY <2>1, CountEntry
    <2>3. entries' \in [DOMAIN entries -> Entry] /\ DOMAIN entries' = DOMAIN entries
      BY <1>2, <2>2 DEF RegistryOK
    <2>. QED
      BY <1>2, <2>3 DEF RegistryOK
  <1>3. CASE /\ id \in DOMAIN entries
             /\ entries' = [n \in DOMAIN entries \ {id} |-> entries[n]]
             /\ drop_guard(id)
             /\ remove_node(id)
             /\ active' = active \ {id}
             /\ work' = Frames("deactivate", entries[id].deps) \o rest
    <2>1. entries[id].deps \in Seq(NodeId)
      BY <1>3 DEF RegistryOK, Entry
    <2>2. work' \in Seq(Frame)
      BY <1>3, <2>1, FramesType, ConcatProperties
    <2>3. DOMAIN entries' \subseteq NodeId /\ entries' \in [DOMAIN entries' -> Entry]
      BY <1>3 DEF RegistryOK
    <2>4. guards' \subseteq NodeId /\ active' \subseteq NodeId
      BY <1>3 DEF RegistryOK, drop_guard
    <2>. QED
      BY <1>3, <2>2, <2>3, <2>4, RemoveType DEF RegistryOK
  <1>. QED
    BY <1>1, <1>2, <1>3 DEF deactivate_node

\* A handle with at most its own ids left to deactivate.
HandleRec ==
    {x \in [state : {"free", "live", "queued"}, node_ids : Seq(NodeId), left : Nat] :
        x.left <= Len(x.node_ids)}

\* A free slot, a handle that is dropped and one with an id less to go.
LEMMA HandleSteps ==
    /\ NoHandle \in HandleRec
    /\ \A x \in HandleRec : [x EXCEPT !.state = "queued"] \in HandleRec
    /\ \A x \in HandleRec, k \in Nat :
          k <= x.left => [x EXCEPT !.left = k] \in HandleRec
  <1>1. NoHandle \in HandleRec
    BY EmptySeq DEF NoHandle, HandleRec
  <1>2. ASSUME NEW x \in HandleRec
        PROVE  [x EXCEPT !.state = "queued"] \in HandleRec
    BY DEF HandleRec
  <1>3. ASSUME NEW x \in HandleRec, NEW k \in Nat, k <= x.left
        PROVE  [x EXCEPT !.left = k] \in HandleRec
    <2>1. Len(x.node_ids) \in Nat
      BY LenProperties DEF HandleRec
    <2>. QED
      BY <1>3, <2>1 DEF HandleRec
  <1>. QED
    BY <1>1, <1>2, <1>3

\* The rest of the type invariant.
CallsOK ==
    /\ handles \in [Handle -> HandleRec]
    /\ pending_removals \in Seq(Handle)
    /\ work \in Seq(Frame)
    /\ phase \in {"idle", "drain", "body", "activate"}
    /\ direct \in [NodeId -> 0..MaxDirect]

\* The two parts make up the type invariant.
LEMMA TypeParts == TypeOK <=> RegistryOK /\ CallsOK
  BY DEF TypeOK, RegistryOK, CallsOK, Entry, HandleRec

\* The same of the next state.
LEMMA TypePartsNext == TypeOK' <=> RegistryOK' /\ CallsOK'
  BY DEF TypeOK, RegistryOK, CallsOK, Entry, HandleRec

\* The type invariant holds of a new engine.
LEMMA InitType == Init => TypeOK
  <1>. SUFFICES ASSUME Init PROVE RegistryOK /\ CallsOK
    BY TypeParts
  <1>1. RegistryOK
    BY DEF Init, RegistryOK, Entry
  <1>2. CallsOK
    BY HandleSteps, MaxDirectAssumption DEF Init, CallsOK
  <1>. QED
    BY <1>1, <1>2

\* Every step keeps the type invariant.
LEMMA NextType ==
    ASSUME TypeOK, [Next]_vars
    PROVE  TypeOK'
  <1>. SUFFICES ASSUME RegistryOK, CallsOK, [Next]_vars
                PROVE  RegistryOK' /\ CallsOK'
    BY TypeParts, TypePartsNext
  <1>1. ASSUME NEW h \in Handle, DropHandle(h)
        PROVE  RegistryOK' /\ CallsOK'
    <2>1. pending_removals' \in Seq(Handle)
      <3>1. pending_removals \in Seq(Handle)
        BY DEF CallsOK
      <3>2. Append(pending_removals, h) \in Seq(Handle)
        BY <3>1, AppendProperties
      <3>. QED
        BY <1>1, <3>1, <3>2 DEF DropHandle
    <2>2. handles' \in [Handle -> HandleRec]
      <3>1. handles[h] \in HandleRec
        BY DEF CallsOK
      <3>2. [handles[h] EXCEPT !.state = "queued"] \in HandleRec /\ NoHandle \in HandleRec
        BY <3>1, HandleSteps
      <3>. QED
        BY <1>1, <3>2 DEF DropHandle, CallsOK
    <2>. QED
      BY <1>1, <2>1, <2>2 DEF DropHandle, RegistryOK, CallsOK, registry
  <1>2. CASE Call
    BY <1>2 DEF Call, RegistryOK, CallsOK, registry
  <1>3. ASSUME NEW r \in Direct, Build(r)
        PROVE  RegistryOK' /\ CallsOK'
    <2>1. r.id \in NodeId /\ r.deps \in Seq(NodeId)
      BY DirectAssumption DEF Registration
    <2>2. RegistryOK'
      BY <1>3, <2>1, RegisterType DEF Build
    <2>3. CallsOK'
      BY <1>3, <2>1, MaxDirectAssumption DEF Build, CallsOK
    <2>. QED
      BY <2>2, <2>3
  <1>4. ASSUME NEW h \in Handle, NEW script \in Script, Merge(h, script)
        PROVE  RegistryOK' /\ CallsOK'
    <2>1. RegistryOK'
      BY <1>4, DescriptorsType, RegisterType DEF Merge
    <2>2. work' \in Seq(Frame)
      BY <1>4, NodeIdsType, FramesType DEF Merge
    <2>3. [state |-> "live", node_ids |-> node_ids(script), left |-> Len(script)] \in HandleRec
      BY NodeIdsType, ScriptType DEF HandleRec
    <2>4. CallsOK'
      BY <1>4, <2>2, <2>3 DEF Merge, CallsOK
    <2>. QED
      BY <2>1, <2>4
  <1>5. ASSUME NEW id \in NodeId, ActivateSink(id)
        PROVE  RegistryOK' /\ CallsOK'
    <2>1. work' \in Seq(Frame)
      <3>1. <<id>> \in Seq(NodeId)
        OBVIOUS
      <3>. QED
        BY <1>5, <3>1, FramesType DEF ActivateSink
    <2>. QED
      BY <1>5, <2>1 DEF ActivateSink, RegistryOK, CallsOK, registry
  <1>6. CASE DrainNext
    <2>. DEFINE h    == Head(pending_removals)
                left == handles[h].left
    <2>1. h \in Handle /\ Tail(pending_removals) \in Seq(Handle)
      BY <1>6, HeadTailProperties DEF DrainNext, CallsOK
    <2>2. /\ handles[h] \in HandleRec
          /\ left \in Nat /\ left >= 1 /\ left <= Len(handles[h].node_ids)
      BY <1>6, <2>1 DEF DrainNext, CallsOK, HandleRec
    <2>3. handles[h].node_ids[left] \in NodeId
      BY <2>2, ElementOfSeq DEF HandleRec
    <2>4. RegistryOK' /\ work' \in Seq(Frame)
      BY <1>6, <2>3, DeactivateType, EmptySeq DEF DrainNext
    <2>5. handles' \in [Handle -> HandleRec] /\ pending_removals' \in Seq(Handle)
      <3>1. [handles[h] EXCEPT !.left = left - 1] \in HandleRec /\ NoHandle \in HandleRec
        <4>1. left - 1 \in Nat /\ left - 1 <= handles[h].left
          BY <2>2
        <4>. HIDE DEF left, h
        <4>. QED
          BY <2>2, <4>1, HandleSteps
      <3>. QED
        BY <1>6, <2>1, <3>1 DEF DrainNext, CallsOK
    <2>. QED
      BY <1>6, <2>4, <2>5 DEF DrainNext, CallsOK
  <1>7. CASE CascadeNext
    <2>1. RegistryOK' /\ work' \in Seq(Frame)
      BY <1>7, TopType, DeactivateType DEF CascadeNext, CallsOK
    <2>. QED
      BY <1>7, <2>1 DEF CascadeNext, CallsOK
  <1>8. CASE EndDrain
    BY <1>8 DEF EndDrain, RegistryOK, CallsOK, registry
  <1>9. CASE EnterNode
    <2>. DEFINE id == Head(work).id
    <2>1. id \in NodeId /\ Tail(work) \in Seq(Frame)
      BY <1>9, TopType DEF EnterNode, CallsOK
    <2>2. CASE work' = Tail(work) /\ UNCHANGED registry
      BY <1>9, <2>1, <2>2 DEF EnterNode, RegistryOK, CallsOK, registry
    <2>3. CASE /\ id \in DOMAIN entries
               /\ add_node(id, entries[id].deps)
               /\ active' = active \cup {id}
               /\ work' = Frames("enter", entries[id].deps)
                            \o Frames("finish", <<id>>) \o Tail(work)
               /\ UNCHANGED <<entries, guards>>
      <3>1. entries[id].deps \in Seq(NodeId)
        BY <2>3 DEF RegistryOK, Entry
      <3>2. Frames("enter", entries[id].deps) \o Frames("finish", <<id>>) \in Seq(Frame)
        <4>1. <<id>> \in Seq(NodeId)
          BY <2>1
        <4>2. /\ Frames("enter", entries[id].deps) \in Seq(Frame)
              /\ Frames("finish", <<id>>) \in Seq(Frame)
          BY <3>1, <4>1, FramesType
        <4>. QED
          BY <4>2, ConcatProperties
      <3>3. work' \in Seq(Frame)
        BY <2>1, <2>3, <3>2, ConcatProperties
      <3>4. RegistryOK'
        BY <2>1, <2>3, <3>1, AddType DEF RegistryOK
      <3>. QED
        BY <1>9, <3>3, <3>4 DEF EnterNode, CallsOK
    <2>. QED
      BY <1>9, <2>2, <2>3 DEF EnterNode
  <1>10. CASE FinishNode
    <2>1. Head(work).id \in NodeId /\ Tail(work) \in Seq(Frame)
      BY <1>10, TopType DEF FinishNode, CallsOK
    <2>. QED
      BY <1>10, <2>1 DEF FinishNode, activate, RegistryOK, CallsOK
  <1>11. CASE Return
    BY <1>11 DEF Return, RegistryOK, CallsOK, registry
  <1>12. CASE UNCHANGED vars
    BY <1>12 DEF vars, registry, RegistryOK, CallsOK
  <1>. QED
    BY <1>1, <1>2, <1>3, <1>4, <1>5, <1>6, <1>7, <1>8, <1>9, <1>10, <1>11, <1>12
       DEF Next, Step

\* The registry, the topology, the handles and the stack of calls keep their
\* types in every run of the engine; in particular a registered node's
\* ref_count is never 0 (Graph::register_node, Engine::deactivate_node).
THEOREM TypeCorrect == Spec => []TypeOK
  <1>1. Init => TypeOK
    BY InitType
  <1>2. TypeOK /\ [Next]_vars => TypeOK'
    BY NextType
  <1>. QED
    BY <1>1, <1>2, PTL DEF Spec

-----------------------------------------------------------------------------
(* The wiring                                                               *)

\* What occurs in a sequence is in its range.
LEMMA OccurrencesRange ==
    ASSUME NEW s \in Seq(NodeId), NEW x, Occurrences(s, x) > 0
    PROVE  x \in Range(s)
  <1>. DEFINE T == {i \in DOMAIN s : s[i] = x}
  <1>1. Cardinality(T) # 0
    BY DEF Occurrences
  <1>2. T # {}
    <2>. HIDE DEF T
    <2>. QED
      BY <1>1, FS_EmptySet
  <1>. QED
    BY <1>2 DEF Range

\* register_node leaves the entries that were there with their dependencies.
LEMMA RegisterWiring ==
    ASSUME RegistryOK, WiringSound, NEW d,
           entries' = register_node(d),
           UNCHANGED <<deps, dependents, active>>
    PROVE  WiringSound'
  <1>1. active \subseteq DOMAIN entries'
    BY DEF register_node, WiringSound
  <1>2. ASSUME NEW n \in active
        PROVE  entries'[n].deps = entries[n].deps
    <2>1. n \in DOMAIN entries /\ entries[n] \in Entry
      BY DEF WiringSound, RegistryOK
    <2>2. entries[n].ref_count + 1 \in Nat \ {0}
      BY <2>1 DEF Entry
    <2>3. [entries[n] EXCEPT !.ref_count = entries[n].ref_count + 1].deps = entries[n].deps
      BY <2>1, <2>2, CountEntry
    <2>4. \/ entries'[n] = entries[n]
          \/ entries'[n] = [entries[n] EXCEPT !.ref_count = entries[n].ref_count + 1]
      BY <2>1 DEF register_node
    <2>. QED
      BY <2>3, <2>4
  <1>. QED
    BY <1>1, <1>2 DEF WiringSound

\* add_node wires a node that was not active to its dependencies.
LEMMA AddWiring ==
    ASSUME RegistryOK, WiringSound, NEW id \in NodeId,
           id \in DOMAIN entries, id \notin active,
           add_node(id, entries[id].deps),
           active' = active \cup {id},
           UNCHANGED entries
    PROVE  WiringSound'
  <1>. DEFINE ds == entries[id].deps
  <1>1. ds \in Seq(NodeId) /\ \A d \in NodeId : Occurrences(ds, d) \in Nat
    BY OccurrencesType DEF RegistryOK, Entry
  <1>2. /\ deps' = [n \in active \cup {id} |-> IF n = id THEN ds ELSE deps[n]]
        /\ active \subseteq DOMAIN entries
    BY DEF WiringSound, add_node
  <1>3. ASSUME NEW d \in NodeId, NEW n \in NodeId, dependents'[d][n] > 0
        PROVE  n \in active' /\ dependents'[d][n] = Occurrences(deps'[n], d)
    <2>1. CASE n = id
      <3>1. dependents[d][id] = 0
        BY DEF WiringSound, RegistryOK
      <3>2. dependents'[d][id] = dependents[d][id] + Occurrences(ds, d)
        BY DEF add_node, RegistryOK
      <3>. QED
        BY <1>1, <1>2, <2>1, <3>1, <3>2
    <2>2. CASE n # id
      <3>1. dependents'[d][n] = dependents[d][n]
        BY <2>2 DEF add_node, RegistryOK
      <3>2. n \in active /\ dependents[d][n] = Occurrences(deps[n], d)
        BY <1>3, <3>1 DEF WiringSound
      <3>. QED
        BY <1>2, <2>2, <3>1, <3>2
    <2>. QED
      BY <2>1, <2>2
  <1>4. \A n \in active' : deps'[n] = entries'[n].deps
    BY <1>2 DEF WiringSound
  <1>. QED
    BY <1>2, <1>3, <1>4 DEF WiringSound

\* remove_node takes a removed node out of every list it is in.
LEMMA RemoveWiring ==
    ASSUME RegistryOK, WiringSound, NEW id \in NodeId,
           entries' = [n \in DOMAIN entries \ {id} |-> entries[n]],
           remove_node(id),
           active' = active \ {id}
    PROVE  WiringSound'
  <1>1. deps' = [n \in active \ {id} |-> deps[n]]
    BY DEF WiringSound, remove_node
  <1>2. \A d, n \in NodeId : dependents[d][n] \in Nat
    BY DEF RegistryOK
  <1>3. ASSUME NEW d \in NodeId, NEW n \in NodeId, dependents'[d][n] > 0
        PROVE  n \in active' /\ dependents'[d][n] = Occurrences(deps'[n], d)
    <2>1. /\ dependents'[d][n] = dependents[d][n]
          /\ ~(n = id /\ id \in DOMAIN deps /\ d \in Range(deps[id]))
      BY <1>3 DEF remove_node
    <2>2. n \in active /\ dependents[d][n] = Occurrences(deps[n], d)
      BY <1>3, <2>1 DEF WiringSound
    <2>3. deps[n] \in Seq(NodeId) /\ n \in DOMAIN deps
      BY <2>2 DEF RegistryOK, WiringSound
    <2>4. d \in Range(deps[n])
      BY <1>3, <2>1, <2>2, <2>3, OccurrencesRange
    <2>5. n # id
      BY <2>1, <2>3, <2>4
    <2>. QED
      BY <1>1, <2>1, <2>2, <2>5
  <1>4. active' \subseteq DOMAIN entries' /\ \A n \in active' : deps'[n] = entries'[n].deps
    BY <1>1 DEF WiringSound
  <1>. QED
    BY <1>1, <1>3, <1>4 DEF WiringSound

\* deactivate_node keeps the wiring sound.
LEMMA DeactivateWiring ==
    ASSUME RegistryOK, WiringSound, NEW id \in NodeId, NEW rest,
           deactivate_node(id, rest)
    PROVE  WiringSound'
  <1>1. CASE UNCHANGED registry
    BY <1>1 DEF WiringSound, registry
  <1>2. CASE /\ id \in DOMAIN entries /\ Shared(id)
             /\ entries' = [entries EXCEPT ![id].ref_count = @ - 1]
             /\ UNCHANGED <<deps, dependents, active, guards>>
    <2>1. entries[id] \in Entry /\ entries[id].ref_count - 1 \in Nat \ {0}
      BY <1>2 DEF RegistryOK, Entry, Shared
    <2>2. [entries[id] EXCEPT !.ref_count = entries[id].ref_count - 1].deps = entries[id].deps
      BY <2>1, CountEntry
    <2>3. DOMAIN entries' = DOMAIN entries
      BY <1>2
    <2>4. \A n \in DOMAIN entries : entries'[n].deps = entries[n].deps
      BY <1>2, <2>2 DEF RegistryOK
    <2>. QED
      BY <1>2, <2>3, <2>4 DEF WiringSound
  <1>3. CASE /\ entries' = [n \in DOMAIN entries \ {id} |-> entries[n]]
             /\ remove_node(id)
             /\ active' = active \ {id}
    BY <1>3, RemoveWiring
  <1>. QED
    BY <1>1, <1>2, <1>3 DEF deactivate_node

\* Whatever is merged, built, activated, dropped and drained, and in whatever
\* order, the topology describes exactly the active nodes and has no edge to a
\* node that is gone (Topology::add_node and remove_node as activate_node and
\* deactivate_node use them).
THEOREM WiringIsSound == Spec => []WiringSound
  <1>1. Init => WiringSound
    BY DEF Init, WiringSound
  <1>2. ASSUME TypeOK, WiringSound, [Next]_vars
        PROVE  WiringSound'
    <2>. USE TypeParts, <1>2
    <2>1. CASE UNCHANGED registry
      BY <2>1 DEF registry, WiringSound
    <2>2. ASSUME NEW r \in Direct, Build(r)
          PROVE  WiringSound'
      BY <2>2, RegisterWiring DEF Build
    <2>3. ASSUME NEW h \in Handle, NEW script \in Script, Merge(h, script)
          PROVE  WiringSound'
      BY <2>3, RegisterWiring DEF Merge
    <2>4. CASE DrainNext
      <3>. DEFINE h    == Head(pending_removals)
                  left == handles[h].left
      <3>1. h \in Handle
        BY <2>4, HeadTailProperties DEF DrainNext, CallsOK
      <3>2. /\ handles[h] \in HandleRec
            /\ left \in Nat /\ left >= 1 /\ left <= Len(handles[h].node_ids)
        BY <2>4, <3>1 DEF DrainNext, CallsOK, HandleRec
      <3>3. handles[h].node_ids[left] \in NodeId
        BY <3>2, ElementOfSeq DEF HandleRec
      <3>. QED
        BY <2>4, <3>3, DeactivateWiring DEF DrainNext
    <2>5. CASE CascadeNext
      BY <2>5, TopType, DeactivateWiring DEF CascadeNext, CallsOK
    <2>6. CASE EnterNode
      <3>1. Head(work).id \in NodeId
        BY <2>6, TopType DEF EnterNode, CallsOK
      <3>. QED
        BY <2>1, <2>6, <3>1, AddWiring DEF EnterNode
    <2>7. CASE FinishNode
      BY <2>7 DEF FinishNode, WiringSound
    <2>8. CASE Call \/ EndDrain \/ Return \/ UNCHANGED vars
      BY <2>1, <2>8 DEF Call, EndDrain, Return, vars
    <2>9. ASSUME NEW h \in Handle, DropHandle(h)
          PROVE  WiringSound'
      BY <2>1, <2>9 DEF DropHandle
    <2>10. ASSUME NEW id \in NodeId, ActivateSink(id)
           PROVE  WiringSound'
      BY <2>1, <2>10 DEF ActivateSink
    <2>. QED
      BY <2>2, <2>3, <2>4, <2>5, <2>6, <2>7, <2>8, <2>9, <2>10 DEF Next, Step
  <1>. QED
    BY <1>1, <1>2, TypeCorrect, PTL DEF Spec

-----------------------------------------------------------------------------
(* Claims                                                                   *)

\* The claims on n of the handles hs.
ClaimsOf(hs, n) ==
    UNION {{<<h, i>> : i \in {j \in 1..hs[h].left : hs[h].node_ids[j] = n}} : h \in Handle}

\* Claims are the claims of the handles, in this state and in the next one.
LEMMA ClaimsAre ==
    ASSUME NEW n
    PROVE  Claims(n) = ClaimsOf(handles, n) /\ Claims(n)' = ClaimsOf(handles', n)
  BY DEF Claims, ClaimsOf

\* A claim is an id of a handle that is still to be deactivated.
LEMMA ClaimsMember ==
    ASSUME NEW hs, NEW n, NEW c
    PROVE  c \in ClaimsOf(hs, n) <=>
              \E h \in Handle : \E i \in 1..hs[h].left : hs[h].node_ids[i] = n /\ c = <<h, i>>
  BY DEF ClaimsOf

\* There are finitely many claims on a node.
LEMMA ClaimsFinite ==
    ASSUME NEW hs \in [Handle -> HandleRec], NEW n
    PROVE  IsFiniteSet(ClaimsOf(hs, n))
  <1>. DEFINE Of(h) == {<<h, i>> : i \in {j \in 1..hs[h].left : hs[h].node_ids[j] = n}}
              All   == {Of(h) : h \in Handle}
  <1>1. ASSUME NEW h \in Handle
        PROVE  IsFiniteSet(Of(h))
    <2>1. IsFiniteSet(1..hs[h].left)
      BY FS_Interval DEF HandleRec
    <2>2. IsFiniteSet({h})
      BY FS_Singleton
    <2>3. IsFiniteSet({h} \X (1..hs[h].left))
      BY <2>1, <2>2, FS_Product
    <2>4. Of(h) \in SUBSET ({h} \X (1..hs[h].left))
      OBVIOUS
    <2>. HIDE DEF Of
    <2>. QED
      BY <2>3, <2>4, FS_Subset
  <1>2. IsFiniteSet(All)
    <2>. DEFINE f == [h \in Handle |-> Of(h)]
    <2>. HIDE DEF Of
    <2>1. f \in Surjection(Handle, All)
      BY DEF Surjection
    <2>. HIDE DEF f, All
    <2>. QED
      BY <2>1, HandleAssumption, FS_Surjection
  <1>3. \A T \in All : IsFiniteSet(T)
    BY <1>1
  <1>4. ClaimsOf(hs, n) = UNION All
    BY DEF ClaimsOf
  <1>. HIDE DEF All
  <1>. QED
    BY <1>2, <1>3, <1>4, FS_UNION

\* Handles with the same ids to go have the same claims.
LEMMA ClaimsSame ==
    ASSUME NEW hs \in [Handle -> HandleRec], NEW gs \in [Handle -> HandleRec], NEW n,
           \A h \in Handle : /\ gs[h].left = hs[h].left
                             /\ gs[h].left > 0 => gs[h].node_ids = hs[h].node_ids
    PROVE  ClaimsOf(gs, n) = ClaimsOf(hs, n)
  <1>1. ASSUME NEW h \in Handle, NEW i \in 1..hs[h].left
        PROVE  gs[h].node_ids[i] = hs[h].node_ids[i]
    <2>1. hs[h].left \in Nat
      BY DEF HandleRec
    <2>2. gs[h].left > 0
      BY <2>1
    <2>. QED
      BY <2>2
  <1>2. \A c : c \in ClaimsOf(gs, n) <=> c \in ClaimsOf(hs, n)
    BY <1>1, ClaimsMember
  <1>. QED
    BY <1>2

\* A drain step settles one claim, on the id it deactivates.
LEMMA ClaimsSettled ==
    ASSUME NEW hs \in [Handle -> HandleRec], NEW gs \in [Handle -> HandleRec], NEW n,
           NEW h \in Handle, hs[h].left > 0, gs[h].left = hs[h].left - 1,
           gs[h].left > 0 => gs[h].node_ids = hs[h].node_ids,
           \A k \in Handle \ {h} : gs[k] = hs[k]
    PROVE  ClaimsOf(gs, n) = ClaimsOf(hs, n) \ {<<h, hs[h].left>>}
  <1>. DEFINE left == hs[h].left
  <1>1. left \in Nat /\ left > 0
    BY DEF HandleRec
  <1>2. ASSUME NEW c \in ClaimsOf(gs, n)
        PROVE  c \in ClaimsOf(hs, n) \ {<<h, left>>}
    <2>1. PICK k \in Handle, i \in Nat :
            i \in 1..gs[k].left /\ gs[k].node_ids[i] = n /\ c = <<k, i>>
      BY ClaimsMember DEF HandleRec
    <2>2. /\ i \in 1..hs[k].left /\ hs[k].node_ids[i] = n
          /\ k = h => i # left
      BY <1>1, <2>1
    <2>3. c \in ClaimsOf(hs, n)
      BY <2>1, <2>2, ClaimsMember
    <2>. QED
      BY <2>1, <2>2, <2>3
  <1>3. ASSUME NEW c \in ClaimsOf(hs, n) \ {<<h, left>>}
        PROVE  c \in ClaimsOf(gs, n)
    <2>1. PICK k \in Handle, i \in Nat :
            i \in 1..hs[k].left /\ hs[k].node_ids[i] = n /\ c = <<k, i>>
      BY ClaimsMember DEF HandleRec
    <2>2. i \in 1..gs[k].left /\ gs[k].node_ids[i] = n
      BY <1>1, <1>3, <2>1
    <2>. QED
      BY <2>1, <2>2, ClaimsMember
  <1>. QED
    BY <1>2, <1>3

\* A merge into a free slot adds claims, one at least on each of its ids.
LEMMA ClaimsAdded ==
    ASSUME NEW hs \in [Handle -> HandleRec], NEW gs \in [Handle -> HandleRec],
           NEW h \in Handle, hs[h].left = 0,
           \A k \in Handle \ {h} : gs[k] = hs[k],
           NEW n
    PROVE  /\ ClaimsOf(hs, n) \subseteq ClaimsOf(gs, n)
           /\ \A i \in 1..gs[h].left : gs[h].node_ids[i] = n =>
                 <<h, i>> \in ClaimsOf(gs, n) \ ClaimsOf(hs, n)
  <1>1. ASSUME NEW c \in ClaimsOf(hs, n)
        PROVE  c \in ClaimsOf(gs, n) /\ \A i : c # <<h, i>>
    <2>1. PICK k \in Handle, i \in Nat :
            i \in 1..hs[k].left /\ hs[k].node_ids[i] = n /\ c = <<k, i>>
      BY ClaimsMember DEF HandleRec
    <2>2. k # h
      BY <2>1
    <2>3. i \in 1..gs[k].left /\ gs[k].node_ids[i] = n
      BY <2>1, <2>2
    <2>. QED
      BY <2>1, <2>2, <2>3, ClaimsMember
  <1>2. ASSUME NEW i \in 1..gs[h].left, gs[h].node_ids[i] = n
        PROVE  <<h, i>> \in ClaimsOf(gs, n)
    BY <1>2, ClaimsMember
  <1>. QED
    BY <1>1, <1>2

-----------------------------------------------------------------------------
(* References                                                               *)

\* A free slot has no claims.
FreeUnclaimed == \A h \in Handle : handles[h].state = "free" => handles[h].left = 0

\* deactivate_node gives up a reference to its node and takes none.
LEMMA DeactivateRefs ==
    ASSUME RegistryOK, NEW id \in NodeId, NEW rest, deactivate_node(id, rest)
    PROVE  /\ DOMAIN entries' \subseteq DOMAIN entries
           /\ \A n \in DOMAIN entries' :
                 entries'[n].ref_count = IF n = id THEN entries[n].ref_count - 1
                                                   ELSE entries[n].ref_count
  <1>1. CASE id \notin DOMAIN entries /\ UNCHANGED registry
    BY <1>1 DEF registry
  <1>2. CASE /\ id \in DOMAIN entries /\ Shared(id)
             /\ entries' = [entries EXCEPT ![id].ref_count = @ - 1]
    <2>1. entries[id] \in Entry /\ entries[id].ref_count - 1 \in Nat \ {0}
      BY <1>2 DEF RegistryOK, Entry, Shared
    <2>2. [entries[id] EXCEPT !.ref_count = entries[id].ref_count - 1].ref_count
             = entries[id].ref_count - 1
      BY <2>1, CountEntry
    <2>. QED
      BY <1>2, <2>2 DEF RegistryOK
  <1>3. CASE entries' = [n \in DOMAIN entries \ {id} |-> entries[n]]
    BY <1>3
  <1>. QED
    BY <1>1, <1>2, <1>3 DEF deactivate_node

\* register_node takes one reference to each node it registers.
LEMMA RegisterRefs ==
    ASSUME RegistryOK, NEW d, entries' = register_node(d)
    PROVE  \A n \in DOMAIN entries' :
              \/ n \notin DOMAIN d /\ n \in DOMAIN entries /\ entries'[n] = entries[n]
              \/ /\ n \in DOMAIN d /\ n \in DOMAIN entries
                 /\ entries'[n].ref_count = entries[n].ref_count + 1
              \/ n \in DOMAIN d /\ n \notin DOMAIN entries /\ entries'[n].ref_count = 1
  <1>. SUFFICES ASSUME NEW n \in DOMAIN entries', n \in DOMAIN d, n \in DOMAIN entries
                PROVE  entries'[n].ref_count = entries[n].ref_count + 1
    BY DEF register_node
  <1>1. entries[n] \in Entry /\ entries[n].ref_count + 1 \in Nat \ {0}
    BY DEF RegistryOK, Entry
  <1>2. entries'[n] = [entries[n] EXCEPT !.ref_count = entries[n].ref_count + 1]
    BY DEF register_node
  <1>. QED
    BY <1>1, <1>2, CountEntry

\* A step that takes no reference and settles no claim keeps RefsClaimed.
LEMMA RefsKept ==
    ASSUME TypeOK, TypeOK', RefsClaimed, UNCHANGED direct,
           DOMAIN entries' \subseteq DOMAIN entries,
           \A n \in DOMAIN entries' : entries'[n].ref_count <= entries[n].ref_count,
           \A h \in Handle : /\ handles'[h].left = handles[h].left
                             /\ handles'[h].left > 0 => handles'[h].node_ids = handles[h].node_ids
    PROVE  RefsClaimed'
  <1>. SUFFICES ASSUME NEW n \in DOMAIN entries'
                PROVE  entries'[n].ref_count <= direct'[n] + Cardinality(Claims(n)')
    BY DEF RefsClaimed
  <1>1. /\ handles \in [Handle -> HandleRec] /\ handles' \in [Handle -> HandleRec]
        /\ n \in NodeId /\ n \in DOMAIN entries
        /\ entries[n].ref_count \in Nat /\ entries'[n].ref_count \in Nat
        /\ direct[n] \in Nat
    BY TypeParts, TypePartsNext DEF RegistryOK, CallsOK, Entry
  <1>2. Claims(n)' = Claims(n)
    BY <1>1, ClaimsSame, ClaimsAre
  <1>3. Cardinality(Claims(n)) \in Nat
    BY <1>1, ClaimsFinite, ClaimsAre, FS_CardinalityType
  <1>4. entries[n].ref_count <= direct[n] + Cardinality(Claims(n))
    BY <1>1 DEF RefsClaimed
  <1>. QED
    BY <1>1, <1>2, <1>3, <1>4

\* Every step keeps the references claimed.
LEMMA NextRefs ==
    ASSUME TypeOK, TypeOK', FreeUnclaimed, RefsClaimed, [Next]_vars
    PROVE  FreeUnclaimed' /\ RefsClaimed'
  <1>. USE TypeParts, TypePartsNext
  <1>0. handles \in [Handle -> HandleRec] /\ handles' \in [Handle -> HandleRec]
    BY DEF CallsOK
  <1>1. CASE UNCHANGED <<entries, handles, direct>>
    <2>1. RefsClaimed'
      BY <1>1 DEF RefsClaimed, Claims
    <2>. QED
      BY <1>1, <2>1 DEF FreeUnclaimed
  <1>2. ASSUME NEW h \in Handle, DropHandle(h)
        PROVE  FreeUnclaimed' /\ RefsClaimed'
    <2>1. handles[h].node_ids = <<>> => handles[h].left = 0
      BY EmptySeq DEF CallsOK, HandleRec
    <2>2. /\ handles[h] \in HandleRec
          /\ \A k \in Handle \ {h} : handles'[k] = handles[k]
      BY <1>0, <1>2 DEF DropHandle
    <2>3. /\ handles'[h].left = handles[h].left
          /\ handles'[h].left > 0 => handles'[h].node_ids = handles[h].node_ids
          /\ handles'[h].state = "free" => handles'[h].left = 0
      <3>1. CASE handles' = [handles EXCEPT ![h] = NoHandle] /\ handles[h].node_ids = <<>>
        BY <1>0, <2>1, <3>1 DEF NoHandle
      <3>2. CASE handles' = [handles EXCEPT ![h].state = "queued"]
        <4>1. handles'[h] = [handles[h] EXCEPT !.state = "queued"]
          BY <1>0, <3>2
        <4>. QED
          BY <2>2, <4>1 DEF HandleRec
      <3>. QED
        BY <1>2, <3>1, <3>2 DEF DropHandle
    <2>5. FreeUnclaimed'
      BY <2>2, <2>3 DEF FreeUnclaimed
    <2>6. \A k \in Handle : /\ handles'[k].left = handles[k].left
                            /\ handles'[k].left > 0 => handles'[k].node_ids = handles[k].node_ids
      BY <2>2, <2>3
    <2>4. \A n \in DOMAIN entries : entries[n].ref_count \in Nat
      BY DEF RegistryOK, Entry
    <2>. QED
      BY <1>2, <2>4, <2>5, <2>6, RefsKept DEF DropHandle, registry
  <1>3. ASSUME NEW r \in Direct, Build(r)
        PROVE  FreeUnclaimed' /\ RefsClaimed'
    <2>1. FreeUnclaimed'
      BY <1>3 DEF Build, FreeUnclaimed
    <2>2. ASSUME NEW n \in DOMAIN entries'
          PROVE  entries'[n].ref_count <= direct'[n] + Cardinality(Claims(n)')
      <3>1. /\ n \in NodeId /\ r.id \in NodeId
            /\ direct[n] \in Nat /\ direct'[n] = direct[n] + (IF n = r.id THEN 1 ELSE 0)
        BY <1>3, DirectAssumption, MaxDirectAssumption
           DEF Build, RegistryOK, CallsOK, Registration
      <3>2. Claims(n)' = Claims(n) /\ Cardinality(Claims(n)) \in Nat
        BY <1>0, <1>3, ClaimsAre, ClaimsFinite, FS_CardinalityType DEF Build
      <3>3. n \in DOMAIN entries => /\ entries[n].ref_count \in Nat
                                    /\ entries[n].ref_count <= direct[n] + Cardinality(Claims(n))
        BY DEF RefsClaimed, RegistryOK, Entry
      <3>4. \/ n # r.id /\ n \in DOMAIN entries /\ entries'[n] = entries[n]
            \/ n = r.id /\ n \in DOMAIN entries
                 /\ entries'[n].ref_count = entries[n].ref_count + 1
            \/ n = r.id /\ entries'[n].ref_count = 1
        <4>. DEFINE d == [m \in {r.id} |-> r.deps]
        <4>1. entries' = register_node(d) /\ DOMAIN d = {r.id}
          BY <1>3 DEF Build
        <4>. HIDE DEF d
        <4>. QED
          BY <4>1, RegisterRefs
      <3>. QED
        BY <3>1, <3>2, <3>3, <3>4
    <2>. QED
      BY <2>1, <2>2 DEF RefsClaimed
  <1>4. ASSUME NEW h \in Handle, NEW script \in Script, Merge(h, script)
        PROVE  FreeUnclaimed' /\ RefsClaimed'
    <2>1. /\ handles[h].left = 0
          /\ handles'[h].left = Len(script) /\ handles'[h].node_ids = node_ids(script)
          /\ handles'[h].state = "live"
          /\ \A k \in Handle \ {h} : handles'[k] = handles[k]
      BY <1>0, <1>4 DEF Merge, FreeUnclaimed
    <2>2. FreeUnclaimed'
      BY <2>1 DEF FreeUnclaimed
    <2>3. ASSUME NEW n \in DOMAIN entries'
          PROVE  entries'[n].ref_count <= direct'[n] + Cardinality(Claims(n)')
      <3>. DEFINE C == Claims(n)
                  D == Claims(n)'
      <3>1. C = ClaimsOf(handles, n) /\ D = ClaimsOf(handles', n)
        BY ClaimsAre
      <3>2. IsFiniteSet(C) /\ IsFiniteSet(D)
        BY <1>0, <3>1, ClaimsFinite
      <3>3. Cardinality(C) \in Nat /\ Cardinality(D) \in Nat
        BY <3>2, FS_CardinalityType
      <3>4. C \subseteq D /\ (n \in DOMAIN descriptors(script) => C # D)
        <4>1. /\ C \subseteq D
              /\ \A i \in 1..Len(script) : node_ids(script)[i] = n => <<h, i>> \in D \ C
          BY <1>0, <2>1, <3>1, ClaimsAdded
        <4>2. ASSUME n \in DOMAIN descriptors(script)
              PROVE  \E i \in 1..Len(script) : node_ids(script)[i] = n
          BY <4>2, ScriptType DEF descriptors, node_ids
        <4>. QED
          BY <4>1, <4>2
      <3>5. /\ Cardinality(C) <= Cardinality(D)
            /\ n \in DOMAIN descriptors(script) => Cardinality(C) + 1 <= Cardinality(D)
        <4>. HIDE DEF C, D
        <4>. QED
          BY <3>2, <3>3, <3>4, FS_Subset
      <3>6. n \in NodeId /\ direct[n] \in Nat /\ direct'[n] = direct[n]
        BY <1>4 DEF Merge, RegistryOK, CallsOK
      <3>7. n \in DOMAIN entries => /\ entries[n].ref_count \in Nat
                                    /\ entries[n].ref_count <= direct[n] + Cardinality(C)
        BY DEF RefsClaimed, RegistryOK, Entry
      <3>8. \/ n \in DOMAIN entries /\ entries'[n] = entries[n]
            \/ n \in DOMAIN descriptors(script) /\ n \in DOMAIN entries
                 /\ entries'[n].ref_count = entries[n].ref_count + 1
            \/ n \in DOMAIN descriptors(script) /\ entries'[n].ref_count = 1
        BY <1>4, RegisterRefs DEF Merge
      <3>. HIDE DEF C, D
      <3>9. entries'[n].ref_count <= direct'[n] + Cardinality(D)
        BY <3>3, <3>5, <3>6, <3>7, <3>8
      <3>. QED
        BY <3>9 DEF D
    <2>. QED
      BY <2>2, <2>3 DEF RefsClaimed
  <1>5. CASE DrainNext
    <2>. DEFINE h    == Head(pending_removals)
                left == handles[h].left
                id   == handles[h].node_ids[left]
    <2>1. h \in Handle
      BY <1>5, HeadTailProperties DEF DrainNext, CallsOK
    <2>2. /\ handles[h] \in HandleRec
          /\ left \in Nat /\ left > 0 /\ left <= Len(handles[h].node_ids)
      <3>1. handles[h] \in HandleRec /\ left <= Len(handles[h].node_ids)
        BY <2>1 DEF CallsOK, HandleRec
      <3>2. left > 1 \/ left = 1
        BY <1>5 DEF DrainNext
      <3>. QED
        BY <3>1, <3>2 DEF HandleRec
    <2>3. id \in NodeId
      BY <2>2, ElementOfSeq DEF HandleRec
    <2>4. /\ DOMAIN entries' \subseteq DOMAIN entries
          /\ \A n \in DOMAIN entries' :
                entries'[n].ref_count = IF n = id THEN entries[n].ref_count - 1
                                                  ELSE entries[n].ref_count
      <3>1. deactivate_node(id, <<>>)
        BY <1>5 DEF DrainNext
      <3>. HIDE DEF id
      <3>. QED
        BY <2>3, <3>1, DeactivateRefs
    <2>5. /\ handles'[h].left = left - 1
          /\ handles'[h].left > 0 => handles'[h].node_ids = handles[h].node_ids
          /\ \A k \in Handle \ {h} : handles'[k] = handles[k]
          /\ handles'[h].state = "free" => handles'[h].left = 0 \/ handles[h].state = "free"
      BY <1>0, <1>5, <2>1, <2>2 DEF DrainNext, NoHandle, HandleRec
    <2>6. FreeUnclaimed'
      BY <2>1, <2>2, <2>5 DEF FreeUnclaimed
    <2>7. ASSUME NEW n \in DOMAIN entries'
          PROVE  entries'[n].ref_count <= direct'[n] + Cardinality(Claims(n)')
      <3>. DEFINE C == Claims(n)
                  D == Claims(n)'
      <3>1. C = ClaimsOf(handles, n) /\ D = ClaimsOf(handles', n)
        BY ClaimsAre
      <3>2. D = C \ {<<h, left>>}
        <4>. HIDE DEF h, C, D
        <4>. QED
          BY <1>0, <2>1, <2>2, <2>5, <3>1, ClaimsSettled
      <3>3. <<h, left>> \in C => n = id
        <4>. HIDE DEF C
        <4>1. ASSUME <<h, left>> \in C
              PROVE  \E k \in Handle : \E i \in 1..handles[k].left :
                        handles[k].node_ids[i] = n /\ <<h, left>> = <<k, i>>
          BY <3>1, <4>1, ClaimsMember
        <4>. QED
          BY <4>1
      <3>4. IsFiniteSet(C)
        BY <1>0, <3>1, ClaimsFinite
      <3>5. Cardinality(C) \in Nat
        BY <3>4, FS_CardinalityType
      <3>6. Cardinality(D) = IF <<h, left>> \in C THEN Cardinality(C) - 1 ELSE Cardinality(C)
        <4>. HIDE DEF C, D, h
        <4>. QED
          BY <3>2, <3>4, FS_RemoveElement
      <3>7. n \in NodeId /\ direct[n] \in Nat /\ direct'[n] = direct[n]
        BY <1>5 DEF DrainNext, RegistryOK, CallsOK
      <3>8. /\ entries[n].ref_count \in Nat
            /\ entries[n].ref_count <= direct[n] + Cardinality(C)
        BY <2>4 DEF RefsClaimed, RegistryOK, Entry
      <3>9. entries'[n].ref_count = IF n = id THEN entries[n].ref_count - 1
                                              ELSE entries[n].ref_count
        BY <2>4
      <3>. HIDE DEF C, D, h, left, id
      <3>10. entries'[n].ref_count <= direct'[n] + Cardinality(D)
        BY <3>3, <3>5, <3>6, <3>7, <3>8, <3>9
      <3>. QED
        BY <3>10 DEF D
    <2>. QED
      BY <2>6, <2>7 DEF RefsClaimed
  <1>6. CASE CascadeNext
    <2>1. Head(work).id \in NodeId
      BY <1>6, TopType DEF CascadeNext, CallsOK
    <2>2. /\ DOMAIN entries' \subseteq DOMAIN entries
          /\ \A n \in DOMAIN entries' :
                entries'[n].ref_count = IF n = Head(work).id THEN entries[n].ref_count - 1
                                                             ELSE entries[n].ref_count
      BY <1>6, <2>1, DeactivateRefs DEF CascadeNext
    <2>3. \A n \in DOMAIN entries' : entries'[n].ref_count <= entries[n].ref_count
      <3>1. \A n \in DOMAIN entries' : entries[n].ref_count \in Nat
        BY <2>2 DEF RegistryOK, Entry
      <3>. QED
        BY <2>2, <3>1
    <2>. QED
      BY <1>6, <2>2, <2>3, RefsKept DEF CascadeNext, FreeUnclaimed
  <1>7. ASSUME NEW id \in NodeId, ActivateSink(id)
        PROVE  FreeUnclaimed' /\ RefsClaimed'
    BY <1>1, <1>7 DEF ActivateSink, registry
  <1>8. CASE Call \/ EndDrain \/ EnterNode \/ FinishNode \/ Return \/ UNCHANGED vars
    BY <1>1, <1>8 DEF Call, EndDrain, EnterNode, FinishNode, Return, vars, registry
  <1>. QED
    BY <1>2, <1>3, <1>4, <1>5, <1>6, <1>7, <1>8 DEF Next, Step

\* Engine::merge never takes a reference that no handle gives back: in every run,
\* a node's ref_count is at most its direct registrations and the number of times
\* the handles that were not drained yet name it.
THEOREM RefsAreClaimed == Spec => [](FreeUnclaimed /\ RefsClaimed)
  <1>1. Init => FreeUnclaimed /\ RefsClaimed
    BY DEF Init, FreeUnclaimed, RefsClaimed, NoHandle
  <1>2. TypeOK /\ TypeOK' /\ FreeUnclaimed /\ RefsClaimed /\ [Next]_vars
           => FreeUnclaimed' /\ RefsClaimed'
    BY NextRefs
  <1>. QED
    BY <1>1, <1>2, TypeCorrect, PTL DEF Spec

-----------------------------------------------------------------------------
(* Guards                                                                   *)

\* The nodes whose activation callback is still to run.
Finishing(w) == {w[i].id : i \in {j \in DOMAIN w : w[j].op = "finish"}}

\* The top frame and the frames below it.
LEMMA FinishingTop ==
    ASSUME NEW w \in Seq(Frame), w # <<>>
    PROVE  Finishing(w) = Finishing(Tail(w)) \cup
                             (IF Head(w).op = "finish" THEN {Head(w).id} ELSE {})
  <1>1. /\ Len(w) \in Nat \ {0} /\ DOMAIN w = 1..Len(w)
        /\ DOMAIN Tail(w) = 1..(Len(w) - 1)
        /\ \A i \in 1..(Len(w) - 1) : Tail(w)[i] = w[i + 1]
        /\ Head(w) = w[1]
    BY LenProperties, EmptySeq, HeadTailProperties
  <1>2. ASSUME NEW n \in Finishing(w)
        PROVE  n \in Finishing(Tail(w)) \/ (Head(w).op = "finish" /\ n = Head(w).id)
    <2>1. PICK i \in 1..Len(w) : w[i].op = "finish" /\ w[i].id = n
      BY <1>1 DEF Finishing
    <2>2. i = 1 \/ (i - 1 \in 1..(Len(w) - 1) /\ Tail(w)[i - 1] = w[i])
      BY <1>1
    <2>. QED
      BY <1>1, <2>1, <2>2 DEF Finishing
  <1>3. ASSUME NEW n \in Finishing(Tail(w))
        PROVE  n \in Finishing(w)
    <2>1. PICK i \in 1..(Len(w) - 1) : Tail(w)[i].op = "finish" /\ Tail(w)[i].id = n
      BY <1>1 DEF Finishing
    <2>2. i + 1 \in 1..Len(w) /\ Tail(w)[i] = w[i + 1]
      BY <1>1
    <2>. QED
      BY <1>1, <2>1, <2>2 DEF Finishing
  <1>4. Head(w).op = "finish" => Head(w).id \in Finishing(w)
    BY <1>1 DEF Finishing
  <1>. QED
    BY <1>2, <1>3, <1>4

\* Frames that are put on top of others.
LEMMA FinishingConcat ==
    ASSUME NEW v \in Seq(Frame), NEW w \in Seq(Frame)
    PROVE  Finishing(v \o w) = Finishing(v) \cup Finishing(w)
  <1>1. /\ Len(v) \in Nat /\ DOMAIN v = 1..Len(v)
        /\ Len(w) \in Nat /\ DOMAIN w = 1..Len(w)
        /\ DOMAIN (v \o w) = 1..(Len(v) + Len(w))
        /\ \A i \in 1..(Len(v) + Len(w)) :
              (v \o w)[i] = IF i <= Len(v) THEN v[i] ELSE w[i - Len(v)]
    BY LenProperties, ConcatProperties
  <1>2. ASSUME NEW n \in Finishing(v \o w)
        PROVE  n \in Finishing(v) \cup Finishing(w)
    <2>1. PICK i \in 1..(Len(v) + Len(w)) : (v \o w)[i].op = "finish" /\ (v \o w)[i].id = n
      BY <1>1 DEF Finishing
    <2>2. \/ i \in 1..Len(v) /\ (v \o w)[i] = v[i]
          \/ i - Len(v) \in 1..Len(w) /\ (v \o w)[i] = w[i - Len(v)]
      BY <1>1
    <2>. QED
      BY <1>1, <2>1, <2>2 DEF Finishing
  <1>3. ASSUME NEW n \in Finishing(v)
        PROVE  n \in Finishing(v \o w)
    <2>1. PICK i \in 1..Len(v) : v[i].op = "finish" /\ v[i].id = n
      BY <1>1 DEF Finishing
    <2>2. i \in 1..(Len(v) + Len(w)) /\ (v \o w)[i] = v[i]
      BY <1>1
    <2>. QED
      BY <1>1, <2>1, <2>2 DEF Finishing
  <1>4. ASSUME NEW n \in Finishing(w)
        PROVE  n \in Finishing(v \o w)
    <2>1. PICK i \in 1..Len(w) : w[i].op = "finish" /\ w[i].id = n
      BY <1>1 DEF Finishing
    <2>2. i + Len(v) \in 1..(Len(v) + Len(w)) /\ (v \o w)[i + Len(v)] = w[i]
      BY <1>1
    <2>. QED
      BY <1>1, <2>1, <2>2 DEF Finishing
  <1>. QED
    BY <1>2, <1>3, <1>4

\* Only "finish" frames have a callback to run.
LEMMA FinishingFrames ==
    ASSUME NEW op, NEW ids
    PROVE  Finishing(Frames(op, ids)) = IF op = "finish" THEN {ids[i] : i \in DOMAIN ids} ELSE {}
  BY DEF Finishing, Frames

\* What GuardsMatch rests on: a guarded source that is active without its guard
\* has its callback still to run, which only happens during an activation.
GuardsPending ==
    /\ guards \subseteq active \cap Guarded
    /\ active \cap Guarded \subseteq guards \cup Finishing(work)
    /\ Finishing(work) \subseteq active
    /\ phase # "activate" => Finishing(work) = {}

\* deactivate_node removes a guard together with its node.
LEMMA DeactivateGuards ==
    ASSUME RegistryOK, NEW id \in NodeId, NEW rest \in Seq(Frame), Finishing(rest) = {},
           guards = active \cap Guarded, active \subseteq DOMAIN entries,
           deactivate_node(id, rest)
    PROVE  guards' = active' \cap Guarded /\ Finishing(work') = {}
  <1>1. CASE work' = rest /\ UNCHANGED <<active, guards>>
    BY <1>1
  <1>2. CASE /\ id \in DOMAIN entries
             /\ drop_guard(id) /\ active' = active \ {id}
             /\ work' = Frames("deactivate", entries[id].deps) \o rest
    <2>1. guards' = active' \cap Guarded
      BY <1>2, GuardedAssumption DEF drop_guard
    <2>2. Frames("deactivate", entries[id].deps) \in Seq(Frame)
      BY <1>2, FramesType DEF RegistryOK, Entry
    <2>3. Finishing(work') = {}
      BY <1>2, <2>2, FinishingConcat, FinishingFrames
    <2>. QED
      BY <2>1, <2>3
  <1>. QED
    BY <1>1, <1>2 DEF deactivate_node, registry

\* Every step keeps GuardsPending.
LEMMA NextGuards ==
    ASSUME TypeOK, WiringSound, GuardsPending, [Next]_vars
    PROVE  GuardsPending'
  <1>. USE TypeParts
  <1>0. work \in Seq(Frame) /\ active \subseteq DOMAIN entries
    BY DEF CallsOK, WiringSound
  <1>1. CASE /\ UNCHANGED <<active, guards>>
             /\ Finishing(work) = {} /\ Finishing(work') = {}
    BY <1>1 DEF GuardsPending
  <1>2. CASE phase # "activate" /\ UNCHANGED <<active, guards, work>>
    BY <1>1, <1>2 DEF GuardsPending
  <1>3. CASE UNCHANGED <<active, guards, work, phase>>
    BY <1>3 DEF GuardsPending
  <1>4. ASSUME NEW h \in Handle, NEW script \in Script, Merge(h, script)
        PROVE  GuardsPending'
    <2>1. Finishing(work) = {}
      BY <1>4 DEF Merge, GuardsPending
    <2>2. Finishing(work') = {}
      BY <1>4, FinishingFrames DEF Merge
    <2>. QED
      BY <1>1, <1>4, <2>1, <2>2 DEF Merge
  <1>5. ASSUME NEW id \in NodeId, ActivateSink(id)
        PROVE  GuardsPending'
    <2>1. Finishing(work) = {}
      BY <1>5 DEF ActivateSink, GuardsPending
    <2>2. Finishing(work') = {}
      BY <1>5, FinishingFrames DEF ActivateSink
    <2>. QED
      BY <1>1, <1>5, <2>1, <2>2 DEF ActivateSink, registry
  <1>6. CASE DrainNext
    <2>. DEFINE h    == Head(pending_removals)
                left == handles[h].left
                id   == handles[h].node_ids[left]
    <2>1. h \in Handle
      BY <1>6, HeadTailProperties DEF DrainNext, CallsOK
    <2>2. /\ handles[h] \in HandleRec
          /\ left \in Nat /\ left > 0 /\ left <= Len(handles[h].node_ids)
      BY <1>6, <2>1 DEF DrainNext, CallsOK, HandleRec
    <2>3. id \in NodeId
      BY <2>2, ElementOfSeq DEF HandleRec
    <2>4. deactivate_node(id, <<>>) /\ work = <<>> /\ UNCHANGED phase
      BY <1>6 DEF DrainNext
    <2>5. Finishing(work) = {} /\ guards = active \cap Guarded
      BY <1>6 DEF DrainNext, GuardsPending
    <2>. HIDE DEF id
    <2>6. guards' = active' \cap Guarded /\ Finishing(work') = {}
      BY <1>0, <2>3, <2>4, <2>5, DeactivateGuards
    <2>. QED
      BY <2>6 DEF GuardsPending
  <1>7. CASE CascadeNext
    <2>1. Head(work).id \in NodeId /\ Tail(work) \in Seq(Frame)
      BY <1>0, <1>7, TopType DEF CascadeNext
    <2>2. Finishing(work) = {} /\ guards = active \cap Guarded
      BY <1>7 DEF CascadeNext, GuardsPending
    <2>3. Finishing(Tail(work)) = {}
      BY <1>0, <1>7, <2>2, FinishingTop DEF CascadeNext
    <2>4. guards' = active' \cap Guarded /\ Finishing(work') = {}
      BY <1>0, <1>7, <2>1, <2>2, <2>3, DeactivateGuards DEF CascadeNext
    <2>. QED
      BY <2>4 DEF GuardsPending
  <1>8. CASE EnterNode
    <2>. DEFINE id == Head(work).id
    <2>1. id \in NodeId /\ Tail(work) \in Seq(Frame)
      BY <1>0, <1>8, TopType DEF EnterNode
    <2>2. Finishing(Tail(work)) = Finishing(work)
      BY <1>0, <1>8, FinishingTop DEF EnterNode
    <2>3. CASE work' = Tail(work) /\ UNCHANGED registry
      BY <1>8, <2>2, <2>3 DEF EnterNode, GuardsPending, registry
    <2>4. CASE /\ id \in DOMAIN entries
               /\ active' = active \cup {id} /\ UNCHANGED guards
               /\ work' = Frames("enter", entries[id].deps)
                            \o Frames("finish", <<id>>) \o Tail(work)
      <3>1. /\ Frames("enter", entries[id].deps) \in Seq(Frame)
            /\ Finishing(Frames("enter", entries[id].deps)) = {}
        BY <2>4, FramesType, FinishingFrames DEF RegistryOK, Entry
      <3>2. /\ Frames("finish", <<id>>) \in Seq(Frame)
            /\ Finishing(Frames("finish", <<id>>)) = {id}
        <4>1. <<id>> \in Seq(NodeId)
          BY <2>1
        <4>2. {<<id>>[i] : i \in DOMAIN <<id>>} = {id}
          OBVIOUS
        <4>3. Frames("finish", <<id>>) \in Seq(Frame)
          BY <4>1, FramesType
        <4>. HIDE DEF id
        <4>4. Finishing(Frames("finish", <<id>>)) = {<<id>>[i] : i \in DOMAIN <<id>>}
          BY FinishingFrames
        <4>. QED
          BY <4>2, <4>3, <4>4
      <3>. DEFINE enter  == Frames("enter", entries[id].deps)
                  finish == Frames("finish", <<id>>)
      <3>. HIDE DEF enter, finish, id
      <3>3. enter \o finish \in Seq(Frame) /\ Finishing(enter \o finish) = {id}
        BY <3>1, <3>2, ConcatProperties, FinishingConcat DEF enter, finish
      <3>4. Finishing((enter \o finish) \o Tail(work)) = {id} \cup Finishing(work)
        BY <2>1, <2>2, <3>3, FinishingConcat
      <3>5. Finishing(work') = {id} \cup Finishing(work)
        BY <2>4, <3>4 DEF enter, finish
      <3>. QED
        BY <1>8, <2>4, <3>5 DEF EnterNode, GuardsPending
    <2>. QED
      BY <1>8, <2>3, <2>4 DEF EnterNode
  <1>9. CASE FinishNode
    <2>1. Finishing(work) = Finishing(Tail(work)) \cup {Head(work).id}
      BY <1>0, <1>9, FinishingTop DEF FinishNode
    <2>. QED
      BY <1>9, <2>1 DEF FinishNode, activate, GuardsPending
  <1>10. CASE Return
    <2>1. CASE phase = "activate" /\ work = <<>>
      <3>1. Finishing(work) = {}
        BY <2>1 DEF Finishing
      <3>. QED
        BY <1>1, <1>10, <3>1 DEF Return, registry
    <2>. QED
      BY <1>2, <1>10, <2>1 DEF Return, registry
  <1>11. ASSUME NEW h \in Handle, DropHandle(h)
         PROVE  GuardsPending'
    BY <1>2, <1>11 DEF DropHandle, registry
  <1>12. ASSUME NEW r \in Direct, Build(r)
         PROVE  GuardsPending'
    BY <1>2, <1>12 DEF Build
  <1>13. CASE Call \/ EndDrain
    BY <1>2, <1>13 DEF Call, EndDrain, registry
  <1>14. CASE UNCHANGED vars
    BY <1>3, <1>14 DEF vars, registry
  <1>. QED
    BY <1>4, <1>5, <1>6, <1>7, <1>8, <1>9, <1>10, <1>11, <1>12, <1>13, <1>14 DEF Next, Step

\* A source's guard is held exactly while the source is active, whatever is
\* merged, dropped and activated: activate_node stores every guard it gets, and
\* deactivate_node drops it with the node.
THEOREM GuardsAreHeld == Spec => [](GuardsPending /\ GuardsMatch)
  <1>1. Init => GuardsPending
    BY DEF Init, GuardsPending, Finishing
  <1>2. TypeOK /\ WiringSound /\ GuardsPending /\ [Next]_vars => GuardsPending'
    BY NextGuards
  <1>3. GuardsPending => GuardsMatch
    BY DEF GuardsPending, GuardsMatch
  <1>. QED
    BY <1>1, <1>2, <1>3, TypeCorrect, WiringIsSound, PTL DEF Spec

\* When the last handle has been dropped and drained, nothing of the merged
\* subgraphs is left in the registry, the active set, the topology or the guards.
THEOREM NothingLeaks == Spec => []NoLeak
  <1>1. ASSUME TypeOK, WiringSound, RefsClaimed, FreeUnclaimed, GuardsMatch
        PROVE  NoLeak
    <2>. SUFFICES ASSUME phase = "idle", \A h \in Handle : handles[h].state = "free",
                         NEW n \in DOMAIN entries
                  PROVE  direct[n] > 0
      BY <1>1 DEF NoLeak, WiringSound, GuardsMatch
    <2>1. Claims(n) = {}
      BY <1>1 DEF Claims, FreeUnclaimed
    <2>2. Cardinality(Claims(n)) = 0
      BY <2>1, FS_EmptySet
    <2>3. n \in NodeId /\ direct[n] \in Nat /\ entries[n].ref_count \in Nat \ {0}
      BY <1>1, TypeParts DEF RegistryOK, CallsOK, Entry
    <2>4. entries[n].ref_count <= direct[n] + Cardinality(Claims(n))
      BY <1>1 DEF RefsClaimed
    <2>. QED
      BY <2>2, <2>3, <2>4
  <1>. QED
    BY <1>1, TypeCorrect, WiringIsSound, RefsAreClaimed, GuardsAreHeld, PTL

-----------------------------------------------------------------------------
(* Stacks of frames                                                         *)

\* The top of a stack and what is left of it.
LEMMA StackTop ==
    ASSUME NEW w \in Seq(Frame), w # <<>>
    PROVE  /\ Len(w) \in Nat \ {0} /\ DOMAIN w = 1..Len(w) /\ Head(w) = w[1]
           /\ 1 \in DOMAIN w /\ Tail(w) \in Seq(Frame)
           /\ DOMAIN Tail(w) = 1..(Len(w) - 1)
           /\ \A i \in 1..(Len(w) - 1) : Tail(w)[i] = w[i + 1] /\ i + 1 \in DOMAIN w
           /\ \A i \in DOMAIN w : i = 1 \/ (i - 1 \in 1..(Len(w) - 1) /\ Tail(w)[i - 1] = w[i])
  <1>1. /\ Len(w) \in Nat \ {0} /\ DOMAIN w = 1..Len(w) /\ Head(w) = w[1]
        /\ Tail(w) \in Seq(Frame)
        /\ DOMAIN Tail(w) = 1..(Len(w) - 1)
        /\ \A i \in 1..(Len(w) - 1) : Tail(w)[i] = w[i + 1]
    BY LenProperties, EmptySeq, HeadTailProperties
  <1>2. \A i \in 1..Len(w) : i = 1 \/ (i - 1 \in 1..(Len(w) - 1) /\ (i - 1) + 1 = i)
    BY <1>1
  <1>3. 1 \in 1..Len(w) /\ \A i \in 1..(Len(w) - 1) : i + 1 \in 1..Len(w)
    BY <1>1
  <1>. QED
    BY <1>1, <1>2, <1>3

\* The frames of two stacks, one put on the other.
LEMMA ConcatIs ==
    ASSUME NEW v \in Seq(Frame), NEW w \in Seq(Frame)
    PROVE  /\ v \o w \in Seq(Frame)
           /\ Len(v) \in Nat /\ Len(w) \in Nat /\ Len(v \o w) = Len(v) + Len(w)
           /\ DOMAIN (v \o w) = 1..(Len(v) + Len(w))
           /\ \A i \in 1..Len(v) : (v \o w)[i] = v[i]
           /\ \A k \in 1..Len(w) : (v \o w)[Len(v) + k] = w[k]
  <1>1. /\ v \o w \in Seq(Frame)
        /\ Len(v) \in Nat /\ Len(w) \in Nat /\ Len(v \o w) = Len(v) + Len(w)
        /\ DOMAIN (v \o w) = 1..(Len(v) + Len(w))
        /\ \A i \in 1..(Len(v) + Len(w)) :
              (v \o w)[i] = IF i <= Len(v) THEN v[i] ELSE w[i - Len(v)]
    BY LenProperties, ConcatProperties
  <1>2. \A i \in 1..Len(v) : i \in 1..(Len(v) + Len(w)) /\ i <= Len(v)
    BY <1>1
  <1>3. \A k \in 1..Len(w) : /\ Len(v) + k \in 1..(Len(v) + Len(w))
                             /\ ~(Len(v) + k <= Len(v)) /\ (Len(v) + k) - Len(v) = k
    BY <1>1
  <1>. QED
    BY <1>1, <1>2, <1>3

\* The frames for a list of nodes.
LEMMA FramesAre ==
    ASSUME NEW op \in {"deactivate", "sink", "enter", "finish"}, NEW ids \in Seq(NodeId)
    PROVE  /\ Frames(op, ids) \in Seq(Frame)
           /\ Len(Frames(op, ids)) = Len(ids) /\ Len(ids) \in Nat
           /\ DOMAIN Frames(op, ids) = 1..Len(ids) /\ DOMAIN ids = 1..Len(ids)
           /\ \A i \in 1..Len(ids) : Frames(op, ids)[i].op = op /\ Frames(op, ids)[i].id = ids[i]
  <1>1. Len(ids) \in Nat /\ DOMAIN ids = 1..Len(ids)
    BY LenProperties
  <1>2. PICK e : e = Frames(op, ids)
    OBVIOUS
  <1>3. e \in Seq(Frame)
    BY <1>2, FramesType
  <1>4. DOMAIN e = 1..Len(ids) /\ \A i \in 1..Len(ids) : e[i] = [op |-> op, id |-> ids[i]]
    BY <1>1, <1>2 DEF Frames
  <1>5. \A i \in 1..Len(ids) : e[i].op = op /\ e[i].id = ids[i]
    BY <1>4
  <1>6. Len(e) = Len(ids)
    BY <1>1, <1>3, <1>4, LenProperties
  <1>7. DOMAIN e = 1..Len(ids)
    BY <1>4
  <1>. QED
    BY <1>1, <1>2, <1>3, <1>5, <1>6, <1>7

\* v is the stack w when its top frame has made place for those of a node id built
\* over ds.
Pushed(v, w, id, ds) ==
    /\ Len(ds) \in Nat /\ Len(w) \in Nat \ {0} /\ v \in Seq(Frame)
    /\ DOMAIN w = 1..Len(w) /\ DOMAIN v = 1..(Len(ds) + Len(w)) /\ DOMAIN ds = 1..Len(ds)
    /\ \A i \in 1..Len(ds) : v[i].op = "enter" /\ v[i].id = ds[i]
    /\ v[Len(ds) + 1].op = "finish" /\ v[Len(ds) + 1].id = id
    /\ \A k \in 2..Len(w) : v[Len(ds) + k] = w[k]
    /\ Finishing(v) = {id} \cup Finishing(Tail(w))

\* activate_node puts the frames of its recursive calls on the stack.
LEMMA PushShape ==
    ASSUME NEW w \in Seq(Frame), w # <<>>, NEW id \in NodeId, NEW ds \in Seq(NodeId)
    PROVE  Pushed(Frames("enter", ds) \o Frames("finish", <<id>>) \o Tail(w), w, id, ds)
  <1>1. PICK e : e = Frames("enter", ds)
    OBVIOUS
  <1>2. PICK f : f = Frames("finish", <<id>>)
    OBVIOUS
  <1>3. PICK t : t = Tail(w)
    OBVIOUS
  <1>4. PICK L : L = Len(ds)
    OBVIOUS
  <1>5. /\ e \in Seq(Frame) /\ Len(e) = L /\ L \in Nat /\ DOMAIN ds = 1..L
        /\ \A i \in 1..L : e[i].op = "enter" /\ e[i].id = ds[i]
    BY <1>1, <1>4, FramesAre
  <1>6. f \in Seq(Frame) /\ Len(f) = 1 /\ f[1].op = "finish" /\ f[1].id = id
    <2>1. <<id>> \in Seq(NodeId) /\ Len(<<id>>) = 1 /\ <<id>>[1] = id /\ 1 \in 1..1
      OBVIOUS
    <2>2. /\ Frames("finish", <<id>>) \in Seq(Frame)
          /\ Len(Frames("finish", <<id>>)) = Len(<<id>>)
          /\ \A i \in 1..Len(<<id>>) : /\ Frames("finish", <<id>>)[i].op = "finish"
                                       /\ Frames("finish", <<id>>)[i].id = <<id>>[i]
      BY <2>1, FramesAre
    <2>. QED
      BY <1>2, <2>1, <2>2
  <1>7. /\ Len(w) \in Nat \ {0} /\ DOMAIN w = 1..Len(w)
        /\ t \in Seq(Frame) /\ Len(t) = Len(w) - 1
        /\ \A i \in 1..(Len(w) - 1) : t[i] = w[i + 1]
    BY <1>3, LenProperties, EmptySeq, HeadTailProperties
  <1>8. PICK g : g = e \o f
    OBVIOUS
  <1>9. /\ g \in Seq(Frame) /\ Len(g) = L + 1 /\ 1 \in 1..1
        /\ \A i \in 1..L : g[i] = e[i]
        /\ \A k \in 1..1 : g[L + k] = f[k]
    <2>1. /\ e \o f \in Seq(Frame) /\ Len(e \o f) = Len(e) + Len(f)
          /\ \A i \in 1..Len(e) : (e \o f)[i] = e[i]
          /\ \A k \in 1..Len(f) : (e \o f)[Len(e) + k] = f[k]
      BY <1>5, <1>6, ConcatIs
    <2>2. /\ g \in Seq(Frame) /\ Len(g) = L + 1
          /\ \A i \in 1..L : g[i] = e[i]
          /\ \A k \in 1..1 : g[L + k] = f[k]
      BY <1>5, <1>6, <1>8, <2>1
    <2>. QED
      BY <2>2
  <1>10. PICK v : v = g \o t
    OBVIOUS
  <1>11. /\ v \in Seq(Frame)
         /\ DOMAIN v = 1..((L + 1) + (Len(w) - 1))
         /\ \A i \in 1..(L + 1) : v[i] = g[i]
         /\ \A k \in 1..(Len(w) - 1) : v[(L + 1) + k] = t[k]
    <2>1. /\ g \o t \in Seq(Frame)
          /\ DOMAIN (g \o t) = 1..(Len(g) + Len(t))
          /\ \A i \in 1..Len(g) : (g \o t)[i] = g[i]
          /\ \A k \in 1..Len(t) : (g \o t)[Len(g) + k] = t[k]
      BY <1>7, <1>9, ConcatIs
    <2>. QED
      BY <1>7, <1>9, <1>10, <2>1
  <1>12. (L + 1) + (Len(w) - 1) = L + Len(w) /\ L + 1 \in 1..(L + 1) /\ \A i \in 1..L : i \in 1..(L + 1)
    BY <1>5, <1>7
  <1>13. \A k \in 2..Len(w) : k - 1 \in 1..(Len(w) - 1) /\ (L + 1) + (k - 1) = L + k /\ (k - 1) + 1 = k
    BY <1>5, <1>7
  <1>14. \A k \in 2..Len(w) : v[L + k] = w[k]
    BY <1>7, <1>11, <1>13
  <1>15. \A i \in 1..L : v[i].op = "enter" /\ v[i].id = ds[i]
    BY <1>5, <1>9, <1>11, <1>12
  <1>16. v[L + 1].op = "finish" /\ v[L + 1].id = id
    BY <1>6, <1>9, <1>11, <1>12
  <1>17. Finishing(v) = {id} \cup Finishing(t)
    <2>1. Finishing(v) = Finishing(g) \cup Finishing(t) /\ Finishing(g) = Finishing(e) \cup Finishing(f)
      BY <1>5, <1>6, <1>7, <1>8, <1>9, <1>10, FinishingConcat
    <2>2. Finishing(e) = {} /\ Finishing(f) = {<<id>>[i] : i \in DOMAIN <<id>>}
      BY <1>1, <1>2, FinishingFrames
    <2>3. {<<id>>[i] : i \in DOMAIN <<id>>} = {id}
      OBVIOUS
    <2>. QED
      BY <2>1, <2>2, <2>3
  <1>18. v = Frames("enter", ds) \o Frames("finish", <<id>>) \o Tail(w)
    BY <1>1, <1>2, <1>3, <1>8, <1>10
  <1>19. Pushed(v, w, id, ds)
    BY <1>4, <1>5, <1>7, <1>11, <1>12, <1>14, <1>15, <1>16, <1>17, <1>3 DEF Pushed
  <1>. QED
    BY <1>18, <1>19

-----------------------------------------------------------------------------
(* Connected                                                                *)

\* Between the calls, and when a method's own work begins, no active node reads from
\* one that is not registered.
NoDangling ==
    phase \in {"idle", "body"} => \A n \in active : Range(deps[n]) \subseteq DOMAIN entries

\* A registered node that an active one reads from is active, or about to be entered.
DepsActive ==
    \A n \in active : \A d \in Range(deps[n]) \cap DOMAIN entries :
        \/ d \in active
        \/ phase = "activate" /\ \E i \in DOMAIN work : work[i].op = "enter" /\ work[i].id = d

\* An active node is in the lists of what it reads from, but for nodes just removed.
EdgesKept ==
    \A n \in active, d \in NodeId :
        \/ dependents[d][n] = Occurrences(deps[n], d)
        \/ phase = "drain" /\ d \notin DOMAIN entries

\* Without dangling references, that is Connected.
LEMMA LinkedIsConnected ==
    ASSUME TypeOK, WiringSound, NoDangling, DepsActive, EdgesKept
    PROVE  Connected
  BY DEF NoDangling, DepsActive, EdgesKept, Connected

\* A node that is read from occurs in the list.
LEMMA RangeOccurs ==
    ASSUME NEW s \in Seq(NodeId), NEW d
    PROVE  d \notin Range(s) => Occurrences(s, d) = 0
  <1>. SUFFICES ASSUME d \notin Range(s) PROVE Occurrences(s, d) = 0
    OBVIOUS
  <1>1. {i \in DOMAIN s : s[i] = d} = {}
    BY DEF Range
  <1>. QED
    BY <1>1, FS_EmptySet DEF Occurrences

\* Removing a node.
LEMMA DeactivateLinks ==
    ASSUME TypeOK, WiringSound, DepsActive, EdgesKept, phase = "drain", phase' = "drain",
           NEW id, NEW rest, deactivate_node(id, rest)
    PROVE  DepsActive' /\ EdgesKept'
  <1>1. CASE UNCHANGED <<deps, dependents, active>> /\ DOMAIN entries' = DOMAIN entries
    BY <1>1 DEF DepsActive, EdgesKept
  <1>2. CASE /\ entries' = [n \in DOMAIN entries \ {id} |-> entries[n]]
             /\ remove_node(id)
             /\ active' = active \ {id}
    <2>1. /\ DOMAIN entries' = DOMAIN entries \ {id}
          /\ \A n \in active' : deps'[n] = deps[n]
      BY <1>2 DEF remove_node, WiringSound
    <2>2. ASSUME NEW n \in active', NEW d \in NodeId, d # id
          PROVE  dependents'[d][n] = dependents[d][n]
      BY <1>2, <2>2, TypeParts DEF remove_node, RegistryOK
    <2>3. DepsActive'
      BY <1>2, <2>1 DEF DepsActive
    <2>4. EdgesKept'
      BY <1>2, <2>1, <2>2 DEF EdgesKept
    <2>. QED
      BY <2>3, <2>4
  <1>. QED
    <2>1. CASE UNCHANGED registry
      BY <1>1, <2>1 DEF registry
    <2>2. CASE /\ entries' = [entries EXCEPT ![id].ref_count = @ - 1]
               /\ UNCHANGED <<deps, dependents, active, guards>>
      BY <1>1, <2>2, TypeParts DEF RegistryOK
    <2>. QED
      BY <1>2, <2>1, <2>2 DEF deactivate_node

\* A step that leaves the topology alone, from a state in which it is connected.
LEMMA ConnectedLinks ==
    ASSUME Connected, phase \in {"idle", "body"}, UNCHANGED <<deps, dependents, active>>
    PROVE  DepsActive' /\ EdgesKept'
  BY DEF Connected, DepsActive, EdgesKept

\* The drain ends, and nothing that is read from was removed.
LEMMA EndDrainLinks ==
    ASSUME TypeOK, WiringSound, DepsActive, EdgesKept, NoDangling', EndDrain
    PROVE  DepsActive' /\ EdgesKept'
  <1>1. /\ phase = "drain" /\ phase' = "body" /\ UNCHANGED <<entries, deps, dependents, active>>
    BY DEF EndDrain, registry
  <1>2. \A n \in active : Range(deps[n]) \subseteq DOMAIN entries
    BY <1>1 DEF NoDangling
  <1>3. DepsActive'
    BY <1>1 DEF DepsActive
  <1>4. ASSUME NEW n \in active, NEW d \in NodeId
        PROVE  dependents[d][n] = Occurrences(deps[n], d)
    <2>1. CASE d \in Range(deps[n])
      BY <1>2, <2>1 DEF EdgesKept
    <2>2. CASE d \notin Range(deps[n])
      <3>1. n \in NodeId /\ n \in DOMAIN deps /\ deps[n] \in Seq(NodeId) /\ dependents[d][n] \in Nat
        BY TypeParts DEF RegistryOK, WiringSound
      <3>2. Occurrences(deps[n], d) = 0
        BY <2>2, <3>1, RangeOccurs
      <3>3. dependents[d][n] > 0 => dependents[d][n] = Occurrences(deps[n], d)
        BY <3>1 DEF WiringSound
      <3>. QED
        BY <3>1, <3>2, <3>3
    <2>. QED
      BY <2>1, <2>2
  <1>5. EdgesKept'
    BY <1>1, <1>4 DEF EdgesKept
  <1>. QED
    BY <1>3, <1>5

\* A frame is popped that is not one of a node to be activated.
LEMMA PopLinks ==
    ASSUME DepsActive, EdgesKept, work \in Seq(Frame), work # <<>>, work' = Tail(work),
           phase = "activate", phase' = "activate", UNCHANGED <<entries, deps, dependents, active>>,
           \/ Head(work).op # "enter"
           \/ Head(work).id \in active \/ Head(work).id \notin DOMAIN entries
    PROVE  DepsActive' /\ EdgesKept'
  <1>1. /\ Head(work) = work[1]
        /\ \A i \in DOMAIN work : i = 1 \/ (i - 1 \in DOMAIN work' /\ work'[i - 1] = work[i])
    BY StackTop
  <1>2. ASSUME NEW n \in active, NEW d \in Range(deps[n]) \cap DOMAIN entries, d \notin active
        PROVE  \E i \in DOMAIN work' : work'[i].op = "enter" /\ work'[i].id = d
    <2>1. PICK i \in DOMAIN work : work[i].op = "enter" /\ work[i].id = d
      BY <1>2 DEF DepsActive
    <2>2. i # 1
      BY <1>1, <1>2, <2>1
    <2>. QED
      BY <1>1, <2>1, <2>2
  <1>3. DepsActive'
    BY <1>2 DEF DepsActive
  <1>4. EdgesKept'
    BY DEF EdgesKept
  <1>. QED
    BY <1>3, <1>4

\* activate_node adds the edges of a node and goes on to all it reads from.
LEMMA EnterLinks ==
    ASSUME TypeOK, WiringSound, DepsActive, EdgesKept, EnterNode
    PROVE  DepsActive' /\ EdgesKept'
  <1>. DEFINE id == Head(work).id
              skip == \/ id \in active \/ id \notin DOMAIN entries
                      \/ Head(work).op = "sink" /\ Kind[id] # "Sink"
  <1>1. /\ RegistryOK /\ work \in Seq(Frame) /\ work # <<>> /\ Head(work).op \in {"sink", "enter"}
        /\ phase = "activate" /\ phase' = "activate"
    BY TypeParts DEF EnterNode, CallsOK
  <1>2. id \in NodeId
    BY <1>1, TopType
  <1>3. CASE skip /\ work' = Tail(work) /\ UNCHANGED registry
    <2>1. UNCHANGED <<entries, deps, dependents, active>>
      BY <1>3 DEF registry
    <2>2. \/ Head(work).op # "enter"
          \/ Head(work).id \in active \/ Head(work).id \notin DOMAIN entries
      BY <1>3
    <2>. QED
      BY <1>1, <1>3, <2>1, <2>2, PopLinks
  <1>4. CASE /\ ~skip
             /\ add_node(id, entries[id].deps)
             /\ active' = active \cup {id}
             /\ work' = Frames("enter", entries[id].deps) \o Frames("finish", <<id>>) \o Tail(work)
             /\ UNCHANGED <<entries, guards>>
    <2>1. PICK x \in NodeId : x = id
      BY <1>2
    <2>2. x \notin active /\ x \in DOMAIN entries /\ entries[x].deps \in Seq(NodeId)
      BY <1>1, <1>4, <2>1 DEF RegistryOK, Entry
    <2>3. PICK ds \in Seq(NodeId) : ds = entries[x].deps
      BY <2>2
    <2>4. /\ deps'[x] = ds /\ \A n \in active : deps'[n] = deps[n] /\ n # x
          /\ active' = active \cup {x} /\ UNCHANGED entries
      BY <1>4, <2>1, <2>2, <2>3 DEF add_node, WiringSound
    <2>5. ASSUME NEW d \in NodeId
          PROVE  /\ dependents'[d][x] = dependents[d][x] + Occurrences(ds, d)
                 /\ \A n \in NodeId \ {x} : dependents'[d][n] = dependents[d][n]
      BY <1>1, <1>4, <2>1, <2>3 DEF add_node, RegistryOK
    <2>6. EdgesKept'
      <3>1. ASSUME NEW d \in NodeId
            PROVE  dependents'[d][x] = Occurrences(ds, d)
        <4>1. dependents[d][x] \in Nat /\ ~(dependents[d][x] > 0)
          BY <1>1, <2>2 DEF RegistryOK, WiringSound
        <4>2. Occurrences(ds, d) \in Nat
          BY OccurrencesType
        <4>. QED
          BY <2>5, <4>1, <4>2
      <3>2. ASSUME NEW n \in active, NEW d \in NodeId
            PROVE  dependents'[d][n] = Occurrences(deps[n], d)
        <4>1. n \in NodeId \ {x}
          BY <1>1, <2>2 DEF RegistryOK
        <4>. QED
          BY <1>1, <2>5, <4>1 DEF EdgesKept
      <3>. QED
        BY <2>4, <3>1, <3>2 DEF EdgesKept
    <2>7. Pushed(work', work, x, ds)
      BY <1>1, <1>4, <2>1, <2>3, PushShape
    <2>. HIDE DEF id, skip
    <2>8. ASSUME NEW i \in DOMAIN work, i # 1, work[i].op = "enter"
          PROVE  \E j \in DOMAIN work' : work'[j] = work[i]
      <3>1. i \in 2..Len(work) /\ Len(ds) + i \in 1..(Len(ds) + Len(work))
        BY <2>7, <2>8 DEF Pushed
      <3>. QED
        BY <2>7, <3>1 DEF Pushed
    <2>9. ASSUME NEW d \in Range(ds)
          PROVE  \E j \in DOMAIN work' : work'[j].op = "enter" /\ work'[j].id = d
      <3>1. PICK i \in 1..Len(ds) : ds[i] = d
        BY <2>7, <2>9 DEF Pushed, Range
      <3>2. i \in 1..(Len(ds) + Len(work))
        BY <2>7 DEF Pushed
      <3>. QED
        BY <2>7, <3>1, <3>2 DEF Pushed
    <2>10. ASSUME NEW n \in active, NEW d \in Range(deps[n]) \cap DOMAIN entries, d \notin active'
           PROVE  \E j \in DOMAIN work' : work'[j].op = "enter" /\ work'[j].id = d
      <3>1. PICK i \in DOMAIN work : work[i].op = "enter" /\ work[i].id = d
        BY <2>4, <2>10 DEF DepsActive
      <3>2. i # 1
        BY <1>1, <2>1, <2>4, <2>10, <3>1, StackTop DEF id
      <3>. QED
        BY <2>8, <3>1, <3>2
    <2>11. DepsActive'
      BY <1>1, <2>4, <2>9, <2>10 DEF DepsActive
    <2>. QED
      BY <2>6, <2>11
  <1>. QED
    BY <1>3, <1>4 DEF EnterNode

\* Every step keeps the topology linked.
LEMMA NextLinks ==
    ASSUME TypeOK, WiringSound, NoDangling, NoDangling', DepsActive, EdgesKept, [Next]_vars
    PROVE  DepsActive' /\ EdgesKept'
  <1>0. Connected
    BY LinkedIsConnected
  <1>1. CASE UNCHANGED vars
    <2>1. UNCHANGED <<entries, deps, dependents, active, work, phase>>
      BY <1>1 DEF vars, registry
    <2>. QED
      BY <2>1 DEF DepsActive, EdgesKept
  <1>2. CASE \/ \E h \in Handle : DropHandle(h)
             \/ Call
             \/ \E r \in Direct : Build(r)
             \/ \E h \in Handle, script \in Script : Merge(h, script)
             \/ \E id \in NodeId : ActivateSink(id)
    <2>1. phase \in {"idle", "body"} /\ UNCHANGED <<deps, dependents, active>>
      BY <1>2 DEF DropHandle, Call, Build, Merge, ActivateSink, registry
    <2>. QED
      BY <1>0, <2>1, ConnectedLinks
  <1>3. CASE DrainNext \/ CascadeNext
    <2>1. phase = "drain" /\ phase' = "drain" /\ \E id, rest : deactivate_node(id, rest)
      BY <1>3 DEF DrainNext, CascadeNext
    <2>. QED
      BY <2>1, DeactivateLinks
  <1>4. CASE EndDrain
    BY <1>4, EndDrainLinks
  <1>5. CASE EnterNode
    BY <1>5, EnterLinks
  <1>6. CASE FinishNode
    <2>1. /\ phase = "activate" /\ phase' = "activate" /\ work \in Seq(Frame) /\ work # <<>>
          /\ Head(work).op = "finish" /\ work' = Tail(work)
          /\ UNCHANGED <<entries, deps, dependents, active>>
      BY <1>6, TypeParts DEF FinishNode, CallsOK
    <2>. QED
      BY <2>1, PopLinks
  <1>7. CASE Return
    <2>1. CASE phase = "body"
      BY <1>0, <1>7, <2>1, ConnectedLinks DEF Return, registry
    <2>2. CASE phase = "activate" /\ work = <<>>
      <3>1. UNCHANGED <<entries, deps, dependents, active>> /\ DOMAIN work = {}
        BY <1>7, <2>2 DEF Return, registry
      <3>. QED
        BY <2>2, <3>1 DEF DepsActive, EdgesKept
    <2>. QED
      BY <1>7, <2>1, <2>2 DEF Return
  <1>. QED
    BY <1>1, <1>2, <1>3, <1>4, <1>5, <1>6, <1>7 DEF Next, Step

\* As long as no active node reads from one that is gone, every active node reads from
\* active ones and is in their lists as often as it names them, whatever is merged,
\* built, dropped and activated again, in graphs with circles as well
\* (Topology::add_node and remove_node under Engine::activate_node and
\* deactivate_node).
THEOREM StaysConnected == Spec /\ []NoDangling => []Connected
  <1>1. Init => DepsActive /\ EdgesKept
    BY DEF Init, DepsActive, EdgesKept
  <1>2. /\ TypeOK /\ WiringSound /\ NoDangling /\ NoDangling' /\ DepsActive /\ EdgesKept
        /\ [Next]_vars
        => DepsActive' /\ EdgesKept'
    BY NextLinks
  <1>3. TypeOK /\ WiringSound /\ NoDangling /\ DepsActive /\ EdgesKept => Connected
    BY LinkedIsConnected
  <1>. QED
    BY <1>1, <1>2, <1>3, TypeCorrect, WiringIsSound, PTL DEF Spec

-----------------------------------------------------------------------------
(* Lifetimes                                                                *)

\* The nodes that have to stay: built through graph(), or named by such a handle.
Kept == {n \in NodeId : direct[n] > 0 \/ \E h \in Handle : Whole(h) /\ n \in Named(h)}

\* Handles are drained one after the other, each once.
DrainOrder ==
    /\ \A h \in Handle :
          Whole(h) \/ (phase = "drain" /\ pending_removals # <<>> /\ h = Head(pending_removals))
    /\ \A i \in DOMAIN pending_removals : handles[pending_removals[i]].state = "queued"
    /\ \A i, j \in DOMAIN pending_removals : pending_removals[i] = pending_removals[j] => i = j

\* These nodes are registered, the other ones do not read from them, ...
KeptStay(K) ==
    /\ K \subseteq DOMAIN entries
    /\ \A n \in DOMAIN entries \ K : Range(entries[n].deps) \cap K = {}

\* ... and the drain does not come to them.
DrainSpares(K) ==
    /\ phase \in {"idle", "body"} => work = <<>>
    /\ phase = "drain" => \A i \in DOMAIN work : work[i].id \notin K

LifetimeInv == DrainOrder /\ KeptStay(Kept) /\ DrainSpares(Kept)

\* deactivate_node of a node that need not stay, and of what it reads from.
LEMMA DeactivateSpares ==
    ASSUME TypeOK, NEW K, KeptStay(K), NEW id, id \notin K,
           NEW rest \in Seq(Frame), \A i \in DOMAIN rest : rest[i].id \notin K,
           deactivate_node(id, rest)
    PROVE  /\ K \subseteq DOMAIN entries'
           /\ \A n \in DOMAIN entries' \ K : Range(entries'[n].deps) \cap K = {}
           /\ \A i \in DOMAIN work' : work'[i].id \notin K
  <1>0. RegistryOK
    BY TypeParts
  <1>1. CASE UNCHANGED registry /\ work' = rest
    BY <1>1 DEF KeptStay, registry
  <1>2. CASE /\ id \in DOMAIN entries
             /\ entries' = [entries EXCEPT ![id].ref_count = @ - 1]
             /\ work' = rest
    <2>1. DOMAIN entries' = DOMAIN entries /\ \A n \in DOMAIN entries : entries'[n].deps = entries[n].deps
      BY <1>0, <1>2 DEF RegistryOK, Entry
    <2>. QED
      BY <1>2, <2>1 DEF KeptStay
  <1>3. CASE /\ id \in DOMAIN entries
             /\ entries' = [n \in DOMAIN entries \ {id} |-> entries[n]]
             /\ work' = Frames("deactivate", entries[id].deps) \o rest
    <2>1. Range(entries[id].deps) \cap K = {} /\ entries[id].deps \in Seq(NodeId)
      BY <1>0, <1>3 DEF KeptStay, RegistryOK, Entry
    <2>2. PICK ds \in Seq(NodeId) : ds = entries[id].deps
      BY <2>1
    <2>3. PICK f \in Seq(Frame) : f = Frames("deactivate", ds)
      BY FramesType
    <2>4. /\ Len(f) = Len(ds) /\ DOMAIN ds = 1..Len(ds)
          /\ \A i \in 1..Len(ds) : f[i].id = ds[i]
      BY <2>3, FramesAre
    <2>5. /\ Len(f) \in Nat /\ Len(rest) \in Nat /\ DOMAIN rest = 1..Len(rest)
          /\ DOMAIN (f \o rest) = 1..(Len(f) + Len(rest))
          /\ \A i \in 1..Len(f) : (f \o rest)[i] = f[i]
          /\ \A k \in 1..Len(rest) : (f \o rest)[Len(f) + k] = rest[k]
      BY ConcatIs, LenProperties
    <2>6. PICK w : w = f \o rest
      OBVIOUS
    <2>7. ASSUME NEW i \in DOMAIN w
          PROVE  w[i].id \notin K
      <3>1. CASE i \in 1..Len(f)
        <4>1. ds[i] \in Range(ds)
          BY <2>4, <3>1 DEF Range
        <4>. QED
          BY <2>1, <2>2, <2>4, <2>5, <2>6, <3>1, <4>1
      <3>2. CASE i \notin 1..Len(f)
        <4>1. PICK k \in 1..Len(rest) : i = Len(f) + k
          <5>1. i - Len(f) \in 1..Len(rest) /\ i = Len(f) + (i - Len(f))
            BY <2>5, <2>6, <2>7, <3>2
          <5>. QED
            BY <5>1
        <4>. QED
          BY <2>5, <2>6, <4>1
      <3>. QED
        BY <3>1, <3>2
    <2>8. work' = w
      BY <1>3, <2>2, <2>3, <2>6
    <2>9. /\ K \subseteq DOMAIN entries'
          /\ \A n \in DOMAIN entries' \ K : Range(entries'[n].deps) \cap K = {}
      BY <1>3 DEF KeptStay
    <2>. QED
      BY <2>7, <2>8, <2>9
  <1>. QED
    BY <1>1, <1>2, <1>3 DEF deactivate_node, registry

\* The next id of the oldest dropped handle.
LEMMA DrainLifetime ==
    ASSUME TypeOK, Unshared, LifetimeInv, DrainNext
    PROVE  LifetimeInv'
  <1>1. CallsOK /\ RegistryOK
    BY TypeParts
  <1>2. /\ phase = "drain" /\ phase' = "drain" /\ work = <<>> /\ pending_removals # <<>>
        /\ pending_removals \in Seq(Handle) /\ direct' = direct
    BY <1>1 DEF DrainNext, CallsOK
  <1>3. PICK h : h = Head(pending_removals)
    OBVIOUS
  <1>4. /\ h \in Handle /\ Len(pending_removals) \in Nat \ {0}
        /\ DOMAIN pending_removals = 1..Len(pending_removals) /\ h = pending_removals[1]
        /\ 1 \in DOMAIN pending_removals
        /\ DOMAIN Tail(pending_removals) = 1..(Len(pending_removals) - 1)
        /\ \A i \in 1..(Len(pending_removals) - 1) :
              Tail(pending_removals)[i] = pending_removals[i + 1] /\ i + 1 \in DOMAIN pending_removals
    <2>1. /\ Head(pending_removals) \in Handle /\ Len(pending_removals) \in Nat \ {0}
          /\ DOMAIN pending_removals = 1..Len(pending_removals)
          /\ Head(pending_removals) = pending_removals[1]
          /\ DOMAIN Tail(pending_removals) = 1..(Len(pending_removals) - 1)
          /\ \A i \in 1..(Len(pending_removals) - 1) : Tail(pending_removals)[i] = pending_removals[i + 1]
      BY <1>2, LenProperties, EmptySeq, HeadTailProperties
    <2>2. 1 \in 1..Len(pending_removals)
          /\ \A i \in 1..(Len(pending_removals) - 1) : i + 1 \in 1..Len(pending_removals)
      BY <2>1
    <2>. QED
      BY <1>3, <2>1, <2>2
  <1>5. handles[h].state = "queued"
    BY <1>4 DEF LifetimeInv, DrainOrder
  <1>6. PICK l : l = handles[h].left
    OBVIOUS
  <1>7. PICK id : id = handles[h].node_ids[l]
    OBVIOUS
  <1>8. /\ deactivate_node(id, <<>>)
        /\ \/ l > 1 /\ handles' = [handles EXCEPT ![h].left = l - 1] /\ UNCHANGED pending_removals
           \/ l = 1 /\ handles' = [handles EXCEPT ![h] = NoHandle]
                /\ pending_removals' = Tail(pending_removals)
    BY <1>3, <1>6, <1>7 DEF DrainNext
  <1>9. /\ handles[h] \in HandleRec /\ handles \in [Handle -> HandleRec] /\ l \in Nat /\ l > 0
        /\ handles[h].node_ids \in Seq(NodeId) /\ l <= Len(handles[h].node_ids)
        /\ Len(handles[h].node_ids) \in Nat
        /\ DOMAIN handles[h].node_ids = 1..Len(handles[h].node_ids)
    BY <1>1, <1>4, <1>6, <1>8, LenProperties DEF CallsOK, HandleRec
  <1>10. id \in Named(h)
    <2>1. l \in DOMAIN handles[h].node_ids
      BY <1>9
    <2>. QED
      BY <1>7, <2>1 DEF Named, Range
  <1>11. /\ \A k \in Handle \ {h} : handles'[k] = handles[k]
         /\ \/ l > 1 /\ handles'[h] = [handles[h] EXCEPT !.left = l - 1]
            \/ l = 1 /\ handles'[h] = NoHandle
    BY <1>4, <1>8, <1>9
  <1>12. \/ handles'[h].left # Len(handles'[h].node_ids) /\ l > 1 /\ handles'[h].state = "queued"
         \/ /\ handles'[h].left = Len(handles'[h].node_ids) /\ Range(handles'[h].node_ids) = {}
            /\ l = 1
    <2>1. CASE l > 1 /\ handles'[h] = [handles[h] EXCEPT !.left = l - 1]
      <3>1. /\ handles'[h].left = l - 1 /\ handles'[h].node_ids = handles[h].node_ids
            /\ handles'[h].state = "queued"
        BY <1>5, <1>9, <2>1 DEF HandleRec
      <3>2. l - 1 # Len(handles[h].node_ids)
        BY <1>9
      <3>. QED
        BY <2>1, <3>1, <3>2
    <2>2. CASE l = 1 /\ handles'[h] = NoHandle
      <3>1. handles'[h].left = 0 /\ handles'[h].node_ids = <<>>
        BY <2>2 DEF NoHandle
      <3>. QED
        BY <2>2, <3>1 DEF Range
    <2>. QED
      BY <1>11, <2>1, <2>2
  <1>13. PICK K : K = {n \in NodeId : direct[n] > 0 \/ \E k \in Handle \ {h} : Whole(k) /\ n \in Named(k)}
    OBVIOUS
  <1>14. Kept' = K
    BY <1>2, <1>11, <1>12, <1>13 DEF Kept, Whole, Named
  <1>15. K \subseteq Kept /\ Named(h) \cap K = {} /\ \A n \in Kept \ K : n \in Named(h)
    BY <1>1, <1>4, <1>5, <1>13 DEF Kept, Unshared
  <1>16. KeptStay(K)
    <2>1. K \subseteq DOMAIN entries
      BY <1>15 DEF LifetimeInv, KeptStay
    <2>2. ASSUME NEW n \in DOMAIN entries \ K
          PROVE  Range(entries[n].deps) \cap K = {}
      <3>1. CASE n \in Kept
        BY <1>4, <1>5, <1>15, <2>2, <3>1 DEF Unshared
      <3>2. CASE n \notin Kept
        BY <1>15, <3>2 DEF LifetimeInv, KeptStay
      <3>. QED
        BY <3>1, <3>2
    <2>. QED
      BY <2>1, <2>2 DEF KeptStay
  <1>17. /\ K \subseteq DOMAIN entries'
         /\ \A n \in DOMAIN entries' \ K : Range(entries'[n].deps) \cap K = {}
         /\ \A i \in DOMAIN work' : work'[i].id \notin K
    <2>1. id \notin K /\ <<>> \in Seq(Frame) /\ DOMAIN <<>> = {}
      BY <1>10, <1>15
    <2>. QED
      BY <1>8, <1>16, <2>1, DeactivateSpares
  <1>18. KeptStay(Kept)' /\ DrainSpares(Kept)'
    BY <1>2, <1>14, <1>17 DEF KeptStay, DrainSpares
  <1>19. DrainOrder'
    <2>1. \A k \in Handle \ {h} : Whole(k)
      BY <1>3 DEF LifetimeInv, DrainOrder
    <2>2. \A k \in Handle \ {h} : Whole(k)'
      BY <1>11, <2>1 DEF Whole
    <2>3. CASE l > 1
      <3>1. UNCHANGED pending_removals
        BY <1>8, <2>3
      <3>2. handles'[h].state = "queued"
        BY <1>12, <2>3
      <3>3. \A i \in DOMAIN pending_removals : handles'[pending_removals[i]].state = "queued"
        <4>1. \A i \in DOMAIN pending_removals : pending_removals[i] \in Handle
          BY <1>2, <1>4, ElementOfSeq
        <4>. QED
          BY <1>11, <3>2, <4>1 DEF LifetimeInv, DrainOrder
      <3>4. \A i, j \in DOMAIN pending_removals : pending_removals[i] = pending_removals[j] => i = j
        BY DEF LifetimeInv, DrainOrder
      <3>. QED
        BY <1>2, <1>3, <2>2, <3>1, <3>3, <3>4 DEF DrainOrder
    <2>4. CASE l = 1
      <3>1. pending_removals' = Tail(pending_removals)
        BY <1>8, <2>4
      <3>2. Whole(h)'
        BY <1>12, <2>4 DEF Whole
      <3>3. \A i, j \in DOMAIN pending_removals : pending_removals[i] = pending_removals[j] => i = j
        BY DEF LifetimeInv, DrainOrder
      <3>4. ASSUME NEW i \in DOMAIN pending_removals'
            PROVE  /\ i + 1 \in DOMAIN pending_removals /\ pending_removals'[i] = pending_removals[i + 1]
                   /\ pending_removals'[i] \in Handle \ {h}
        <4>1. i \in 1..(Len(pending_removals) - 1) /\ i + 1 # 1
          BY <1>4, <3>1
        <4>2. pending_removals'[i] = pending_removals[i + 1] /\ i + 1 \in DOMAIN pending_removals
          BY <1>4, <3>1, <4>1
        <4>3. pending_removals[i + 1] \in Handle
          BY <1>2, <1>4, <4>2, ElementOfSeq
        <4>4. pending_removals[i + 1] # h
          BY <1>4, <3>3, <4>1, <4>2
        <4>. QED
          BY <4>2, <4>3, <4>4
      <3>5. \A i \in DOMAIN pending_removals' : handles'[pending_removals'[i]].state = "queued"
        BY <1>11, <3>4 DEF LifetimeInv, DrainOrder
      <3>6. ASSUME NEW i \in DOMAIN pending_removals', NEW j \in DOMAIN pending_removals',
                   pending_removals'[i] = pending_removals'[j]
            PROVE  i = j
        <4>1. i + 1 = j + 1
          BY <3>3, <3>4, <3>6
        <4>2. i \in 1..(Len(pending_removals) - 1) /\ j \in 1..(Len(pending_removals) - 1)
          BY <1>4, <3>1
        <4>. QED
          BY <1>4, <4>1, <4>2
      <3>. QED
        BY <2>2, <3>2, <3>5, <3>6 DEF DrainOrder
    <2>. QED
      BY <1>8, <2>3, <2>4
  <1>. QED
    BY <1>18, <1>19 DEF LifetimeInv

\* Outside a drain, a node with a claim on it is named by a handle that is whole.
LEMMA ClaimedIsKept ==
    ASSUME TypeOK, FreeUnclaimed, DrainOrder, phase # "drain", NEW n, Claims(n) # {}
    PROVE  \E h \in Handle : handles[h].state # "free" /\ Whole(h) /\ n \in Named(h)
  <1>1. PICK h \in Handle : \E i \in 1..handles[h].left : handles[h].node_ids[i] = n
    BY DEF Claims
  <1>2. PICK i \in 1..handles[h].left : handles[h].node_ids[i] = n
    BY <1>1
  <1>3. /\ handles[h].left \in Nat /\ handles[h].left <= Len(handles[h].node_ids)
        /\ Len(handles[h].node_ids) \in Nat
        /\ DOMAIN handles[h].node_ids = 1..Len(handles[h].node_ids)
    BY TypeParts, LenProperties DEF CallsOK, HandleRec
  <1>4. i \in DOMAIN handles[h].node_ids /\ handles[h].left # 0
    BY <1>3
  <1>5. n \in Named(h)
    BY <1>2, <1>4 DEF Named, Range
  <1>6. handles[h].state # "free" /\ Whole(h)
    BY <1>4 DEF FreeUnclaimed, DrainOrder
  <1>. QED
    BY <1>5, <1>6

\* What is registered was built through graph(), or somebody has a claim on it.
LEMMA RegisteredIsClaimed ==
    ASSUME TypeOK, RefsClaimed, NEW n \in DOMAIN entries
    PROVE  direct[n] > 0 \/ Claims(n) # {}
  <1>1. SUFFICES ASSUME Claims(n) = {}
                 PROVE  direct[n] > 0
    OBVIOUS
  <1>2. Cardinality(Claims(n)) = 0
    BY <1>1, FS_EmptySet
  <1>3. direct[n] \in Nat /\ entries[n].ref_count \in Nat \ {0}
    BY TypeParts DEF CallsOK, RegistryOK, Entry
  <1>4. entries[n].ref_count <= direct[n] + Cardinality(Claims(n))
    BY DEF RefsClaimed
  <1>. QED
    BY <1>2, <1>3, <1>4

\* Outside a drain, every registered node has to stay.
LEMMA RegisteredKept ==
    ASSUME TypeOK, FreeUnclaimed, RefsClaimed, DrainOrder, phase # "drain",
           NEW n \in DOMAIN entries
    PROVE  \/ direct[n] > 0
           \/ \E h \in Handle : handles[h].state # "free" /\ Whole(h) /\ n \in Named(h)
  BY RegisteredIsClaimed, ClaimedIsKept

\* SubgraphHandle::drop changes no node's lifetime.
LEMMA DropLifetime ==
    ASSUME TypeOK, LifetimeInv, NEW h \in Handle, DropHandle(h)
    PROVE  LifetimeInv'
  <1>1. CallsOK
    BY TypeParts
  <1>2. /\ phase = "idle" /\ phase' = "idle" /\ handles[h].state = "live"
        /\ UNCHANGED <<entries, work, direct>>
    BY DEF DropHandle, registry
  <1>3. /\ pending_removals \in Seq(Handle) /\ Len(pending_removals) \in Nat
        /\ DOMAIN pending_removals = 1..Len(pending_removals)
        /\ \A i \in DOMAIN pending_removals : pending_removals[i] \in Handle \ {h}
    <2>1. /\ pending_removals \in Seq(Handle) /\ Len(pending_removals) \in Nat
          /\ DOMAIN pending_removals = 1..Len(pending_removals)
      BY <1>1, LenProperties DEF CallsOK
    <2>2. \A i \in DOMAIN pending_removals : pending_removals[i] \in Handle
      BY <2>1, ElementOfSeq
    <2>. QED
      BY <1>2, <2>1, <2>2 DEF LifetimeInv, DrainOrder
  <1>4. \/ /\ pending_removals' = Append(pending_removals, h)
           /\ handles' = [handles EXCEPT ![h].state = "queued"]
        \/ /\ handles[h].node_ids = <<>>
           /\ handles' = [handles EXCEPT ![h] = NoHandle]
           /\ UNCHANGED pending_removals
    BY DEF DropHandle
  <1>5. /\ \A k \in Handle : Whole(k)' /\ Named(k)' = Named(k)
        /\ \A k \in Handle \ {h} : handles'[k] = handles[k]
        /\ pending_removals' # pending_removals => handles'[h].state = "queued"
    <2>1. \A k \in Handle : Whole(k)
      BY <1>2 DEF LifetimeInv, DrainOrder
    <2>2. handles[h] \in HandleRec /\ handles \in [Handle -> HandleRec]
      BY <1>1 DEF CallsOK
    <2>3. \A k \in Handle \ {h} : handles'[k] = handles[k]
      BY <1>4, <2>2
    <2>4. CASE handles' = [handles EXCEPT ![h].state = "queued"]
      <3>1. /\ handles'[h].left = handles[h].left /\ handles'[h].node_ids = handles[h].node_ids
            /\ handles'[h].state = "queued"
        BY <2>2, <2>4 DEF HandleRec
      <3>. QED
        BY <2>1, <2>3, <3>1 DEF Whole, Named
    <2>5. CASE /\ handles[h].node_ids = <<>>
               /\ handles' = [handles EXCEPT ![h] = NoHandle]
               /\ UNCHANGED pending_removals
      <3>1. handles'[h].left = 0 /\ handles'[h].node_ids = handles[h].node_ids
        BY <2>2, <2>5 DEF NoHandle
      <3>2. Len(handles'[h].node_ids) = 0
        BY <2>5, <3>1
      <3>. QED
        BY <2>1, <2>3, <2>5, <3>1, <3>2 DEF Whole, Named
    <2>. QED
      BY <1>4, <2>4, <2>5
  <1>6. Kept' = Kept
    <2>1. \A k \in Handle : Whole(k)
      BY <1>2 DEF LifetimeInv, DrainOrder
    <2>. QED
      BY <1>2, <1>5, <2>1 DEF Kept
  <1>7. KeptStay(Kept)' /\ DrainSpares(Kept)'
    BY <1>2, <1>6 DEF LifetimeInv, KeptStay, DrainSpares
  <1>8. /\ \A i \in DOMAIN pending_removals : handles[pending_removals[i]].state = "queued"
        /\ \A i, j \in DOMAIN pending_removals : pending_removals[i] = pending_removals[j] => i = j
    BY DEF LifetimeInv, DrainOrder
  <1>9. CASE pending_removals' = Append(pending_removals, h)
    <2>1. /\ DOMAIN pending_removals' = 1..(Len(pending_removals) + 1)
          /\ \A i \in 1..Len(pending_removals) : pending_removals'[i] = pending_removals[i]
          /\ pending_removals'[Len(pending_removals) + 1] = h
      <3>1. /\ Append(pending_removals, h) \in Seq(Handle)
            /\ Len(Append(pending_removals, h)) = Len(pending_removals) + 1
            /\ \A i \in 1..Len(pending_removals) : Append(pending_removals, h)[i] = pending_removals[i]
            /\ Append(pending_removals, h)[Len(pending_removals) + 1] = h
        BY <1>3, AppendProperties
      <3>. QED
        BY <1>9, <3>1, LenProperties
    <2>2. \A i \in DOMAIN pending_removals' :
             \/ i \in 1..Len(pending_removals) /\ pending_removals'[i] = pending_removals[i]
             \/ i = Len(pending_removals) + 1 /\ pending_removals'[i] = h
      BY <1>3, <2>1
    <2>3. handles'[h].state = "queued"
      <3>1. Len(pending_removals') # Len(pending_removals)
        <4>1. Len(Append(pending_removals, h)) = Len(pending_removals) + 1
          BY <1>3, AppendProperties
        <4>2. Len(pending_removals) \in Nat
          BY <1>3, LenProperties
        <4>3. Len(pending_removals') = Len(pending_removals) + 1
          BY <1>9, <4>1
        <4>. QED
          BY <4>2, <4>3
      <3>. QED
        BY <1>5, <3>1
    <2>4. \A i \in DOMAIN pending_removals' : handles'[pending_removals'[i]].state = "queued"
      BY <1>3, <1>5, <1>8, <2>2, <2>3
    <2>5. \A i, j \in DOMAIN pending_removals' : pending_removals'[i] = pending_removals'[j] => i = j
      BY <1>3, <1>8, <2>2
    <2>. QED
      BY <1>5, <1>7, <2>4, <2>5 DEF LifetimeInv, DrainOrder
  <1>10. CASE UNCHANGED pending_removals
    <2>1. \A i \in DOMAIN pending_removals : handles'[pending_removals[i]].state = "queued"
      BY <1>3, <1>5, <1>8
    <2>. QED
      BY <1>5, <1>7, <1>8, <1>10, <2>1 DEF LifetimeInv, DrainOrder
  <1>. QED
    BY <1>4, <1>9, <1>10

\* merge registers all that its handle names.
LEMMA MergeLifetime ==
    ASSUME TypeOK, FreeUnclaimed, RefsClaimed, LifetimeInv,
           NEW h \in Handle, NEW script \in Script, Merge(h, script)
    PROVE  LifetimeInv'
  <1>1. CallsOK /\ RegistryOK
    BY TypeParts
  <1>2. /\ phase = "body" /\ phase' = "activate" /\ handles[h].state = "free"
        /\ entries' = register_node(descriptors(script))
        /\ UNCHANGED <<pending_removals, direct>>
    BY DEF Merge
  <1>3. /\ \A k \in Handle \ {h} : handles'[k] = handles[k]
        /\ handles'[h].left = Len(script) /\ handles'[h].node_ids = node_ids(script)
    BY <1>1 DEF Merge, CallsOK
  <1>4. Whole(h)' /\ Named(h)' = DOMAIN descriptors(script)
    <2>1. Len(node_ids(script)) = Len(script) /\ DOMAIN script = 1..Len(script)
      BY NodeIdsType, ScriptType
    <2>2. Range(node_ids(script)) = DOMAIN descriptors(script)
      BY DEF Range, node_ids, descriptors
    <2>. QED
      BY <1>3, <2>1, <2>2 DEF Whole, Named
  <1>5. DOMAIN entries' = DOMAIN entries \cup DOMAIN descriptors(script)
    BY <1>2 DEF register_node
  <1>6. \A k \in Handle : Whole(k)
    BY <1>2 DEF LifetimeInv, DrainOrder
  <1>7. \A k \in Handle : Whole(k)'
    BY <1>3, <1>4, <1>6 DEF Whole
  <1>8. Kept' \subseteq DOMAIN entries'
    <2>1. \A k \in Handle \ {h} : Named(k)' = Named(k)
      BY <1>3 DEF Named
    <2>2. \A n \in Kept' : n \in Kept \/ n \in Named(h)'
      BY <1>2, <1>6, <2>1 DEF Kept
    <2>. QED
      BY <1>4, <1>5, <2>2 DEF LifetimeInv, KeptStay
  <1>9. DOMAIN entries' \subseteq Kept'
    <2>. SUFFICES ASSUME NEW n \in DOMAIN entries' PROVE n \in Kept'
      OBVIOUS
    <2>1. CASE n \in DOMAIN descriptors(script)
      <3>1. n \in NodeId
        BY <2>1, DescriptorsType
      <3>. QED
        BY <1>4, <2>1, <3>1 DEF Kept
    <2>2. CASE n \in DOMAIN entries
      <3>1. n \in NodeId
        BY <1>1, <2>2 DEF RegistryOK
      <3>2. \/ direct[n] > 0
            \/ \E k \in Handle : handles[k].state # "free" /\ Whole(k) /\ n \in Named(k)
        BY <1>2, <2>2, RegisteredKept DEF LifetimeInv
      <3>3. ASSUME NEW k \in Handle, handles[k].state # "free", n \in Named(k)
            PROVE  n \in Kept'
        <4>1. k # h
          BY <1>2, <3>3
        <4>2. Named(k)' = Named(k)
          BY <1>3, <4>1 DEF Named
        <4>. QED
          BY <1>7, <3>1, <3>3, <4>2 DEF Kept
      <3>. QED
        BY <1>2, <3>1, <3>2, <3>3 DEF Kept
    <2>. QED
      BY <1>5, <2>1, <2>2
  <1>10. KeptStay(Kept)' /\ DrainSpares(Kept)'
    BY <1>2, <1>8, <1>9 DEF KeptStay, DrainSpares
  <1>11. \A i \in DOMAIN pending_removals : pending_removals[i] \in Handle \ {h}
    <2>1. \A i \in DOMAIN pending_removals : pending_removals[i] \in Handle
      BY <1>1, LenProperties, ElementOfSeq DEF CallsOK
    <2>. QED
      BY <1>2, <2>1 DEF LifetimeInv, DrainOrder
  <1>12. DrainOrder'
    BY <1>2, <1>3, <1>7, <1>11 DEF LifetimeInv, DrainOrder
  <1>. QED
    BY <1>10, <1>12 DEF LifetimeInv

\* build(&mut graph) registers one node, for good.
LEMMA BuildLifetime ==
    ASSUME TypeOK, FreeUnclaimed, RefsClaimed, LifetimeInv, NEW r \in Direct, Build(r)
    PROVE  LifetimeInv'
  <1>1. CallsOK /\ RegistryOK
    BY TypeParts
  <1>2. /\ phase = "body" /\ phase' = "idle" /\ direct' = [direct EXCEPT ![r.id] = @ + 1]
        /\ entries' = register_node([n \in {r.id} |-> r.deps])
        /\ UNCHANGED <<handles, pending_removals, work>>
    BY DEF Build
  <1>3. r.id \in NodeId
    BY DirectAssumption DEF Registration
  <1>4. /\ \A n \in NodeId \ {r.id} : direct'[n] = direct[n]
        /\ direct'[r.id] > 0
    <2>1. direct \in [NodeId -> 0..MaxDirect]
      BY <1>1 DEF CallsOK
    <2>2. direct[r.id] \in Nat
      BY <1>3, <2>1, MaxDirectAssumption
    <2>3. direct'[r.id] = direct[r.id] + 1 /\ \A n \in NodeId \ {r.id} : direct'[n] = direct[n]
      BY <1>2, <1>3, <2>1
    <2>. QED
      BY <2>2, <2>3
  <1>5. DOMAIN entries' = DOMAIN entries \cup {r.id}
    BY <1>2 DEF register_node
  <1>6. \A k \in Handle : Whole(k)' = Whole(k) /\ Named(k)' = Named(k)
    BY <1>2 DEF Whole, Named
  <1>7. Kept' = Kept \cup {r.id}
    BY <1>3, <1>4, <1>6 DEF Kept
  <1>8. DOMAIN entries \subseteq Kept
    <2>. SUFFICES ASSUME NEW n \in DOMAIN entries PROVE n \in Kept
      OBVIOUS
    <2>1. n \in NodeId
      BY <1>1 DEF RegistryOK
    <2>. QED
      BY <1>2, <2>1, RegisteredKept DEF LifetimeInv, Kept
  <1>9. KeptStay(Kept)' /\ DrainSpares(Kept)'
    BY <1>2, <1>5, <1>7, <1>8 DEF LifetimeInv, KeptStay, DrainSpares
  <1>10. DrainOrder'
    BY <1>2, <1>6 DEF LifetimeInv, DrainOrder
  <1>. QED
    BY <1>9, <1>10 DEF LifetimeInv

\* Every step keeps what has to stay.
LEMMA NextLifetime ==
    ASSUME TypeOK, FreeUnclaimed, RefsClaimed, Unshared, LifetimeInv, [Next]_vars
    PROVE  LifetimeInv'
  <1>1. ASSUME UNCHANGED <<entries, handles, pending_removals, direct>>,
               phase = "drain" => phase' = "drain" \/ pending_removals = <<>>,
               phase' \in {"idle", "body"} => work' = <<>>,
               phase' = "drain" => (phase = "drain" /\ work' = work) \/ work' = <<>>
        PROVE  LifetimeInv'
    <2>1. Kept' = Kept
      BY <1>1 DEF Kept, Whole, Named
    <2>2. DrainOrder'
      BY <1>1 DEF LifetimeInv, DrainOrder, Whole
    <2>3. KeptStay(Kept)'
      BY <1>1, <2>1 DEF LifetimeInv, KeptStay
    <2>4. DrainSpares(Kept)'
      BY <1>1, <2>1 DEF LifetimeInv, DrainSpares
    <2>. QED
      BY <2>2, <2>3, <2>4 DEF LifetimeInv
  <1>2. phase \in {"idle", "body"} => work = <<>>
    BY DEF LifetimeInv, DrainSpares
  <1>3. CASE UNCHANGED vars
    <2>1. UNCHANGED <<entries, handles, pending_removals, direct, phase, work>>
      BY <1>3 DEF vars, registry
    <2>. QED
      BY <1>1, <1>2, <2>1
  <1>4. ASSUME NEW h \in Handle, DropHandle(h)
        PROVE  LifetimeInv'
    BY <1>4, DropLifetime
  <1>5. CASE Call
    BY <1>1, <1>2, <1>5 DEF Call, registry
  <1>6. ASSUME NEW r \in Direct, Build(r)
        PROVE  LifetimeInv'
    BY <1>6, BuildLifetime
  <1>7. ASSUME NEW h \in Handle, NEW script \in Script, Merge(h, script)
        PROVE  LifetimeInv'
    BY <1>7, MergeLifetime
  <1>8. ASSUME NEW id \in NodeId, ActivateSink(id)
        PROVE  LifetimeInv'
    BY <1>1, <1>8 DEF ActivateSink, registry
  <1>9. CASE DrainNext
    BY <1>9, DrainLifetime
  <1>10. CASE CascadeNext
    <2>1. /\ phase = "drain" /\ phase' = "drain" /\ work # <<>> /\ work \in Seq(Frame)
          /\ deactivate_node(Head(work).id, Tail(work))
          /\ UNCHANGED <<handles, pending_removals, direct>>
      BY <1>10, TypeParts DEF CascadeNext, CallsOK
    <2>2. Kept' = Kept
      BY <2>1 DEF Kept, Whole, Named
    <2>3. \A i \in DOMAIN work : work[i].id \notin Kept
      BY <2>1 DEF LifetimeInv, DrainSpares
    <2>4. Head(work).id \notin Kept /\ Tail(work) \in Seq(Frame)
          /\ \A i \in DOMAIN Tail(work) : Tail(work)[i].id \notin Kept
      BY <2>1, <2>3, StackTop
    <2>5. PICK K : K = Kept
      OBVIOUS
    <2>6. PICK id : id = Head(work).id
      OBVIOUS
    <2>7. PICK rest : rest = Tail(work)
      OBVIOUS
    <2>8. KeptStay(K)
      BY <2>5 DEF LifetimeInv
    <2>9. /\ K \subseteq DOMAIN entries'
          /\ \A n \in DOMAIN entries' \ K : Range(entries'[n].deps) \cap K = {}
          /\ \A i \in DOMAIN work' : work'[i].id \notin K
      BY <2>1, <2>4, <2>5, <2>6, <2>7, <2>8, DeactivateSpares
    <2>10. KeptStay(Kept)' /\ DrainSpares(Kept)'
      BY <2>1, <2>2, <2>5, <2>9 DEF KeptStay, DrainSpares
    <2>11. DrainOrder'
      BY <2>1 DEF LifetimeInv, DrainOrder, Whole
    <2>. QED
      BY <2>10, <2>11 DEF LifetimeInv
  <1>11. CASE EndDrain
    BY <1>1, <1>11 DEF EndDrain, registry
  <1>12. CASE EnterNode
    BY <1>1, <1>12 DEF EnterNode, registry
  <1>13. CASE FinishNode
    BY <1>1, <1>13 DEF FinishNode
  <1>14. CASE Return
    BY <1>1, <1>2, <1>14 DEF Return, registry
  <1>. QED
    BY <1>3, <1>4, <1>5, <1>6, <1>7, <1>8, <1>9, <1>10, <1>11, <1>12, <1>13, <1>14 DEF Next, Step

\* Under these conditions, LifetimeInv holds from the beginning on.
LEMMA LifetimesHold == Spec /\ []Unshared => []LifetimeInv
  <1>1. Init => LifetimeInv
    <2>. SUFFICES ASSUME Init PROVE LifetimeInv
      OBVIOUS
    <2>1. \A h \in Handle : handles[h].left = 0 /\ handles[h].node_ids = <<>>
      BY DEF Init, NoHandle
    <2>2. \A h \in Handle : Whole(h) /\ Named(h) = {}
      BY <2>1 DEF Whole, Named, Range
    <2>3. Kept = {}
      BY <2>2 DEF Init, Kept
    <2>4. DrainOrder
      BY <2>2 DEF Init, DrainOrder
    <2>5. KeptStay(Kept) /\ DrainSpares(Kept)
      BY <2>3 DEF Init, KeptStay, DrainSpares
    <2>. QED
      BY <2>4, <2>5 DEF LifetimeInv
  <1>2. /\ TypeOK /\ FreeUnclaimed /\ RefsClaimed /\ Unshared /\ LifetimeInv /\ [Next]_vars
        => LifetimeInv'
    BY NextLifetime
  <1>. QED
    BY <1>1, <1>2, TypeCorrect, RefsAreClaimed, PTL DEF Spec

\* With dropped handles that share no node, a node is registered exactly while a handle
\* names it or it was built through graph(): the reverse order of the drain, the cascade
\* and the repeated deactivation of one id, together, take away all that the handle
\* brought and nothing else (drain_pending_removals, deactivate_node).
THEOREM LifetimesAreExact == Spec /\ []Unshared => []ExactLifetime
  <1>1. ASSUME TypeOK, FreeUnclaimed, RefsClaimed, LifetimeInv
        PROVE  ExactLifetime
    <2>. SUFFICES ASSUME phase = "idle"
                  PROVE  \A n \in NodeId : n \in DOMAIN entries <=> (Claims(n) # {} \/ direct[n] > 0)
      BY <1>1, TypeParts DEF ExactLifetime, RegistryOK
    <2>. TAKE n \in NodeId
    <2>1. Claims(n) # {} \/ direct[n] > 0 => n \in Kept
      BY <1>1, ClaimedIsKept DEF LifetimeInv, Kept
    <2>2. Kept \subseteq DOMAIN entries
      BY <1>1 DEF LifetimeInv, KeptStay
    <2>. QED
      BY <1>1, <2>1, <2>2, RegisteredIsClaimed
  <1>. QED
    BY <1>1, LifetimesHold, TypeCorrect, RefsAreClaimed, PTL DEF Spec

\* Clients that keep to that never leave a node active that reads from one that is gone,
\* so the premise of StaysConnected is in the hands of the clients (Engine::merge,
\* drain_pending_removals).
THEOREM NothingDangles == Spec /\ []Unshared /\ []InputsBrought => []NoDangling
  <1>1. ASSUME TypeOK, WiringSound, FreeUnclaimed, RefsClaimed, LifetimeInv, InputsBrought
        PROVE  NoDangling
    <2>. SUFFICES ASSUME phase \in {"idle", "body"}, NEW n \in active,
                         NEW d \in Range(deps[n])
                  PROVE  d \in DOMAIN entries
      BY DEF NoDangling
    <2>1. n \in DOMAIN entries /\ d \in Range(entries[n].deps) /\ d \in NodeId
      <3>1. n \in DOMAIN entries /\ deps[n] = entries[n].deps
        BY <1>1 DEF WiringSound
      <3>2. entries[n].deps \in Seq(NodeId)
        BY <1>1, <3>1, TypeParts DEF RegistryOK, Entry
      <3>. QED
        BY <3>1, <3>2 DEF Range
    <2>2. Kept \subseteq DOMAIN entries
      BY <1>1 DEF LifetimeInv, KeptStay
    <2>3. CASE direct[n] > 0
      BY <1>1, <2>1, <2>2, <2>3 DEF InputsBrought, Kept
    <2>4. ASSUME NEW h \in Handle, Whole(h), n \in Named(h)
          PROVE  d \in DOMAIN entries
      BY <1>1, <2>1, <2>2, <2>4 DEF InputsBrought, Kept
    <2>. QED
      BY <1>1, <2>1, <2>3, <2>4, RegisteredKept DEF LifetimeInv
  <1>. QED
    BY <1>1, LifetimesHold, TypeCorrect, WiringIsSound, RefsAreClaimed, PTL DEF Spec
-----------------------------------------------------------------------------
(* The sinks of a subgraph                                                  *)

\* The loop of merge still comes to the sink n.
SinkDue(w, n) == \E i \in DOMAIN w : w[i].op = "sink" /\ w[i].id = n

\* A sink that a handle names is active, or merge is about to activate it.
SinksInv ==
    \A h \in Handle : \A n \in Named(h) :
        Whole(h) /\ Kind[n] = "Sink" => n \in active \/ (phase = "activate" /\ SinkDue(work, n))

\* What is below the top frame stays when the top is replaced by the frames of recursive
\* calls or by nothing.
LEMMA SinkBelow ==
    ASSUME NEW w \in Seq(Frame), w # <<>>, NEW n, SinkDue(w, n),
           ~(Head(w).op = "sink" /\ Head(w).id = n),
           NEW v, \/ v = Tail(w)
                  \/ \E id, ds : Pushed(v, w, id, ds)
    PROVE  SinkDue(v, n)
  <1>1. PICK i \in DOMAIN w : w[i].op = "sink" /\ w[i].id = n
    BY DEF SinkDue
  <1>2. /\ Len(w) \in Nat \ {0} /\ DOMAIN w = 1..Len(w) /\ Head(w) = w[1]
        /\ DOMAIN Tail(w) = 1..(Len(w) - 1)
        /\ i = 1 \/ (i - 1 \in 1..(Len(w) - 1) /\ Tail(w)[i - 1] = w[i])
    BY StackTop
  <1>3. i # 1
    BY <1>1, <1>2
  <1>4. CASE v = Tail(w)
    BY <1>1, <1>2, <1>3, <1>4 DEF SinkDue
  <1>5. ASSUME NEW id, NEW ds, Pushed(v, w, id, ds)
        PROVE  SinkDue(v, n)
    <2>1. Len(ds) \in Nat /\ DOMAIN v = 1..(Len(ds) + Len(w)) /\ \A k \in 2..Len(w) : v[Len(ds) + k] = w[k]
      BY <1>5 DEF Pushed
    <2>2. i \in 2..Len(w)
      BY <1>2, <1>3
    <2>3. ASSUME NEW a \in Nat, NEW b \in Nat, i \in 2..b
          PROVE  a + i \in 1..(a + b)
      BY <2>3
    <2>4. Len(ds) + i \in DOMAIN v
      BY <1>2, <2>1, <2>2, <2>3
    <2>. QED
      BY <1>1, <2>1, <2>2, <2>4 DEF SinkDue
  <1>. QED
    BY <1>4, <1>5

\* A step that drops the frame on top keeps the sinks, when that frame's sink is active
\* afterwards.
LEMMA SinksPop ==
    ASSUME TypeOK, SinksInv, phase = "activate", phase' = "activate", work # <<>>,
           handles' = handles, active \subseteq active',
           \/ work' = Tail(work)
           \/ \E id, ds : Pushed(work', work, id, ds),
           \A h \in Handle : \A n \in Named(h) :
               Whole(h) /\ Kind[n] = "Sink" /\ Head(work).op = "sink" /\ Head(work).id = n
                  => n \in active'
    PROVE  SinksInv'
  <1>1. work \in Seq(Frame)
    BY TypeParts DEF CallsOK
  <1>2. SUFFICES ASSUME NEW h \in Handle, NEW n \in Named(h), Whole(h), Kind[n] = "Sink",
                        n \notin active'
                 PROVE  SinkDue(work', n)
    BY DEF SinksInv, Named, Whole
  <1>3. SinkDue(work, n) /\ ~(Head(work).op = "sink" /\ Head(work).id = n)
    BY <1>2 DEF SinksInv
  <1>4. PICK v : v = work'
    OBVIOUS
  <1>5. v = Tail(work) \/ \E id, ds : Pushed(v, work, id, ds)
    BY <1>4
  <1>. QED
    BY <1>1, <1>3, <1>4, <1>5, SinkBelow

\* A step that has no activation under way keeps them when it keeps the nodes that stay.
LEMMA SinksQuiet ==
    ASSUME SinksInv, phase # "activate" \/ work = <<>>,
           \A h \in Handle : \A n \in Named(h)' :
               Whole(h)' /\ Kind[n] = "Sink" => Whole(h) /\ n \in Named(h) /\ (n \in active => n \in active')
    PROVE  SinksInv'
  <1>1. ASSUME NEW h \in Handle, NEW n \in Named(h)', Whole(h)', Kind[n] = "Sink"
        PROVE  n \in active'
    <2>1. Whole(h) /\ n \in Named(h) /\ (n \in active => n \in active')
      BY <1>1
    <2>2. ~(phase = "activate" /\ SinkDue(work, n))
      BY DEF SinkDue
    <2>. QED
      BY <1>1, <2>1, <2>2 DEF SinksInv
  <1>. QED
    BY <1>1 DEF SinksInv

\* Merge puts the ids of the new handle on the stack.
LEMMA SinksMerge ==
    ASSUME TypeOK, SinksInv, NEW h \in Handle, NEW script \in Script, Merge(h, script)
    PROVE  SinksInv'
  <1>1. PICK ids : ids = node_ids(script)
    OBVIOUS
  <1>2. /\ phase = "body" /\ phase' = "activate" /\ active' = active
        /\ handles' = [handles EXCEPT ![h] = [state |-> "live", node_ids |-> ids,
                                              left |-> Len(script)]]
        /\ work' = Frames("sink", ids)
    BY <1>1 DEF Merge
  <1>3. ids \in Seq(NodeId)
    BY <1>1, NodeIdsType
  <1>4. DOMAIN handles = Handle
    BY TypeParts DEF CallsOK
  <1>5. ASSUME NEW n \in Range(ids)
        PROVE  SinkDue(work', n)
    BY <1>2, <1>3, <1>5, FramesAre DEF SinkDue, Range
  <1>6. ASSUME NEW k \in Handle \ {h}, NEW n \in Named(k)', Whole(k)', Kind[n] = "Sink"
        PROVE  n \in active'
    BY <1>2, <1>4, <1>6 DEF SinksInv, Named, Whole
  <1>7. Named(h)' = Range(ids)
    BY <1>2, <1>4 DEF Named
  <1>. QED
    BY <1>2, <1>5, <1>6, <1>7 DEF SinksInv

\* A node that has to stay stays active.
LEMMA KeptActive ==
    ASSUME WiringSound, LifetimeInv', NEW id, NEW rest, deactivate_node(id, rest),
           NEW h \in Handle, NEW n \in Named(h)', Whole(h)', n \in NodeId, n \in active
    PROVE  n \in active'
  <1>1. n \in DOMAIN entries'
    BY DEF LifetimeInv, KeptStay, Kept
  <1>. QED
    BY <1>1 DEF deactivate_node, registry

\* Every step keeps the sinks of the subgraphs.
LEMMA NextSinks ==
    ASSUME TypeOK, TypeOK', WiringSound, LifetimeInv, LifetimeInv', SinksInv, [Next]_vars
    PROVE  SinksInv'
  <1>0. /\ \A h \in Handle : Named(h) \subseteq NodeId /\ Named(h)' \subseteq NodeId
        /\ CallsOK
    BY TypeParts, TypePartsNext DEF CallsOK, HandleRec, Named, Range
  <1>1. CASE UNCHANGED vars
    BY <1>1 DEF vars, registry, SinksInv, Named, Whole, SinkDue
  <1>2. CASE \/ Call \/ EndDrain \/ Return
             \/ \E r \in Direct : Build(r)
             \/ \E id \in NodeId : ActivateSink(id)
    <2>1. /\ phase # "activate" \/ work = <<>>
          /\ UNCHANGED <<handles, active>>
      BY <1>2 DEF Call, EndDrain, Return, Build, ActivateSink, registry
    <2>. QED
      BY <2>1, SinksQuiet DEF Named, Whole
  <1>3. ASSUME NEW h \in Handle, DropHandle(h)
        PROVE  SinksInv'
    <2>1. /\ phase = "idle" /\ active' = active
          /\ \/ handles' = [handles EXCEPT ![h].state = "queued"]
             \/ handles' = [handles EXCEPT ![h] = NoHandle]
      BY <1>3 DEF DropHandle, registry
    <2>2. handles \in [Handle -> HandleRec]
      BY <1>0 DEF CallsOK
    <2>3. CASE handles' = [handles EXCEPT ![h].state = "queued"]
      <3>1. \A k \in Handle : Named(k)' = Named(k) /\ Whole(k)' = Whole(k)
        BY <2>2, <2>3 DEF Named, Whole, HandleRec
      <3>. QED
        BY <2>1, <3>1, SinksQuiet
    <2>4. CASE handles' = [handles EXCEPT ![h] = NoHandle]
      <3>1. Named(h)' = {}
        BY <2>2, <2>4 DEF Named, NoHandle, Range
      <3>2. \A k \in Handle \ {h} : Named(k)' = Named(k) /\ Whole(k)' = Whole(k)
        BY <2>2, <2>4 DEF Named, Whole
      <3>. QED
        BY <2>1, <3>1, <3>2, SinksQuiet
    <2>. QED
      BY <2>1, <2>3, <2>4
  <1>4. ASSUME NEW h \in Handle, NEW script \in Script, Merge(h, script)
        PROVE  SinksInv'
    BY <1>4, SinksMerge
  <1>5. CASE DrainNext
    <2>1. /\ phase = "drain" /\ work = <<>> /\ pending_removals # <<>>
          /\ pending_removals \in Seq(Handle)
      BY <1>0, <1>5 DEF DrainNext, CallsOK
    <2>2. PICK h \in Handle : h = Head(pending_removals)
      BY <2>1, HeadTailProperties
    <2>3. PICK l : l = handles[h].left
      OBVIOUS
    <2>4. /\ \E id : deactivate_node(id, <<>>)
          /\ \/ l > 1 /\ handles' = [handles EXCEPT ![h].left = l - 1]
             \/ handles' = [handles EXCEPT ![h] = NoHandle]
      BY <1>5, <2>2, <2>3 DEF DrainNext
    <2>5. handles \in [Handle -> HandleRec] /\ l \in Nat /\ l <= Len(handles[h].node_ids)
          /\ Len(handles[h].node_ids) \in Nat
      BY <1>0, <2>3, LenProperties DEF CallsOK, HandleRec
    <2>6. \A k \in Handle \ {h} : Named(k)' = Named(k) /\ (Whole(k)' <=> Whole(k))
      BY <2>4, <2>5 DEF Named, Whole
    <2>7. Named(h)' = {} \/ ~Whole(h)'
      <3>1. CASE l > 1 /\ handles' = [handles EXCEPT ![h].left = l - 1]
        <4>1. handles'[h].left = l - 1 /\ handles'[h].node_ids = handles[h].node_ids
          BY <2>5, <3>1 DEF HandleRec
        <4>2. l - 1 # Len(handles[h].node_ids)
          BY <2>5
        <4>. QED
          BY <4>1, <4>2 DEF Whole
      <3>2. CASE handles' = [handles EXCEPT ![h] = NoHandle]
        BY <2>5, <3>2 DEF Named, NoHandle, Range
      <3>. QED
        BY <2>4, <3>1, <3>2
    <2>8. ASSUME NEW k \in Handle, NEW n \in Named(k)', Whole(k)', n \in active
          PROVE  n \in active'
      BY <1>0, <2>4, <2>8, KeptActive
    <2>. QED
      BY <2>1, <2>6, <2>7, <2>8, SinksQuiet
  <1>6. CASE CascadeNext
    <2>1. /\ phase = "drain" /\ handles' = handles /\ \E id, rest : deactivate_node(id, rest)
      BY <1>6 DEF CascadeNext
    <2>2. \A k \in Handle : Named(k)' = Named(k) /\ (Whole(k)' <=> Whole(k))
      BY <2>1 DEF Named, Whole
    <2>3. ASSUME NEW k \in Handle, NEW n \in Named(k)', Whole(k)', n \in active
          PROVE  n \in active'
      BY <1>0, <2>1, <2>3, KeptActive
    <2>. QED
      BY <2>1, <2>2, <2>3, SinksQuiet
  <1>7. CASE EnterNode
    <2>1. /\ phase = "activate" /\ phase' = "activate" /\ work # <<>> /\ handles' = handles
          /\ work \in Seq(Frame) /\ RegistryOK
      BY <1>0, <1>7, TypeParts DEF EnterNode, CallsOK
    <2>2. PICK id : id = Head(work).id
      OBVIOUS
    <2>3. ASSUME NEW h \in Handle, NEW n \in Named(h), Whole(h)
          PROVE  n \in DOMAIN entries
      BY <1>0, <2>3 DEF LifetimeInv, KeptStay, Kept
    <2>4. CASE /\ id \in active \/ id \notin DOMAIN entries \/ (Head(work).op = "sink" /\ Kind[id] # "Sink")
               /\ work' = Tail(work) /\ active' = active
      <3>1. \A h \in Handle : \A n \in Named(h) :
               Whole(h) /\ Kind[n] = "Sink" /\ Head(work).op = "sink" /\ Head(work).id = n
                  => n \in active'
        BY <2>2, <2>3, <2>4
      <3>. QED
        BY <2>1, <2>4, <3>1, SinksPop
    <2>5. CASE /\ id \in DOMAIN entries /\ active' = active \cup {id}
               /\ work' = Frames("enter", entries[id].deps) \o Frames("finish", <<id>>) \o Tail(work)
      <3>1. id \in NodeId /\ entries[id].deps \in Seq(NodeId)
        BY <2>1, <2>5 DEF RegistryOK, Entry
      <3>2. Pushed(work', work, id, entries[id].deps)
        BY <2>1, <2>5, <3>1, PushShape
      <3>. QED
        BY <2>1, <2>2, <2>5, <3>2, SinksPop
    <2>. QED
      BY <1>7, <2>2, <2>4, <2>5 DEF EnterNode, registry
  <1>8. CASE FinishNode
    <2>1. /\ phase = "activate" /\ phase' = "activate" /\ work # <<>> /\ handles' = handles
          /\ active' = active /\ work' = Tail(work) /\ Head(work).op = "finish"
      BY <1>8 DEF FinishNode
    <2>. QED
      BY <2>1, SinksPop
  <1>. QED
    BY <1>1, <1>2, <1>3, <1>4, <1>5, <1>6, <1>7, <1>8 DEF Next, Step

\* Where dropped handles share no node, inputs are brought along and every node of a
\* subgraph leads to one of its sinks, the nodes of a merged subgraph are all active from
\* the return of its merge until it is drained (Engine::merge, activate_node).
MergedActive == phase = "idle" => \A h \in Handle : Named(h) \subseteq active

THEOREM SubgraphsAreActive ==
    Spec /\ []Unshared /\ []InputsBrought /\ []SinksReach => []MergedActive
  <1>1. Init => SinksInv
    BY DEF Init, SinksInv, NoHandle, Named, Range
  <1>2. TypeOK /\ TypeOK' /\ WiringSound /\ LifetimeInv /\ LifetimeInv' /\ SinksInv /\ [Next]_vars
        => SinksInv'
    BY NextSinks
  <1>3. TypeOK /\ WiringSound /\ LifetimeInv /\ Connected /\ SinksReach /\ SinksInv => MergedActive
    <2>. SUFFICES ASSUME TypeOK, WiringSound, LifetimeInv, Connected, SinksReach, SinksInv,
                         phase = "idle", NEW h \in Handle
                  PROVE  Named(h) \subseteq active
      BY DEF MergedActive
    <2>1. Whole(h)
      BY DEF LifetimeInv, DrainOrder
    <2>2. PICK S : S = Named(h) \ active
      OBVIOUS
    <2>3. S \subseteq {n \in Named(h) : Kind[n] # "Sink"}
      BY <2>1, <2>2 DEF SinksInv
    <2>4. SUFFICES ASSUME S # {} PROVE FALSE
      BY <2>2
    <2>5. PICK n \in (Named(h) \cap DOMAIN entries) \ S : Range(entries[n].deps) \cap S # {}
      BY <2>1, <2>3, <2>4 DEF SinksReach
    <2>6. n \in active /\ deps[n] = entries[n].deps
      BY <2>2, <2>5 DEF WiringSound
    <2>7. Range(entries[n].deps) \subseteq active
      BY <2>6 DEF Connected
    <2>. QED
      BY <2>2, <2>5, <2>7
  <1>. QED
    BY <1>1, <1>2, <1>3, LifetimesHold, NothingDangles, StaysConnected, TypeCorrect,
       WiringIsSound, PTL DEF Spec
=============================================================================
