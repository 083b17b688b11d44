--------------------------- MODULE TypedNodesProofs ---------------------------
(***************************************************************************)
(* Proofs about module TypedNodes, for any declared nodes and any hash      *)
(* function.                                                                *)
(***************************************************************************)
EXTENDS TypedNodes, SequenceTheorems, TLAPS

\* t is what a node built under the identity id produces.
Declares(id, t) == \E d \in Declared : from_key(d) = id /\ d.output = t

\* The inputs behind deps were taken with NodeRefs of their types.
Wired(deps, inputs) ==
    /\ deps \in Seq(NodeId)
    /\ \A i \in DOMAIN deps : Declares(deps[i], inputs[i])

\* Whatever goes under an identity, on its way or in the store, is what some node
\* declared with it produces, and so is every input of a node or of a builder.
DeclaredInv ==
    /\ \A x \in refs \cup senders \cup messages :
          x = Typed(x.id, x.type) /\ Declares(x.id, x.type)
    /\ value_store = [i \in DOMAIN value_store |-> value_store[i]]
    /\ \A i \in DOMAIN value_store : Declares(i, value_store[i])
    /\ \A i \in DOMAIN entries : /\ Declares(i, entries[i].output)
                                 /\ Wired(entries[i].deps, entries[i].inputs)
    /\ \/ building = NoBuilder
       \/ /\ building = [node |-> building.node, dep_ids |-> building.dep_ids]
          /\ building.node \in Declared
          /\ Wired(building.dep_ids, building.node.inputs)

\* An identity is one, and what it is declared to produce a type.
LEMMA DeclaresTyped ==
    ASSUME NEW id, NEW t, Declares(id, t)
    PROVE  id \in NodeId /\ t \in Type
  <1>1. PICK d \in Declared : from_key(d) = id /\ d.output = t
    BY DEF Declares
  <1>2. KeyHash[d.key] \in Range(KeyHash) /\ d.scope \in Scope
    BY DeclaredAssumption DEF Range, Scope
  <1>. QED
    BY <1>1, <1>2 DEF from_key, NodeId, Type

\* Under agreeing types an identity has one type.
LEMMA OneType ==
    ASSUME TypesAgree, NEW id, NEW t, NEW u, Declares(id, t), Declares(id, u)
    PROVE  t = u
  BY DEF TypesAgree, Declares, from_key

\* A NodeRef is added to the inputs of a builder.
LEMMA WiredMore ==
    ASSUME NEW deps, NEW inputs, Wired(deps, inputs), NEW id, NEW t, Declares(id, t),
           t = inputs[Len(deps) + 1]
    PROVE  Wired(Append(deps, id), inputs)
  <1>1. deps \in Seq(NodeId) /\ id \in NodeId
    BY DeclaresTyped DEF Wired
  <1>2. PICK ds : ds = Append(deps, id)
    OBVIOUS
  <1>3. /\ ds \in Seq(NodeId) /\ DOMAIN ds = 1..(Len(deps) + 1)
        /\ \A i \in 1..Len(deps) : ds[i] = deps[i]
        /\ ds[Len(deps) + 1] = id /\ DOMAIN deps = 1..Len(deps) /\ Len(deps) \in Nat
    BY <1>1, <1>2, AppendProperties, LenProperties
  <1>4. ASSUME NEW i \in DOMAIN ds
        PROVE  Declares(ds[i], inputs[i])
    <2>1. CASE i \in DOMAIN deps
      BY <1>3, <2>1 DEF Wired
    <2>2. CASE i = Len(deps) + 1
      BY <1>3, <2>2
    <2>. QED
      BY <1>3, <2>1, <2>2
  <1>. QED
    BY <1>2, <1>3, <1>4 DEF Wired

\* Every step keeps DeclaredInv.
LEMMA DeclaredStep ==
    ASSUME DeclaredInv, [Next]_vars
    PROVE  DeclaredInv'
  <1>1. ASSUME NEW d \in Declared, new(d)
        PROVE  DeclaredInv'
    <2>1. <<>> \in Seq(NodeId) /\ DOMAIN <<>> = {}
      BY EmptySeq
    <2>2. /\ building' = [node |-> building'.node, dep_ids |-> building'.dep_ids]
          /\ building'.node = d /\ building'.dep_ids = <<>>
      BY <1>1 DEF new
    <2>3. Wired(building'.dep_ids, building'.node.inputs)
      BY <2>1, <2>2 DEF Wired
    <2>. QED
      BY <1>1, <2>2, <2>3 DEF new, DeclaredInv
  <1>2. ASSUME NEW r \in refs, dep(r)
        PROVE  DeclaredInv'
    <2>1. /\ building = [node |-> building.node, dep_ids |-> building.dep_ids]
          /\ building.node \in Declared /\ Wired(building.dep_ids, building.node.inputs)
      BY <1>2 DEF dep, DeclaredInv
    <2>2. Wired(Append(building.dep_ids, r.id), building.node.inputs)
      BY <1>2, <2>1, WiredMore DEF dep, DeclaredInv
    <2>3. building' = [node |-> building.node, dep_ids |-> Append(building.dep_ids, r.id)]
      BY <1>2, <2>1 DEF dep
    <2>4. /\ building'.node = building.node /\ building'.dep_ids = Append(building.dep_ids, r.id)
          /\ building' = [node |-> building'.node, dep_ids |-> building'.dep_ids]
      BY <2>3
    <2>. QED
      BY <1>2, <2>1, <2>2, <2>4 DEF dep, DeclaredInv
  <1>3. ASSUME build
        PROVE  DeclaredInv'
    <2>1. PICK d, id, e : /\ d = building.node /\ id = from_key(d)
                          /\ e = [kind |-> d.kind, deps |-> building.dep_ids,
                                  output |-> d.output, inputs |-> d.inputs]
      OBVIOUS
    <2>2. d \in Declared /\ Wired(building.dep_ids, d.inputs)
      BY <1>3, <2>1 DEF build, DeclaredInv
    <2>3. Declares(id, d.output)
      BY <2>1, <2>2 DEF Declares
    <2>4. /\ refs' = refs \cup {Typed(id, d.output)}
          /\ entries' = [i \in DOMAIN entries \cup {id} |->
                            IF i \in DOMAIN entries THEN entries[i] ELSE e]
          /\ building' = NoBuilder /\ UNCHANGED <<senders, messages, value_store>>
      BY <1>3, <2>1 DEF build
    <2>5. \A i \in DOMAIN entries' : /\ Declares(i, entries'[i].output)
                                     /\ Wired(entries'[i].deps, entries'[i].inputs)
      BY <2>1, <2>2, <2>3, <2>4 DEF DeclaredInv
    <2>6. \A x \in refs' : x = Typed(x.id, x.type) /\ Declares(x.id, x.type)
      BY <2>3, <2>4 DEF DeclaredInv, Typed
    <2>. QED
      BY <2>4, <2>5, <2>6 DEF DeclaredInv
  <1>4. ASSUME Abandon
        PROVE  DeclaredInv'
    BY <1>4 DEF Abandon, DeclaredInv
  <1>5. ASSUME NEW x, x = Typed(x.id, x.type), Declares(x.id, x.type), Post(x)
        PROVE  DeclaredInv'
    BY <1>5 DEF Post, DeclaredInv
  <1>6. ASSUME NEW id \in DOMAIN entries, Remove(id)
        PROVE  DeclaredInv'
    BY <1>6 DEF Remove, DeclaredInv
  <1>7. ASSUME NEW id \in DOMAIN entries, activate(id)
        PROVE  DeclaredInv'
    BY <1>7 DEF activate, DeclaredInv, Typed
  <1>8. ASSUME NEW id \in DOMAIN entries, compute(id)
        PROVE  DeclaredInv'
    BY <1>8 DEF compute, DeclaredInv
  <1>9. ASSUME NEW id \in DOMAIN entries, compute_async(id)
        PROVE  DeclaredInv'
    <2>1. PICK x : x = Typed(id, entries[id].output)
      OBVIOUS
    <2>2. x = Typed(x.id, x.type) /\ Declares(x.id, x.type)
      BY <2>1 DEF DeclaredInv, Typed
    <2>. QED
      BY <1>5, <1>9, <2>1, <2>2 DEF compute_async
  <1>10. ASSUME NEW m \in messages, set_by_id(m)
         PROVE  DeclaredInv'
    BY <1>10 DEF set_by_id, DeclaredInv
  <1>11. ASSUME NEW x \in refs \cup senders, update_source(x) \/ send(x)
         PROVE  DeclaredInv'
    BY <1>5, <1>11 DEF update_source, send, DeclaredInv
  <1>12. ASSUME UNCHANGED vars
         PROVE  DeclaredInv'
    BY <1>12 DEF vars, DeclaredInv
  <1>. QED
    BY <1>1, <1>2, <1>3, <1>4, <1>6, <1>7, <1>8, <1>9, <1>10, <1>11, <1>12 DEF Next

\* What goes under an identity is what a node declared with it produces.
THEOREM ValuesAreDeclared == Spec => []DeclaredInv
  <1>1. Init => DeclaredInv
    BY DEF Init, DeclaredInv
  <1>2. DeclaredInv /\ [Next]_vars => DeclaredInv'
    BY DeclaredStep
  <1>. QED
    BY <1>1, <1>2, PTL DEF Spec

\* Every variable has its type, whatever clients declare.
THEOREM TypedTypes == Spec => []TypeOK
  <1>1. ASSUME DeclaredInv
        PROVE  TypeOK
    <2>1. /\ DOMAIN entries \subseteq NodeId /\ DOMAIN value_store \subseteq NodeId
          /\ Range(value_store) \subseteq Type
      BY <1>1, DeclaresTyped DEF DeclaredInv, Range
    <2>2. \A x \in refs \cup senders \cup messages : x \in TypedId
      BY <1>1, DeclaresTyped DEF DeclaredInv, TypedId, Typed
    <2>3. \A id \in DOMAIN entries : Range(entries[id].deps) \subseteq NodeId
      BY <1>1, ElementOfSeq, LenProperties DEF DeclaredInv, Wired, Range
    <2>. QED
      BY <2>1, <2>2, <2>3 DEF TypeOK
  <1>. QED
    BY <1>1, ValuesAreDeclared, PTL

\* A value read through a NodeRef<T> is a T, after any sequence of registrations,
\* removals and late messages, as long as nodes of one scope and key agree on the type.
THEOREM ReadsAreWellTyped == TypesAgree => (Spec => []WellTyped)
  <1>. SUFFICES ASSUME TypesAgree
                PROVE  Spec => []WellTyped
    OBVIOUS
  <1>1. DeclaredInv => WellTyped
    BY OneType DEF DeclaredInv, WellTyped
  <1>. QED
    BY <1>1, ValuesAreDeclared, PTL

\* Under the same condition no downcast of an input ever fails.
THEOREM InputsAreFit == TypesAgree => (Spec => []InputsFit)
  <1>. SUFFICES ASSUME TypesAgree
                PROVE  Spec => []InputsFit
    OBVIOUS
  <1>1. DeclaredInv => InputsFit
    BY OneType DEF DeclaredInv, InputsFit, Wired
  <1>. QED
    BY <1>1, ValuesAreDeclared, PTL
=============================================================================
