---------------------------- MODULE EngineProofs -----------------------------
(***************************************************************************)
(* Proofs about module Engine, for any nodes, subgraphs and messages: the   *)
(* engine is a lifecycle (module Lifecycle), its cycle only touches active  *)
(* nodes, topo_sort sorts, and the scheduler runs what topo_sort returned.  *)
(***************************************************************************)
EXTENDS Engine, LifecycleProofs

-----------------------------------------------------------------------------
(* The engine's steps on the registry                                       *)

\* Every step of the engine is one of its lifecycle or leaves that alone.
LEMMA EngineStepIsStep ==
    ASSUME [EngineNext]_allVars
    PROVE  [Next]_vars
  <1>1. ASSUME NEW s \in NodeId, Send(s)
        PROVE  UNCHANGED vars
    BY <1>1 DEF Send
  <1>2. ASSUME NEW j \in jobs, JobEnds(j)
        PROVE  UNCHANGED vars
    BY <1>2 DEF JobEnds
  <1>3. ASSUME NEW p \in Strategy, SetErrorStrategy(p[1], p[2])
        PROVE  UNCHANGED vars
    BY <1>3 DEF SetErrorStrategy
  <1>4. CASE Manage
    BY <1>4 DEF Manage, Next
  <1>5. CASE Deactivate
    BY <1>5 DEF Deactivate, Next, Step
  <1>6. CASE Activate
    BY <1>6 DEF Activate, Next, Step
  <1>7. CASE Proceed
    BY <1>7 DEF Proceed, Next, Step
  <1>8. CASE BeginCycle
    BY <1>8 DEF BeginCycle
  <1>9. CASE NoCycle
    BY <1>9 DEF NoCycle, Next, Step
  <1>10. ASSUME NEW n \in NodeId, SortNext(n)
         PROVE  UNCHANGED vars
    BY <1>10 DEF SortNext
  <1>11. CASE EndSort
    BY <1>11 DEF EndSort
  <1>12. CASE RunNode
    BY <1>12 DEF RunNode
  <1>13. CASE RunWave
    BY <1>13 DEF RunWave
  <1>14. CASE EndCycle
    BY <1>14 DEF EndCycle, Next, Step
  <1>15. CASE UNCHANGED allVars
    BY <1>15 DEF allVars
  <1>. QED
    BY <1>1, <1>2, <1>3, <1>4, <1>5, <1>6, <1>7, <1>8, <1>9, <1>10, <1>11, <1>12,
       <1>13, <1>14, <1>15
       DEF EngineNext, EngineStep, CycleStep

\* The engine with its values, cycles and errors implements the lifecycle of its
\* nodes: what is proved of registration, activation and removal alone holds of the
\* engine that computes (run_cycle_impl calls no method that changes the registry).
THEOREM EngineIsLifecycle == EngineSpec => Spec
  <1>1. EngineInit => Init
    BY DEF EngineInit
  <1>2. [EngineNext]_allVars => [Next]_vars
    BY EngineStepIsStep
  <1>. QED
    BY <1>1, <1>2, PTL DEF EngineSpec, Spec

-----------------------------------------------------------------------------
(* Values and messages                                                      *)

\* What a value was computed from: messages of the sources.
Provenance == SUBSET (NodeId \X (1..MaxSends))

\* A store with a value of that type for some nodes.
Stores(f) == DOMAIN f \subseteq NodeId /\ \A n \in DOMAIN f : f[n] \in Provenance

\* With is the union of two functions, the second before the first.
LEMMA WithIs ==
    ASSUME NEW f, NEW g
    PROVE  /\ DOMAIN With(f, g) = DOMAIN f \cup DOMAIN g
           /\ \A n \in DOMAIN g : With(f, g)[n] = g[n]
           /\ \A n \in DOMAIN f \ DOMAIN g : With(f, g)[n] = f[n]
  BY DEF With

\* Without is a restriction.
LEMMA WithoutIs ==
    ASSUME NEW f, NEW S
    PROVE  /\ DOMAIN Without(f, S) = DOMAIN f \ S
           /\ \A n \in DOMAIN f \ S : Without(f, S)[n] = f[n]
  BY DEF Without

\* A node that has all its inputs reads a value.
LEMMA ReadType ==
    ASSUME Stores(values), NEW ds, HasInputs(ds)
    PROVE  Read(ds) \in Provenance
  <1>1. \A d \in Range(ds) : values[d] \in Provenance
    BY DEF HasInputs, Stores
  <1>. QED
    BY <1>1 DEF Read, Provenance

\* What compute does to the store.
LEMMA ComputeIs ==
    ASSUME NEW S
    PROVE  /\ DOMAIN compute(S) = DOMAIN values \cup Complete(S)
           /\ \A n \in Complete(S) : compute(S)[n] = Read(entries[n].deps)
           /\ \A n \in DOMAIN values \ Complete(S) : compute(S)[n] = values[n]
           /\ Complete(S) \subseteq S
           /\ \A n \in S : n \in Complete(S) <=> HasInputs(entries[n].deps)
  <1>. DEFINE g == [n \in Complete(S) |-> Read(entries[n].deps)]
  <1>1. DOMAIN g = Complete(S) /\ \A n \in Complete(S) : g[n] = Read(entries[n].deps)
    OBVIOUS
  <1>2. compute(S) = With(values, g)
    BY DEF compute
  <1>3. Complete(S) \subseteq S /\ \A n \in S : n \in Complete(S) <=> HasInputs(entries[n].deps)
    BY DEF Complete
  <1>. HIDE DEF g
  <1>4. /\ DOMAIN With(values, g) = DOMAIN values \cup DOMAIN g
        /\ \A n \in DOMAIN g : With(values, g)[n] = g[n]
        /\ \A n \in DOMAIN values \ DOMAIN g : With(values, g)[n] = values[n]
    BY WithIs
  <1>. QED
    BY <1>1, <1>2, <1>3, <1>4

\* What emit does to the sinks' last values.
LEMMA EmitIs ==
    ASSUME NEW S
    PROVE  /\ DOMAIN emit(S) = DOMAIN emitted \cup Complete(S)
           /\ \A n \in Complete(S) : emit(S)[n] = Read(entries[n].deps)
           /\ \A n \in DOMAIN emitted \ Complete(S) : emit(S)[n] = emitted[n]
  <1>. DEFINE g == [n \in Complete(S) |-> Read(entries[n].deps)]
  <1>1. DOMAIN g = Complete(S) /\ \A n \in Complete(S) : g[n] = Read(entries[n].deps)
    OBVIOUS
  <1>2. emit(S) = With(emitted, g)
    BY DEF emit
  <1>. HIDE DEF g
  <1>3. /\ DOMAIN With(emitted, g) = DOMAIN emitted \cup DOMAIN g
        /\ \A n \in DOMAIN g : With(emitted, g)[n] = g[n]
        /\ \A n \in DOMAIN emitted \ DOMAIN g : With(emitted, g)[n] = emitted[n]
    BY WithIs
  <1>. QED
    BY <1>1, <1>2, <1>3

\* compute keeps the store's type.
LEMMA ComputeType ==
    ASSUME Stores(values), NEW S \in SUBSET NodeId
    PROVE  Stores(compute(S))
  <1>1. ASSUME NEW n \in DOMAIN compute(S)
        PROVE  compute(S)[n] \in Provenance
    <2>1. CASE n \in Complete(S)
      <3>1. compute(S)[n] = Read(entries[n].deps) /\ HasInputs(entries[n].deps)
        BY <2>1, ComputeIs
      <3>. QED
        BY <3>1, ReadType
    <2>2. CASE n \notin Complete(S)
      BY <1>1, <2>2, ComputeIs DEF Stores
    <2>. QED
      BY <2>1, <2>2
  <1>2. DOMAIN compute(S) \subseteq NodeId
    BY ComputeIs DEF Stores
  <1>. QED
    BY <1>1, <1>2 DEF Stores

\* The jobs a cycle collects.
LEMMA ComputeAsyncType ==
    ASSUME Stores(values), NEW S \in SUBSET NodeId
    PROVE  compute_async(S) \subseteq NodeId \X Provenance
  <1>1. \A n \in Complete(S) : n \in NodeId /\ Read(entries[n].deps) \in Provenance
    BY ComputeIs, ReadType
  <1>. QED
    BY <1>1 DEF compute_async

\* Taking values away keeps the store's type.
LEMMA WithoutType ==
    ASSUME Stores(values), NEW S
    PROVE  Stores(Without(values, S))
  <1>1. /\ DOMAIN Without(values, S) = DOMAIN values \ S
        /\ \A n \in DOMAIN values \ S : Without(values, S)[n] = values[n]
    BY WithoutIs
  <1>. QED
    BY <1>1 DEF Stores

\* A nonempty set of positions of a sequence has a last one.
LEMMA LastOfSome ==
    ASSUME NEW N \in Nat, NEW T \in SUBSET (1..N), T # {}
    PROVE  \E x \in T : \A y \in T : y <= x
  <1>. DEFINE U == {k \in Nat : N - k \in T}
  <1>1. PICK t \in T : TRUE
    OBVIOUS
  <1>2. N - t \in Nat /\ N - (N - t) = t
    OBVIOUS
  <1>3. N - t \in U
    BY <1>2
  <1>4. PICK k \in U : \A j \in U : k <= j
    <2>1. U # {} /\ U \in SUBSET Nat
      BY <1>3
    <2>. HIDE DEF U
    <2>. QED
      BY <2>1, LeastNat
  <1>5. ASSUME NEW y \in T
        PROVE  y <= N - k
    <2>1. N - y \in Nat /\ N - (N - y) = y
      OBVIOUS
    <2>2. N - y \in U
      BY <2>1
    <2>3. k <= N - y /\ k \in Nat
      BY <1>4, <2>2
    <2>. QED
      BY <2>3
  <1>. QED
    BY <1>4, <1>5

\* The last message for a node is one of the channel.
LEMMA LastIs ==
    ASSUME NEW C, NEW ch \in Seq(NodeId \X C), NEW n \in Ids(ch)
    PROVE  \E i \in DOMAIN ch : ch[i][1] = n /\ Last(ch, n) = ch[i][2]
  <1>. DEFINE Good(i) == /\ ch[i][1] = n
                         /\ \A j \in (i + 1)..Len(ch) : ch[j][1] # n
              T == {i \in 1..Len(ch) : ch[i][1] = n}
  <1>1. DOMAIN ch = 1..Len(ch) /\ Len(ch) \in Nat
    BY LenProperties
  <1>2. T # {}
    BY <1>1 DEF Ids
  <1>3. PICK x \in T : \A y \in T : y <= x
    BY <1>1, <1>2, LastOfSome
  <1>4. x \in DOMAIN ch /\ Good(x)
    BY <1>1, <1>3
  <1>5. PICK i : i = CHOOSE k \in DOMAIN ch : Good(k)
    OBVIOUS
  <1>6. i \in DOMAIN ch /\ Good(i)
    BY <1>4, <1>5
  <1>7. Last(ch, n) = ch[i][2]
    BY <1>5 DEF Last
  <1>. QED
    BY <1>6, <1>7

\* The messages of a channel are for nodes and carry values.
LEMMA ChannelType ==
    ASSUME NEW C, NEW ch \in Seq(NodeId \X C)
    PROVE  /\ Ids(ch) \subseteq NodeId
           /\ \A n \in Ids(ch) : Last(ch, n) \in C
  <1>1. \A i \in DOMAIN ch : ch[i] \in NodeId \X C
    BY ElementOfSeq, LenProperties
  <1>2. ASSUME NEW n \in Ids(ch)
        PROVE  Last(ch, n) \in C
    <2>1. PICK i \in DOMAIN ch : ch[i][1] = n /\ Last(ch, n) = ch[i][2]
      BY LastIs
    <2>. QED
      BY <1>1, <2>1
  <1>. QED
    BY <1>1, <1>2 DEF Ids

-----------------------------------------------------------------------------
(* The dirty set and the sort                                               *)

\* No list of dependents leads from U or from D out of D.
LeadsInto(U, D) ==
    \A d, n \in NodeId : dependents[d][n] > 0 /\ (d \in U \/ d \in D) => n \in D

\* dirty_set returns active nodes only, and all that depend on what it was given and
\* on each other.
LEMMA DirtyIs ==
    ASSUME RegistryOK, WiringSound, NEW U
    PROVE  /\ dirty_set(U) \subseteq active
           /\ LeadsInto(U, dirty_set(U))
  <1>. DEFINE edges  == {e \in NodeId \X NodeId : dependents[e[1]][e[2]] > 0}
              Closed == {D \in SUBSET {e[2] : e \in edges} :
                            \A e \in edges : (e[1] \in U \/ e[1] \in D) => e[2] \in D}
  <1>1. dirty_set(U) = {n \in NodeId : \A D \in Closed : n \in D}
    BY DEF dirty_set
  <1>2. {e[2] : e \in edges} \in Closed /\ {e[2] : e \in edges} \subseteq active
    BY DEF WiringSound
  <1>3. ASSUME NEW d \in NodeId, NEW n \in NodeId, dependents[d][n] > 0,
               d \in U \/ d \in dirty_set(U)
        PROVE  n \in dirty_set(U)
    <2>1. <<d, n>> \in edges
      BY <1>3
    <2>2. ASSUME NEW D \in Closed
          PROVE  n \in D
      <3>1. d \in U \/ d \in D
        BY <1>1, <1>3, <2>2
      <3>. QED
        BY <2>1, <3>1
    <2>. HIDE DEF Closed
    <2>. QED
      BY <1>1, <2>2
  <1>. HIDE DEF Closed
  <1>. QED
    BY <1>1, <1>2, <1>3 DEF LeadsInto

\* The positions of m's dependencies whose edges topo_sort has not taken yet.
Open(m) == {i \in DOMAIN deps[m] :
                /\ deps[m][i] \in dirty
                /\ deps[m][i] \notin Range(sorted) \/ dependents[deps[m][i]][m] = 0}

\* The positions of m's dependencies that the scheduler has not counted down.
Ahead(m) == {i \in DOMAIN deps[m] :
                /\ deps[m][i] \in dirty
                /\ deps[m][i] \in remaining \/ IsAsync(deps[m][i])}

\* The types of the cycle's variables, and what they are outside of a cycle.
CycleOK ==
    /\ stage \in {"none", "sort", "sequential", "parallel"}
    /\ degree \in [NodeId -> Nat]
    /\ queue \in [NodeId -> {0, 1}]
    /\ sorted \in Seq(NodeId)
    /\ ran \in 0..Len(sorted)
    /\ stage # "none" => phase = "body"
    /\ stage # "sort" => \A m \in NodeId : queue[m] = 0
    /\ stage = "none" => dirty = {} /\ sorted = <<>>
    /\ stage # "parallel" => remaining = {}
    /\ stage # "sequential" => ran = 0

\* A cycle works on active nodes and on all that depend on them, the sorted nodes
\* are different ones, and each comes after every dirty node it reads from.
OrderInv ==
    /\ dirty \subseteq active
    /\ LeadsInto({}, dirty)
    /\ Range(sorted) \subseteq dirty
    /\ \A i, j \in DOMAIN sorted : sorted[i] = sorted[j] => i = j
    /\ \A m \in Range(sorted) : Open(m) = {}
    /\ \A i, j \in DOMAIN sorted : i <= j => sorted[j] \notin Range(deps[sorted[i]])

\* What topo_sort counts, and what the scheduler counts.
CountInv ==
    /\ stage = "sort" => \A m \in NodeId :
        /\ m \in dirty => degree[m] = Cardinality(Open(m))
        /\ m \notin dirty => degree[m] = 0
        /\ queue[m] = 1 <=> m \in dirty /\ m \notin Range(sorted) /\ degree[m] = 0
    /\ remaining \subseteq Range(sorted)
    /\ \A m \in remaining : ~IsAsync(m) /\ degree[m] = Cardinality(Ahead(m))

CycleInv == CycleOK /\ OrderInv /\ CountInv

\* Before the first cycle.
LEMMA CycleInit == EngineInit => CycleInv
  <1>. SUFFICES ASSUME EngineInit PROVE CycleInv
    OBVIOUS
  <1>1. CycleOK
    <2>1. sorted \in Seq(NodeId) /\ Len(sorted) = 0
      BY EmptySeq DEF EngineInit
    <2>. QED
      BY <2>1 DEF EngineInit, CycleOK
  <1>2. Range(sorted) = {} /\ DOMAIN sorted = {}
    BY DEF EngineInit, Range
  <1>3. OrderInv
    BY <1>2 DEF EngineInit, OrderInv, LeadsInto
  <1>4. CountInv
    BY DEF EngineInit, CountInv
  <1>. QED
    BY <1>1, <1>3, <1>4 DEF CycleInv

\* Outside of a cycle there is nothing to keep.
LEMMA CycleNone ==
    ASSUME CycleOK, stage = "none"
    PROVE  OrderInv /\ CountInv
  <1>1. dirty = {} /\ sorted = <<>> /\ Range(sorted) = {} /\ DOMAIN sorted = {} /\ remaining = {}
    BY DEF CycleOK, Range
  <1>. QED
    BY <1>1 DEF OrderInv, CountInv, LeadsInto

\* The same of the next state.
LEMMA CycleNoneNext ==
    ASSUME CycleOK', stage' = "none"
    PROVE  OrderInv' /\ CountInv'
  <1>1. /\ dirty' = {} /\ sorted' = <<>> /\ Range(sorted') = {} /\ DOMAIN sorted' = {}
        /\ remaining' = {}
    BY DEF CycleOK, Range
  <1>. QED
    BY <1>1 DEF OrderInv, CountInv, LeadsInto

\* A step that leaves the cycle's variables alone, and the registry too while a
\* cycle runs.
LEMMA CycleQuiet ==
    ASSUME CycleInv, UNCHANGED cycle,
           stage = "none" \/ UNCHANGED <<registry, phase>>
    PROVE  CycleInv'
  <1>1. CycleOK'
    BY DEF CycleInv, CycleOK, cycle
  <1>2. CASE stage = "none"
    <2>1. stage' = "none"
      BY <1>2 DEF cycle
    <2>. QED
      BY <1>1, <2>1, CycleNoneNext DEF CycleInv
  <1>3. CASE UNCHANGED <<registry, phase>>
    <2>1. UNCHANGED <<deps, dependents, active, entries, stage, dirty, degree, queue, sorted, remaining>>
      BY <1>3 DEF cycle, registry
    <2>2. \A m : Open(m)' = Open(m) /\ Ahead(m)' = Ahead(m)
      BY <2>1 DEF Open, Ahead, IsAsync
    <2>3. OrderInv'
      BY <2>1, <2>2 DEF CycleInv, OrderInv, LeadsInto
    <2>4. CountInv'
      BY <2>1, <2>2 DEF CycleInv, CountInv, IsAsync
    <2>. QED
      BY <1>1, <2>3, <2>4 DEF CycleInv
  <1>. QED
    BY <1>2, <1>3

\* The positions of a dirty node's dependencies are a finite set, and how many of
\* them are dirty.
LEMMA Positions ==
    ASSUME RegistryOK, WiringSound, NEW m \in active
    PROVE  /\ m \in NodeId /\ deps[m] \in Seq(NodeId) /\ m \in DOMAIN deps
           /\ DOMAIN deps[m] = 1..Len(deps[m]) /\ Len(deps[m]) \in Nat
           /\ IsFiniteSet(DOMAIN deps[m])
           /\ \A T \in SUBSET DOMAIN deps[m] : IsFiniteSet(T) /\ Cardinality(T) \in Nat
           /\ \A d \in NodeId : dependents[d][m] > 0 => dependents[d][m] = Occurrences(deps[m], d)
  <1>1. m \in NodeId /\ deps[m] \in Seq(NodeId) /\ m \in DOMAIN deps
    BY DEF RegistryOK, WiringSound
  <1>2. DOMAIN deps[m] = 1..Len(deps[m]) /\ Len(deps[m]) \in Nat
    BY <1>1, LenProperties
  <1>3. IsFiniteSet(DOMAIN deps[m])
    BY <1>2, FS_Interval
  <1>4. \A T \in SUBSET DOMAIN deps[m] : IsFiniteSet(T) /\ Cardinality(T) \in Nat
    BY <1>3, FS_Subset, FS_CardinalityType
  <1>5. \A d \in NodeId : dependents[d][m] > 0 => dependents[d][m] = Occurrences(deps[m], d)
    BY <1>1 DEF WiringSound
  <1>. QED
    BY <1>1, <1>2, <1>3, <1>4, <1>5

\* The dirty set and the in-degrees that a cycle starts with.
LEMMA CycleBegin ==
    ASSUME CycleInv, RegistryOK, WiringSound, BeginCycle
    PROVE  CycleInv'
  <1>. DEFINE U == Ids(source_rx) \cup Ids(result_rx)
  <1>1. /\ dirty' = dirty_set(U)
        /\ degree' = [n \in NodeId |-> IF n \in dirty' THEN DirtyDeps(n, dirty') ELSE 0]
        /\ queue' = [n \in NodeId |-> IF n \in dirty' /\ degree'[n] = 0 THEN 1 ELSE 0]
        /\ stage = "none" /\ stage' = "sort" /\ phase = "body"
        /\ UNCHANGED <<sorted, ran, remaining>>
        /\ UNCHANGED <<entries, deps, dependents, active, phase>>
    BY DEF BeginCycle, vars, registry
  <1>2. sorted' = <<>> /\ Range(sorted') = {} /\ DOMAIN sorted' = {} /\ remaining' = {}
    BY <1>1 DEF CycleInv, CycleOK, Range
  <1>3. dirty' \subseteq active /\ LeadsInto(U, dirty')
    BY <1>1, DirtyIs
  <1>4. ASSUME NEW m \in dirty'
        PROVE  /\ Open(m)' = {i \in DOMAIN deps[m] : deps[m][i] \in dirty'}
               /\ DirtyDeps(m, dirty') = Cardinality(Open(m)')
               /\ DirtyDeps(m, dirty') \in Nat
    <2>1. m \in DOMAIN deps
      BY <1>3, Positions
    <2>2. Open(m)' = {i \in DOMAIN deps[m] : deps[m][i] \in dirty'}
      BY <1>1, <1>2 DEF Open
    <2>3. Cardinality({i \in DOMAIN deps[m] : deps[m][i] \in dirty'}) \in Nat
      BY <1>3, Positions
    <2>. QED
      BY <2>1, <2>2, <2>3 DEF DirtyDeps
  <1>5. CycleOK'
    <2>1. degree' \in [NodeId -> Nat]
      BY <1>1, <1>4
    <2>. QED
      BY <1>1, <1>2, <2>1 DEF CycleInv, CycleOK
  <1>6. OrderInv'
    BY <1>1, <1>2, <1>3 DEF OrderInv, LeadsInto
  <1>7. CountInv'
    <2>1. ASSUME NEW m \in NodeId
          PROVE  /\ m \in dirty' => degree'[m] = Cardinality(Open(m)')
                 /\ m \notin dirty' => degree'[m] = 0
                 /\ queue'[m] = 1 <=> m \in dirty' /\ m \notin Range(sorted') /\ degree'[m] = 0
      <3>1. degree'[m] = IF m \in dirty' THEN DirtyDeps(m, dirty') ELSE 0
        BY <1>1
      <3>2. queue'[m] = IF m \in dirty' /\ degree'[m] = 0 THEN 1 ELSE 0
        BY <1>1
      <3>3. m \in dirty' => DirtyDeps(m, dirty') = Cardinality(Open(m)')
        BY <1>4
      <3>4. m \notin Range(sorted')
        BY <1>2
      <3>. HIDE DEF U
      <3>. QED
        BY <3>1, <3>2, <3>3, <3>4
    <2>. QED
      BY <1>2, <2>1 DEF CountInv
  <1>. QED
    BY <1>5, <1>6, <1>7 DEF CycleInv

-----------------------------------------------------------------------------
(* topo_sort                                                                *)

\* Taking a subset away.
LEMMA CardinalityMinus ==
    ASSUME NEW S, IsFiniteSet(S), NEW T \in SUBSET S
    PROVE  /\ Cardinality(T) \in Nat /\ Cardinality(S) \in Nat
           /\ Cardinality(T) <= Cardinality(S)
           /\ Cardinality(S \ T) = Cardinality(S) - Cardinality(T)
  <1>1. IsFiniteSet(T) /\ Cardinality(T) <= Cardinality(S)
    BY FS_Subset
  <1>2. S \cap T = T
    OBVIOUS
  <1>3. Cardinality(S \ T) = Cardinality(S) - Cardinality(S \cap T)
    BY FS_Difference
  <1>. QED
    BY <1>1, <1>2, <1>3, FS_CardinalityType

\* The range and the positions of a sequence with one more element.
LEMMA AppendIs ==
    ASSUME NEW s \in Seq(NodeId), NEW n \in NodeId
    PROVE  /\ Append(s, n) \in Seq(NodeId)
           /\ Len(Append(s, n)) = Len(s) + 1
           /\ DOMAIN s = 1..Len(s) /\ DOMAIN Append(s, n) = 1..(Len(s) + 1)
           /\ \A i \in 1..Len(s) : Append(s, n)[i] = s[i]
           /\ Append(s, n)[Len(s) + 1] = n
           /\ Range(Append(s, n)) = Range(s) \cup {n}
  <1>1. /\ Append(s, n) \in Seq(NodeId)
        /\ Len(Append(s, n)) = Len(s) + 1
        /\ DOMAIN s = 1..Len(s) /\ DOMAIN Append(s, n) = 1..(Len(s) + 1)
        /\ \A i \in 1..Len(s) : Append(s, n)[i] = s[i]
        /\ Append(s, n)[Len(s) + 1] = n
        /\ Len(s) \in Nat
    BY AppendProperties, LenProperties
  <1>2. \A i \in 1..(Len(s) + 1) : i \in 1..Len(s) \/ i = Len(s) + 1
    BY <1>1
  <1>3. ASSUME NEW x \in Range(s) \cup {n}
        PROVE  x \in Range(Append(s, n))
    <2>1. CASE x = n
      <3>1. Len(s) + 1 \in DOMAIN Append(s, n)
        BY <1>1
      <3>. QED
        BY <1>1, <2>1, <3>1 DEF Range
    <2>2. CASE x \in Range(s)
      <3>1. PICK i \in 1..Len(s) : s[i] = x
        BY <1>1, <2>2 DEF Range
      <3>2. i \in 1..(Len(s) + 1)
        BY <1>1
      <3>. QED
        BY <1>1, <3>1, <3>2 DEF Range
    <2>. QED
      BY <1>3, <2>1, <2>2
  <1>4. Range(Append(s, n)) \subseteq Range(s) \cup {n}
    BY <1>1, <1>2 DEF Range
  <1>. QED
    BY <1>1, <1>3, <1>4

\* The edges that go when the node n is taken from the queue.
LEMMA SortTakes ==
    ASSUME RegistryOK, WiringSound, OrderInv, sorted \in Seq(NodeId),
           NEW n \in dirty, n \notin Range(sorted), NEW m \in dirty,
           sorted' = Append(sorted, n), UNCHANGED <<deps, dependents, dirty>>
    PROVE  /\ Cardinality(Open(m)) \in Nat /\ dependents[n][m] \in Nat
           /\ dependents[n][m] <= Cardinality(Open(m))
           /\ Cardinality(Open(m)') = Cardinality(Open(m)) - dependents[n][m]
           /\ Open(m)' \subseteq Open(m)
  <1>. DEFINE E == {i \in DOMAIN deps[m] : deps[m][i] = n}
  <1>1. n \in NodeId /\ m \in active /\ m \in NodeId
    BY DEF OrderInv, RegistryOK
  <1>2. Range(sorted') = Range(sorted) \cup {n}
    BY <1>1, AppendIs
  <1>3. dependents[n][m] \in Nat
    BY <1>1 DEF RegistryOK
  <1>4. IsFiniteSet(Open(m)) /\ Cardinality(Open(m)) \in Nat
    BY <1>1, Positions DEF Open
  <1>5. CASE dependents[n][m] = 0
    <2>1. Open(m)' = Open(m)
      BY <1>2, <1>5 DEF Open
    <2>. QED
      BY <1>3, <1>4, <1>5, <2>1
  <1>6. CASE dependents[n][m] > 0
    <2>1. dependents[n][m] = Cardinality(E)
      BY <1>1, <1>6, Positions DEF Occurrences
    <2>2. E \subseteq Open(m)
      BY DEF Open
    <2>3. Open(m)' = Open(m) \ E
      BY <1>2, <1>6 DEF Open
    <2>. HIDE DEF E
    <2>. QED
      BY <1>3, <1>4, <2>1, <2>2, <2>3, CardinalityMinus
  <1>. QED
    BY <1>3, <1>5, <1>6

\* The saturating subtraction as long as no more is subtracted than is there: the
\* degree is pushed to the queue when, and only when, it drops to 0.
LEMMA Drops ==
    ASSUME NEW g \in Nat, NEW k \in Nat, k <= g
    PROVE  /\ Saturating(g, k) = g - k
           /\ Saturating(g, k) \in Nat
           /\ Saturating(k + (IF g > 0 THEN 1 ELSE 0), g) = IF g > 0 /\ g - k = 0 THEN 1 ELSE 0
  BY DEF Saturating

\* A step of topo_sort.
LEMMA SortStep ==
    ASSUME CycleInv, RegistryOK, WiringSound, NEW n \in NodeId, SortNext(n)
    PROVE  CycleInv'
  <1>. DEFINE edges(m)  == IF m \in dirty THEN dependents[n][m] ELSE 0
              pushes(m) == Saturating(edges(m) + (IF degree[m] > 0 THEN 1 ELSE 0), degree[m])
  <1>1. /\ stage = "sort" /\ stage' = "sort" /\ queue[n] > 0
        /\ sorted' = Append(sorted, n)
        /\ degree' = [m \in NodeId |-> Saturating(degree[m], edges(m))]
        /\ queue' = [m \in NodeId |-> queue[m] - (IF m = n THEN 1 ELSE 0) + pushes(m)]
        /\ UNCHANGED <<deps, dependents, active, entries, phase, dirty, ran, remaining>>
    BY DEF SortNext, vars, registry
  <1>2. /\ CycleOK /\ OrderInv /\ CountInv
        /\ queue[n] = 1 /\ n \in dirty /\ n \notin Range(sorted) /\ degree[n] = 0
        /\ degree[n] = Cardinality(Open(n))
        /\ sorted \in Seq(NodeId)
    BY <1>1 DEF CycleInv, CycleOK, CountInv
  <1>3. /\ sorted' \in Seq(NodeId) /\ Len(sorted') = Len(sorted) + 1 /\ Len(sorted) \in Nat
        /\ DOMAIN sorted = 1..Len(sorted) /\ DOMAIN sorted' = 1..(Len(sorted) + 1)
        /\ \A i \in 1..Len(sorted) : sorted'[i] = sorted[i]
        /\ sorted'[Len(sorted) + 1] = n
        /\ Range(sorted') = Range(sorted) \cup {n}
    BY <1>1, <1>2, AppendIs, LenProperties
  <1>4. ASSUME NEW m \in dirty
        PROVE  /\ Cardinality(Open(m)) \in Nat /\ dependents[n][m] \in Nat
               /\ dependents[n][m] <= Cardinality(Open(m))
               /\ Cardinality(Open(m)') = Cardinality(Open(m)) - dependents[n][m]
               /\ Open(m)' \subseteq Open(m)
    BY <1>1, <1>2, SortTakes
  <1>5. Open(n) = {}
    <2>1. n \in active
      BY <1>2 DEF OrderInv
    <2>2. IsFiniteSet(Open(n))
      BY <2>1, Positions DEF Open
    <2>. QED
      BY <1>2, <2>2, FS_EmptySet
  <1>6. ASSUME NEW m \in NodeId
        PROVE  /\ edges(m) \in Nat /\ degree[m] \in Nat /\ edges(m) <= degree[m]
               /\ degree'[m] = degree[m] - edges(m) /\ degree'[m] \in Nat
               /\ queue'[m] = queue[m] - (IF m = n THEN 1 ELSE 0)
                                + (IF degree[m] > 0 /\ degree[m] - edges(m) = 0 THEN 1 ELSE 0)
    <2>1. degree[m] \in Nat
      BY <1>2 DEF CycleOK
    <2>2. edges(m) \in Nat /\ edges(m) <= degree[m]
      <3>1. CASE m \in dirty
        BY <1>1, <1>2, <1>4, <3>1 DEF CountInv
      <3>2. CASE m \notin dirty
        BY <2>1, <3>2
      <3>. QED
        BY <3>1, <3>2
    <2>3. /\ degree'[m] = Saturating(degree[m], edges(m))
          /\ queue'[m] = queue[m] - (IF m = n THEN 1 ELSE 0) + pushes(m)
      BY <1>1
    <2>4. PICK k : k = edges(m)
      OBVIOUS
    <2>5. pushes(m) = Saturating(k + (IF degree[m] > 0 THEN 1 ELSE 0), degree[m])
      BY <2>4
    <2>. HIDE DEF edges, pushes
    <2>. QED
      BY <2>1, <2>2, <2>3, <2>4, <2>5, Drops
  <1>7. ASSUME NEW m \in NodeId
        PROVE  /\ m \in dirty => degree'[m] = Cardinality(Open(m)')
               /\ m \notin dirty => degree'[m] = 0
               /\ queue'[m] = 1 <=> m \in dirty /\ m \notin Range(sorted') /\ degree'[m] = 0
               /\ queue'[m] \in {0, 1}
    <2>1. /\ m \in dirty => degree[m] = Cardinality(Open(m)) /\ edges(m) = dependents[n][m]
          /\ m \notin dirty => degree[m] = 0 /\ edges(m) = 0
          /\ queue[m] = 1 <=> m \in dirty /\ m \notin Range(sorted) /\ degree[m] = 0
          /\ queue[m] \in {0, 1}
      BY <1>1, <1>2 DEF CountInv, CycleOK
    <2>2. m \in Range(sorted) => degree[m] = 0 /\ m \in dirty
      <3>1. m \in Range(sorted) => Open(m) = {} /\ m \in dirty
        BY <1>2 DEF OrderInv
      <3>. QED
        BY <2>1, <3>1, FS_EmptySet
    <2>3. PICK k : k = edges(m)
      OBVIOUS
    <2>4. m \in dirty => degree'[m] = Cardinality(Open(m)')
      BY <1>4, <1>6, <2>1
    <2>5. m \notin dirty => degree'[m] = 0
      BY <1>6, <2>1
    <2>6. /\ k \in Nat /\ degree[m] \in Nat /\ k <= degree[m]
          /\ degree'[m] = degree[m] - k
          /\ queue'[m] = queue[m] - (IF m = n THEN 1 ELSE 0)
                           + (IF degree[m] > 0 /\ degree[m] - k = 0 THEN 1 ELSE 0)
          /\ m \notin dirty => degree[m] = 0
      BY <1>6, <2>1, <2>3
    <2>. HIDE DEF edges
    <2>7. CASE m = n
      BY <1>2, <1>3, <2>4, <2>5, <2>6, <2>7
    <2>8. CASE m # n
      <3>1. m \in Range(sorted') <=> m \in Range(sorted)
        BY <1>3, <2>8
      <3>2. CASE degree[m] = 0
        <4>1. k = 0 /\ degree'[m] = 0 /\ queue'[m] = queue[m]
          BY <2>1, <2>6, <2>8, <3>2
        <4>. QED
          BY <2>1, <2>4, <2>5, <3>1, <3>2, <4>1
      <3>3. CASE degree[m] > 0
        <4>1. m \notin Range(sorted) /\ queue[m] = 0 /\ m \in dirty
          BY <2>1, <2>2, <2>6, <3>3
        <4>2. queue'[m] = IF degree'[m] = 0 THEN 1 ELSE 0
          BY <2>6, <2>8, <3>3, <4>1
        <4>. QED
          BY <2>4, <2>5, <3>1, <4>1, <4>2
      <3>. QED
        BY <2>6, <3>2, <3>3
    <2>. QED
      BY <2>7, <2>8
  <1>. HIDE DEF edges, pushes
  <1>8. CycleOK'
    <2>1. degree' \in [NodeId -> Nat] /\ queue' \in [NodeId -> {0, 1}]
      BY <1>1, <1>6, <1>7
    <2>2. ran' \in 0..Len(sorted')
      BY <1>1, <1>2, <1>3 DEF CycleOK
    <2>. QED
      BY <1>1, <1>2, <1>3, <2>1, <2>2 DEF CycleOK
  <1>9. OrderInv'
    <2>1. Range(sorted') \subseteq dirty'
      BY <1>1, <1>2, <1>3 DEF OrderInv
    <2>2. ASSUME NEW m \in Range(sorted')
          PROVE  Open(m) = {} /\ Open(m)' = {}
      <3>1. Open(m) = {} /\ m \in dirty
        BY <1>2, <1>3, <1>5 DEF OrderInv
      <3>. QED
        BY <1>4, <3>1
    <2>3. \A i \in 1..(Len(sorted) + 1) : i \in 1..Len(sorted) \/ i = Len(sorted) + 1
      BY <1>3
    <2>4. ASSUME NEW i \in DOMAIN sorted', NEW j \in DOMAIN sorted', sorted'[i] = sorted'[j]
          PROVE  i = j
      <3>1. \A x \in 1..Len(sorted) : sorted'[x] # n
        BY <1>2, <1>3 DEF Range
      <3>. QED
        BY <1>2, <1>3, <2>3, <2>4, <3>1 DEF OrderInv
    <2>5. ASSUME NEW i \in DOMAIN sorted', NEW j \in DOMAIN sorted', i <= j
          PROVE  sorted'[j] \notin Range(deps[sorted'[i]])
      <3>1. CASE j \in 1..Len(sorted)
        <4>1. i \in 1..Len(sorted)
          BY <1>3, <2>5, <3>1
        <4>. QED
          BY <1>2, <1>3, <2>5, <3>1, <4>1 DEF OrderInv
      <3>2. CASE j = Len(sorted) + 1
        <4>1. sorted'[i] \in Range(sorted')
          BY DEF Range
        <4>2. Open(sorted'[i]) = {}
          BY <2>2, <4>1
        <4>3. sorted'[j] = n
          BY <1>3, <3>2
        <4>. QED
          BY <1>2, <4>2, <4>3 DEF Open, Range
      <3>. QED
        BY <1>3, <2>3, <3>1, <3>2
    <2>. QED
      BY <1>1, <1>2, <2>1, <2>2, <2>4, <2>5 DEF OrderInv, LeadsInto
  <1>10. CountInv'
    <2>1. remaining' = {}
      BY <1>1, <1>2 DEF CycleOK
    <2>. QED
      BY <1>1, <1>7, <2>1 DEF CountInv
  <1>. QED
    BY <1>8, <1>9, <1>10 DEF CycleInv

\* The execution of the sorted nodes starts.
LEMMA EndSortStep ==
    ASSUME CycleInv, RegistryOK, WiringSound, EndSort
    PROVE  CycleInv'
  <1>1. /\ stage = "sort" /\ \A m \in NodeId : queue[m] = 0
        /\ UNCHANGED <<deps, dependents, active, entries, phase, dirty, queue, sorted, ran>>
        /\ \/ stage' = "sequential" /\ UNCHANGED <<degree, remaining>>
           \/ /\ stage' = "parallel"
              /\ remaining' = {n \in Range(sorted) : ~IsAsync(n)}
              /\ degree' = [n \in NodeId |-> IF n \in remaining' THEN DirtyDeps(n, dirty) ELSE 0]
    BY DEF EndSort, vars, registry
  <1>2. /\ CycleOK /\ OrderInv /\ CountInv /\ remaining = {}
    BY <1>1 DEF CycleInv, CycleOK
  <1>3. OrderInv'
    <2>1. \A m : Open(m)' = Open(m)
      BY <1>1 DEF Open
    <2>. QED
      BY <1>1, <1>2, <2>1 DEF OrderInv, LeadsInto
  <1>4. CASE stage' = "sequential" /\ UNCHANGED <<degree, remaining>>
    <2>1. CycleOK'
      BY <1>1, <1>2, <1>4 DEF CycleOK
    <2>2. CountInv'
      BY <1>2, <1>4 DEF CountInv
    <2>. QED
      BY <1>3, <2>1, <2>2 DEF CycleInv
  <1>5. CASE /\ stage' = "parallel"
             /\ remaining' = {n \in Range(sorted) : ~IsAsync(n)}
             /\ degree' = [n \in NodeId |-> IF n \in remaining' THEN DirtyDeps(n, dirty) ELSE 0]
    <2>1. ASSUME NEW m \in remaining'
          PROVE  /\ m \in NodeId /\ ~IsAsync(m)' /\ DirtyDeps(m, dirty) \in Nat
                 /\ degree'[m] = Cardinality(Ahead(m)')
      <3>1. m \in Range(sorted) /\ ~IsAsync(m) /\ m \in active /\ Open(m) = {}
        BY <1>2, <1>5 DEF OrderInv
      <3>2. Ahead(m)' = {i \in DOMAIN deps[m] : deps[m][i] \in dirty}
        BY <1>1, <1>5, <3>1 DEF Ahead, Open, IsAsync
      <3>3. m \in NodeId /\ m \in DOMAIN deps /\ Cardinality(Ahead(m)') \in Nat
        BY <3>1, <3>2, Positions
      <3>4. DirtyDeps(m, dirty) = Cardinality(Ahead(m)')
        BY <3>2, <3>3 DEF DirtyDeps
      <3>. QED
        BY <1>1, <1>5, <3>1, <3>3, <3>4 DEF IsAsync
    <2>2. CycleOK'
      <3>1. degree' \in [NodeId -> Nat]
        BY <1>5, <2>1
      <3>. QED
        BY <1>1, <1>2, <1>5, <3>1 DEF CycleOK
    <2>3. CountInv'
      <3>1. remaining' \subseteq Range(sorted')
        BY <1>1, <1>5
      <3>. QED
        BY <1>5, <2>1, <3>1 DEF CountInv
    <2>. QED
      BY <1>3, <2>2, <2>3 DEF CycleInv
  <1>. QED
    BY <1>1, <1>4, <1>5

-----------------------------------------------------------------------------
(* The waves of the scheduler                                               *)

\* The edges from the nodes of R to a node that names its dependencies in s, each
\* as often as it is named, are as many as the positions of s that name one of them.
LEMMA EdgesCount ==
    ASSUME NEW s \in Seq(NodeId), NEW R,
           NEW c \in [R -> Nat], \A n \in R : c[n] = Occurrences(s, n)
    PROVE  Cardinality(UNION {{n} \X (1..c[n]) : n \in R})
             = Cardinality({i \in DOMAIN s : s[i] \in R})
  <1>. DEFINE E(n) == {i \in DOMAIN s : s[i] = n}
              P    == UNION {{n} \X (1..c[n]) : n \in R}
              T    == {i \in DOMAIN s : s[i] \in R}
  <1>1. IsFiniteSet(DOMAIN s)
    BY LenProperties, FS_Interval
  <1>2. IsFiniteSet(T) /\ \A n \in R : IsFiniteSet(E(n))
    BY <1>1, FS_Subset
  <1>3. ASSUME NEW n \in R
        PROVE  \E g : g \in Bijection(1..c[n], E(n))
    <2>1. IsFiniteSet(1..c[n]) /\ Cardinality(1..c[n]) = c[n]
      BY FS_Interval
    <2>2. Cardinality(E(n)) = c[n] /\ IsFiniteSet(E(n))
      BY <1>2 DEF Occurrences
    <2>. HIDE DEF E
    <2>3. ExistsBijection(1..c[n], E(n))
      BY <2>1, <2>2, FS_SameCardinalityBij
    <2>. QED
      BY <2>3 DEF ExistsBijection
  <1>. DEFINE b == [n \in R |-> CHOOSE g : g \in Bijection(1..c[n], E(n))]
              f == [p \in P |-> b[p[1]][p[2]]]
  <1>4. ASSUME NEW n \in R
        PROVE  /\ \A k \in 1..c[n] : b[n][k] \in E(n)
               /\ \A k, l \in 1..c[n] : b[n][k] = b[n][l] => k = l
               /\ \A i \in E(n) : \E k \in 1..c[n] : b[n][k] = i
    <2>. HIDE DEF E
    <2>1. PICK g : g = b[n]
      OBVIOUS
    <2>2. g \in Bijection(1..c[n], E(n))
      BY <1>3, <2>1
    <2>3. g \in Injection(1..c[n], E(n)) /\ g \in Surjection(1..c[n], E(n))
      BY <2>2 DEF Bijection
    <2>4. /\ g \in [1..c[n] -> E(n)]
          /\ \A k, l \in 1..c[n] : g[k] = g[l] => k = l
      BY <2>3 DEF Injection, IsInjective
    <2>5. \A i \in E(n) : \E k \in 1..c[n] : g[k] = i
      BY <2>3 DEF Surjection
    <2>. HIDE DEF b
    <2>. QED
      BY <2>1, <2>4, <2>5
  <1>5. \A p \in P : p[1] \in R /\ p[2] \in 1..c[p[1]] /\ p = <<p[1], p[2]>>
    OBVIOUS
  <1>6. \A n \in R : \A k \in 1..c[n] : <<n, k>> \in P
    OBVIOUS
  <1>7. \A i : (i \in T <=> i \in DOMAIN s /\ s[i] \in R)
               /\ \A n : i \in E(n) <=> i \in DOMAIN s /\ s[i] = n
    OBVIOUS
  <1>. HIDE DEF P, b, E, T
  <1>8. f \in [P -> T]
    BY <1>4, <1>5, <1>7
  <1>9. ASSUME NEW p \in P, NEW q \in P, f[p] = f[q]
        PROVE  p = q
    <2>1. /\ b[p[1]][p[2]] \in E(p[1]) /\ b[q[1]][q[2]] \in E(q[1])
          /\ b[p[1]][p[2]] = b[q[1]][q[2]]
      BY <1>4, <1>5, <1>9
    <2>2. p[1] = q[1]
      <3>1. s[b[p[1]][p[2]]] = p[1] /\ s[b[q[1]][q[2]]] = q[1]
        BY <1>7, <2>1
      <3>. QED
        BY <2>1, <3>1
    <2>3. p[2] = q[2]
      BY <1>4, <1>5, <2>1, <2>2
    <2>. QED
      BY <1>5, <2>2, <2>3
  <1>10. f \in Injection(P, T)
    <2>. HIDE DEF f
    <2>. QED
      BY <1>8, <1>9 DEF Injection, IsInjective
  <1>11. ASSUME NEW i \in T
         PROVE  \E p \in P : f[p] = i
    <2>1. s[i] \in R /\ i \in E(s[i])
      BY <1>7
    <2>2. PICK k \in 1..c[s[i]] : b[s[i]][k] = i
      BY <1>4, <2>1
    <2>3. <<s[i], k>> \in P
      BY <1>6, <2>1
    <2>4. f[<<s[i], k>>] = i
      BY <2>2, <2>3
    <2>. QED
      BY <2>3, <2>4
  <1>12. f \in Surjection(P, T)
    <2>. HIDE DEF f
    <2>. QED
      BY <1>8, <1>11 DEF Surjection
  <1>. HIDE DEF f
  <1>13. Cardinality(P) = Cardinality(T)
    BY <1>2, <1>10, <1>12, FS_Injection
  <1>. QED
    BY <1>13 DEF P, T

\* How many edges lead from the ready nodes to a node m of the topology.
LEMMA ReadyEdges ==
    ASSUME RegistryOK, WiringSound, NEW ready \in SUBSET NodeId, NEW m \in active
    PROVE  LET done == Cardinality(UNION {{n} \X (1..dependents[n][m]) : n \in ready})
               R    == {n \in ready : dependents[n][m] > 0}
           IN  done = Cardinality({i \in DOMAIN deps[m] : deps[m][i] \in R})
  <1>. DEFINE R == {n \in ready : dependents[n][m] > 0}
              c == [n \in R |-> dependents[n][m]]
  <1>1. m \in NodeId /\ deps[m] \in Seq(NodeId) /\ \A n \in NodeId : dependents[n][m] \in Nat
    BY Positions DEF RegistryOK
  <1>2. c \in [R -> Nat]
    BY <1>1
  <1>3. \A n \in R : c[n] = Occurrences(deps[m], n)
    BY Positions
  <1>4. UNION {{n} \X (1..dependents[n][m]) : n \in ready} = UNION {{n} \X (1..c[n]) : n \in R}
    <2>1. \A n \in ready : n \notin R => dependents[n][m] = 0
      BY <1>1
    <2>2. \A n \in ready : n \notin R => 1..dependents[n][m] = {}
      BY <2>1
    <2>3. \A n \in R : n \in ready /\ c[n] = dependents[n][m]
      OBVIOUS
    <2>. HIDE DEF R, c
    <2>4. ASSUME NEW p \in UNION {{n} \X (1..dependents[n][m]) : n \in ready}
          PROVE  p \in UNION {{n} \X (1..c[n]) : n \in R}
      <3>1. PICK n \in ready : p \in {n} \X (1..dependents[n][m])
        OBVIOUS
      <3>2. n \in R
        BY <2>2, <3>1
      <3>3. p \in {n} \X (1..c[n])
        BY <2>3, <3>1, <3>2
      <3>. QED
        BY <3>2, <3>3
    <2>5. ASSUME NEW p \in UNION {{n} \X (1..c[n]) : n \in R}
          PROVE  p \in UNION {{n} \X (1..dependents[n][m]) : n \in ready}
      <3>1. PICK n \in R : p \in {n} \X (1..c[n])
        OBVIOUS
      <3>2. p \in {n} \X (1..dependents[n][m])
        BY <2>3, <3>1
      <3>. QED
        BY <2>3, <3>2
    <2>. QED
      BY <2>4, <2>5
  <1>. HIDE DEF R, c
  <1>5. Cardinality(UNION {{n} \X (1..c[n]) : n \in R})
          = Cardinality({i \in DOMAIN deps[m] : deps[m][i] \in R})
    BY <1>1, <1>2, <1>3, EdgesCount
  <1>. QED
    BY <1>4, <1>5 DEF R

\* A wave of the scheduler.
LEMMA WaveStep ==
    ASSUME CycleInv, RegistryOK, WiringSound, RunWave
    PROVE  CycleInv'
  <1>. DEFINE ready   == {n \in remaining : degree[n] = 0}
              done(m) == Cardinality(UNION {{n} \X (1..dependents[n][m]) : n \in ready})
              R(m)    == {n \in ready : dependents[n][m] > 0}
              Hit(m)  == {i \in DOMAIN deps[m] : deps[m][i] \in R(m)}
  <1>1. /\ stage = "parallel"
        /\ degree' = [m \in NodeId |-> Saturating(degree[m], done(m))]
        /\ remaining' = remaining \ ready
        /\ UNCHANGED <<deps, dependents, active, entries, phase, stage, dirty, queue, sorted, ran>>
    BY DEF RunWave, vars, registry
  <1>2. /\ CycleOK /\ OrderInv /\ CountInv
        /\ remaining \subseteq Range(sorted) /\ Range(sorted) \subseteq dirty
        /\ dirty \subseteq active /\ active \subseteq NodeId
        /\ degree \in [NodeId -> Nat]
    BY DEF CycleInv, CycleOK, OrderInv, CountInv, RegistryOK
  <1>3. ready \in SUBSET NodeId /\ \A n \in ready : n \in remaining
    BY <1>2
  <1>4. ASSUME NEW m \in active
        PROVE  done(m) = Cardinality(Hit(m)) /\ done(m) \in Nat
    <2>1. done(m) = Cardinality(Hit(m))
      BY <1>3, ReadyEdges
    <2>2. Hit(m) \in SUBSET DOMAIN deps[m]
      OBVIOUS
    <2>. HIDE DEF Hit
    <2>. QED
      BY <2>1, <2>2, Positions
  <1>5. ASSUME NEW m \in NodeId, m \notin active
        PROVE  done(m) = 0
    <2>1. \A n \in ready : dependents[n][m] = 0
      BY <1>3, <1>5 DEF WiringSound, RegistryOK
    <2>2. \A n \in ready : {n} \X (1..dependents[n][m]) = {}
      BY <2>1
    <2>. HIDE DEF ready
    <2>3. UNION {{n} \X (1..dependents[n][m]) : n \in ready} = {}
      BY <2>2
    <2>. QED
      BY <2>3, FS_EmptySet
  <1>6. degree' \in [NodeId -> Nat]
    <2>1. ASSUME NEW m \in NodeId
          PROVE  done(m) \in Nat
      <3>1. CASE m \in active
        BY <1>4, <3>1
      <3>2. CASE m \notin active
        <4>1. done(m) = 0
          BY <1>5, <3>2
        <4>. QED
          BY <4>1
      <3>. QED
        BY <3>1, <3>2
    <2>. HIDE DEF done
    <2>2. \A m \in NodeId : degree[m] \in Nat /\ Saturating(degree[m], done(m)) \in Nat
      BY <1>2, <2>1 DEF Saturating
    <2>. QED
      BY <1>1, <2>2
  <1>7. ASSUME NEW m \in remaining'
        PROVE  ~IsAsync(m)' /\ degree'[m] = Cardinality(Ahead(m)')
    <2>1. /\ m \in remaining /\ m \in active /\ m \in NodeId /\ m \in Range(sorted)
          /\ ~IsAsync(m) /\ degree[m] = Cardinality(Ahead(m)) /\ Open(m) = {}
      BY <1>1, <1>2 DEF CountInv, OrderInv
    <2>2. Hit(m) \subseteq Ahead(m)
      BY <1>2, <1>3 DEF Ahead
    <2>3. ASSUME NEW i \in DOMAIN deps[m], deps[m][i] \in ready
          PROVE  i \in Hit(m)
      <3>1. dependents[deps[m][i]][m] # 0
        BY <1>2, <1>3, <2>1, <2>3 DEF Open
      <3>2. dependents[deps[m][i]][m] \in Nat
        BY <1>3, <2>1, <2>3 DEF RegistryOK
      <3>. QED
        BY <2>3, <3>1, <3>2
    <2>4. Ahead(m)' = Ahead(m) \ Hit(m)
      <3>1. \A i \in DOMAIN deps[m] : i \in Hit(m) <=> deps[m][i] \in ready
        BY <2>3
      <3>2. \A n \in ready : n \in remaining /\ ~IsAsync(n)
        BY <1>2, <1>3 DEF CountInv
      <3>3. \A n : IsAsync(n)' = IsAsync(n)
        BY <1>1 DEF IsAsync
      <3>. HIDE DEF ready, Hit
      <3>. QED
        BY <1>1, <3>1, <3>2, <3>3 DEF Ahead
    <2>5. IsFiniteSet(Ahead(m))
      BY <2>1, Positions DEF Ahead
    <2>6. done(m) = Cardinality(Hit(m))
      BY <1>4, <2>1
    <2>7. degree'[m] = Saturating(degree[m], done(m))
      BY <1>1, <2>1
    <2>. HIDE DEF Hit, done
    <2>8. degree'[m] = Cardinality(Ahead(m)')
      BY <2>1, <2>2, <2>4, <2>5, <2>6, <2>7, CardinalityMinus, Drops
    <2>. QED
      BY <1>1, <2>1, <2>8 DEF IsAsync
  <1>. HIDE DEF done
  <1>8. CycleOK'
    BY <1>1, <1>2, <1>6 DEF CycleOK
  <1>9. OrderInv'
    <2>1. \A m : Open(m)' = Open(m)
      BY <1>1 DEF Open
    <2>. QED
      BY <1>1, <1>2, <2>1 DEF OrderInv, LeadsInto
  <1>10. CountInv'
    <2>1. remaining' \subseteq Range(sorted')
      BY <1>1, <1>2
    <2>. QED
      BY <1>1, <1>7, <2>1 DEF CountInv
  <1>. QED
    BY <1>8, <1>9, <1>10 DEF CycleInv

-----------------------------------------------------------------------------
(* All steps                                                                *)

\* The next node of the sorted order.
LEMMA RunStep ==
    ASSUME CycleInv, RunNode
    PROVE  CycleInv'
  <1>1. /\ stage = "sequential" /\ ran < Len(sorted) /\ ran' = ran + 1
        /\ UNCHANGED <<deps, dependents, active, entries, phase, stage, dirty, degree, queue,
                       sorted, remaining>>
    BY DEF RunNode, vars, registry
  <1>2. \A m : Open(m)' = Open(m) /\ Ahead(m)' = Ahead(m)
    BY <1>1 DEF Open, Ahead, IsAsync
  <1>3. CycleOK'
    <2>1. Len(sorted) \in Nat /\ ran' \in 0..Len(sorted)
      BY <1>1, LenProperties DEF CycleInv, CycleOK
    <2>. QED
      BY <1>1, <2>1 DEF CycleInv, CycleOK
  <1>4. OrderInv'
    BY <1>1, <1>2 DEF CycleInv, OrderInv, LeadsInto
  <1>5. CountInv'
    BY <1>1, <1>2 DEF CycleInv, CountInv, IsAsync
  <1>. QED
    BY <1>3, <1>4, <1>5 DEF CycleInv

\* The end of a cycle.
LEMMA EndStep ==
    ASSUME CycleInv, EndCycle
    PROVE  CycleInv'
  <1>1. /\ stage' = "none" /\ dirty' = {} /\ sorted' = <<>> /\ ran' = 0 /\ remaining' = {}
        /\ degree' = [n \in NodeId |-> 0] /\ UNCHANGED queue
        /\ stage = "sequential" \/ stage = "parallel"
    BY DEF EndCycle, AllRan
  <1>2. sorted' \in Seq(NodeId) /\ Len(sorted') = 0
    BY <1>1
  <1>3. CycleOK'
    BY <1>1, <1>2 DEF CycleInv, CycleOK
  <1>. QED
    BY <1>1, <1>3, CycleNoneNext DEF CycleInv

\* The steps outside of the cycle, and what else of the engine the others leave alone.
LEMMA QuietSteps ==
    ASSUME CycleOK, [EngineNext]_allVars,
           ~BeginCycle, \A n \in NodeId : ~SortNext(n), ~EndSort, ~RunNode, ~RunWave, ~EndCycle
    PROVE  UNCHANGED <<cycle, collected>> /\ (stage = "none" \/ UNCHANGED <<registry, phase>>)
  <1>1. ASSUME NEW s \in NodeId, Send(s)
        PROVE  UNCHANGED <<cycle, collected, registry, phase>>
    BY <1>1 DEF Send, vars, seen
  <1>2. ASSUME NEW j \in jobs, JobEnds(j)
        PROVE  UNCHANGED <<cycle, collected, registry, phase>>
    BY <1>2 DEF JobEnds, vars, seen
  <1>3. ASSUME NEW p \in Strategy, SetErrorStrategy(p[1], p[2])
        PROVE  UNCHANGED <<cycle, collected, registry, phase>>
    BY <1>3 DEF SetErrorStrategy, vars, seen
  <1>4. CASE Manage
    BY <1>4 DEF Manage, seen
  <1>5. CASE Deactivate
    BY <1>5 DEF Deactivate, DrainNext, CascadeNext, CycleOK
  <1>6. CASE Activate
    BY <1>6 DEF Activate, FinishNode, CycleOK, seen
  <1>7. CASE Proceed
    BY <1>7 DEF Proceed, EndDrain, EnterNode, CycleOK, seen
  <1>8. CASE NoCycle
    BY <1>8 DEF NoCycle, seen
  <1>9. CASE UNCHANGED allVars
    BY <1>9 DEF allVars, vars, seen
  <1>. QED
    BY <1>1, <1>2, <1>3, <1>4, <1>5, <1>6, <1>7, <1>8, <1>9
       DEF EngineNext, EngineStep, CycleStep

\* Every step keeps the cycle's invariant.
LEMMA CycleNext ==
    ASSUME CycleInv, TypeOK, WiringSound, [EngineNext]_allVars
    PROVE  CycleInv'
  <1>. USE TypeParts
  <1>1. CASE BeginCycle
    BY <1>1, CycleBegin
  <1>2. ASSUME NEW n \in NodeId, SortNext(n)
        PROVE  CycleInv'
    BY <1>2, SortStep
  <1>3. CASE EndSort
    BY <1>3, EndSortStep
  <1>4. CASE RunNode
    BY <1>4, RunStep
  <1>5. CASE RunWave
    BY <1>5, WaveStep
  <1>6. CASE EndCycle
    BY <1>6, EndStep
  <1>7. CASE /\ ~BeginCycle /\ ~EndSort /\ ~RunNode /\ ~RunWave /\ ~EndCycle
             /\ \A n \in NodeId : ~SortNext(n)
    <2>1. UNCHANGED cycle /\ (stage = "none" \/ UNCHANGED <<registry, phase>>)
      BY <1>7, QuietSteps DEF CycleInv
    <2>. QED
      BY <2>1, CycleQuiet
  <1>. QED
    BY <1>1, <1>2, <1>3, <1>4, <1>5, <1>6, <1>7

\* The cycle always works on active nodes only, topo_sort never returns a node twice
\* or before one it reads from, whatever the graph, and the counts of topo_sort and of
\* the scheduler are the number of dependencies still to come (Topology::dirty_set,
\* topo_sort, Scheduler::execute_parallel).
THEOREM CycleIsSound == EngineSpec => [](TypeOK /\ WiringSound /\ CycleInv)
  <1>1. EngineInit => CycleInv
    BY CycleInit
  <1>2. TypeOK /\ WiringSound /\ CycleInv /\ [EngineNext]_allVars => CycleInv'
    BY CycleNext
  <1>. QED
    BY <1>1, <1>2, EngineIsLifecycle, TypeCorrect, WiringIsSound, PTL DEF EngineSpec

-----------------------------------------------------------------------------
(* No node is left out                                                      *)

\* When the scheduler finds no node ready, none is left: the first of the rest in the
\* sorted order would be ready.
LEMMA NoneLeft ==
    ASSUME CycleInv, RegistryOK, WiringSound, NoAsyncWaves, AllRan
    PROVE  remaining = {}
  <1>1. CASE stage = "sequential"
    BY <1>1 DEF CycleInv, CycleOK
  <1>2. CASE stage = "parallel" /\ \A n \in remaining : degree[n] # 0
    <2>. SUFFICES ASSUME remaining # {} PROVE FALSE
      OBVIOUS
    <2>. DEFINE T == {i \in 1..Len(sorted) : sorted[i] \in remaining}
    <2>1. /\ DOMAIN sorted = 1..Len(sorted) /\ Len(sorted) \in Nat
          /\ OrderInv /\ CountInv /\ remaining \subseteq Range(sorted)
      BY LenProperties DEF CycleInv, CycleOK, CountInv
    <2>2. T # {} /\ T \in SUBSET Nat
      BY <2>1 DEF Range
    <2>3. PICK i \in T : \A j \in T : i <= j
      <3>. HIDE DEF T
      <3>. QED
        BY <2>2, LeastNat
    <2>4. PICK m : m = sorted[i]
      OBVIOUS
    <2>5. m \in remaining /\ m \in dirty /\ m \in active /\ Cardinality(Ahead(m)) # 0
      BY <1>2, <2>1, <2>3, <2>4 DEF CountInv, OrderInv
    <2>6. Ahead(m) # {}
      BY <2>5, FS_EmptySet
    <2>7. PICK k \in DOMAIN deps[m] : deps[m][k] \in dirty /\ deps[m][k] \in remaining
      BY <1>2, <2>6 DEF Ahead, NoAsyncWaves
    <2>8. PICK j \in 1..Len(sorted) : sorted[j] = deps[m][k]
      BY <2>1, <2>7 DEF Range
    <2>9. i <= j
      BY <2>3, <2>7, <2>8
    <2>10. deps[m][k] \in Range(deps[m])
      BY DEF Range
    <2>. QED
      BY <2>1, <2>3, <2>4, <2>8, <2>9, <2>10 DEF OrderInv
  <1>. QED
    BY <1>1, <1>2 DEF AllRan

\* A step that records a cycle records all of its nodes.
LEMMA RecordsAll ==
    ASSUME CycleInv, RegistryOK, WiringSound, NoAsyncWaves, [EngineNext]_allVars,
           collected' # collected
    PROVE  collected'.nodes_computed = Len(sorted) - Cardinality(remaining)
  <1>1. CASE EndCycle
    <2>1. collected' = record_cycle(Len(sorted)) /\ AllRan
      BY <1>1 DEF EndCycle
    <2>2. Cardinality(remaining) = 0
      BY <2>1, NoneLeft, FS_EmptySet
    <2>3. Len(sorted) \in Nat
      BY LenProperties DEF CycleInv, CycleOK
    <2>. QED
      BY <2>1, <2>2, <2>3 DEF record_cycle
  <1>2. ASSUME NEW n \in NodeId, SortNext(n)
        PROVE  FALSE
    BY <1>2 DEF SortNext, seen
  <1>3. CASE BeginCycle \/ EndSort \/ RunNode \/ RunWave
    BY <1>3 DEF BeginCycle, EndSort, RunNode, RunWave, seen
  <1>. QED
    BY <1>1, <1>2, <1>3, QuietSteps DEF CycleInv

\* As long as the parallel cycle is not used on async nodes, every cycle runs all the
\* nodes it reports as computed, on graphs of any shape, also with circles and with
\* edges that a removal has cut: the scheduler never gives up with nodes that wait for
\* each other (Scheduler::execute_parallel, the break at scheduler.rs line 57).
THEOREM CyclesRunAll == EngineSpec /\ []NoAsyncWaves => NodesComputed
  <1>1. TypeOK /\ WiringSound /\ CycleInv /\ NoAsyncWaves /\ [EngineNext]_allVars
          => [collected' # collected =>
                collected'.nodes_computed = Len(sorted) - Cardinality(remaining)]_allVars
    BY RecordsAll, TypeParts
  <1>. QED
    BY <1>1, CycleIsSound, PTL DEF EngineSpec, NodesComputed

\* When topo_sort ends, every dirty node of a connected graph without circles is sorted.
LEMMA SortsAll ==
    ASSUME CycleInv, RegistryOK, WiringSound, Connected, Acyclic, EndSort
    PROVE  Range(sorted) = dirty
  <1>. DEFINE S == dirty \ Range(sorted)
  <1>1. /\ stage = "sort" /\ phase = "body" /\ \A n \in NodeId : queue[n] = 0
        /\ OrderInv /\ CountInv
    BY DEF EndSort, CycleInv, CycleOK
  <1>2. dirty \subseteq active /\ active \subseteq NodeId /\ active \subseteq DOMAIN entries
    BY <1>1 DEF OrderInv, RegistryOK, WiringSound
  <1>3. ASSUME NEW m \in S
        PROVE  Range(entries[m].deps) \cap S # {}
    <2>1. m \in active /\ m \in NodeId /\ degree[m] = Cardinality(Open(m)) /\ degree[m] # 0
      BY <1>1, <1>2 DEF CountInv
    <2>2. PICK i \in DOMAIN deps[m] : /\ deps[m][i] \in dirty
                                      /\ \/ deps[m][i] \notin Range(sorted)
                                         \/ dependents[deps[m][i]][m] = 0
      BY <2>1, FS_EmptySet DEF Open
    <2>3. PICK d \in NodeId : d = deps[m][i]
      BY <1>2, <2>2
    <2>4. dependents[d][m] = Occurrences(deps[m], d)
      BY <1>1, <2>1 DEF Connected
    <2>5. Occurrences(deps[m], d) # 0
      <3>. DEFINE E == {k \in DOMAIN deps[m] : deps[m][k] = d}
      <3>1. IsFiniteSet(E) /\ E # {}
        BY <2>1, <2>3, Positions
      <3>2. Cardinality(E) # 0
        <4>. HIDE DEF E
        <4>. QED
          BY <3>1, FS_EmptySet
      <3>. QED
        BY <3>2 DEF Occurrences
    <2>6. d \in S
      BY <2>2, <2>3, <2>4, <2>5
    <2>7. d \in Range(entries[m].deps)
      BY <2>1, <2>3 DEF WiringSound, Range
    <2>. QED
      BY <2>6, <2>7
  <1>4. S = {}
    <2>1. S \in SUBSET DOMAIN entries
      BY <1>2
    <2>. HIDE DEF S
    <2>. QED
      BY <1>3, <2>1 DEF Acyclic
  <1>. QED
    BY <1>1, <1>4 DEF OrderInv

\* What topo_sort returned is all of the dirty set.
Sorted == stage \in {"sequential", "parallel"} => Range(sorted) = dirty

\* Every step keeps that.
LEMMA SortedNext ==
    ASSUME CycleInv, RegistryOK, WiringSound, Connected, Acyclic, Sorted, [EngineNext]_allVars
    PROVE  Sorted'
  <1>1. CASE BeginCycle \/ EndCycle
    BY <1>1 DEF BeginCycle, EndCycle, Sorted
  <1>2. ASSUME NEW n \in NodeId, SortNext(n)
        PROVE  Sorted'
    BY <1>2 DEF SortNext, Sorted
  <1>3. CASE EndSort
    <2>1. Range(sorted) = dirty
      BY <1>3, SortsAll
    <2>2. UNCHANGED <<sorted, dirty>>
      BY <1>3 DEF EndSort
    <2>. QED
      BY <2>1, <2>2 DEF Sorted
  <1>4. CASE RunNode \/ RunWave
    BY <1>4 DEF RunNode, RunWave, Sorted
  <1>5. CASE UNCHANGED cycle
    BY <1>5 DEF cycle, Sorted
  <1>. QED
    BY <1>1, <1>2, <1>3, <1>4, <1>5, QuietSteps DEF CycleInv

\* The sorted order is complete.
LEMMA SortedIsComplete ==
    ASSUME CycleInv, RegistryOK, Sorted
    PROVE  SortComplete
  <1>. SUFFICES ASSUME stage \in {"sequential", "parallel"}
                PROVE  /\ Range(sorted) = dirty
                       /\ Len(sorted) = Cardinality(dirty)
                       /\ \A i, j \in DOMAIN sorted : i <= j => sorted[j] \notin Range(deps[sorted[i]])
    BY DEF SortComplete
  <1>1. OrderInv /\ DOMAIN sorted = 1..Len(sorted) /\ Len(sorted) \in Nat
    BY LenProperties DEF CycleInv, CycleOK
  <1>2. Range(sorted) = dirty
    BY DEF Sorted
  <1>3. sorted \in [1..Len(sorted) -> dirty]
    <2>1. \A i \in 1..Len(sorted) : sorted[i] \in dirty
      BY <1>1, <1>2 DEF Range
    <2>2. sorted \in [1..Len(sorted) -> NodeId]
      BY LenProperties DEF CycleInv, CycleOK
    <2>. QED
      BY <2>1, <2>2
  <1>4. sorted \in Injection(1..Len(sorted), dirty)
    BY <1>1, <1>3 DEF Injection, IsInjective, OrderInv
  <1>5. sorted \in Surjection(1..Len(sorted), dirty)
    BY <1>1, <1>2, <1>3 DEF Surjection, Range
  <1>6. IsFiniteSet(1..Len(sorted)) /\ Cardinality(1..Len(sorted)) = Len(sorted)
    <2>1. PICK L \in Nat : L = Len(sorted)
      BY <1>1
    <2>2. IsFiniteSet(1..L) /\ Cardinality(1..L) = L
      BY FS_Interval
    <2>. QED
      BY <2>1, <2>2
  <1>7. Cardinality(dirty) = Len(sorted)
    BY <1>4, <1>5, <1>6, FS_Surjection
  <1>. QED
    BY <1>1, <1>2, <1>7 DEF OrderInv

\* As long as no active node reads from one that is gone and the graph has no circle,
\* topo_sort returns the whole dirty set, each node once and after all that it reads
\* from (Topology::topo_sort, Kahn's algorithm).
THEOREM SortIsComplete == EngineSpec /\ []NoDangling /\ []Acyclic => []SortComplete
  <1>1. EngineInit => Sorted
    BY DEF EngineInit, Sorted
  <1>2. /\ TypeOK /\ WiringSound /\ CycleInv /\ Connected /\ Acyclic /\ Sorted
        /\ [EngineNext]_allVars
        => Sorted'
    BY SortedNext, TypeParts
  <1>3. TypeOK /\ WiringSound /\ CycleInv /\ Sorted => SortComplete
    BY SortedIsComplete, TypeParts
  <1>. QED
    BY <1>1, <1>2, <1>3, CycleIsSound, EngineIsLifecycle, StaysConnected, PTL DEF EngineSpec

-----------------------------------------------------------------------------
(* The types of the store and of what is seen                               *)

\* The messages from the nodes of a kind.
Messages(k) == {n \in NodeId : Kind[n] = k} \X Provenance

\* The values, the strategies and the channels have their types, only sources and
\* async nodes send messages, only active nodes emit, and a recorded cycle computed
\* no more nodes than there are.
StoreOK ==
    /\ Stores(values)
    /\ DOMAIN error_strategies \subseteq NodeId
    /\ \A n \in DOMAIN error_strategies : error_strategies[n] \in ErrorStrategy
    /\ source_rx \in Seq(Messages("Source"))
    /\ result_rx \in Seq(Messages("AsyncCompute"))
    /\ jobs \subseteq Messages("AsyncCompute")
    /\ spawns \subseteq Messages("AsyncCompute")
    /\ sent \in 0..MaxSends
    /\ DOMAIN emitted \subseteq active
    /\ collected.total_cycles \in Nat
    /\ collected.nodes_computed \in 0..Cardinality(NodeId)

\* A channel of a kind's messages is one of any node's messages.
LEMMA MessagesType ==
    ASSUME NEW k, NEW ch \in Seq(Messages(k))
    PROVE  /\ Ids(ch) \subseteq {n \in NodeId : Kind[n] = k}
           /\ \A n \in Ids(ch) : Last(ch, n) \in Provenance
           /\ ch \in Seq(NodeId \X Provenance)
  <1>1. \A i \in DOMAIN ch : ch[i] \in Messages(k)
    BY ElementOfSeq, LenProperties
  <1>2. Messages(k) \subseteq NodeId \X Provenance
    BY DEF Messages
  <1>3. ch \in Seq(NodeId \X Provenance)
    BY <1>2, SeqMonotonic
  <1>4. \A n \in Ids(ch) : Last(ch, n) \in Provenance
    BY <1>3, ChannelType
  <1>. QED
    BY <1>1, <1>3, <1>4 DEF Ids, Messages

\* There are as many sorted nodes as different ones, and no more than there are nodes.
LEMMA SortedLength ==
    ASSUME CycleInv, RegistryOK
    PROVE  Len(sorted) \in 0..Cardinality(NodeId) /\ Cardinality(NodeId) \in Nat
  <1>1. sorted \in [1..Len(sorted) -> NodeId] /\ Len(sorted) \in Nat /\ DOMAIN sorted = 1..Len(sorted)
    BY LenProperties DEF CycleInv, CycleOK
  <1>2. sorted \in Injection(1..Len(sorted), NodeId)
    BY <1>1 DEF Injection, IsInjective, CycleInv, OrderInv
  <1>3. PICK L \in Nat : L = Len(sorted)
    BY <1>1
  <1>4. Cardinality(1..L) = L
    BY FS_Interval
  <1>5. Cardinality(1..L) <= Cardinality(NodeId)
    BY <1>2, <1>3, NodeAssumption, FS_Injection
  <1>6. Cardinality(NodeId) \in Nat
    BY NodeAssumption, FS_CardinalityType
  <1>. QED
    BY <1>3, <1>4, <1>5, <1>6

\* The jobs of async nodes.
LEMMA AsyncMessages ==
    ASSUME Stores(values), NEW S \in SUBSET NodeId, \A n \in S : IsAsync(n)
    PROVE  compute_async(S) \subseteq Messages("AsyncCompute")
  <1>1. \A n \in Complete(S) : n \in S /\ Read(entries[n].deps) \in Provenance
    BY ComputeIs, ReadType
  <1>. QED
    BY <1>1 DEF compute_async, Messages, IsAsync

\* What a removal takes from the store and from what is seen.
LEMMA DeactivateStore ==
    ASSUME StoreOK, Deactivate
    PROVE  StoreOK'
  <1>. DEFINE gone == DOMAIN entries \ DOMAIN entries'
  <1>1. /\ values' = Without(values, gone)
        /\ error_strategies' = Without(error_strategies, gone)
        /\ emitted' = Without(emitted, gone)
        /\ UNCHANGED <<source_rx, result_rx, jobs, sent, spawns, collected>>
    BY DEF Deactivate, cycle
  <1>2. \A n \in active : n \in active' \/ n \in gone
    <2>1. \E id, rest : deactivate_node(id, rest)
      BY DEF Deactivate, DrainNext, CascadeNext
    <2>2. PICK id, rest : deactivate_node(id, rest)
      BY <2>1
    <2>. QED
      BY <2>2 DEF deactivate_node, registry
  <1>. HIDE DEF gone
  <1>3. Stores(values')
    BY <1>1, WithoutType DEF StoreOK
  <1>4. /\ DOMAIN error_strategies' = DOMAIN error_strategies \ gone
        /\ \A n \in DOMAIN error_strategies \ gone : error_strategies'[n] = error_strategies[n]
        /\ DOMAIN emitted' = DOMAIN emitted \ gone
    BY <1>1, WithoutIs
  <1>. QED
    BY <1>1, <1>2, <1>3, <1>4 DEF StoreOK, Stores

\* What the initial computation of an activated node writes.
LEMMA ActivateStore ==
    ASSUME StoreOK, CallsOK, Activate
    PROVE  StoreOK'
  <1>1. /\ Head(work).id \in NodeId
        /\ values' = IF Kind[Head(work).id] = "Compute" THEN compute({Head(work).id}) ELSE values
        /\ UNCHANGED <<error_strategies, source_rx, result_rx, jobs, sent, spawns, emitted,
                       collected, active>>
    BY TopType DEF Activate, FinishNode, CallsOK, cycle, seen
  <1>2. Stores(values')
    BY <1>1, ComputeType DEF StoreOK
  <1>. QED
    BY <1>1, <1>2 DEF StoreOK, Stores

\* A cycle begins with the last messages in the store.
LEMMA BeginStore ==
    ASSUME StoreOK, BeginCycle
    PROVE  StoreOK'
  <1>. DEFINE updated == Ids(source_rx) \cup Ids(result_rx)
              g == [n \in updated |-> IF n \in Ids(result_rx) THEN Last(result_rx, n)
                                                              ELSE Last(source_rx, n)]
  <1>1. /\ values' = With(values, g)
        /\ source_rx' = <<>> /\ result_rx' = <<>>
        /\ UNCHANGED <<error_strategies, jobs, sent, spawns, emitted, collected, active>>
    BY DEF BeginCycle, vars, registry, seen
  <1>2. \A n \in updated : n \in NodeId /\ g[n] \in Provenance
    BY MessagesType DEF StoreOK
  <1>3. DOMAIN g = updated
    OBVIOUS
  <1>. HIDE DEF g
  <1>4. /\ DOMAIN With(values, g) = DOMAIN values \cup DOMAIN g
        /\ \A n \in DOMAIN g : With(values, g)[n] = g[n]
        /\ \A n \in DOMAIN values \ DOMAIN g : With(values, g)[n] = values[n]
    BY WithIs
  <1>. HIDE DEF updated
  <1>5. Stores(values')
    BY <1>1, <1>2, <1>3, <1>4 DEF StoreOK, Stores
  <1>6. source_rx' \in Seq(Messages("Source")) /\ result_rx' \in Seq(Messages("AsyncCompute"))
    BY <1>1, EmptySeq
  <1>. QED
    BY <1>1, <1>5, <1>6 DEF StoreOK, Stores

\* Only active nodes emit.
LEMMA EmitType ==
    ASSUME StoreOK, NEW S \in SUBSET active
    PROVE  DOMAIN emit(S) \subseteq active
  <1>1. DOMAIN emit(S) = DOMAIN emitted \cup Complete(S)
    BY EmitIs
  <1>2. Complete(S) \subseteq S
    BY DEF Complete
  <1>. QED
    BY <1>1, <1>2 DEF StoreOK

\* What an executed node writes.
LEMMA RunStore ==
    ASSUME StoreOK, CycleInv, RegistryOK, RunNode
    PROVE  StoreOK'
  <1>. DEFINE n == sorted[ran']
  <1>1. n \in NodeId /\ n \in active
    <2>1. ran' \in DOMAIN sorted
      BY LenProperties DEF RunNode, CycleInv, CycleOK
    <2>2. n \in Range(sorted)
      BY <2>1 DEF Range
    <2>. QED
      BY <2>2 DEF CycleInv, OrderInv, RegistryOK
  <1>2. UNCHANGED <<error_strategies, source_rx, result_rx, jobs, sent, collected, active>>
    BY DEF RunNode, vars, registry
  <1>. HIDE DEF n
  <1>3. CASE values' = Computed(n) /\ UNCHANGED <<spawns, emitted>>
    <2>1. Stores(Computed(n))
      BY <1>1, ComputeType, WithoutType DEF StoreOK, Computed
    <2>2. Stores(values')
      BY <1>3, <2>1
    <2>. QED
      BY <1>2, <1>3, <2>2 DEF StoreOK, Stores
  <1>4. CASE emitted' = emit({n}) /\ UNCHANGED <<values, spawns>>
    <2>1. DOMAIN emitted' \subseteq active
      BY <1>1, <1>4, EmitType
    <2>. QED
      BY <1>2, <1>4, <2>1 DEF StoreOK, Stores
  <1>5. CASE IsAsync(n) /\ spawns' = spawns \cup compute_async({n}) /\ UNCHANGED <<values, emitted>>
    <2>1. compute_async({n}) \subseteq Messages("AsyncCompute")
      BY <1>1, <1>5, AsyncMessages DEF StoreOK
    <2>. QED
      BY <1>2, <1>5, <2>1 DEF StoreOK, Stores
  <1>. QED
    BY <1>3, <1>4, <1>5 DEF RunNode, n

\* What a wave writes.
LEMMA WaveStore ==
    ASSUME StoreOK, CycleInv, RegistryOK, RunWave
    PROVE  StoreOK'
  <1>. DEFINE runs(k) == {n \in {m \in remaining : degree[m] = 0} \cap DOMAIN entries : Kind[n] = k}
  <1>1. /\ values' = compute(runs("Compute")) /\ emitted' = emit(runs("Sink"))
        /\ UNCHANGED <<error_strategies, source_rx, result_rx, jobs, sent, spawns, collected, active>>
    BY DEF RunWave, vars, registry
  <1>2. \A k : runs(k) \subseteq active /\ runs(k) \subseteq NodeId
    BY DEF CycleInv, CountInv, OrderInv, RegistryOK
  <1>. HIDE DEF runs
  <1>3. Stores(values')
    BY <1>1, <1>2, ComputeType DEF StoreOK
  <1>4. DOMAIN emitted' \subseteq active
    BY <1>1, <1>2, EmitType
  <1>. QED
    BY <1>1, <1>3, <1>4 DEF StoreOK, Stores

\* The jobs and the record at the end of a cycle.
LEMMA EndStore ==
    ASSUME StoreOK, CycleInv, RegistryOK, EndCycle
    PROVE  StoreOK'
  <1>. DEFINE late == {n \in Range(sorted) : stage = "parallel" /\ IsAsync(n)}
  <1>1. /\ jobs' = jobs \cup spawns \cup compute_async(late)
        /\ spawns' = {} /\ collected' = record_cycle(Len(sorted))
        /\ UNCHANGED <<values, error_strategies, source_rx, result_rx, sent, emitted, active>>
    BY DEF EndCycle, Return, registry
  <1>2. late \subseteq NodeId /\ \A n \in late : IsAsync(n)
    BY DEF CycleInv, OrderInv, RegistryOK
  <1>. HIDE DEF late
  <1>3. compute_async(late) \subseteq Messages("AsyncCompute")
    BY <1>2, AsyncMessages DEF StoreOK
  <1>4. collected'.total_cycles \in Nat /\ collected'.nodes_computed \in 0..Cardinality(NodeId)
    BY <1>1, SortedLength DEF StoreOK, record_cycle
  <1>. QED
    BY <1>1, <1>3, <1>4 DEF StoreOK, Stores

\* The steps that have no effect on values, but may add or end jobs and messages.
LEMMA OtherStore ==
    ASSUME StoreOK, RegistryOK,
           \/ \E s \in NodeId : Send(s)
           \/ \E j \in jobs : JobEnds(j)
           \/ \E p \in Strategy : SetErrorStrategy(p[1], p[2])
    PROVE  StoreOK'
  <1>1. ASSUME NEW s \in NodeId, Send(s)
        PROVE  StoreOK'
    <2>1. /\ Kind[s] = "Source" /\ sent < MaxSends /\ sent' = sent + 1
          /\ source_rx' = Append(source_rx, <<s, {<<s, sent'>>}>>)
          /\ UNCHANGED <<values, error_strategies, result_rx, jobs, spawns, emitted, collected, active>>
      BY <1>1 DEF Send, vars, registry, cycle, seen
    <2>2. sent' \in 1..MaxSends /\ sent' \in 0..MaxSends
      BY <2>1, MaxSendsAssumption DEF StoreOK
    <2>3. <<s, {<<s, sent'>>}>> \in Messages("Source")
      BY <2>1, <2>2 DEF Messages, Provenance
    <2>4. source_rx' \in Seq(Messages("Source"))
      BY <2>1, <2>3, AppendProperties DEF StoreOK
    <2>. QED
      BY <2>1, <2>2, <2>4 DEF StoreOK, Stores
  <1>2. ASSUME NEW j \in jobs, JobEnds(j)
        PROVE  StoreOK'
    <2>1. /\ jobs' = jobs \ {j}
          /\ result_rx' = Append(result_rx, j) \/ UNCHANGED result_rx
          /\ UNCHANGED <<values, error_strategies, source_rx, sent, spawns, emitted, collected, active>>
      BY <1>2 DEF JobEnds, vars, registry, cycle, seen
    <2>2. Append(result_rx, j) \in Seq(Messages("AsyncCompute"))
      BY AppendProperties DEF StoreOK
    <2>. QED
      BY <2>1, <2>2 DEF StoreOK, Stores
  <1>3. ASSUME NEW p \in Strategy, SetErrorStrategy(p[1], p[2])
        PROVE  StoreOK'
    <2>. DEFINE g == [m \in {p[1]} |-> p[2]]
    <2>1. /\ error_strategies' = With(error_strategies, g)
          /\ UNCHANGED <<values, source_rx, result_rx, jobs, sent, spawns, emitted, collected, active>>
      BY <1>3 DEF SetErrorStrategy, vars, registry, cycle, seen
    <2>2. p[1] \in NodeId /\ p[2] \in ErrorStrategy
      BY StrategyAssumption
    <2>3. /\ DOMAIN With(error_strategies, g) = DOMAIN error_strategies \cup DOMAIN g
          /\ \A n \in DOMAIN g : With(error_strategies, g)[n] = g[n]
          /\ \A n \in DOMAIN error_strategies \ DOMAIN g :
                With(error_strategies, g)[n] = error_strategies[n]
      <3>. HIDE DEF g
      <3>. QED
        BY WithIs
    <2>4. DOMAIN g = {p[1]} /\ g[p[1]] = p[2]
      OBVIOUS
    <2>. HIDE DEF g
    <2>5. /\ DOMAIN error_strategies' \subseteq NodeId
          /\ \A n \in DOMAIN error_strategies' : error_strategies'[n] \in ErrorStrategy
      BY <2>1, <2>2, <2>3, <2>4 DEF StoreOK
    <2>. QED
      BY <2>1, <2>5 DEF StoreOK, Stores
  <1>. QED
    BY <1>1, <1>2, <1>3

\* Every step keeps the types of the store and of what is seen.
LEMMA StoreNext ==
    ASSUME StoreOK, CycleInv, TypeOK, [EngineNext]_allVars
    PROVE  StoreOK'
  <1>. USE TypeParts
  <1>1. CASE \/ \E s \in NodeId : Send(s)
             \/ \E j \in jobs : JobEnds(j)
             \/ \E p \in Strategy : SetErrorStrategy(p[1], p[2])
    BY <1>1, OtherStore
  <1>2. CASE Manage
    <2>1. active' = active
      BY <1>2 DEF Manage, DropHandle, Call, Build, Merge, ActivateSink, registry
    <2>. QED
      BY <1>2, <2>1 DEF Manage, store, cycle, seen, StoreOK, Stores
  <1>3. CASE Deactivate
    BY <1>3, DeactivateStore
  <1>4. CASE Activate
    BY <1>4, ActivateStore
  <1>5. CASE Proceed
    <2>1. active \subseteq active'
      BY <1>5 DEF Proceed, EndDrain, EnterNode, Return, registry
    <2>. QED
      BY <1>5, <2>1 DEF Proceed, store, cycle, seen, StoreOK, Stores
  <1>6. CASE BeginCycle
    BY <1>6, BeginStore
  <1>7. CASE NoCycle
    BY <1>7 DEF NoCycle, Return, registry, store, cycle, seen, StoreOK, Stores
  <1>8. ASSUME NEW n \in NodeId, SortNext(n)
        PROVE  StoreOK'
    BY <1>8 DEF SortNext, vars, registry, store, seen, StoreOK, Stores
  <1>9. CASE EndSort
    BY <1>9 DEF EndSort, vars, registry, store, seen, StoreOK, Stores
  <1>10. CASE RunNode
    BY <1>10, RunStore
  <1>11. CASE RunWave
    BY <1>11, WaveStore
  <1>12. CASE EndCycle
    BY <1>12, EndStore
  <1>13. CASE UNCHANGED allVars
    BY <1>13 DEF allVars, vars, registry, store, cycle, seen, StoreOK, Stores
  <1>. QED
    BY <1>1, <1>2, <1>3, <1>4, <1>5, <1>6, <1>7, <1>8, <1>9, <1>10, <1>11, <1>12, <1>13
       DEF EngineNext, EngineStep, CycleStep

\* A new engine is empty.
LEMMA StoreInit == EngineInit => StoreOK
  <1>. SUFFICES ASSUME EngineInit PROVE StoreOK
    OBVIOUS
  <1>1. source_rx \in Seq(Messages("Source")) /\ result_rx \in Seq(Messages("AsyncCompute"))
    BY EmptySeq DEF EngineInit
  <1>2. Cardinality(NodeId) \in Nat
    BY NodeAssumption, FS_CardinalityType
  <1>. QED
    BY <1>1, <1>2, MaxSendsAssumption DEF EngineInit, StoreOK, Stores

\* The invariants make up the engine's type invariant.
LEMMA EngineTypeParts ==
    ASSUME TypeOK, CycleInv, StoreOK
    PROVE  EngineTypeOK
  <1>1. source_rx \in Seq(NodeId \X Provenance) /\ result_rx \in Seq(NodeId \X Provenance)
    BY MessagesType DEF StoreOK
  <1>2. Messages("AsyncCompute") \subseteq NodeId \X Provenance
    BY DEF Messages
  <1>3. dirty \subseteq NodeId /\ remaining \subseteq NodeId
    BY DEF CycleInv, OrderInv, CountInv, TypeOK
  <1>4. queue \in [NodeId -> Nat]
    BY DEF CycleInv, CycleOK
  <1>. QED
    BY <1>1, <1>2, <1>3, <1>4 DEF EngineTypeOK, StoreOK, Stores, Provenance, CycleInv, CycleOK

\* The store, the channels, the cycle and what is seen of it keep their types; in
\* particular a sink emits only as long as it is active, and a cycle never counts more
\* nodes than there are (run_cycle_impl, deactivate_node, MetricsCollector).
THEOREM EngineTypes == EngineSpec => []EngineTypeOK
  <1>1. EngineInit => StoreOK
    BY StoreInit
  <1>2. TypeOK /\ CycleInv /\ StoreOK /\ [EngineNext]_allVars => StoreOK'
    BY StoreNext
  <1>3. TypeOK /\ CycleInv /\ StoreOK => EngineTypeOK
    BY EngineTypeParts
  <1>. QED
    BY <1>1, <1>2, <1>3, CycleIsSound, EngineIsLifecycle, StaysConnected, PTL DEF EngineSpec
=============================================================================
