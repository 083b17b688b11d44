--------------------------- MODULE AsyncMethodProofs ---------------------------
(***************************************************************************)
(* Lemmas about the methods of module AsyncManager: what each does to the   *)
(* jobs the manager holds and to the slots of its groups.                   *)
(***************************************************************************)
EXTENDS AsyncManager, SequenceTheorems, FiniteSetTheorems, TLAPS

-----------------------------------------------------------------------------
(* Queues as sequences without repetition                                   *)

\* push_back.
LEMMA PushBack ==
    ASSUME NEW S, NEW s \in Seq(S), NEW e \in S
    PROVE  /\ Append(s, e) \in Seq(S)
           /\ Range(Append(s, e)) = Range(s) \cup {e}
           /\ IsInjective(s) /\ e \notin Range(s) => IsInjective(Append(s, e))
  <1>1. DOMAIN s = 1..Len(s) /\ Len(s) \in Nat
    BY LenProperties
  <1>2. /\ Append(s, e) \in Seq(S) /\ DOMAIN Append(s, e) = 1..(Len(s) + 1)
        /\ \A i \in 1..Len(s) : Append(s, e)[i] = s[i]
        /\ Append(s, e)[Len(s) + 1] = e
    BY AppendProperties, LenProperties
  <1>3. \A x \in Range(Append(s, e)) : x \in Range(s) \cup {e}
    BY <1>1, <1>2 DEF Range
  <1>4. \A x \in Range(s) \cup {e} : x \in Range(Append(s, e))
    BY <1>1, <1>2 DEF Range
  <1>5. IsInjective(s) /\ e \notin Range(s) => IsInjective(Append(s, e))
    BY <1>1, <1>2 DEF Range, IsInjective
  <1>. QED
    BY <1>2, <1>3, <1>4, <1>5

\* pop_front.
LEMMA PopFront ==
    ASSUME NEW S, NEW s \in Seq(S), s # <<>>
    PROVE  /\ Head(s) \in S /\ Tail(s) \in Seq(S)
           /\ Range(s) = {Head(s)} \cup Range(Tail(s))
           /\ IsInjective(s) => Head(s) \notin Range(Tail(s)) /\ IsInjective(Tail(s))
  <1>1. DOMAIN s = 1..Len(s) /\ Len(s) \in Nat \ {0} /\ Head(s) = s[1]
    BY LenProperties, EmptySeq
  <1>2. /\ Head(s) \in S /\ Tail(s) \in Seq(S)
        /\ DOMAIN Tail(s) = 1..(Len(s) - 1)
        /\ \A i \in 1..(Len(s) - 1) : Tail(s)[i] = s[i + 1]
    BY HeadTailProperties, LenProperties
  <1>3. ASSUME NEW i \in DOMAIN s
        PROVE  s[i] \in {Head(s)} \cup Range(Tail(s))
    <2>1. i # 1 => i - 1 \in DOMAIN Tail(s) /\ s[i] = Tail(s)[i - 1]
      BY <1>1, <1>2
    <2>. QED
      BY <1>1, <2>1 DEF Range
  <1>4. \A x \in {Head(s)} \cup Range(Tail(s)) : x \in Range(s)
    BY <1>1, <1>2 DEF Range
  <1>5. IsInjective(s) => Head(s) \notin Range(Tail(s)) /\ IsInjective(Tail(s))
    BY <1>1, <1>2 DEF Range, IsInjective
  <1>. QED
    BY <1>2, <1>3, <1>4, <1>5 DEF Range

\* The first k elements of a queue are taken from it.
LEMMA TakeFront ==
    ASSUME NEW S, NEW s \in Seq(S), NEW k \in 0..Len(s)
    PROVE  /\ SubSeq(s, 1, k) \in Seq(S) /\ Len(SubSeq(s, 1, k)) = k
           /\ SubSeq(s, k + 1, Len(s)) \in Seq(S)
           /\ Len(SubSeq(s, k + 1, Len(s))) = Len(s) - k
           /\ Range(s) = Range(SubSeq(s, 1, k)) \cup Range(SubSeq(s, k + 1, Len(s)))
           /\ IsInjective(s) => /\ Range(SubSeq(s, 1, k)) \cap Range(SubSeq(s, k + 1, Len(s))) = {}
                             /\ IsInjective(SubSeq(s, 1, k))
                             /\ IsInjective(SubSeq(s, k + 1, Len(s)))
  <1>. DEFINE a == SubSeq(s, 1, k)
              b == SubSeq(s, k + 1, Len(s))
  <1>1. DOMAIN s = 1..Len(s) /\ Len(s) \in Nat /\ \A i \in DOMAIN s : s[i] \in S
    BY LenProperties, ElementOfSeq
  <1>2. /\ a \in Seq(S) /\ Len(a) = k /\ DOMAIN a = 1..k
        /\ \A i \in 1..k : a[i] = s[i]
    <2>1. /\ a \in Seq(S) /\ Len(a) = IF 1 <= k THEN k - 1 + 1 ELSE 0
          /\ \A i \in 1..(k - 1 + 1) : a[i] = s[1 + i - 1]
      BY <1>1, SubSeqProperties
    <2>2. k \in Nat /\ k - 1 + 1 = k /\ \A i \in 1..k : 1 + i - 1 = i
      BY <1>1
    <2>3. Len(a) = k
      BY <2>1, <2>2
    <2>. QED
      BY <2>1, <2>2, <2>3, LenProperties
  <1>3. /\ b \in Seq(S) /\ Len(b) = Len(s) - k /\ DOMAIN b = 1..(Len(s) - k)
        /\ \A i \in 1..(Len(s) - k) : b[i] = s[k + i]
    <2>1. /\ b \in Seq(S)
          /\ Len(b) = IF k + 1 <= Len(s) THEN Len(s) - (k + 1) + 1 ELSE 0
          /\ \A i \in 1..(Len(s) - (k + 1) + 1) : b[i] = s[k + 1 + i - 1]
      BY <1>1, SubSeqProperties
    <2>. HIDE DEF b
    <2>2. /\ Len(s) - (k + 1) + 1 = Len(s) - k
          /\ \A i \in 1..(Len(s) - k) : k + 1 + i - 1 = k + i
      BY <1>1
    <2>3. Len(b) = Len(s) - k
      <3>1. k \in Int /\ Len(s) \in Int /\ k <= Len(s)
        BY <1>1
      <3>2. Len(b) = IF k + 1 <= Len(s) THEN Len(s) - k ELSE 0
        BY <2>1, <2>2
      <3>. QED
        BY <3>1, <3>2
    <2>. QED
      BY <2>1, <2>2, <2>3, LenProperties
  <1>. HIDE DEF a, b
  <1>4. ASSUME NEW i \in DOMAIN s
        PROVE  s[i] \in Range(a) \cup Range(b)
    <2>1. CASE i <= k
      <3>1. i \in DOMAIN a /\ s[i] = a[i]
        BY <1>1, <1>2, <2>1
      <3>. QED
        BY <3>1 DEF Range
    <2>2. CASE i > k
      <3>1. i - k \in DOMAIN b /\ s[i] = b[i - k]
        BY <1>1, <1>3, <2>2
      <3>. QED
        BY <3>1 DEF Range
    <2>. QED
      BY <1>1, <2>1, <2>2
  <1>5. \A x \in Range(a) \cup Range(b) : x \in Range(s)
    <2>1. \A i \in DOMAIN a : i \in DOMAIN s /\ a[i] = s[i]
      BY <1>1, <1>2
    <2>2. \A i \in DOMAIN b : k + i \in DOMAIN s /\ b[i] = s[k + i]
      BY <1>1, <1>3
    <2>. QED
      BY <2>1, <2>2 DEF Range
  <1>6. ASSUME IsInjective(s)
        PROVE  Range(a) \cap Range(b) = {} /\ IsInjective(a) /\ IsInjective(b)
    <2>1. IsInjective(a)
      BY <1>1, <1>2, <1>6 DEF IsInjective
    <2>2. IsInjective(b)
      <3>. SUFFICES ASSUME NEW i \in 1..(Len(s) - k), NEW h \in 1..(Len(s) - k), b[i] = b[h]
                    PROVE  i = h
        BY <1>3 DEF IsInjective
      <3>1. k + i \in DOMAIN s /\ k + h \in DOMAIN s /\ s[k + i] = s[k + h]
        BY <1>1, <1>3
      <3>2. k + i = k + h
        BY <1>6, <3>1 DEF IsInjective
      <3>. QED
        BY <1>1, <3>2
    <2>3. ASSUME NEW i \in 1..k, NEW h \in 1..(Len(s) - k)
          PROVE  a[i] # b[h]
      <3>1. i \in DOMAIN s /\ k + h \in DOMAIN s /\ i # k + h
        BY <1>1
      <3>. QED
        BY <1>2, <1>3, <1>6, <3>1 DEF IsInjective
    <2>. QED
      BY <1>2, <1>3, <2>1, <2>2, <2>3 DEF Range
  <1>7. Range(s) = Range(a) \cup Range(b)
    BY <1>4, <1>5 DEF Range
  <1>. QED
    BY <1>2, <1>3, <1>6, <1>7 DEF a, b

\* Two disjoint sets together.
LEMMA DisjointCount ==
    ASSUME NEW S, NEW T, IsFiniteSet(S), IsFiniteSet(T), S \cap T = {}
    PROVE  /\ IsFiniteSet(S \cup T) /\ Cardinality(S \cup T) = Cardinality(S) + Cardinality(T)
           /\ Cardinality(S) \in Nat /\ Cardinality(T) \in Nat
  <1>1. /\ IsFiniteSet(S \cup T)
        /\ Cardinality(S \cup T) = Cardinality(S) + Cardinality(T) - Cardinality(S \cap T)
    BY FS_Union
  <1>2. Cardinality(S \cap T) = 0 /\ Cardinality(S) \in Nat /\ Cardinality(T) \in Nat
    BY FS_EmptySet, FS_CardinalityType
  <1>. QED
    BY <1>1, <1>2

\* A queue without repetition has as many elements as places.
LEMMA RangeCount ==
    ASSUME NEW S, NEW s \in Seq(S)
    PROVE  /\ IsFiniteSet(Range(s))
           /\ Cardinality(Range(s)) <= Len(s)
           /\ IsInjective(s) => Cardinality(Range(s)) = Len(s)
  <1>1. DOMAIN s = 1..Len(s) /\ Len(s) \in Nat
    BY LenProperties
  <1>2. IsFiniteSet(1..Len(s)) /\ Cardinality(1..Len(s)) = Len(s)
    BY <1>1, FS_Interval
  <1>3. s \in Surjection(1..Len(s), Range(s))
    BY <1>1 DEF Surjection, Range
  <1>4. IsFiniteSet(Range(s)) /\ Cardinality(Range(s)) <= Len(s)
    BY <1>2, <1>3, FS_Surjection
  <1>5. ASSUME IsInjective(s)
        PROVE  Cardinality(Range(s)) = Len(s)
    <2>1. s \in Injection(1..Len(s), Range(s))
      BY <1>1, <1>5 DEF Injection, IsInjective, Range
    <2>. QED
      BY <1>2, <1>3, <2>1, FS_Surjection
  <1>. QED
    BY <1>4, <1>5

-----------------------------------------------------------------------------
(* A sound manager: whose jobs are where                                    *)

Manager(m) == \E known \in SUBSET Node : m \in ManagerState(known)

\* The jobs of m: with a task, kept back by the Queue policy, or queued in a group.
Live(m) == m.asleep \cup m.running \cup m.aborted
Pend(m, n) == Range(m.node_states[n].pending)
Queued(m, g) == Range(m.groups[g].queue)
Jobs(m) ==
    Live(m) \cup (UNION {Pend(m, n) : n \in DOMAIN m.node_states})
            \cup (UNION {Queued(m, g) : g \in DOMAIN m.groups})

\* Every job is with its own node or in its own node's group, a node has at most one
\* JoinHandle, and only the jobs of nodes without the Queue policy sleep or are aborted.
Owned(m) ==
    /\ \A j \in Live(m) : Known(m, j[1])
    /\ \A n \in DOMAIN m.node_states :
          /\ \A j \in Pend(m, n) : j[1] = n
          /\ \A j \in m.node_states[n].in_flight : j[1] = n
          /\ \A i, j \in m.node_states[n].in_flight : i = j
    /\ \A g \in DOMAIN m.groups : \A j \in Queued(m, g) : Known(m, j[1]) /\ Group(m, j[1]) = g
    /\ \A j \in m.asleep \cup m.aborted : Policy(m, j[1]) # "Queue"

\* No job is in two places.
Apart(m) ==
    /\ m.asleep \cap m.running = {}
    /\ m.asleep \cap m.aborted = {}
    /\ m.running \cap m.aborted = {}
    /\ \A n \in DOMAIN m.node_states :
          IsInjective(m.node_states[n].pending) /\ Pend(m, n) \cap Live(m) = {}
    /\ \A g \in DOMAIN m.groups :
          IsInjective(m.groups[g].queue) /\ Queued(m, g) \cap Live(m) = {}
    /\ \A n \in DOMAIN m.node_states, g \in DOMAIN m.groups : Pend(m, n) \cap Queued(m, g) = {}

Sound(m) ==
    /\ Manager(m) /\ Owned(m) /\ Apart(m)
    /\ IsFiniteSet(m.asleep) /\ IsFiniteSet(m.running)

\* The tasks for which group g counts a slot.
Held(m, g) == {j \in m.asleep \cup m.running : Known(m, j[1]) /\ Group(m, j[1]) = g}

\* The configurations of nodes and groups, which no method changes.
SameConfig(m, m1) ==
    /\ DOMAIN m1.node_states = DOMAIN m.node_states
    /\ \A n \in DOMAIN m.node_states : Policy(m1, n) = Policy(m, n) /\ Group(m1, n) = Group(m, n)
    /\ DOMAIN m1.groups = DOMAIN m.groups
    /\ \A g \in DOMAIN m.groups : m1.groups[g].max_concurrent = m.groups[g].max_concurrent

\* Where a job is.
LEMMA WhereJobsAre ==
    ASSUME NEW m
    PROVE  \A j : j \in Jobs(m) <=>
              \/ j \in Live(m)
              \/ \E n \in DOMAIN m.node_states : j \in Pend(m, n)
              \/ \E g \in DOMAIN m.groups : j \in Queued(m, g)
  <1>. TAKE j
  <1>1. j \in UNION {Pend(m, n) : n \in DOMAIN m.node_states}
          <=> \E n \in DOMAIN m.node_states : j \in Pend(m, n)
    OBVIOUS
  <1>2. j \in UNION {Queued(m, g) : g \in DOMAIN m.groups}
          <=> \E g \in DOMAIN m.groups : j \in Queued(m, g)
    OBVIOUS
  <1>. QED
    BY <1>1, <1>2 DEF Jobs

\* New tasks are new jobs.
LEMMA JobsByParts ==
    ASSUME NEW m, NEW m1, NEW X, Live(m1) = Live(m) \cup X,
           DOMAIN m1.node_states = DOMAIN m.node_states, DOMAIN m1.groups = DOMAIN m.groups,
           \A n \in DOMAIN m.node_states : Pend(m1, n) = Pend(m, n),
           \A g \in DOMAIN m.groups : Queued(m1, g) = Queued(m, g)
    PROVE  Jobs(m1) = Jobs(m) \cup X
  <1>1. \A x \in Jobs(m1) : x \in Jobs(m) \cup X
    BY WhereJobsAre
  <1>2. \A x \in Jobs(m) \cup X : x \in Jobs(m1)
    BY WhereJobsAre
  <1>. QED
    BY <1>1, <1>2

\* The parts of a manager.
LEMMA ManagerFields ==
    ASSUME NEW m, Manager(m)
    PROVE  /\ DOMAIN m.node_states \subseteq Node
           /\ m.node_states \in [DOMAIN m.node_states -> NodeState]
           /\ m.groups \in Seq(GroupState)
           /\ DOMAIN m.groups = 1..Len(m.groups) /\ Len(m.groups) \in Nat
           /\ \A n \in DOMAIN m.node_states :
                 /\ m.node_states[n] \in NodeState
                 /\ Policy(m, n) \in AsyncPolicy /\ Group(m, n) \in Nat
                 /\ m.node_states[n].in_flight \subseteq Job
                 /\ m.node_states[n].pending \in Seq(Job)
           /\ \A g \in DOMAIN m.groups :
                 /\ m.groups[g] \in GroupState
                 /\ m.groups[g].max_concurrent \in Nat
                 /\ m.groups[g].in_flight \in Nat
                 /\ m.groups[g].queue \in Seq(Job)
           /\ m.asleep \subseteq Job /\ m.running \subseteq Job /\ m.aborted \subseteq Job
  <1>1. PICK known \in SUBSET Node : m \in ManagerState(known)
    BY DEF Manager
  <1>2. m.groups \in Seq(GroupState)
    BY <1>1 DEF ManagerState
  <1>3. /\ DOMAIN m.groups = 1..Len(m.groups) /\ Len(m.groups) \in Nat
        /\ \A g \in DOMAIN m.groups : m.groups[g] \in GroupState
    BY <1>2, LenProperties, ElementOfSeq
  <1>4. /\ DOMAIN m.node_states \subseteq Node
        /\ m.node_states \in [DOMAIN m.node_states -> NodeState]
        /\ m.asleep \subseteq Job /\ m.running \subseteq Job /\ m.aborted \subseteq Job
    BY <1>1 DEF ManagerState
  <1>5. \A n \in DOMAIN m.node_states :
          /\ m.node_states[n] \in NodeState
          /\ Policy(m, n) \in AsyncPolicy /\ Group(m, n) \in Nat
          /\ m.node_states[n].in_flight \subseteq Job
          /\ m.node_states[n].pending \in Seq(Job)
    BY <1>4 DEF NodeState, Policy, Group
  <1>. QED
    BY <1>2, <1>3, <1>4, <1>5 DEF GroupState

\* A method that writes one group's state.
LEMMA WriteGroup ==
    ASSUME NEW m, Manager(m), NEW g \in DOMAIN m.groups, NEW gr \in GroupState,
           NEW m1, m1 = [m EXCEPT !.groups = [m.groups EXCEPT ![g] = gr]]
    PROVE  /\ Manager(m1)
           /\ m1.node_states = m.node_states
           /\ m1.asleep = m.asleep /\ m1.running = m.running /\ m1.aborted = m.aborted
           /\ DOMAIN m1.groups = DOMAIN m.groups
           /\ m1.groups[g] = gr
           /\ \A h \in DOMAIN m.groups : h # g => m1.groups[h] = m.groups[h]
  <1>1. PICK known \in SUBSET Node : m \in ManagerState(known)
    BY DEF Manager
  <1>2. [m.groups EXCEPT ![g] = gr] \in Seq(GroupState)
    BY ManagerFields, ExceptSeq
  <1>3. m1 \in ManagerState(known) /\ m1.groups = [m.groups EXCEPT ![g] = gr]
    BY <1>1, <1>2 DEF ManagerState
  <1>4. /\ m1.node_states = m.node_states
        /\ m1.asleep = m.asleep /\ m1.running = m.running /\ m1.aborted = m.aborted
    BY <1>1 DEF ManagerState
  <1>. QED
    BY <1>3, <1>4 DEF Manager

\* Slots that are counted or given back leave the jobs where they are.
LEMMA SlotsSound ==
    ASSUME NEW m, Sound(m), NEW m1, Manager(m1),
           m1.node_states = m.node_states,
           m1.asleep = m.asleep, m1.running = m.running, m1.aborted = m.aborted,
           DOMAIN m1.groups = DOMAIN m.groups,
           \A g \in DOMAIN m.groups :
                /\ m1.groups[g].queue = m.groups[g].queue
                /\ m1.groups[g].max_concurrent = m.groups[g].max_concurrent
    PROVE  /\ Sound(m1) /\ SameConfig(m, m1) /\ Jobs(m1) = Jobs(m)
           /\ \A g \in DOMAIN m.groups : Held(m1, g) = Held(m, g)
  <1>1. Live(m1) = Live(m)
    BY DEF Live
  <1>2. \A n : Known(m1, n) = Known(m, n) /\ Policy(m1, n) = Policy(m, n) /\ Group(m1, n) = Group(m, n)
               /\ Pend(m1, n) = Pend(m, n)
    BY DEF Known, Policy, Group, Pend
  <1>3. \A g \in DOMAIN m.groups : Queued(m1, g) = Queued(m, g)
    BY DEF Queued
  <1>4. Owned(m1)
    BY <1>1, <1>2, <1>3 DEF Sound, Owned
  <1>5. Apart(m1)
    BY <1>1, <1>2, <1>3 DEF Sound, Apart
  <1>6. Jobs(m1) = Jobs(m)
    BY <1>1, <1>2, <1>3 DEF Jobs
  <1>7. \A g \in DOMAIN m.groups : Held(m1, g) = Held(m, g)
    BY <1>2 DEF Held
  <1>. QED
    BY <1>2, <1>4, <1>5, <1>6, <1>7 DEF Sound, SameConfig

\* A slot of n's group is given back, if one is counted.
LEMMA ReleaseSound ==
    ASSUME NEW m, Sound(m), NEW n \in DOMAIN m.node_states, NEW m1, m1 = Release(m, n)
    PROVE  /\ Sound(m1) /\ SameConfig(m, m1) /\ Jobs(m1) = Jobs(m)
           /\ m1.node_states = m.node_states
           /\ m1.asleep = m.asleep /\ m1.running = m.running /\ m1.aborted = m.aborted
           /\ \A g \in DOMAIN m.groups :
                 /\ Held(m1, g) = Held(m, g)
                 /\ m1.groups[g].queue = m.groups[g].queue
                 /\ m1.groups[g].in_flight =
                       IF g = Group(m, n) /\ m.groups[g].in_flight > 0
                       THEN m.groups[g].in_flight - 1 ELSE m.groups[g].in_flight
  <1>1. CASE Grouped(m, n) /\ m.groups[Group(m, n)].in_flight > 0
    <2>1. PICK h : h = Group(m, n)
      OBVIOUS
    <2>2. PICK gr : gr = [m.groups[h] EXCEPT !.in_flight = m.groups[h].in_flight - 1]
      OBVIOUS
    <2>3. h \in DOMAIN m.groups /\ m.groups[h] \in GroupState /\ Manager(m)
      BY <1>1, <2>1, ManagerFields DEF Grouped, Sound
    <2>4. /\ gr \in GroupState /\ gr.queue = m.groups[h].queue
          /\ gr.max_concurrent = m.groups[h].max_concurrent
          /\ gr.in_flight = m.groups[h].in_flight - 1
      BY <1>1, <2>1, <2>2, <2>3 DEF GroupState
    <2>5. m1 = [m EXCEPT !.groups = [m.groups EXCEPT ![h] = gr]]
      BY <1>1, <2>1, <2>2 DEF Release
    <2>6. /\ Manager(m1)
          /\ m1.node_states = m.node_states
          /\ m1.asleep = m.asleep /\ m1.running = m.running /\ m1.aborted = m.aborted
          /\ DOMAIN m1.groups = DOMAIN m.groups
          /\ m1.groups[h] = gr
          /\ \A g \in DOMAIN m.groups : g # h => m1.groups[g] = m.groups[g]
      BY <2>3, <2>4, <2>5, WriteGroup
    <2>7. \A g \in DOMAIN m.groups : /\ m1.groups[g].queue = m.groups[g].queue
                                    /\ m1.groups[g].max_concurrent = m.groups[g].max_concurrent
      BY <2>4, <2>6
    <2>8. /\ Sound(m1) /\ SameConfig(m, m1) /\ Jobs(m1) = Jobs(m)
          /\ \A g \in DOMAIN m.groups : Held(m1, g) = Held(m, g)
      BY <2>6, <2>7, SlotsSound
    <2>. QED
      BY <1>1, <2>1, <2>4, <2>6, <2>7, <2>8
  <1>2. CASE ~(Grouped(m, n) /\ m.groups[Group(m, n)].in_flight > 0)
    <2>1. m1 = m
      BY <1>2 DEF Release
    <2>. QED
      BY <1>2, <2>1 DEF Grouped, SameConfig
  <1>. QED
    BY <1>1, <1>2

\* One is counted.
LEMMA TakeSlotSound ==
    ASSUME NEW m, Sound(m), NEW n \in DOMAIN m.node_states, NEW m1, m1 = TakeSlot(m, n)
    PROVE  /\ Sound(m1) /\ SameConfig(m, m1) /\ Jobs(m1) = Jobs(m)
           /\ m1.node_states = m.node_states
           /\ m1.asleep = m.asleep /\ m1.running = m.running /\ m1.aborted = m.aborted
           /\ \A g \in DOMAIN m.groups :
                 /\ Held(m1, g) = Held(m, g)
                 /\ m1.groups[g].queue = m.groups[g].queue
                 /\ m1.groups[g].in_flight =
                       IF g = Group(m, n) THEN m.groups[g].in_flight + 1
                                          ELSE m.groups[g].in_flight
  <1>1. CASE Grouped(m, n)
    <2>1. PICK h : h = Group(m, n)
      OBVIOUS
    <2>2. PICK gr : gr = [m.groups[h] EXCEPT !.in_flight = m.groups[h].in_flight + 1]
      OBVIOUS
    <2>3. h \in DOMAIN m.groups /\ m.groups[h] \in GroupState /\ Manager(m)
      BY <1>1, <2>1, ManagerFields DEF Grouped, Sound
    <2>4. /\ gr \in GroupState /\ gr.queue = m.groups[h].queue
          /\ gr.max_concurrent = m.groups[h].max_concurrent
          /\ gr.in_flight = m.groups[h].in_flight + 1
      BY <2>2, <2>3 DEF GroupState
    <2>5. m1 = [m EXCEPT !.groups = [m.groups EXCEPT ![h] = gr]]
      BY <1>1, <2>1, <2>2 DEF TakeSlot
    <2>6. /\ Manager(m1)
          /\ m1.node_states = m.node_states
          /\ m1.asleep = m.asleep /\ m1.running = m.running /\ m1.aborted = m.aborted
          /\ DOMAIN m1.groups = DOMAIN m.groups
          /\ m1.groups[h] = gr
          /\ \A g \in DOMAIN m.groups : g # h => m1.groups[g] = m.groups[g]
      BY <2>3, <2>4, <2>5, WriteGroup
    <2>7. \A g \in DOMAIN m.groups : /\ m1.groups[g].queue = m.groups[g].queue
                                    /\ m1.groups[g].max_concurrent = m.groups[g].max_concurrent
      BY <2>4, <2>6
    <2>8. /\ Sound(m1) /\ SameConfig(m, m1) /\ Jobs(m1) = Jobs(m)
          /\ \A g \in DOMAIN m.groups : Held(m1, g) = Held(m, g)
      BY <2>6, <2>7, SlotsSound
    <2>. QED
      BY <2>1, <2>4, <2>6, <2>7, <2>8
  <1>2. CASE ~Grouped(m, n)
    <2>1. m1 = m
      BY <1>2 DEF TakeSlot
    <2>. QED
      BY <1>2, <2>1 DEF Grouped, SameConfig
  <1>. QED
    BY <1>1, <1>2

\* A job joins the queue of its node's group.
LEMMA EnqueueSound ==
    ASSUME NEW m, Sound(m), NEW j \in Job, Known(m, j[1]), Grouped(m, j[1]), j \notin Jobs(m),
           NEW m1, m1 = Enqueue(m, j)
    PROVE  /\ Sound(m1) /\ SameConfig(m, m1) /\ Jobs(m1) = Jobs(m) \cup {j}
           /\ m1.node_states = m.node_states
           /\ m1.asleep = m.asleep /\ m1.running = m.running /\ m1.aborted = m.aborted
           /\ \A g \in DOMAIN m.groups :
                 /\ Held(m1, g) = Held(m, g)
                 /\ m1.groups[g].in_flight = m.groups[g].in_flight
                 /\ g # Group(m, j[1]) => m1.groups[g].queue = m.groups[g].queue
  <1>1. PICK h : h = Group(m, j[1])
    OBVIOUS
  <1>2. PICK gr : gr = [m.groups[h] EXCEPT !.queue = Append(m.groups[h].queue, j)]
    OBVIOUS
  <1>3. /\ h \in DOMAIN m.groups /\ m.groups[h] \in GroupState /\ Manager(m)
        /\ m.groups[h].queue \in Seq(Job)
    BY <1>1, ManagerFields DEF Grouped, Sound
  <1>4. /\ Append(m.groups[h].queue, j) \in Seq(Job)
        /\ Range(Append(m.groups[h].queue, j)) = Queued(m, h) \cup {j}
        /\ IsInjective(Append(m.groups[h].queue, j))
    <2>1. j \notin Queued(m, h)
      BY <1>3, WhereJobsAre
    <2>2. IsInjective(m.groups[h].queue)
      BY <1>3 DEF Sound, Apart
    <2>. QED
      BY <1>3, <2>1, <2>2, PushBack DEF Queued
  <1>5. /\ gr \in GroupState /\ gr.queue = Append(m.groups[h].queue, j)
        /\ gr.max_concurrent = m.groups[h].max_concurrent
        /\ gr.in_flight = m.groups[h].in_flight
    BY <1>2, <1>3, <1>4 DEF GroupState
  <1>6. m1 = [m EXCEPT !.groups = [m.groups EXCEPT ![h] = gr]]
    BY <1>1, <1>2 DEF Enqueue
  <1>7. /\ Manager(m1)
        /\ m1.node_states = m.node_states
        /\ m1.asleep = m.asleep /\ m1.running = m.running /\ m1.aborted = m.aborted
        /\ DOMAIN m1.groups = DOMAIN m.groups
        /\ m1.groups[h] = gr
        /\ \A g \in DOMAIN m.groups : g # h => m1.groups[g] = m.groups[g]
    BY <1>3, <1>5, <1>6, WriteGroup
  <1>8. /\ Live(m1) = Live(m)
        /\ \A n : Known(m1, n) = Known(m, n) /\ Policy(m1, n) = Policy(m, n)
                   /\ Group(m1, n) = Group(m, n) /\ Pend(m1, n) = Pend(m, n)
    BY <1>7 DEF Live, Known, Policy, Group, Pend
  <1>9. /\ Queued(m1, h) = Queued(m, h) \cup {j}
        /\ \A g \in DOMAIN m.groups : g # h => Queued(m1, g) = Queued(m, g)
    BY <1>4, <1>5, <1>7 DEF Queued
  <1>10. Owned(m1)
    BY <1>1, <1>7, <1>8, <1>9 DEF Sound, Owned
  <1>11. Apart(m1)
    <2>1. /\ j \notin Live(m)
          /\ \A n \in DOMAIN m.node_states : j \notin Pend(m, n)
      BY DEF Jobs
    <2>2. \A g \in DOMAIN m.groups :
            IsInjective(m1.groups[g].queue) /\ Queued(m1, g) \cap Live(m1) = {}
      <3>1. IsInjective(m1.groups[h].queue)
        BY <1>4, <1>5, <1>7
      <3>2. Queued(m1, h) \cap Live(m1) = {}
        BY <1>3, <1>8, <1>9, <2>1 DEF Sound, Apart
      <3>3. \A g \in DOMAIN m.groups : g # h =>
              IsInjective(m1.groups[g].queue) /\ Queued(m1, g) \cap Live(m1) = {}
        BY <1>7, <1>8, <1>9 DEF Sound, Apart
      <3>. QED
        BY <3>1, <3>2, <3>3
    <2>3. \A n \in DOMAIN m.node_states, g \in DOMAIN m.groups : Pend(m1, n) \cap Queued(m1, g) = {}
      BY <1>8, <1>9, <2>1 DEF Sound, Apart
    <2>. QED
      BY <1>7, <1>8, <2>2, <2>3 DEF Sound, Apart
  <1>12. Jobs(m1) = Jobs(m) \cup {j}
    <2>1. \A i : i \in Jobs(m1) <=> i \in Jobs(m) \/ i = j
      BY <1>3, <1>7, <1>8, <1>9, WhereJobsAre
    <2>. QED
      BY <2>1
  <1>13. \A g \in DOMAIN m.groups :
          /\ Held(m1, g) = Held(m, g)
          /\ m1.groups[g].in_flight = m.groups[g].in_flight
          /\ m1.groups[g].max_concurrent = m.groups[g].max_concurrent
    BY <1>5, <1>7, <1>8 DEF Held
  <1>. QED
    BY <1>1, <1>7, <1>8, <1>10, <1>11, <1>12, <1>13 DEF Sound, SameConfig

\* m1 is m with another state of n, of the same configuration, and other tasks.
Written(m, m1, n, ns) ==
    /\ Manager(m1) /\ SameConfig(m, m1)
    /\ m1.groups = m.groups
    /\ m1.node_states[n] = ns /\ Pend(m1, n) = Range(ns.pending)
    /\ \A i \in DOMAIN m.node_states :
          i # n => m1.node_states[i] = m.node_states[i] /\ Pend(m1, i) = Pend(m, i)
    /\ \A i : Known(m1, i) = Known(m, i)
    /\ \A i \in DOMAIN m.node_states : Policy(m1, i) = Policy(m, i) /\ Group(m1, i) = Group(m, i)
    /\ \A g \in DOMAIN m.groups : Queued(m1, g) = Queued(m, g)
    /\ \A g, x : x \in Held(m1, g) <=>
          x \in m1.asleep \cup m1.running /\ Known(m, x[1]) /\ Group(m, x[1]) = g

\* A method that writes one node's state, but not its configuration, and moves tasks.
LEMMA WriteNode ==
    ASSUME NEW m, Manager(m), NEW n \in DOMAIN m.node_states, NEW ns \in NodeState,
           ns.policy = Policy(m, n), ns.group_id = Group(m, n),
           NEW m1, m1.asleep \subseteq Job, m1.running \subseteq Job, m1.aborted \subseteq Job,
           m1 = [m EXCEPT !.node_states = [m.node_states EXCEPT ![n] = ns],
                          !.asleep = m1.asleep, !.running = m1.running, !.aborted = m1.aborted]
    PROVE  Written(m, m1, n, ns)
  <1>1. PICK known \in SUBSET Node : m \in ManagerState(known)
    BY DEF Manager
  <1>2. known = DOMAIN m.node_states /\ m.node_states \in [known -> NodeState]
    BY <1>1 DEF ManagerState
  <1>3. /\ m1.node_states = [m.node_states EXCEPT ![n] = ns] /\ m1.groups = m.groups
    BY <1>1 DEF ManagerState
  <1>4. [m.node_states EXCEPT ![n] = ns] \in [known -> NodeState]
    BY <1>2
  <1>5. m1 \in ManagerState(known)
    BY <1>1, <1>4 DEF ManagerState
  <1>6. /\ DOMAIN m1.node_states = DOMAIN m.node_states
        /\ m1.node_states[n] = ns
        /\ \A i \in DOMAIN m.node_states : i # n => m1.node_states[i] = m.node_states[i]
    BY <1>2, <1>3
  <1>7. /\ \A i : Known(m1, i) = Known(m, i)
        /\ \A i \in DOMAIN m.node_states : Policy(m1, i) = Policy(m, i) /\ Group(m1, i) = Group(m, i)
    BY <1>6 DEF Known, Policy, Group
  <1>8. \A g, x : x \in Held(m1, g) <=> x \in m1.asleep \cup m1.running /\ Known(m, x[1]) /\ Group(m, x[1]) = g
    BY <1>3, <1>7 DEF Held, Known
  <1>9. \A g \in DOMAIN m.groups : Queued(m1, g) = Queued(m, g)
    BY <1>3 DEF Queued
  <1>10. SameConfig(m, m1)
    BY <1>3, <1>6, <1>7 DEF SameConfig
  <1>12. /\ Pend(m1, n) = Range(ns.pending)
         /\ \A i \in DOMAIN m.node_states : i # n => Pend(m1, i) = Pend(m, i)
    BY <1>6 DEF Pend
  <1>. QED
    BY <1>3, <1>5, <1>6, <1>7, <1>8, <1>9, <1>10, <1>12 DEF Manager, Written

\* spawn_raw and spawn_debounced with a slot: the jobs in Z sleep first.
Start(m, j, Z) ==
    [m EXCEPT !.node_states[j[1]].in_flight = {j},
              !.asleep = m.asleep \cup Z,
              !.running = m.running \cup ({j} \ Z)]

\* The task of a new job, which starts with its debounce timer when Z = {j}.
LEMMA StartSound ==
    ASSUME NEW m, Sound(m), NEW j \in Job, Known(m, j[1]), j \notin Jobs(m),
           NEW Z \in SUBSET {j}, Z = {} \/ Policy(m, j[1]) # "Queue",
           NEW m1, m1 = Start(m, j, Z)
    PROVE  /\ Sound(m1) /\ SameConfig(m, m1) /\ Jobs(m1) = Jobs(m) \cup {j}
           /\ m1.groups = m.groups
           /\ Live(m1) = Live(m) \cup {j}
           /\ m1.node_states[j[1]] = [m.node_states[j[1]] EXCEPT !.in_flight = {j}]
           /\ \A i \in DOMAIN m.node_states : i # j[1] => m1.node_states[i] = m.node_states[i]
           /\ \A g : Held(m1, g) = Held(m, g) \cup {i \in {j} : Group(m, j[1]) = g}
  <1>1. PICK n : n = j[1]
    OBVIOUS
  <1>2. PICK ns : ns = [m.node_states[n] EXCEPT !.in_flight = {j}]
    OBVIOUS
  <1>3. /\ Manager(m) /\ n \in DOMAIN m.node_states /\ m.node_states[n] \in NodeState
        /\ m.asleep \subseteq Job /\ m.running \subseteq Job /\ m.aborted \subseteq Job
    BY <1>1, ManagerFields DEF Sound, Known
  <1>4. /\ ns \in NodeState /\ ns.policy = Policy(m, n) /\ ns.group_id = Group(m, n)
        /\ ns.in_flight = {j} /\ ns.pending = m.node_states[n].pending
    BY <1>2, <1>3 DEF NodeState, Policy, Group
  <1>a. PICK A : A = m.asleep \cup Z
    OBVIOUS
  <1>r. PICK R : R = m.running \cup ({j} \ Z)
    OBVIOUS
  <1>5. /\ m1.asleep = A /\ m1.running = R /\ m1.aborted = m.aborted
        /\ m1 = [m EXCEPT !.node_states = [m.node_states EXCEPT ![n] = ns],
                          !.asleep = m1.asleep, !.running = m1.running, !.aborted = m1.aborted]
    <2>1. PICK known \in SUBSET Node : m \in ManagerState(known)
      BY <1>3 DEF Manager
    <2>2. m1.asleep = A /\ m1.running = R /\ m1.aborted = m.aborted
      BY <1>a, <1>r, <2>1 DEF ManagerState, Start
    <2>. QED
      BY <1>1, <1>2, <1>a, <1>r, <2>1, <2>2 DEF ManagerState, Start
  <1>6. /\ m1.asleep \subseteq Job /\ m1.running \subseteq Job /\ m1.aborted \subseteq Job
        /\ m1.asleep \cup m1.running = m.asleep \cup m.running \cup {j}
    BY <1>3, <1>5, <1>a, <1>r
  <1>w. Written(m, m1, n, ns)
    BY <1>3, <1>4, <1>5, <1>6, WriteNode
  <1>7. /\ Manager(m1) /\ SameConfig(m, m1)
        /\ m1.groups = m.groups
        /\ m1.asleep = A /\ m1.running = R /\ m1.aborted = m.aborted
        /\ m1.node_states[n] = ns /\ Pend(m1, n) = Range(ns.pending)
        /\ \A i \in DOMAIN m.node_states :
              i # n => m1.node_states[i] = m.node_states[i] /\ Pend(m1, i) = Pend(m, i)
        /\ \A i : Known(m1, i) = Known(m, i)
        /\ \A i \in DOMAIN m.node_states : Policy(m1, i) = Policy(m, i) /\ Group(m1, i) = Group(m, i)
        /\ \A g \in DOMAIN m.groups : Queued(m1, g) = Queued(m, g)
    BY <1>5, <1>w DEF Written
  <1>8. Live(m1) = Live(m) \cup {j}
    BY <1>5, <1>6 DEF Live
  <1>9. \A i \in DOMAIN m.node_states : Pend(m1, i) = Pend(m, i)
    BY <1>4, <1>7 DEF Pend
  <1>10. j \notin Live(m) /\ (\A i \in DOMAIN m.node_states : j \notin Pend(m, i))
         /\ (\A g \in DOMAIN m.groups : j \notin Queued(m, g))
    BY WhereJobsAre
  <1>11. Owned(m1)
    <2>1. \A i \in Live(m1) : Known(m1, i[1])
      BY <1>1, <1>7, <1>8 DEF Sound, Owned
    <2>2. \A i \in DOMAIN m1.node_states :
            /\ \A x \in Pend(m1, i) : x[1] = i
            /\ \A x \in m1.node_states[i].in_flight : x[1] = i
            /\ \A x, y \in m1.node_states[i].in_flight : x = y
      BY <1>1, <1>4, <1>7, <1>9 DEF Sound, Owned, SameConfig
    <2>3. \A g \in DOMAIN m1.groups : \A x \in Queued(m1, g) : Known(m1, x[1]) /\ Group(m1, x[1]) = g
      BY <1>7 DEF Sound, Owned, Known
    <2>4. \A x \in m1.asleep \cup m1.aborted : Policy(m1, x[1]) # "Queue"
      <3>. SUFFICES ASSUME NEW x \in m1.asleep \cup m1.aborted
                    PROVE  Policy(m1, x[1]) # "Queue"
        OBVIOUS
      <3>1. x \in m.asleep \cup m.aborted \/ x \in Z
        BY <1>7, <1>a
      <3>2. x \in m.asleep \cup m.aborted => Policy(m, x[1]) # "Queue" /\ Known(m, x[1])
        BY DEF Sound, Owned, Live
      <3>3. x \in Z => Policy(m, x[1]) # "Queue" /\ Known(m, x[1])
        OBVIOUS
      <3>. QED
        BY <1>7, <3>1, <3>2, <3>3 DEF Known
    <2>. QED
      BY <2>1, <2>2, <2>3, <2>4 DEF Owned
  <1>12. Apart(m1)
    <2>1. /\ m1.asleep \cap m1.running = {}
          /\ m1.asleep \cap m1.aborted = {}
          /\ m1.running \cap m1.aborted = {}
      BY <1>7, <1>10, <1>a, <1>r DEF Live, Sound, Apart
    <2>2. \A i \in DOMAIN m.node_states : m1.node_states[i].pending = m.node_states[i].pending
      BY <1>4, <1>7
    <2>. QED
      BY <1>7, <1>8, <1>9, <1>10, <2>1, <2>2 DEF Sound, Apart, SameConfig
  <1>13. Jobs(m1) = Jobs(m) \cup {j}
    <2>1. DOMAIN m1.node_states = DOMAIN m.node_states /\ DOMAIN m1.groups = DOMAIN m.groups
      BY <1>7 DEF SameConfig
    <2>2. \A g \in DOMAIN m.groups : Queued(m1, g) = Queued(m, g)
      BY <1>7
    <2>. QED
      BY <1>8, <1>9, <2>1, <2>2, JobsByParts
  <1>14. \A g : Held(m1, g) = Held(m, g) \cup {i \in {j} : Group(m, j[1]) = g}
    BY <1>6, <1>w DEF Held, Written
  <1>15. IsFiniteSet(m1.asleep) /\ IsFiniteSet(m1.running)
    <2>1. IsFiniteSet(m.asleep) /\ IsFiniteSet(m.running)
      BY DEF Sound
    <2>2. IsFiniteSet(Z) /\ IsFiniteSet({j} \ Z)
      BY FS_Singleton, FS_Subset
    <2>3. IsFiniteSet(m.asleep \cup Z) /\ IsFiniteSet(m.running \cup ({j} \ Z))
      BY <2>1, <2>2, FS_Union
    <2>. QED
      BY <1>7, <1>a, <1>r, <2>3
  <1>. QED
    BY <1>1, <1>2, <1>7, <1>8, <1>11, <1>12, <1>13, <1>14, <1>15 DEF Sound

\* Tasks that stop, and another JoinHandle or pending queue for n.
LEMMA RewriteSound ==
    ASSUME NEW m, Sound(m), NEW n \in DOMAIN m.node_states, NEW ns \in NodeState,
           NEW m1, Written(m, m1, n, ns),
           \A j \in ns.in_flight : j[1] = n,
           \A i, j \in ns.in_flight : i = j,
           m1.asleep \subseteq m.asleep, m1.running \subseteq m.running,
           m.aborted \subseteq m1.aborted,
           \A j \in m1.aborted : j \in m.aborted \/ j \in m.running \ m1.running,
           m1.aborted = m.aborted \/ Policy(m, n) # "Queue",
           \A j \in m1.aborted \ m.aborted : j[1] = n,
           IsInjective(ns.pending),
           \A j \in Range(ns.pending) : j[1] = n /\ (j \in Pend(m, n) \/ j \notin Jobs(m))
    PROVE  Sound(m1)
  <1>1. /\ Manager(m1)
        /\ DOMAIN m1.node_states = DOMAIN m.node_states /\ DOMAIN m1.groups = DOMAIN m.groups
        /\ m1.groups = m.groups
        /\ m1.node_states[n] = ns /\ Pend(m1, n) = Range(ns.pending)
        /\ \A i \in DOMAIN m.node_states :
              i # n => m1.node_states[i] = m.node_states[i] /\ Pend(m1, i) = Pend(m, i)
        /\ \A i : Known(m1, i) = Known(m, i)
        /\ \A i \in DOMAIN m.node_states : Policy(m1, i) = Policy(m, i) /\ Group(m1, i) = Group(m, i)
        /\ \A g \in DOMAIN m.groups : Queued(m1, g) = Queued(m, g)
    BY DEF Written, SameConfig
  <1>2. \A x \in Live(m1) : x \in Live(m)
    BY DEF Live
  <1>3. Owned(m1)
    <2>1. \A x \in Live(m1) : Known(m1, x[1])
      BY <1>1, <1>2 DEF Sound, Owned
    <2>2. \A i \in DOMAIN m1.node_states :
            /\ \A x \in Pend(m1, i) : x[1] = i
            /\ \A x \in m1.node_states[i].in_flight : x[1] = i
            /\ \A x, y \in m1.node_states[i].in_flight : x = y
      BY <1>1 DEF Sound, Owned
    <2>3. \A g \in DOMAIN m1.groups : \A x \in Queued(m1, g) : Known(m1, x[1]) /\ Group(m1, x[1]) = g
      BY <1>1 DEF Sound, Owned, Known
    <2>4. \A x \in m1.asleep \cup m1.aborted : Policy(m1, x[1]) # "Queue"
      <3>. SUFFICES ASSUME NEW x \in m1.asleep \cup m1.aborted
                    PROVE  Policy(m1, x[1]) # "Queue"
        OBVIOUS
      <3>1. x \in m.asleep \cup m.aborted => Policy(m, x[1]) # "Queue" /\ Known(m, x[1])
        BY DEF Sound, Owned, Live
      <3>2. x \in m1.aborted \ m.aborted => Policy(m, x[1]) # "Queue" /\ x[1] = n
        OBVIOUS
      <3>. QED
        BY <1>1, <3>1, <3>2 DEF Known
    <2>. QED
      BY <2>1, <2>2, <2>3, <2>4 DEF Owned
  <1>4. Apart(m1)
    <2>1. /\ m1.asleep \cap m1.running = {}
          /\ m1.asleep \cap m1.aborted = {}
          /\ m1.running \cap m1.aborted = {}
      BY DEF Sound, Apart
    <2>2. ASSUME NEW i \in DOMAIN m1.node_states
          PROVE  IsInjective(m1.node_states[i].pending) /\ Pend(m1, i) \cap Live(m1) = {}
      <3>1. Pend(m, i) \cap Live(m) = {} /\ IsInjective(m.node_states[i].pending)
        BY <1>1, <2>2 DEF Sound, Apart
      <3>2. \A x \in Range(ns.pending) : x \notin Live(m1)
        BY <1>1, <1>2, WhereJobsAre DEF Sound, Apart
      <3>. QED
        BY <1>1, <1>2, <3>1, <3>2
    <2>3. \A g \in DOMAIN m1.groups :
             IsInjective(m1.groups[g].queue) /\ Queued(m1, g) \cap Live(m1) = {}
      BY <1>1, <1>2 DEF Sound, Apart
    <2>4. ASSUME NEW i \in DOMAIN m1.node_states, NEW g \in DOMAIN m1.groups
          PROVE  Pend(m1, i) \cap Queued(m1, g) = {}
      <3>1. Pend(m, i) \cap Queued(m, g) = {}
        BY <1>1 DEF Sound, Apart
      <3>2. \A x \in Range(ns.pending) : x \notin Queued(m, g)
        <4>1. Pend(m, n) \cap Queued(m, g) = {}
          BY <1>1 DEF Sound, Apart
        <4>. QED
          BY <1>1, <4>1, WhereJobsAre
      <3>. QED
        BY <1>1, <3>1, <3>2
    <2>. QED
      BY <2>1, <2>2, <2>3, <2>4 DEF Apart
  <1>5. IsFiniteSet(m1.asleep) /\ IsFiniteSet(m1.running)
    BY FS_Subset DEF Sound
  <1>. QED
    BY <1>1, <1>3, <1>4, <1>5 DEF Sound

\* handle.abort() on n's JoinHandle, which is then dropped.
Dismiss(m, n) ==
    [Abort(m, m.node_states[n].in_flight) EXCEPT !.node_states[n].in_flight = {}]

\* A dismissed task is gone or told to abort, and holds no slot any more.
LEMMA DismissSound ==
    ASSUME NEW m, Sound(m), NEW n \in DOMAIN m.node_states, Policy(m, n) # "Queue",
           NEW m1, m1 = Dismiss(m, n)
    PROVE  /\ Sound(m1) /\ SameConfig(m, m1) /\ m1.groups = m.groups
           /\ Jobs(m1) \subseteq Jobs(m) /\ Live(m1) \subseteq Live(m)
           /\ \A j \in Jobs(m) \ Jobs(m1) : j[1] = n
           /\ \A i \in DOMAIN m.node_states : i # n => m1.node_states[i] = m.node_states[i]
           /\ \A g : Held(m1, g) = Held(m, g) \ m.node_states[n].in_flight
  <1>1. PICK J : J = m.node_states[n].in_flight
    OBVIOUS
  <1>2. PICK ns : ns = [m.node_states[n] EXCEPT !.in_flight = {}]
    OBVIOUS
  <1>3. /\ Manager(m) /\ m.node_states[n] \in NodeState
        /\ m.asleep \subseteq Job /\ m.running \subseteq Job /\ m.aborted \subseteq Job
    BY ManagerFields DEF Sound
  <1>4. /\ ns \in NodeState /\ ns.policy = Policy(m, n) /\ ns.group_id = Group(m, n)
        /\ ns.in_flight = {} /\ ns.pending = m.node_states[n].pending
    BY <1>2, <1>3 DEF NodeState, Policy, Group
  <1>5. /\ m1.asleep = m.asleep \ J /\ m1.running = m.running \ J
        /\ m1.aborted = m.aborted \cup (m.running \cap J)
        /\ m1 = [m EXCEPT !.node_states = [m.node_states EXCEPT ![n] = ns],
                          !.asleep = m1.asleep, !.running = m1.running, !.aborted = m1.aborted]
    <2>1. PICK known \in SUBSET Node : m \in ManagerState(known)
      BY <1>3 DEF Manager
    <2>2. /\ m1.asleep = m.asleep \ J /\ m1.running = m.running \ J
          /\ m1.aborted = m.aborted \cup (m.running \cap J)
      BY <1>1, <2>1 DEF ManagerState, Dismiss, Abort
    <2>. QED
      BY <1>1, <1>2, <2>1, <2>2 DEF ManagerState, Dismiss, Abort
  <1>6. m1.asleep \subseteq Job /\ m1.running \subseteq Job /\ m1.aborted \subseteq Job
    BY <1>3, <1>5
  <1>7. Written(m, m1, n, ns)
    BY <1>3, <1>4, <1>5, <1>6, WriteNode
  <1>8. \A j \in J : j[1] = n
    BY <1>1 DEF Sound, Owned
  <1>9. Range(ns.pending) = Pend(m, n) /\ IsInjective(ns.pending) /\ \A j \in Pend(m, n) : j[1] = n
    BY <1>4 DEF Pend, Sound, Apart, Owned
  <1>10. Sound(m1)
    <2>1. /\ \A j \in ns.in_flight : j[1] = n
          /\ \A i, j \in ns.in_flight : i = j
      BY <1>4
    <2>2. /\ m1.asleep \subseteq m.asleep /\ m1.running \subseteq m.running
          /\ m.aborted \subseteq m1.aborted
          /\ \A j \in m1.aborted : j \in m.aborted \/ j \in m.running \ m1.running
          /\ \A j \in m1.aborted \ m.aborted : j[1] = n
      BY <1>5, <1>8
    <2>. QED
      BY <1>4, <1>7, <1>9, <2>1, <2>2, RewriteSound
  <1>11. Live(m1) \subseteq Live(m) /\ \A j \in Live(m) \ Live(m1) : j \in J
    BY <1>5 DEF Live
  <1>12. /\ DOMAIN m1.node_states = DOMAIN m.node_states /\ DOMAIN m1.groups = DOMAIN m.groups
         /\ \A i \in DOMAIN m.node_states : Pend(m1, i) = Pend(m, i)
         /\ \A g \in DOMAIN m.groups : Queued(m1, g) = Queued(m, g)
    BY <1>7, <1>9 DEF Written, SameConfig
  <1>13. Jobs(m1) \subseteq Jobs(m) /\ \A j \in Jobs(m) \ Jobs(m1) : j[1] = n
    <2>1. \A j \in Jobs(m1) : j \in Jobs(m)
      BY <1>11, <1>12, WhereJobsAre
    <2>2. \A j \in Jobs(m) : j \in Jobs(m1) \/ j \in J
      BY <1>11, <1>12, WhereJobsAre
    <2>. QED
      BY <1>8, <2>1, <2>2
  <1>14. \A g : Held(m1, g) = Held(m, g) \ J
    BY <1>5, <1>7 DEF Held, Written
  <1>. QED
    BY <1>1, <1>7, <1>10, <1>11, <1>13, <1>14 DEF Written

SetNode(m, n, ns) == [m EXCEPT !.node_states = [m.node_states EXCEPT ![n] = ns]]

\* Another JoinHandle or pending queue for n, and no task touched.
LEMMA SetNodeSound ==
    ASSUME NEW m, Sound(m), NEW n \in DOMAIN m.node_states, NEW ns \in NodeState,
           ns.policy = Policy(m, n), ns.group_id = Group(m, n),
           ns.in_flight \subseteq m.node_states[n].in_flight,
           IsInjective(ns.pending),
           \A j \in Range(ns.pending) : j[1] = n /\ (j \in Pend(m, n) \/ j \notin Jobs(m)),
           NEW m1, m1 = SetNode(m, n, ns)
    PROVE  /\ Sound(m1) /\ SameConfig(m, m1) /\ m1.groups = m.groups
           /\ m1.asleep = m.asleep /\ m1.running = m.running /\ m1.aborted = m.aborted
           /\ Live(m1) = Live(m)
           /\ Jobs(m1) = (Jobs(m) \ Pend(m, n)) \cup Range(ns.pending)
           /\ m1.node_states[n] = ns
           /\ \A i \in DOMAIN m.node_states : i # n => m1.node_states[i] = m.node_states[i]
           /\ \A g : Held(m1, g) = Held(m, g)
  <1>1. /\ Manager(m)
        /\ m.asleep \subseteq Job /\ m.running \subseteq Job /\ m.aborted \subseteq Job
    BY ManagerFields DEF Sound
  <1>2. /\ m1.asleep = m.asleep /\ m1.running = m.running /\ m1.aborted = m.aborted
        /\ m1 = [m EXCEPT !.node_states = [m.node_states EXCEPT ![n] = ns],
                          !.asleep = m1.asleep, !.running = m1.running, !.aborted = m1.aborted]
    <2>1. PICK known \in SUBSET Node : m \in ManagerState(known)
      BY <1>1 DEF Manager
    <2>2. m1.asleep = m.asleep /\ m1.running = m.running /\ m1.aborted = m.aborted
      BY <2>1 DEF ManagerState, SetNode
    <2>. QED
      BY <2>1, <2>2 DEF ManagerState, SetNode
  <1>3. Written(m, m1, n, ns)
    BY <1>1, <1>2, WriteNode
  <1>4. Sound(m1)
    <2>1. /\ \A j \in ns.in_flight : j[1] = n
          /\ \A i, j \in ns.in_flight : i = j
      BY DEF Sound, Owned
    <2>. QED
      BY <1>2, <1>3, <2>1, RewriteSound
  <1>5. Live(m1) = Live(m)
    BY <1>2 DEF Live
  <1>6. /\ DOMAIN m1.node_states = DOMAIN m.node_states /\ DOMAIN m1.groups = DOMAIN m.groups
        /\ Pend(m1, n) = Range(ns.pending)
        /\ \A i \in DOMAIN m.node_states : i # n => Pend(m1, i) = Pend(m, i)
        /\ \A g \in DOMAIN m.groups : Queued(m1, g) = Queued(m, g)
    BY <1>3 DEF Written, SameConfig
  <1>7. Jobs(m1) = (Jobs(m) \ Pend(m, n)) \cup Range(ns.pending)
    <2>1. /\ \A j \in Pend(m, n) : j \notin Live(m)
          /\ \A i \in DOMAIN m.node_states : i # n => \A j \in Pend(m, i) : j \notin Pend(m, n)
          /\ \A g \in DOMAIN m.groups : \A j \in Queued(m, g) : j \notin Pend(m, n)
      BY DEF Sound, Apart, Owned
    <2>2. \A j \in Jobs(m1) : j \in (Jobs(m) \ Pend(m, n)) \cup Range(ns.pending)
      BY <1>5, <1>6, <2>1, WhereJobsAre
    <2>3. \A j \in (Jobs(m) \ Pend(m, n)) \cup Range(ns.pending) : j \in Jobs(m1)
      BY <1>5, <1>6, WhereJobsAre
    <2>. QED
      BY <2>2, <2>3
  <1>8. \A g : Held(m1, g) = Held(m, g)
    BY <1>2, <1>3 DEF Held, Written
  <1>. QED
    BY <1>2, <1>3, <1>4, <1>5, <1>7, <1>8 DEF Written

\* The JoinHandle of n is forgotten.
Forget(m, n) == [m EXCEPT !.node_states[n].in_flight = {}]

\* Only n's JoinHandle changes.
LEMMA ForgetSound ==
    ASSUME NEW m, Sound(m), NEW n \in DOMAIN m.node_states, NEW m1, m1 = Forget(m, n)
    PROVE  /\ Sound(m1) /\ SameConfig(m, m1) /\ m1.groups = m.groups
           /\ m1.asleep = m.asleep /\ m1.running = m.running /\ m1.aborted = m.aborted
           /\ Live(m1) = Live(m) /\ Jobs(m1) = Jobs(m)
           /\ m1.node_states[n] = [m.node_states[n] EXCEPT !.in_flight = {}]
           /\ \A i \in DOMAIN m.node_states : i # n => m1.node_states[i] = m.node_states[i]
           /\ \A g : Held(m1, g) = Held(m, g)
  <1>1. PICK ns : ns = [m.node_states[n] EXCEPT !.in_flight = {}]
    OBVIOUS
  <1>2. m.node_states[n] \in NodeState
    BY ManagerFields DEF Sound
  <1>3. /\ ns \in NodeState /\ ns.policy = Policy(m, n) /\ ns.group_id = Group(m, n)
        /\ ns.in_flight = {} /\ ns.pending = m.node_states[n].pending
    BY <1>1, <1>2 DEF NodeState, Policy, Group
  <1>4. /\ IsInjective(ns.pending) /\ Range(ns.pending) = Pend(m, n)
        /\ \A j \in Range(ns.pending) : j[1] = n
    BY <1>3 DEF Pend, Sound, Apart, Owned
  <1>5. m1 = SetNode(m, n, ns)
    BY <1>1 DEF Forget, SetNode
  <1>6. (Jobs(m) \ Pend(m, n)) \cup Range(ns.pending) = Jobs(m)
    BY <1>4, WhereJobsAre
  <1>7. \A j \in Range(ns.pending) : j[1] = n /\ (j \in Pend(m, n) \/ j \notin Jobs(m))
    BY <1>4
  <1>8. ns.in_flight \subseteq m.node_states[n].in_flight
    BY <1>3
  <1>9. /\ Sound(m1) /\ SameConfig(m, m1) /\ m1.groups = m.groups
        /\ m1.asleep = m.asleep /\ m1.running = m.running /\ m1.aborted = m.aborted
        /\ Live(m1) = Live(m)
        /\ Jobs(m1) = (Jobs(m) \ Pend(m, n)) \cup Range(ns.pending)
        /\ m1.node_states[n] = ns
        /\ \A i \in DOMAIN m.node_states : i # n => m1.node_states[i] = m.node_states[i]
        /\ \A g : Held(m1, g) = Held(m, g)
    BY <1>3, <1>4, <1>5, <1>7, <1>8, SetNodeSound
  <1>. QED
    BY <1>1, <1>6, <1>9

\* The first job kept back for n leaves its pending queue.
Pop(m, n) == [m EXCEPT !.node_states[n].pending = Tail(@)]

\* It is nowhere else then.
LEMMA PopSound ==
    ASSUME NEW m, Sound(m), NEW n \in DOMAIN m.node_states, m.node_states[n].pending # <<>>,
           NEW j, j = Head(m.node_states[n].pending), NEW m1, m1 = Pop(m, n)
    PROVE  /\ Sound(m1) /\ SameConfig(m, m1) /\ m1.groups = m.groups
           /\ m1.asleep = m.asleep /\ m1.running = m.running /\ m1.aborted = m.aborted
           /\ Live(m1) = Live(m)
           /\ j \in Job /\ j[1] = n /\ j \in Jobs(m) /\ Jobs(m1) = Jobs(m) \ {j}
           /\ m1.node_states[n] = [m.node_states[n] EXCEPT !.pending = Tail(m.node_states[n].pending)]
           /\ \A i \in DOMAIN m.node_states : i # n => m1.node_states[i] = m.node_states[i]
           /\ \A g : Held(m1, g) = Held(m, g)
  <1>1. PICK ns : ns = [m.node_states[n] EXCEPT !.pending = Tail(m.node_states[n].pending)]
    OBVIOUS
  <1>2. m.node_states[n] \in NodeState /\ m.node_states[n].pending \in Seq(Job)
    BY ManagerFields DEF Sound
  <1>3. /\ j \in Job /\ Tail(m.node_states[n].pending) \in Seq(Job)
        /\ Pend(m, n) = {j} \cup Range(Tail(m.node_states[n].pending))
        /\ j \notin Range(Tail(m.node_states[n].pending))
        /\ IsInjective(Tail(m.node_states[n].pending))
    <2>1. IsInjective(m.node_states[n].pending)
      BY DEF Sound, Apart
    <2>. QED
      BY <1>2, <2>1, PopFront DEF Pend
  <1>4. /\ ns \in NodeState /\ ns.policy = Policy(m, n) /\ ns.group_id = Group(m, n)
        /\ ns.in_flight = m.node_states[n].in_flight
        /\ ns.pending = Tail(m.node_states[n].pending)
    BY <1>1, <1>2, <1>3 DEF NodeState, Policy, Group
  <1>5. /\ IsInjective(ns.pending) /\ Range(ns.pending) \subseteq Pend(m, n)
        /\ \A x \in Pend(m, n) : x[1] = n
    BY <1>3, <1>4 DEF Sound, Owned
  <1>6. m1 = SetNode(m, n, ns)
    BY <1>1 DEF Pop, SetNode
  <1>7. Pend(m, n) \subseteq Jobs(m)
    BY WhereJobsAre
  <1>8. (Jobs(m) \ Pend(m, n)) \cup Range(ns.pending) = Jobs(m) \ {j} /\ j \in Pend(m, n)
    BY <1>3, <1>4, <1>7
  <1>9. \A x \in Range(ns.pending) : x[1] = n /\ (x \in Pend(m, n) \/ x \notin Jobs(m))
    BY <1>5
  <1>10. ns.in_flight \subseteq m.node_states[n].in_flight
    BY <1>4
  <1>11. /\ Sound(m1) /\ SameConfig(m, m1) /\ m1.groups = m.groups
         /\ m1.asleep = m.asleep /\ m1.running = m.running /\ m1.aborted = m.aborted
         /\ Live(m1) = Live(m)
         /\ Jobs(m1) = (Jobs(m) \ Pend(m, n)) \cup Range(ns.pending)
         /\ m1.node_states[n] = ns
         /\ \A i \in DOMAIN m.node_states : i # n => m1.node_states[i] = m.node_states[i]
         /\ \A g : Held(m1, g) = Held(m, g)
    BY <1>4, <1>5, <1>6, <1>9, <1>10, SetNodeSound
  <1>. QED
    BY <1>1, <1>3, <1>5, <1>7, <1>8, <1>11

\* A new job of a Queue node is kept back while its JoinHandle is set.
KeepBack(m, j) == [m EXCEPT !.node_states[j[1]].pending = Append(@, j)]

\* It is added to its node's pending queue.
LEMMA KeepBackSound ==
    ASSUME NEW m, Sound(m), NEW j \in Job, Known(m, j[1]), j \notin Jobs(m),
           NEW m1, m1 = KeepBack(m, j)
    PROVE  /\ Sound(m1) /\ SameConfig(m, m1) /\ m1.groups = m.groups
           /\ m1.asleep = m.asleep /\ m1.running = m.running /\ m1.aborted = m.aborted
           /\ Live(m1) = Live(m) /\ Jobs(m1) = Jobs(m) \cup {j}
           /\ m1.node_states[j[1]] =
                 [m.node_states[j[1]] EXCEPT !.pending = Append(m.node_states[j[1]].pending, j)]
           /\ \A i \in DOMAIN m.node_states : i # j[1] => m1.node_states[i] = m.node_states[i]
           /\ \A g : Held(m1, g) = Held(m, g)
  <1>1. PICK n : n = j[1]
    OBVIOUS
  <1>2. PICK ns : ns = [m.node_states[n] EXCEPT !.pending = Append(m.node_states[n].pending, j)]
    OBVIOUS
  <1>3. /\ n \in DOMAIN m.node_states /\ m.node_states[n] \in NodeState
        /\ m.node_states[n].pending \in Seq(Job)
    BY <1>1, ManagerFields DEF Sound, Known
  <1>4. /\ Append(m.node_states[n].pending, j) \in Seq(Job)
        /\ Range(Append(m.node_states[n].pending, j)) = Pend(m, n) \cup {j}
        /\ IsInjective(Append(m.node_states[n].pending, j))
    <2>1. IsInjective(m.node_states[n].pending)
      BY <1>3 DEF Sound, Apart
    <2>2. j \notin Pend(m, n)
      BY <1>3, WhereJobsAre
    <2>. QED
      BY <1>3, <2>1, <2>2, PushBack DEF Pend
  <1>5. /\ ns \in NodeState /\ ns.policy = Policy(m, n) /\ ns.group_id = Group(m, n)
        /\ ns.in_flight = m.node_states[n].in_flight
        /\ ns.pending = Append(m.node_states[n].pending, j)
    BY <1>2, <1>3, <1>4 DEF NodeState, Policy, Group
  <1>6. /\ IsInjective(ns.pending) /\ Range(ns.pending) = Pend(m, n) \cup {j}
        /\ \A x \in Pend(m, n) : x[1] = n
    BY <1>3, <1>4, <1>5 DEF Sound, Owned
  <1>7. m1 = SetNode(m, n, ns)
    BY <1>1, <1>2 DEF KeepBack, SetNode
  <1>8. Pend(m, n) \subseteq Jobs(m)
    BY <1>3, WhereJobsAre
  <1>9. (Jobs(m) \ Pend(m, n)) \cup Range(ns.pending) = Jobs(m) \cup {j}
    BY <1>6, <1>8
  <1>10. \A x \in Range(ns.pending) : x[1] = n /\ (x \in Pend(m, n) \/ x \notin Jobs(m))
    BY <1>1, <1>6
  <1>11. ns.in_flight \subseteq m.node_states[n].in_flight
    BY <1>5
  <1>12. /\ Sound(m1) /\ SameConfig(m, m1) /\ m1.groups = m.groups
         /\ m1.asleep = m.asleep /\ m1.running = m.running /\ m1.aborted = m.aborted
         /\ Live(m1) = Live(m)
         /\ Jobs(m1) = (Jobs(m) \ Pend(m, n)) \cup Range(ns.pending)
         /\ m1.node_states[n] = ns
         /\ \A i \in DOMAIN m.node_states : i # n => m1.node_states[i] = m.node_states[i]
         /\ \A g : Held(m1, g) = Held(m, g)
    <2>1. IsInjective(ns.pending)
      BY <1>6
    <2>2. ns.policy = Policy(m, n) /\ ns.group_id = Group(m, n) /\ ns \in NodeState
      BY <1>5
    <2>3. n \in DOMAIN m.node_states
      BY <1>3
    <2>. QED
      BY <1>7, <1>10, <1>11, <2>1, <2>2, <2>3, SetNodeSound
  <1>. QED
    BY <1>1, <1>2, <1>9, <1>12

\* The first trigger of a node: it has no job yet, and no other node is touched.
LEMMA InsertSound ==
    ASSUME NEW m, Sound(m), NEW n \in Node, ~Known(m, n),
           NEW c, c.policy \in AsyncPolicy, c.group_id \in Nat,
           NEW m1, m1 = or_insert(m, n, c)
    PROVE  /\ Sound(m1) /\ Jobs(m1) = Jobs(m) /\ m1.groups = m.groups
           /\ m1.asleep = m.asleep /\ m1.running = m.running /\ m1.aborted = m.aborted
           /\ Live(m1) = Live(m)
           /\ DOMAIN m1.node_states = DOMAIN m.node_states \cup {n}
           /\ m1.node_states[n] = [policy |-> c.policy, group_id |-> c.group_id,
                                   in_flight |-> {}, pending |-> <<>>]
           /\ \A i \in DOMAIN m.node_states : m1.node_states[i] = m.node_states[i]
           /\ \A g : Held(m1, g) = Held(m, g)
           /\ \A j \in Jobs(m) : j[1] # n
  <1>1. PICK ns : ns = [policy |-> c.policy, group_id |-> c.group_id,
                        in_flight |-> {}, pending |-> <<>>]
    OBVIOUS
  <1>2. PICK known \in SUBSET Node : m \in ManagerState(known)
    BY DEF Manager, Sound
  <1>3. known = DOMAIN m.node_states /\ m.node_states \in [known -> NodeState] /\ n \notin known
    BY <1>2 DEF ManagerState, Known
  <1>4. ns \in NodeState /\ ns.policy = c.policy /\ ns.group_id = c.group_id
        /\ ns.in_flight = {} /\ ns.pending = <<>>
    <2>1. <<>> \in Seq(Job)
      BY EmptySeq
    <2>. QED
      BY <1>1, <2>1 DEF NodeState
  <1>5. PICK f : f = [i \in known \cup {n} |-> IF i = n THEN ns ELSE m.node_states[i]]
    OBVIOUS
  <1>6. f \in [known \cup {n} -> NodeState]
    BY <1>3, <1>4, <1>5
  <1>7. m1 = [m EXCEPT !.node_states = f]
    BY <1>1, <1>2, <1>3, <1>5 DEF or_insert, ManagerState, Known
  <1>8. /\ m1 \in ManagerState(known \cup {n}) /\ m1.node_states = f
        /\ m1.groups = m.groups
        /\ m1.asleep = m.asleep /\ m1.running = m.running /\ m1.aborted = m.aborted
    BY <1>2, <1>6, <1>7 DEF ManagerState
  <1>9. /\ DOMAIN m1.node_states = DOMAIN m.node_states \cup {n}
        /\ m1.node_states[n] = ns
        /\ \A i \in DOMAIN m.node_states : m1.node_states[i] = m.node_states[i]
    BY <1>3, <1>5, <1>8
  <1>10. Manager(m1)
    <2>1. known \cup {n} \in SUBSET Node
      OBVIOUS
    <2>. QED
      BY <1>8, <2>1 DEF Manager
  <1>11. /\ Live(m1) = Live(m)
         /\ Pend(m1, n) = {}
         /\ \A i \in DOMAIN m.node_states : Pend(m1, i) = Pend(m, i)
         /\ \A g : Queued(m1, g) = Queued(m, g)
    BY <1>4, <1>8, <1>9 DEF Live, Pend, Queued, Range
  <1>12. \A i \in DOMAIN m.node_states : /\ Known(m1, i) /\ i # n
                                        /\ Policy(m1, i) = Policy(m, i) /\ Group(m1, i) = Group(m, i)
    BY <1>3, <1>9 DEF Known, Policy, Group
  <1>13. /\ \A j \in Live(m) : j[1] \in DOMAIN m.node_states
         /\ \A g \in DOMAIN m.groups : \A j \in Queued(m, g) : j[1] \in DOMAIN m.node_states
         /\ \A i \in DOMAIN m.node_states : \A j \in Pend(m, i) : j[1] = i
    BY DEF Sound, Owned, Known
  <1>14. Owned(m1)
    <2>1. \A j \in Live(m1) : Known(m1, j[1])
      BY <1>11, <1>12, <1>13
    <2>2. \A i \in DOMAIN m1.node_states :
            /\ \A x \in Pend(m1, i) : x[1] = i
            /\ \A x \in m1.node_states[i].in_flight : x[1] = i
            /\ \A x, y \in m1.node_states[i].in_flight : x = y
      BY <1>4, <1>9, <1>11 DEF Sound, Owned
    <2>3. \A g \in DOMAIN m1.groups : \A x \in Queued(m1, g) : Known(m1, x[1]) /\ Group(m1, x[1]) = g
      BY <1>8, <1>11, <1>12, <1>13 DEF Sound, Owned
    <2>4. \A x \in m1.asleep \cup m1.aborted : Policy(m1, x[1]) # "Queue"
      BY <1>8, <1>12, <1>13 DEF Sound, Owned, Live
    <2>. QED
      BY <2>1, <2>2, <2>3, <2>4 DEF Owned
  <1>15. Apart(m1)
    <2>1. IsInjective(m1.node_states[n].pending)
      BY <1>4, <1>9 DEF IsInjective
    <2>2. \A i \in DOMAIN m1.node_states :
            IsInjective(m1.node_states[i].pending) /\ Pend(m1, i) \cap Live(m1) = {}
      BY <1>9, <1>11, <2>1 DEF Sound, Apart
    <2>3. \A i \in DOMAIN m1.node_states, g \in DOMAIN m1.groups : Pend(m1, i) \cap Queued(m1, g) = {}
      BY <1>8, <1>9, <1>11 DEF Sound, Apart
    <2>. QED
      BY <1>8, <1>11, <2>2, <2>3 DEF Sound, Apart
  <1>16. Jobs(m1) = Jobs(m)
    <2>1. \A j \in Jobs(m1) : j \in Jobs(m)
      BY <1>8, <1>9, <1>11, WhereJobsAre
    <2>2. \A j \in Jobs(m) : j \in Jobs(m1)
      BY <1>8, <1>9, <1>11, WhereJobsAre
    <2>. QED
      BY <2>1, <2>2
  <1>17. \A g : Held(m1, g) = Held(m, g)
    <2>1. \A j \in m.asleep \cup m.running : Known(m, j[1]) /\ Known(m1, j[1])
                                             /\ Group(m1, j[1]) = Group(m, j[1])
      BY <1>12, <1>13 DEF Live, Known
    <2>. QED
      BY <1>8, <2>1 DEF Held
  <1>18. \A j \in Jobs(m) : j[1] # n
    BY <1>3, <1>13, WhereJobsAre
  <1>. QED
    BY <1>1, <1>8, <1>9, <1>10, <1>11, <1>14, <1>15, <1>16, <1>17, <1>18 DEF Sound

\* A new group is empty and changes nothing else.
LEMMA GroupSound ==
    ASSUME NEW m, Sound(m), NEW max \in Nat, NEW m1, m1 = create_group(m, max)
    PROVE  /\ Sound(m1) /\ Jobs(m1) = Jobs(m) /\ m1.node_states = m.node_states
           /\ m1.asleep = m.asleep /\ m1.running = m.running /\ m1.aborted = m.aborted
           /\ DOMAIN m1.groups = DOMAIN m.groups \cup {Len(m.groups) + 1}
           /\ Len(m1.groups) = Len(m.groups) + 1
           /\ \A g \in DOMAIN m.groups : m1.groups[g] = m.groups[g]
           /\ m1.groups[Len(m.groups) + 1] = [max_concurrent |-> max, in_flight |-> 0, queue |-> <<>>]
           /\ \A g : Held(m1, g) = Held(m, g)
  <1>1. PICK gr : gr = [max_concurrent |-> max, in_flight |-> 0, queue |-> <<>>]
    OBVIOUS
  <1>2. gr \in GroupState /\ gr.queue = <<>>
    <2>1. <<>> \in Seq(Job)
      BY EmptySeq
    <2>. QED
      BY <1>1, <2>1 DEF GroupState
  <1>3. PICK known \in SUBSET Node : m \in ManagerState(known)
    BY DEF Manager, Sound
  <1>4. /\ m.groups \in Seq(GroupState) /\ Len(m.groups) \in Nat
        /\ DOMAIN m.groups = 1..Len(m.groups)
    BY ManagerFields DEF Sound
  <1>5. PICK G : G = Append(m.groups, gr)
    OBVIOUS
  <1>6. /\ G \in Seq(GroupState) /\ DOMAIN G = DOMAIN m.groups \cup {Len(m.groups) + 1}
        /\ Len(G) = Len(m.groups) + 1
        /\ \A g \in DOMAIN m.groups : G[g] = m.groups[g]
        /\ G[Len(m.groups) + 1] = gr
    BY <1>2, <1>4, <1>5, AppendProperties, LenProperties
  <1>7. m1 = [m EXCEPT !.groups = G]
    BY <1>1, <1>5 DEF create_group
  <1>8. /\ m1 \in ManagerState(known) /\ m1.groups = G /\ m1.node_states = m.node_states
        /\ m1.asleep = m.asleep /\ m1.running = m.running /\ m1.aborted = m.aborted
    BY <1>3, <1>6, <1>7 DEF ManagerState
  <1>9. /\ Live(m1) = Live(m)
        /\ \A i : Known(m1, i) = Known(m, i) /\ Policy(m1, i) = Policy(m, i)
                  /\ Group(m1, i) = Group(m, i) /\ Pend(m1, i) = Pend(m, i)
    BY <1>8 DEF Live, Known, Policy, Group, Pend
  <1>10. /\ \A g \in DOMAIN m.groups : Queued(m1, g) = Queued(m, g)
         /\ Queued(m1, Len(m.groups) + 1) = {}
    BY <1>2, <1>6, <1>8 DEF Queued, Range
  <1>11. Owned(m1)
    BY <1>6, <1>8, <1>9, <1>10 DEF Sound, Owned
  <1>12. Apart(m1)
    <2>1. IsInjective(m1.groups[Len(m.groups) + 1].queue)
      BY <1>2, <1>6, <1>8 DEF IsInjective
    <2>2. \A g \in DOMAIN m1.groups :
            IsInjective(m1.groups[g].queue) /\ Queued(m1, g) \cap Live(m1) = {}
      BY <1>6, <1>8, <1>9, <1>10, <2>1 DEF Sound, Apart
    <2>3. \A n \in DOMAIN m1.node_states, g \in DOMAIN m1.groups : Pend(m1, n) \cap Queued(m1, g) = {}
      BY <1>6, <1>8, <1>9, <1>10 DEF Sound, Apart
    <2>. QED
      BY <1>8, <1>9, <2>2, <2>3 DEF Sound, Apart
  <1>13. Jobs(m1) = Jobs(m)
    <2>1. ASSUME NEW j \in Jobs(m1)
          PROVE  j \in Jobs(m)
      <3>1. CASE j \in Live(m1)
        BY <1>9, <3>1, WhereJobsAre
      <3>2. CASE \E n \in DOMAIN m1.node_states : j \in Pend(m1, n)
        BY <1>8, <1>9, <3>2, WhereJobsAre
      <3>3. CASE \E g \in DOMAIN m1.groups : j \in Queued(m1, g)
        BY <1>6, <1>8, <1>10, <3>3, WhereJobsAre
      <3>. QED
        BY <3>1, <3>2, <3>3, WhereJobsAre
    <2>2. ASSUME NEW j \in Jobs(m)
          PROVE  j \in Jobs(m1)
      <3>1. CASE j \in Live(m)
        BY <1>9, <3>1, WhereJobsAre
      <3>2. CASE \E n \in DOMAIN m.node_states : j \in Pend(m, n)
        BY <1>8, <1>9, <3>2, WhereJobsAre
      <3>3. CASE \E g \in DOMAIN m.groups : j \in Queued(m, g)
        BY <1>6, <1>8, <1>10, <3>3, WhereJobsAre
      <3>. QED
        BY <3>1, <3>2, <3>3, WhereJobsAre
    <2>. QED
      BY <2>1, <2>2
  <1>14. \A g : Held(m1, g) = Held(m, g)
    BY <1>8, <1>9 DEF Held
  <1>. QED
    BY <1>1, <1>6, <1>8, <1>11, <1>12, <1>13, <1>14 DEF Sound, Manager

\* The jobs that a group starts fit in its free slots.
LEMMA StartableFits ==
    ASSUME NEW gr \in GroupState
    PROVE  /\ Startable(gr) \in 0..Len(gr.queue)
           /\ gr.in_flight <= gr.max_concurrent => gr.in_flight + Startable(gr) <= gr.max_concurrent
           /\ /\ gr.in_flight <= gr.max_concurrent
              /\ Startable(gr) < Len(gr.queue)
              => gr.in_flight + Startable(gr) = gr.max_concurrent
  <1>1. gr.queue \in Seq(Job) /\ gr.in_flight \in Nat /\ gr.max_concurrent \in Nat
    BY DEF GroupState
  <1>2. Len(gr.queue) \in Nat
    BY <1>1, LenProperties
  <1>3. PICK a \in Nat, b \in Nat, l \in Nat :
           a = gr.max_concurrent /\ b = gr.in_flight /\ l = Len(gr.queue)
    BY <1>1, <1>2
  <1>4. PICK s : s = Startable(gr)
    OBVIOUS
  <1>5. s = IF a - b <= 0 THEN 0 ELSE IF l <= a - b THEN l ELSE a - b
    BY <1>3, <1>4 DEF Startable
  <1>6. /\ s \in 0..l
        /\ b <= a => b + s <= a
        /\ b <= a /\ s < l => b + s = a
    BY <1>5
  <1>. QED
    BY <1>3, <1>4, <1>6

\* A node's last job in s, if it has one, is one of its jobs in s.
LEMMA LastOfSound ==
    ASSUME NEW S, NEW s \in Seq(S), NEW n
    PROVE  /\ \A j \in LastOf(n, s) : j \in Range(s) /\ j[1] = n
           /\ \A i, j \in LastOf(n, s) : i = j
  <1>1. DOMAIN s = 1..Len(s) /\ Len(s) \in Nat
    BY LenProperties
  <1>2. \A j \in LastOf(n, s) :
          \E i \in 1..Len(s) : j = s[i] /\ s[i][1] = n /\ \A h \in (i + 1)..Len(s) : s[h][1] # n
    BY <1>1 DEF LastOf
  <1>3. \A j \in LastOf(n, s) : j \in Range(s) /\ j[1] = n
    BY <1>1, <1>2 DEF Range
  <1>4. ASSUME NEW i \in LastOf(n, s), NEW j \in LastOf(n, s)
        PROVE  i = j
    <2>1. PICK a \in 1..Len(s) : i = s[a] /\ s[a][1] = n /\ \A h \in (a + 1)..Len(s) : s[h][1] # n
      BY <1>2
    <2>2. PICK b \in 1..Len(s) : j = s[b] /\ s[b][1] = n /\ \A h \in (b + 1)..Len(s) : s[h][1] # n
      BY <1>2
    <2>3. ~(a < b) /\ ~(b < a)
      BY <1>1, <2>1, <2>2
    <2>. QED
      BY <1>1, <2>1, <2>2, <2>3
  <1>. QED
    BY <1>3, <1>4

\* The free slots of group g are filled from its queue: jobs become tasks of g.
LEMMA PullSound ==
    ASSUME NEW m, Sound(m), NEW g \in DOMAIN m.groups,
           NEW k, k = Startable(m.groups[g]),
           NEW m1, m1 = try_spawn_from_group_queue(m, g)
    PROVE  /\ Sound(m1) /\ SameConfig(m, m1) /\ Jobs(m1) = Jobs(m)
           /\ k \in 0..Len(m.groups[g].queue)
           /\ m1.groups[g].in_flight = m.groups[g].in_flight + k
           /\ Len(m1.groups[g].queue) = Len(m.groups[g].queue) - k
           /\ \A h \in DOMAIN m.groups : h # g => m1.groups[h] = m.groups[h]
           /\ \A i \in DOMAIN m.node_states :
                 Group(m, i) # g => m1.node_states[i] = m.node_states[i]
           /\ \A j \in Live(m1) : j \in Live(m) \/ Group(m, j[1]) = g
           /\ m1.asleep = m.asleep /\ m1.aborted = m.aborted
           /\ \A h : h # g => Held(m1, h) = Held(m, h)
           /\ Cardinality(Held(m1, g)) = Cardinality(Held(m, g)) + k
  <1>1. PICK q : q = m.groups[g].queue
    OBVIOUS
  <1>2. PICK a : a = SubSeq(q, 1, k)
    OBVIOUS
  <1>3. PICK b : b = SubSeq(q, k + 1, Len(q))
    OBVIOUS
  <1>4. PICK known \in SUBSET Node : m \in ManagerState(known)
    BY DEF Manager, Sound
  <1>5. /\ known = DOMAIN m.node_states /\ m.node_states \in [known -> NodeState]
        /\ m.groups \in Seq(GroupState) /\ m.groups[g] \in GroupState
        /\ m.groups[g].in_flight \in Nat
        /\ q \in Seq(Job) /\ Len(q) \in Nat
        /\ m.asleep \subseteq Job /\ m.running \subseteq Job /\ m.aborted \subseteq Job
    BY <1>1, <1>4, ManagerFields, LenProperties DEF Sound, ManagerState
  <1>6. k \in 0..Len(q) /\ k \in Nat
    BY <1>1, <1>5, StartableFits
  <1>7. IsInjective(q) /\ Range(q) = Queued(m, g)
    BY <1>1 DEF Sound, Apart, Queued
  <1>8. /\ a \in Seq(Job) /\ Len(a) = k /\ b \in Seq(Job) /\ Len(b) = Len(q) - k
        /\ Queued(m, g) = Range(a) \cup Range(b) /\ Range(a) \cap Range(b) = {}
        /\ IsInjective(a) /\ IsInjective(b)
    BY <1>2, <1>3, <1>5, <1>6, <1>7, TakeFront
  <1>9. PICK gr : gr = [m.groups[g] EXCEPT !.in_flight = m.groups[g].in_flight + k, !.queue = b]
    OBVIOUS
  <1>10. /\ gr \in GroupState /\ gr.queue = b /\ gr.in_flight = m.groups[g].in_flight + k
         /\ gr.max_concurrent = m.groups[g].max_concurrent
    <2>1. m.groups[g].in_flight + k \in Nat
      BY <1>5, <1>6
    <2>. QED
      BY <1>5, <1>8, <1>9, <2>1 DEF GroupState
  <1>11. PICK ns : ns = [n \in known |-> IF LastOf(n, a) = {} THEN m.node_states[n]
                                        ELSE [m.node_states[n] EXCEPT !.in_flight = LastOf(n, a)]]
    OBVIOUS
  <1>12. /\ \A n : \A j \in LastOf(n, a) : j \in Range(a) /\ j[1] = n
         /\ \A n : \A i, j \in LastOf(n, a) : i = j
    BY <1>8, LastOfSound
  <1>13. Range(a) \subseteq Job /\ IsFiniteSet(Range(a)) /\ Cardinality(Range(a)) = k
    <2>1. Range(a) \subseteq Job
      BY <1>8, LenProperties, ElementOfSeq DEF Range
    <2>. QED
      BY <1>8, <2>1, RangeCount
  <1>14. ASSUME NEW n \in known
         PROVE  /\ ns[n] \in NodeState
                /\ ns[n].policy = m.node_states[n].policy
                /\ ns[n].group_id = m.node_states[n].group_id
                /\ ns[n].pending = m.node_states[n].pending
                /\ ns[n].in_flight = m.node_states[n].in_flight \/ ns[n].in_flight = LastOf(n, a)
                /\ LastOf(n, a) = {} => ns[n] = m.node_states[n]
    <2>1. m.node_states[n] \in NodeState /\ LastOf(n, a) \subseteq Job
      BY <1>5, <1>12, <1>13
    <2>. QED
      BY <1>11, <2>1 DEF NodeState
  <1>15. ns \in [known -> NodeState]
    BY <1>11, <1>14
  <1>16. PICK G : G = [m.groups EXCEPT ![g] = gr]
    OBVIOUS
  <1>17. /\ G \in Seq(GroupState) /\ DOMAIN G = DOMAIN m.groups /\ G[g] = gr
         /\ \A h \in DOMAIN m.groups : h # g => G[h] = m.groups[h]
    BY <1>5, <1>10, <1>16, ExceptSeq
  <1>18. m1 = [m EXCEPT !.groups = G, !.running = m.running \cup Range(a), !.node_states = ns]
    BY <1>1, <1>2, <1>3, <1>4, <1>5, <1>9, <1>11, <1>16, ZenonT(30)
       DEF try_spawn_from_group_queue, ManagerState
  <1>19. /\ m1 \in ManagerState(known) /\ m1.groups = G /\ m1.node_states = ns
         /\ m1.asleep = m.asleep /\ m1.running = m.running \cup Range(a) /\ m1.aborted = m.aborted
    BY <1>4, <1>5, <1>13, <1>15, <1>17, <1>18 DEF ManagerState
  <1>20. /\ DOMAIN m1.node_states = DOMAIN m.node_states
         /\ \A i : Known(m1, i) = Known(m, i)
         /\ \A i \in DOMAIN m.node_states :
               /\ Policy(m1, i) = Policy(m, i) /\ Group(m1, i) = Group(m, i)
               /\ m1.node_states[i].pending = m.node_states[i].pending
               /\ Pend(m1, i) = Pend(m, i)
    BY <1>5, <1>11, <1>14, <1>19 DEF Known, Policy, Group, Pend
  <1>21. /\ DOMAIN m1.groups = DOMAIN m.groups /\ m1.groups[g] = gr
         /\ \A h \in DOMAIN m.groups : h # g => m1.groups[h] = m.groups[h] /\ Queued(m1, h) = Queued(m, h)
         /\ Queued(m1, g) = Range(b)
    BY <1>10, <1>17, <1>19 DEF Queued
  <1>22. Live(m1) = Live(m) \cup Range(a)
    BY <1>19 DEF Live
  <1>23. \A j \in Queued(m, g) : /\ Known(m, j[1]) /\ Group(m, j[1]) = g /\ j \notin Live(m)
                                /\ \A i \in DOMAIN m.node_states : j \notin Pend(m, i)
    BY DEF Sound, Owned, Apart
  <1>24. \A h \in DOMAIN m.groups : h # g => Queued(m, h) \cap Queued(m, g) = {}
    BY DEF Sound, Owned
  <1>25. SameConfig(m, m1)
    BY <1>10, <1>20, <1>21 DEF SameConfig
  <1>26. Owned(m1)
    <2>1. \A j \in Live(m1) : Known(m1, j[1])
      BY <1>8, <1>20, <1>22, <1>23 DEF Sound, Owned
    <2>2. ASSUME NEW i \in DOMAIN m1.node_states
          PROVE  /\ \A x \in Pend(m1, i) : x[1] = i
                 /\ \A x \in m1.node_states[i].in_flight : x[1] = i
                 /\ \A x, y \in m1.node_states[i].in_flight : x = y
      <3>1. i \in known /\ i \in DOMAIN m.node_states
        BY <1>5, <1>20
      <3>2. \/ m1.node_states[i].in_flight = m.node_states[i].in_flight
            \/ m1.node_states[i].in_flight = LastOf(i, a)
        BY <1>14, <1>19, <3>1
      <3>. QED
        BY <1>12, <1>20, <3>1, <3>2 DEF Sound, Owned
    <2>3. \A h \in DOMAIN m1.groups : \A x \in Queued(m1, h) : Known(m1, x[1]) /\ Group(m1, x[1]) = h
      <3>1. \A h \in DOMAIN m.groups : Queued(m1, h) \subseteq Queued(m, h)
        BY <1>8, <1>21
      <3>2. \A h \in DOMAIN m.groups : \A x \in Queued(m, h) : Known(m, x[1]) /\ Group(m, x[1]) = h
        BY DEF Sound, Owned
      <3>. QED
        BY <1>20, <1>21, <3>1, <3>2 DEF Known
    <2>4. \A x \in m1.asleep \cup m1.aborted : Policy(m1, x[1]) # "Queue"
      BY <1>19, <1>20 DEF Sound, Owned, Live, Known
    <2>. QED
      BY <2>1, <2>2, <2>3, <2>4 DEF Owned
  <1>27. Apart(m1)
    <2>1. /\ m1.asleep \cap m1.running = {}
          /\ m1.asleep \cap m1.aborted = {}
          /\ m1.running \cap m1.aborted = {}
      BY <1>8, <1>19, <1>23 DEF Live, Sound, Apart
    <2>2. \A i \in DOMAIN m1.node_states :
            IsInjective(m1.node_states[i].pending) /\ Pend(m1, i) \cap Live(m1) = {}
      BY <1>8, <1>20, <1>22, <1>23 DEF Sound, Apart
    <2>3. \A h \in DOMAIN m1.groups :
            IsInjective(m1.groups[h].queue) /\ Queued(m1, h) \cap Live(m1) = {}
      <3>1. IsInjective(m1.groups[g].queue) /\ Queued(m1, g) \cap Live(m1) = {}
        BY <1>8, <1>10, <1>21, <1>22, <1>23
      <3>2. \A h \in DOMAIN m.groups : h # g =>
              IsInjective(m1.groups[h].queue) /\ Queued(m1, h) \cap Live(m1) = {}
        BY <1>8, <1>21, <1>22, <1>24 DEF Sound, Apart
      <3>. QED
        BY <1>21, <3>1, <3>2
    <2>4. \A i \in DOMAIN m1.node_states, h \in DOMAIN m1.groups : Pend(m1, i) \cap Queued(m1, h) = {}
      <3>1. \A h \in DOMAIN m.groups : Queued(m1, h) \subseteq Queued(m, h)
        BY <1>8, <1>21
      <3>. QED
        BY <1>20, <1>21, <3>1 DEF Sound, Apart
    <2>. QED
      BY <2>1, <2>2, <2>3, <2>4 DEF Apart
  <1>28. Jobs(m1) = Jobs(m)
    <2>1. \A j \in Jobs(m1) : j \in Jobs(m)
      BY <1>8, <1>20, <1>21, <1>22, WhereJobsAre
    <2>2. \A j \in Jobs(m) : j \in Jobs(m1)
      BY <1>8, <1>20, <1>21, <1>22, WhereJobsAre
    <2>. QED
      BY <2>1, <2>2
  <1>29. \A h, x : x \in Held(m1, h) <=>
            x \in m.asleep \cup m.running \cup Range(a) /\ Known(m, x[1]) /\ Group(m, x[1]) = h
    BY <1>19, <1>20 DEF Held, Known
  <1>30. \A h : h # g => Held(m1, h) = Held(m, h)
    <2>1. \A x \in Range(a) : Group(m, x[1]) = g
      BY <1>8, <1>23
    <2>. SUFFICES ASSUME NEW h, h # g
                  PROVE  Held(m1, h) = Held(m, h)
      OBVIOUS
    <2>2. \A x : x \in Held(m1, h) <=> x \in Held(m, h)
      BY <1>29, <2>1 DEF Held
    <2>. QED
      BY <2>2
  <1>31. Cardinality(Held(m1, g)) = Cardinality(Held(m, g)) + k
    <2>1. Held(m1, g) = Held(m, g) \cup Range(a) /\ Held(m, g) \cap Range(a) = {}
      <3>1. \A x \in Range(a) : Known(m, x[1]) /\ Group(m, x[1]) = g /\ x \notin Live(m)
        BY <1>8, <1>23
      <3>. QED
        BY <1>29, <3>1 DEF Held, Live
    <2>2. IsFiniteSet(Held(m, g))
      <3>1. IsFiniteSet(m.asleep \cup m.running) /\ Held(m, g) \subseteq m.asleep \cup m.running
        BY FS_Union DEF Sound, Held
      <3>. QED
        BY <3>1, FS_Subset
    <2>. QED
      BY <1>13, <2>1, <2>2, DisjointCount
  <1>32. IsFiniteSet(m1.running) /\ IsFiniteSet(m1.asleep)
    <2>1. IsFiniteSet(m.running) /\ IsFiniteSet(m.asleep)
      BY DEF Sound
    <2>2. IsFiniteSet(m.running \cup Range(a))
      BY <1>13, <2>1, FS_Union
    <2>. QED
      BY <1>19, <2>1, <2>2
  <1>33. \A i \in DOMAIN m.node_states : Group(m, i) # g => m1.node_states[i] = m.node_states[i]
    BY <1>5, <1>8, <1>12, <1>14, <1>19, <1>23
  <1>. QED
    BY <1>1, <1>4, <1>6, <1>8, <1>10, <1>19, <1>21, <1>22, <1>23, <1>25, <1>26, <1>27, <1>28, <1>30, <1>31,
       <1>32, <1>33 DEF Sound, Manager

-----------------------------------------------------------------------------
(* What the methods do to jobs and slots                                    *)

Load(m, g) == Cardinality(Held(m, g))
Slots(m, g) == m.groups[g].in_flight

\* WorkConserving of a manager m, ...
Filled(m) ==
    \A g \in DOMAIN m.groups :
        /\ m.groups[g].in_flight <= m.groups[g].max_concurrent
        /\ m.groups[g].queue # <<>> => m.groups[g].in_flight = m.groups[g].max_concurrent

\* ... but for one slot in the group of n.
FilledBut(m, n) ==
    \A g \in DOMAIN m.groups :
        /\ m.groups[g].in_flight <= m.groups[g].max_concurrent
        /\ m.groups[g].queue # <<>> =>
              \/ m.groups[g].in_flight = m.groups[g].max_concurrent
              \/ g = Group(m, n) /\ m.groups[g].in_flight + 1 = m.groups[g].max_concurrent

\* try_spawn and spawn_debounced: the jobs in Z sleep first.
Place(m, j, Z) ==
    IF Full(m, j[1]) THEN Enqueue(m, j) ELSE Start(TakeSlot(m, j[1]), j, Z)

\* The sets of tasks are finite, and so is what a group holds.
LEMMA LoadIsNat ==
    ASSUME NEW m, Sound(m), NEW g
    PROVE  IsFiniteSet(Held(m, g)) /\ Load(m, g) \in Nat
  <1>1. IsFiniteSet(m.asleep \cup m.running) /\ Held(m, g) \subseteq m.asleep \cup m.running
    BY FS_Union DEF Sound, Held
  <1>2. IsFiniteSet(Held(m, g))
    BY <1>1, FS_Subset
  <1>. QED
    BY <1>2, FS_CardinalityType DEF Load

\* m1 is m with one job more, which holds a slot or waits for one.
Placed(m, m1, j) ==
    /\ Sound(m1) /\ SameConfig(m, m1) /\ Jobs(m1) = Jobs(m) \cup {j}
    /\ \A i \in DOMAIN m.node_states : i # j[1] => m1.node_states[i] = m.node_states[i]
    /\ \A i \in Live(m1) : i \in Live(m) \/ i = j
    /\ ~Grouped(m, j[1]) =>
          m1.node_states[j[1]] = [m.node_states[j[1]] EXCEPT !.in_flight = {j}]
    /\ \A g \in DOMAIN m.groups : Slots(m1, g) + Load(m, g) = Slots(m, g) + Load(m1, g)
    /\ FilledBut(m, j[1]) => Filled(m1)

\* One job more: it holds a slot, or waits for one of a group that is full.
LEMMA PlaceSound ==
    ASSUME NEW m, Sound(m), NEW j \in Job, Known(m, j[1]), j \notin Jobs(m),
           NEW Z \in SUBSET {j}, Z = {} \/ Policy(m, j[1]) # "Queue",
           NEW m1, m1 = Place(m, j, Z)
    PROVE  Placed(m, m1, j)
  <1>1. PICK n : n = j[1]
    OBVIOUS
  <1>2. n \in DOMAIN m.node_states /\ Manager(m)
    BY <1>1 DEF Known, Sound
  <1>3. \A g \in DOMAIN m.groups :
          /\ m.groups[g].max_concurrent \in Nat /\ m.groups[g].in_flight \in Nat
          /\ Load(m, g) \in Nat
    BY <1>2, ManagerFields, LoadIsNat
  <1>4. CASE Full(m, n)
    <2>1. m1 = Enqueue(m, j) /\ Grouped(m, n)
      BY <1>1, <1>4 DEF Place, Full
    <2>2. /\ Sound(m1) /\ SameConfig(m, m1) /\ Jobs(m1) = Jobs(m) \cup {j}
          /\ m1.node_states = m.node_states
          /\ m1.asleep = m.asleep /\ m1.running = m.running /\ m1.aborted = m.aborted
          /\ \A g \in DOMAIN m.groups :
                /\ Held(m1, g) = Held(m, g)
                /\ m1.groups[g].in_flight = m.groups[g].in_flight
                /\ g # Group(m, n) => m1.groups[g].queue = m.groups[g].queue
      BY <1>1, <2>1, EnqueueSound
    <2>3. Live(m1) = Live(m)
      BY <2>2 DEF Live
    <2>4. \A g \in DOMAIN m.groups : Slots(m1, g) + Load(m, g) = Slots(m, g) + Load(m1, g)
      BY <2>2 DEF Slots, Load
    <2>5. FilledBut(m, n) => Filled(m1)
      <3>. SUFFICES ASSUME FilledBut(m, n), NEW g \in DOMAIN m.groups
                    PROVE  /\ m1.groups[g].in_flight <= m1.groups[g].max_concurrent
                           /\ m1.groups[g].queue # <<>> =>
                                 m1.groups[g].in_flight = m1.groups[g].max_concurrent
        BY <2>2 DEF Filled, SameConfig
      <3>1. /\ m1.groups[g].in_flight = m.groups[g].in_flight
            /\ m1.groups[g].max_concurrent = m.groups[g].max_concurrent
        BY <2>2 DEF SameConfig
      <3>2. CASE g = Group(m, n)
        <4>1. m.groups[g].in_flight >= m.groups[g].max_concurrent
          BY <1>4, <3>2 DEF Full
        <4>. QED
          BY <1>3, <3>1, <4>1 DEF FilledBut
      <3>3. CASE g # Group(m, n)
        BY <2>2, <3>1, <3>3 DEF FilledBut
      <3>. QED
        BY <3>2, <3>3
    <2>. QED
      BY <1>1, <2>1, <2>2, <2>3, <2>4, <2>5 DEF Placed
  <1>5. CASE ~Full(m, n)
    <2>1. PICK t : t = TakeSlot(m, n)
      OBVIOUS
    <2>2. m1 = Start(t, j, Z)
      BY <1>1, <1>5, <2>1 DEF Place
    <2>3. /\ Sound(t) /\ SameConfig(m, t) /\ Jobs(t) = Jobs(m)
          /\ t.node_states = m.node_states
          /\ t.asleep = m.asleep /\ t.running = m.running /\ t.aborted = m.aborted
          /\ \A g \in DOMAIN m.groups :
                /\ Held(t, g) = Held(m, g)
                /\ t.groups[g].queue = m.groups[g].queue
                /\ t.groups[g].in_flight =
                      IF g = Group(m, n) THEN m.groups[g].in_flight + 1
                                         ELSE m.groups[g].in_flight
      BY <1>2, <2>1, TakeSlotSound
    <2>4. Known(t, n) /\ Policy(t, n) = Policy(m, n) /\ Group(t, n) = Group(m, n)
      BY <1>2, <2>3 DEF Known, Policy, Group
    <2>5. /\ Sound(m1) /\ SameConfig(t, m1) /\ Jobs(m1) = Jobs(t) \cup {j}
          /\ m1.groups = t.groups
          /\ Live(m1) = Live(t) \cup {j}
          /\ m1.node_states[n] = [t.node_states[n] EXCEPT !.in_flight = {j}]
          /\ \A i \in DOMAIN t.node_states : i # n => m1.node_states[i] = t.node_states[i]
          /\ \A g : Held(m1, g) = Held(t, g) \cup {i \in {j} : Group(t, n) = g}
      BY <1>1, <2>2, <2>3, <2>4, StartSound
    <2>6. SameConfig(m, m1)
      BY <2>3, <2>5 DEF SameConfig
    <2>7. Live(t) = Live(m)
      BY <2>3 DEF Live
    <2>8. ASSUME NEW g \in DOMAIN m.groups
          PROVE  Slots(m1, g) + Load(m, g) = Slots(m, g) + Load(m1, g)
      <3>1. CASE g = Group(m, n)
        <4>1. Held(m1, g) = Held(m, g) \cup {j}
          BY <2>3, <2>4, <2>5, <3>1
        <4>2. j \notin Held(m, g)
          BY WhereJobsAre DEF Held, Live
        <4>3. Load(m1, g) = Load(m, g) + 1
          BY <4>1, <4>2, LoadIsNat, FS_AddElement DEF Load
        <4>. QED
          BY <1>3, <2>3, <2>5, <3>1, <4>3 DEF Slots
      <3>2. CASE g # Group(m, n)
        <4>1. Held(m1, g) = Held(m, g)
          <5>1. {i \in {j} : Group(t, n) = g} = {}
            BY <2>4, <3>2
          <5>2. Held(m1, g) = Held(t, g) \cup {} /\ Held(t, g) = Held(m, g)
            BY <2>3, <2>5, <5>1
          <5>. QED
            BY <5>2
        <4>. QED
          BY <2>3, <2>5, <3>2, <4>1 DEF Slots, Load
      <3>. QED
        BY <3>1, <3>2
    <2>9. FilledBut(m, n) => Filled(m1)
      <3>. SUFFICES ASSUME FilledBut(m, n), NEW g \in DOMAIN m.groups
                    PROVE  /\ m1.groups[g].in_flight <= m1.groups[g].max_concurrent
                           /\ m1.groups[g].queue # <<>> =>
                                 m1.groups[g].in_flight = m1.groups[g].max_concurrent
        BY <2>6 DEF Filled, SameConfig
      <3>1. /\ m1.groups[g].in_flight = t.groups[g].in_flight
            /\ m1.groups[g].queue = m.groups[g].queue
            /\ m1.groups[g].max_concurrent = m.groups[g].max_concurrent
        BY <2>3, <2>5, <2>6 DEF SameConfig
      <3>2. CASE g = Group(m, n)
        <4>1. ~(m.groups[g].in_flight >= m.groups[g].max_concurrent)
          BY <1>5, <3>2 DEF Full, Grouped
        <4>. QED
          BY <1>3, <2>3, <3>1, <3>2, <4>1 DEF FilledBut
      <3>3. CASE g # Group(m, n)
        BY <2>3, <3>1, <3>3 DEF FilledBut
      <3>. QED
        BY <3>2, <3>3
    <2>10. /\ \A i \in DOMAIN m.node_states : i # n => m1.node_states[i] = m.node_states[i]
           /\ \A i \in Live(m1) : i \in Live(m) \/ i = j
           /\ m1.node_states[n] = [m.node_states[n] EXCEPT !.in_flight = {j}]
           /\ Jobs(m1) = Jobs(m) \cup {j}
      BY <2>3, <2>5, <2>7
    <2>. QED
      BY <1>1, <2>5, <2>6, <2>8, <2>9, <2>10 DEF Placed
  <1>. QED
    BY <1>1, <1>4, <1>5

\* A cancelled task's slot is given back: at most one place is freed in its group.
LEMMA CancelSound ==
    ASSUME NEW m, Sound(m), NEW n \in DOMAIN m.node_states, Policy(m, n) # "Queue",
           NEW m1, m1 = Cancel(m, n)
    PROVE  /\ Sound(m1) /\ SameConfig(m, m1)
           /\ Jobs(m1) \subseteq Jobs(m) /\ \A j \in Jobs(m) \ Jobs(m1) : j[1] = n
           /\ \A i \in DOMAIN m.node_states : i # n => m1.node_states[i] = m.node_states[i]
           /\ Live(m1) \subseteq Live(m)
           /\ \A g \in DOMAIN m.groups :
                 Slots(m1, g) = 0 \/ Slots(m1, g) + Load(m, g) <= Slots(m, g) + Load(m1, g)
           /\ \A g \in DOMAIN m.groups :
                 g # Group(m, n) => Slots(m1, g) = Slots(m, g) /\ Load(m1, g) = Load(m, g)
           /\ Filled(m) => FilledBut(m1, n)
  <1>. DEFINE J == m.node_states[n].in_flight
  <1>0. Manager(m) /\ \A g \in DOMAIN m.groups :
            /\ Slots(m, g) \in Nat /\ Load(m, g) \in Nat
            /\ m.groups[g].in_flight \in Nat /\ m.groups[g].max_concurrent \in Nat
    BY ManagerFields, LoadIsNat DEF Sound, Slots
  <1>1. CASE J = {}
    <2>1. m1 = m
      BY <1>1 DEF Cancel
    <2>. QED
      BY <1>0, <2>1 DEF SameConfig, Filled, FilledBut
  <1>2. CASE J # {}
    <2>1. PICK d : d = Dismiss(m, n)
      OBVIOUS
    <2>2. m1 = Release(d, n)
      BY <1>2, <2>1 DEF Cancel, Dismiss
    <2>3. /\ Sound(d) /\ SameConfig(m, d) /\ d.groups = m.groups
          /\ Jobs(d) \subseteq Jobs(m) /\ Live(d) \subseteq Live(m)
          /\ \A j \in Jobs(m) \ Jobs(d) : j[1] = n
          /\ \A i \in DOMAIN m.node_states : i # n => d.node_states[i] = m.node_states[i]
          /\ \A g : Held(d, g) = Held(m, g) \ J
      BY <2>1, DismissSound
    <2>4. n \in DOMAIN d.node_states /\ Group(d, n) = Group(m, n)
      BY <2>3 DEF SameConfig
    <2>5. /\ Sound(m1) /\ SameConfig(d, m1) /\ Jobs(m1) = Jobs(d)
          /\ m1.node_states = d.node_states
          /\ m1.asleep = d.asleep /\ m1.running = d.running /\ m1.aborted = d.aborted
          /\ \A g \in DOMAIN d.groups :
                /\ Held(m1, g) = Held(d, g)
                /\ m1.groups[g].queue = d.groups[g].queue
                /\ m1.groups[g].in_flight =
                      IF g = Group(d, n) /\ d.groups[g].in_flight > 0
                      THEN d.groups[g].in_flight - 1 ELSE d.groups[g].in_flight
      BY <2>2, <2>3, <2>4, ReleaseSound
    <2>6. SameConfig(m, m1)
      BY <2>3, <2>5 DEF SameConfig
    <2>7. Live(m1) = Live(d)
      BY <2>5 DEF Live
    <2>8. PICK x \in J : J = {x} /\ x[1] = n
      BY <1>2 DEF Sound, Owned
    <2>9. ASSUME NEW g \in DOMAIN m.groups
          PROVE  /\ Load(m1, g) \in Nat /\ Load(m, g) <= Load(m1, g) + 1
                 /\ g # Group(m, n) => Load(m1, g) = Load(m, g)
      <3>1. Held(m1, g) = Held(m, g) \ {x}
        BY <2>3, <2>5, <2>8
      <3>2. IsFiniteSet(Held(m, g)) /\ Load(m, g) \in Nat
        BY LoadIsNat
      <3>3. CASE x \in Held(m, g)
        <4>1. Cardinality(Held(m, g) \ {x}) = Cardinality(Held(m, g)) - 1
          BY <3>2, <3>3, FS_RemoveElement
        <4>2. g = Group(m, n)
          BY <2>8, <3>3 DEF Held
        <4>3. Load(m1, g) = Load(m, g) - 1 /\ Load(m1, g) \in Nat
          BY <2>5, <3>1, <4>1, LoadIsNat DEF Load
        <4>. QED
          BY <3>2, <4>2, <4>3
      <3>4. CASE x \notin Held(m, g)
        <4>1. Held(m1, g) = Held(m, g)
          BY <3>1, <3>4
        <4>. QED
          BY <3>2, <4>1 DEF Load
      <3>. QED
        BY <3>3, <3>4
    <2>10. \A g \in DOMAIN m.groups :
              /\ m1.groups[g].queue = m.groups[g].queue
              /\ m1.groups[g].max_concurrent = m.groups[g].max_concurrent
              /\ m1.groups[g].in_flight =
                      IF g = Group(m, n) /\ m.groups[g].in_flight > 0
                      THEN m.groups[g].in_flight - 1 ELSE m.groups[g].in_flight
      BY <2>3, <2>4, <2>5, <2>6 DEF SameConfig
    <2>11. \A g \in DOMAIN m.groups :
              /\ Slots(m1, g) = 0 \/ Slots(m1, g) + Load(m, g) <= Slots(m, g) + Load(m1, g)
              /\ g # Group(m, n) => Slots(m1, g) = Slots(m, g) /\ Load(m1, g) = Load(m, g)
      <3>1. \A g \in DOMAIN m.groups :
              Slots(m1, g) = 0 \/ Slots(m1, g) + Load(m, g) <= Slots(m, g) + Load(m1, g)
        <4>. SUFFICES ASSUME NEW g \in DOMAIN m.groups
                      PROVE  Slots(m1, g) = 0 \/ Slots(m1, g) + Load(m, g) <= Slots(m, g) + Load(m1, g)
          OBVIOUS
        <4>1. Slots(m1, g) = IF g = Group(m, n) /\ Slots(m, g) > 0
                             THEN Slots(m, g) - 1 ELSE Slots(m, g)
          BY <2>10 DEF Slots
        <4>. QED
          BY <1>0, <2>9, <4>1
      <3>2. \A g \in DOMAIN m.groups :
              g # Group(m, n) => Slots(m1, g) = Slots(m, g) /\ Load(m1, g) = Load(m, g)
        BY <2>9, <2>10 DEF Slots
      <3>. QED
        BY <3>1, <3>2
    <2>12. Filled(m) => FilledBut(m1, n)
      <3>. SUFFICES ASSUME Filled(m), NEW g \in DOMAIN m.groups
                    PROVE  /\ m1.groups[g].in_flight <= m1.groups[g].max_concurrent
                           /\ m1.groups[g].queue # <<>> =>
                                \/ m1.groups[g].in_flight = m1.groups[g].max_concurrent
                                \/ /\ g = Group(m1, n)
                                   /\ m1.groups[g].in_flight + 1 = m1.groups[g].max_concurrent
        BY <2>6 DEF FilledBut, SameConfig
      <3>1. Group(m1, n) = Group(m, n)
        BY <2>6 DEF SameConfig
      <3>2. /\ m.groups[g].in_flight <= m.groups[g].max_concurrent
            /\ m.groups[g].queue # <<>> => m.groups[g].in_flight = m.groups[g].max_concurrent
        BY DEF Filled
      <3>. QED
        BY <1>0, <2>10, <3>1, <3>2
    <2>. QED
      BY <2>3, <2>5, <2>6, <2>7, <2>11, <2>12
  <1>. QED
    BY <1>1, <1>2

\* The number of slots counted for g after one for n is given back.
Freed(m, n, g) ==
    IF g = Group(m, n) /\ Slots(m, g) > 0 THEN Slots(m, g) - 1 ELSE Slots(m, g)

\* The freed slot of n goes to the jobs queued in its group.
LEMMA SettleSound ==
    ASSUME NEW m, Sound(m), NEW n \in DOMAIN m.node_states, NEW m1, m1 = Settle(m, n)
    PROVE  /\ Sound(m1) /\ SameConfig(m, m1) /\ Jobs(m1) = Jobs(m)
           /\ \A i \in DOMAIN m.node_states :
                 i # n /\ ~Grouped(m, i) => m1.node_states[i] = m.node_states[i]
           /\ ~Grouped(m, n) => m1.node_states[n] = [m.node_states[n] EXCEPT !.in_flight = {}]
           /\ \A j \in Live(m1) : j \in Live(m) \/ Grouped(m, j[1])
           /\ \A g \in DOMAIN m.groups :
                 Slots(m1, g) + Load(m, g) = Freed(m, n, g) + Load(m1, g)
           /\ Filled(m) => Filled(m1)
  <1>1. PICK f : f = Forget(m, n)
    OBVIOUS
  <1>2. /\ Sound(f) /\ SameConfig(m, f) /\ f.groups = m.groups
        /\ f.asleep = m.asleep /\ f.running = m.running /\ f.aborted = m.aborted
        /\ Live(f) = Live(m) /\ Jobs(f) = Jobs(m)
        /\ f.node_states[n] = [m.node_states[n] EXCEPT !.in_flight = {}]
        /\ \A i \in DOMAIN m.node_states : i # n => f.node_states[i] = m.node_states[i]
        /\ \A g : Held(f, g) = Held(m, g)
    BY <1>1, ForgetSound
  <1>3. PICK r : r = Release(f, n)
    OBVIOUS
  <1>4. /\ n \in DOMAIN f.node_states /\ Group(f, n) = Group(m, n)
        /\ DOMAIN f.groups = DOMAIN m.groups
    BY <1>2 DEF SameConfig
  <1>5. /\ Sound(r) /\ SameConfig(f, r) /\ Jobs(r) = Jobs(f)
        /\ r.node_states = f.node_states
        /\ r.asleep = f.asleep /\ r.running = f.running /\ r.aborted = f.aborted
        /\ \A g \in DOMAIN f.groups :
              /\ Held(r, g) = Held(f, g)
              /\ r.groups[g].queue = f.groups[g].queue
              /\ r.groups[g].in_flight =
                    IF g = Group(f, n) /\ f.groups[g].in_flight > 0
                    THEN f.groups[g].in_flight - 1 ELSE f.groups[g].in_flight
    BY <1>2, <1>3, <1>4, ReleaseSound
  <1>6. SameConfig(m, r)
    BY <1>2, <1>5 DEF SameConfig
  <1>7. Live(r) = Live(m)
    BY <1>2, <1>5 DEF Live
  <1>8. \A g \in DOMAIN m.groups :
          /\ Slots(r, g) = Freed(m, n, g) /\ Load(r, g) = Load(m, g)
          /\ r.groups[g].queue = m.groups[g].queue
          /\ r.groups[g].max_concurrent = m.groups[g].max_concurrent
    BY <1>2, <1>4, <1>5, <1>6 DEF Slots, Load, Freed, SameConfig
  <1>9. /\ DOMAIN r.groups = DOMAIN m.groups
        /\ \A g \in DOMAIN m.groups :
              /\ Slots(m, g) \in Nat /\ Slots(r, g) \in Nat /\ Load(m, g) \in Nat
              /\ r.groups[g] \in GroupState
              /\ m.groups[g].max_concurrent \in Nat
    BY <1>5, <1>6, ManagerFields, LoadIsNat DEF Slots, Sound, SameConfig
  <1>10. m1 = IF Grouped(m, n) THEN try_spawn_from_group_queue(r, Group(m, n)) ELSE r
    BY <1>1, <1>3 DEF Settle, Forget
  <1>11. /\ \A i \in DOMAIN m.node_states : i # n => r.node_states[i] = m.node_states[i]
         /\ r.node_states[n] = [m.node_states[n] EXCEPT !.in_flight = {}]
         /\ Jobs(r) = Jobs(m)
    BY <1>2, <1>5
  <1>12. CASE ~Grouped(m, n)
    <2>1. m1 = r
      BY <1>10, <1>12
    <2>2. \A g \in DOMAIN m.groups : Freed(m, n, g) = Slots(m, g)
      BY <1>12 DEF Freed, Grouped
    <2>3. Filled(m) => Filled(m1)
      BY <1>8, <1>9, <2>1, <2>2 DEF Filled, Slots
    <2>. QED
      BY <1>5, <1>6, <1>7, <1>8, <1>11, <2>1, <2>3
  <1>13. CASE Grouped(m, n)
    <2>1. PICK h \in DOMAIN m.groups : h = Group(m, n)
      BY <1>13 DEF Grouped
    <2>2. PICK k : k = Startable(r.groups[h])
      OBVIOUS
    <2>3. m1 = try_spawn_from_group_queue(r, h)
      BY <1>10, <1>13, <2>1
    <2>4. /\ Sound(m1) /\ SameConfig(r, m1) /\ Jobs(m1) = Jobs(r)
          /\ k \in 0..Len(r.groups[h].queue)
          /\ m1.groups[h].in_flight = r.groups[h].in_flight + k
          /\ Len(m1.groups[h].queue) = Len(r.groups[h].queue) - k
          /\ \A g \in DOMAIN r.groups : g # h => m1.groups[g] = r.groups[g]
          /\ \A i \in DOMAIN r.node_states :
                Group(r, i) # h => m1.node_states[i] = r.node_states[i]
          /\ \A j \in Live(m1) : j \in Live(r) \/ Group(r, j[1]) = h
          /\ \A g : g # h => Held(m1, g) = Held(r, g)
          /\ Cardinality(Held(m1, h)) = Cardinality(Held(r, h)) + k
      <3>1. Sound(r) /\ h \in DOMAIN r.groups
        BY <1>5, <1>9
      <3>. QED
        BY <2>2, <2>3, <3>1, PullSound
    <2>5. SameConfig(m, m1)
      BY <1>6, <2>4 DEF SameConfig
    <2>6. \A g \in DOMAIN m.groups :
            Slots(m1, g) + Load(m, g) = Freed(m, n, g) + Load(m1, g)
      <3>. SUFFICES ASSUME NEW g \in DOMAIN m.groups
                    PROVE  Slots(m1, g) + Load(m, g) = Freed(m, n, g) + Load(m1, g)
        OBVIOUS
      <3>1. CASE g = h
        <4>1. Slots(m1, g) = Slots(r, g) + k /\ Load(m1, g) = Load(r, g) + k
          BY <2>4, <3>1 DEF Slots, Load
        <4>2. k \in Nat
          BY <2>4
        <4>. QED
          BY <1>8, <1>9, <4>1, <4>2
      <3>2. CASE g # h
        <4>1. Slots(m1, g) = Slots(r, g) /\ Load(m1, g) = Load(r, g)
          BY <1>9, <2>4, <3>2 DEF Slots, Load
        <4>. QED
          BY <1>8, <1>9, <4>1
      <3>. QED
        BY <3>1, <3>2
    <2>7. Filled(m) => Filled(m1)
      <3>. SUFFICES ASSUME Filled(m), NEW g \in DOMAIN m.groups
                    PROVE  /\ m1.groups[g].in_flight <= m1.groups[g].max_concurrent
                           /\ m1.groups[g].queue # <<>> =>
                                 m1.groups[g].in_flight = m1.groups[g].max_concurrent
        BY <2>5 DEF Filled, SameConfig
      <3>1. /\ m.groups[g].in_flight <= m.groups[g].max_concurrent
            /\ m.groups[g].queue # <<>> => m.groups[g].in_flight = m.groups[g].max_concurrent
        BY DEF Filled
      <3>2. m1.groups[g].max_concurrent = r.groups[g].max_concurrent
        BY <1>8, <2>5 DEF SameConfig
      <3>3. CASE g = h
        <4>1. r.groups[g].in_flight <= r.groups[g].max_concurrent
          BY <1>8, <1>9, <3>1 DEF Slots, Freed
        <4>2. m1.groups[g] \in GroupState
          BY <2>4, <2>5, ManagerFields DEF Sound, SameConfig
        <4>3. m1.groups[g].queue # <<>> => Len(m1.groups[g].queue) > 0
          BY <4>2, EmptySeq, LenProperties DEF GroupState
        <4>4. Len(r.groups[g].queue) \in Nat
          BY <1>9, LenProperties DEF GroupState
        <4>5. k < Len(r.groups[g].queue) \/ Len(m1.groups[g].queue) = 0
          BY <2>4, <3>3, <4>4
        <4>6. /\ m1.groups[g].in_flight <= r.groups[g].max_concurrent
              /\ k < Len(r.groups[g].queue) => m1.groups[g].in_flight = r.groups[g].max_concurrent
          BY <1>9, <2>2, <2>4, <3>3, <4>1, StartableFits
        <4>. QED
          BY <3>2, <4>3, <4>5, <4>6
      <3>4. CASE g # h
        <4>1. m1.groups[g] = r.groups[g] /\ Slots(r, g) = Slots(m, g)
          BY <1>8, <1>9, <2>1, <2>4, <3>4 DEF Freed
        <4>. QED
          BY <1>8, <3>1, <4>1 DEF Slots
      <3>. QED
        BY <3>3, <3>4
    <2>8. /\ DOMAIN r.node_states = DOMAIN m.node_states
          /\ \A i \in DOMAIN m.node_states : Group(r, i) = Group(m, i)
      BY <1>6 DEF SameConfig
    <2>9. \A i \in DOMAIN m.node_states :
            i # n /\ ~Grouped(m, i) => m1.node_states[i] = m.node_states[i]
      BY <1>11, <2>1, <2>4, <2>8 DEF Grouped
    <2>10. \A j \in Live(m1) : j \in Live(m) \/ Grouped(m, j[1])
      <3>1. \A j \in Live(m1) : j[1] \in DOMAIN m.node_states
        BY <2>4, <2>5 DEF Sound, Owned, Known, SameConfig
      <3>. QED
        BY <1>7, <2>1, <2>4, <2>8, <3>1 DEF Grouped
    <2>. QED
      BY <1>11, <1>13, <2>4, <2>5, <2>6, <2>7, <2>9, <2>10
  <1>. QED
    BY <1>12, <1>13

\* The two ways to start a task.
LEMMA SpawnsPlace ==
    ASSUME NEW m, Sound(m), NEW j, Known(m, j[1])
    PROVE  try_spawn(m, j) = Place(m, j, {}) /\ spawn_debounced(m, j) = Place(m, j, {j})
  <1>1. PICK t : t = TakeSlot(m, j[1])
    OBVIOUS
  <1>2. Sound(t)
    BY <1>1, TakeSlotSound DEF Known
  <1>3. PICK known \in SUBSET Node : t \in ManagerState(known)
    BY <1>2 DEF Sound, Manager
  <1>4. t.asleep \cup {} = t.asleep /\ {j} \ {} = {j} /\ {j} \ {j} = {} /\ t.running \cup {} = t.running
    OBVIOUS
  <1>5. Start(t, j, {}) = spawn_raw(t, j)
    BY <1>3, <1>4 DEF Start, spawn_raw, ManagerState
  <1>6. Start(t, j, {j}) = [t EXCEPT !.node_states[j[1]].in_flight = {j},
                                     !.asleep = t.asleep \cup {j}]
    BY <1>3, <1>4 DEF Start, ManagerState
  <1>. QED
    BY <1>1, <1>5, <1>6 DEF Place, try_spawn, spawn_debounced

\* m1 is m after a completion of node n, whose pending queue was pending.
Completed(m, m1, n, pending) ==
    /\ Sound(m1) /\ SameConfig(m, m1) /\ Jobs(m1) = Jobs(m)
    /\ \A i \in DOMAIN m.node_states :
          i # n /\ ~Grouped(m, i) => m1.node_states[i] = m.node_states[i]
    /\ Policy(m, n) = "Queue" /\ pending # <<>> /\ ~Grouped(m, n) =>
          m1.node_states[n] = [m.node_states[n] EXCEPT !.in_flight = {Head(pending)},
                                                       !.pending = Tail(pending)]
    /\ Policy(m, n) = "Queue" /\ pending = <<>> /\ ~Grouped(m, n) =>
          m1.node_states[n] = [m.node_states[n] EXCEPT !.in_flight = {}]
    /\ \A j \in Live(m1) : \/ j \in Live(m) \/ Grouped(m, j[1])
                           \/ pending # <<>> /\ j = Head(pending)
    /\ \A g \in DOMAIN m.groups :
          Slots(m1, g) + Load(m, g) = Freed(m, n, g) + Load(m1, g)
    /\ Filled(m) => Filled(m1)

\* A completion gives back one slot of its node's group, if one is counted, and neither
\* loses nor adds a job.
LEMMA CompletionSound ==
    ASSUME NEW m, Sound(m), NEW n \in DOMAIN m.node_states,
           NEW m1, m1 = process_completion(m, n),
           NEW pending, pending = m.node_states[n].pending
    PROVE  Completed(m, m1, n, pending)
  <1>1. CASE ~(Policy(m, n) = "Queue" /\ pending # <<>>)
    <2>1. m1 = Settle(m, n)
      BY <1>1 DEF process_completion
    <2>. QED
      BY <1>1, <2>1, SettleSound DEF Completed
  <1>2. CASE Policy(m, n) = "Queue" /\ pending # <<>>
    <2>1. PICK j : j = Head(pending)
      OBVIOUS
    <2>2. PICK p : p = Pop(m, n)
      OBVIOUS
    <2>3. PICK s : s = Settle(p, n)
      OBVIOUS
    <2>4. m1 = try_spawn(s, j)
      BY <1>2, <2>1, <2>2, <2>3 DEF process_completion, Pop
    <2>5. /\ Sound(p) /\ SameConfig(m, p) /\ p.groups = m.groups
          /\ Live(p) = Live(m)
          /\ j \in Job /\ j[1] = n /\ j \in Jobs(m) /\ Jobs(p) = Jobs(m) \ {j}
          /\ p.node_states[n] = [m.node_states[n] EXCEPT !.pending = Tail(pending)]
          /\ \A i \in DOMAIN m.node_states : i # n => p.node_states[i] = m.node_states[i]
          /\ \A g : Held(p, g) = Held(m, g)
      <3>1. m.node_states[n].pending # <<>> /\ j = Head(m.node_states[n].pending)
        BY <1>2, <2>1
      <3>. QED
        BY <2>2, <3>1, PopSound
    <2>6. /\ n \in DOMAIN p.node_states
          /\ \A i \in DOMAIN m.node_states : Group(p, i) = Group(m, i) /\ Grouped(p, i) = Grouped(m, i)
      BY <2>5 DEF SameConfig, Grouped
    <2>7. /\ Sound(s) /\ SameConfig(p, s) /\ Jobs(s) = Jobs(p)
          /\ \A i \in DOMAIN p.node_states :
                i # n /\ ~Grouped(p, i) => s.node_states[i] = p.node_states[i]
          /\ ~Grouped(p, n) => s.node_states[n] = [p.node_states[n] EXCEPT !.in_flight = {}]
          /\ \A i \in Live(s) : i \in Live(p) \/ Grouped(p, i[1])
          /\ \A g \in DOMAIN p.groups :
                Slots(s, g) + Load(p, g) = Freed(p, n, g) + Load(s, g)
          /\ Filled(p) => Filled(s)
      <3>1. Sound(p) /\ n \in DOMAIN p.node_states
        BY <2>5, <2>6
      <3>. QED
        BY <2>3, <3>1, SettleSound
    <2>8. SameConfig(m, s) /\ j \notin Jobs(s) /\ Known(s, j[1])
      BY <2>5, <2>7 DEF SameConfig, Known
    <2>9. m1 = Place(s, j, {})
      BY <2>4, <2>7, <2>8, SpawnsPlace
    <2>10. /\ Sound(m1) /\ SameConfig(s, m1) /\ Jobs(m1) = Jobs(s) \cup {j}
           /\ \A i \in DOMAIN s.node_states : i # j[1] => m1.node_states[i] = s.node_states[i]
           /\ \A i \in Live(m1) : i \in Live(s) \/ i = j
           /\ ~Grouped(s, j[1]) =>
                 m1.node_states[j[1]] = [s.node_states[j[1]] EXCEPT !.in_flight = {j}]
           /\ \A g \in DOMAIN s.groups : Slots(m1, g) + Load(s, g) = Slots(s, g) + Load(m1, g)
           /\ FilledBut(s, j[1]) => Filled(m1)
      <3>1. {} \in SUBSET {j}
        OBVIOUS
      <3>. QED
        BY <2>5, <2>7, <2>8, <2>9, <3>1, PlaceSound DEF Placed
    <2>11. SameConfig(m, m1)
      BY <2>8, <2>10 DEF SameConfig
    <2>12. Jobs(m1) = Jobs(m)
      BY <2>5, <2>7, <2>10
    <2>13. \A i \in DOMAIN m.node_states :
              i # n /\ ~Grouped(m, i) => m1.node_states[i] = m.node_states[i]
      BY <2>5, <2>6, <2>7, <2>8, <2>10 DEF SameConfig
    <2>14. ~Grouped(m, n) => m1.node_states[n] = [m.node_states[n] EXCEPT !.in_flight = {j},
                                                                      !.pending = Tail(pending)]
      <3>. SUFFICES ASSUME ~Grouped(m, n)
                    PROVE  m1.node_states[n] = [m.node_states[n] EXCEPT !.in_flight = {j},
                                                                      !.pending = Tail(pending)]
        OBVIOUS
      <3>1. ~Grouped(s, n) /\ ~Grouped(p, n)
        BY <2>6, <2>8 DEF SameConfig, Grouped
      <3>2. /\ s.node_states[n] = [p.node_states[n] EXCEPT !.in_flight = {}]
            /\ m1.node_states[n] = [s.node_states[n] EXCEPT !.in_flight = {j}]
        BY <2>5, <2>7, <2>10, <3>1
      <3>3. m.node_states[n] \in NodeState
        BY ManagerFields DEF Sound
      <3>4. m1.node_states[n] = [[[m.node_states[n] EXCEPT !.pending = Tail(pending)]
                                   EXCEPT !.in_flight = {}] EXCEPT !.in_flight = {j}]
        BY <2>5, <3>2
      <3>. QED
        BY <3>3, <3>4 DEF NodeState
    <2>15. \A i \in Live(m1) : i \in Live(m) \/ Grouped(m, i[1]) \/ i = j
      <3>1. \A i \in Live(s) : i[1] \in DOMAIN m.node_states
        BY <2>7, <2>8 DEF Sound, Owned, Known, SameConfig
      <3>. QED
        BY <2>5, <2>6, <2>7, <2>10, <3>1
    <2>16. \A g \in DOMAIN m.groups :
              Slots(m1, g) + Load(m, g) = Freed(m, n, g) + Load(m1, g)
      <3>. SUFFICES ASSUME NEW g \in DOMAIN m.groups
                    PROVE  Slots(m1, g) + Load(m, g) = Freed(m, n, g) + Load(m1, g)
        OBVIOUS
      <3>1. Slots(p, g) = Slots(m, g) /\ Load(p, g) = Load(m, g) /\ Freed(p, n, g) = Freed(m, n, g)
        BY <2>5, <2>6 DEF Slots, Load, Freed
      <3>2. /\ Slots(s, g) + Load(m, g) = Freed(m, n, g) + Load(s, g)
            /\ Slots(m1, g) + Load(s, g) = Slots(s, g) + Load(m1, g)
        BY <2>5, <2>7, <2>8, <2>10, <3>1 DEF SameConfig
      <3>3. /\ Slots(m, g) \in Nat /\ Load(m, g) \in Nat /\ Load(s, g) \in Nat
            /\ Load(m1, g) \in Nat
            /\ Slots(s, g) \in Nat /\ Slots(m1, g) \in Nat
        BY <2>7, <2>8, <2>10, <2>11, ManagerFields, LoadIsNat DEF Slots, Sound, SameConfig
      <3>4. Freed(m, n, g) \in Nat
        BY <3>3 DEF Freed
      <3>. QED
        BY <3>2, <3>3, <3>4
    <2>17. Filled(m) => Filled(m1)
      <3>. SUFFICES ASSUME Filled(m)
                    PROVE  Filled(m1)
        OBVIOUS
      <3>1. Filled(p)
        BY <2>5 DEF Filled
      <3>2. FilledBut(s, j[1])
        BY <2>7, <3>1 DEF Filled, FilledBut
      <3>. QED
        BY <2>10, <3>2
    <2>. QED
      BY <1>2, <2>1, <2>10, <2>11, <2>12, <2>13, <2>14, <2>15, <2>16, <2>17
       DEF Completed
  <1>. QED
    BY <1>1, <1>2

\* spawn, for a node that has its entry in node_states.
Dispatch(m, j) ==
    CASE Policy(m, j[1]) = "LatestWins" -> try_spawn(Cancel(m, j[1]), j)
      [] Policy(m, j[1]) = "Debounce"   -> spawn_debounced(Cancel(m, j[1]), j)
      [] Policy(m, j[1]) = "Queue" ->
            IF m.node_states[j[1]].in_flight # {} THEN KeepBack(m, j) ELSE try_spawn(m, j)

\* m1 is m after a trigger of j's node, which has an entry in node_states.
Dispatched(m, m1, j) ==
    /\ Sound(m1) /\ SameConfig(m, m1)
    /\ Jobs(m1) \subseteq Jobs(m) \cup {j} /\ j \in Jobs(m1)
    /\ \A i \in Jobs(m) \ Jobs(m1) : i[1] = j[1] /\ Policy(m, j[1]) # "Queue"
    /\ \A i \in DOMAIN m.node_states : i # j[1] => m1.node_states[i] = m.node_states[i]
    /\ \A i \in Live(m1) : i \in Live(m) \/ i = j
    /\ \A g \in DOMAIN m.groups :
          /\ Slots(m1, g) <= Load(m1, g) \/ Slots(m1, g) + Load(m, g) <= Slots(m, g) + Load(m1, g)
          /\ g # Group(m, j[1]) \/ Policy(m, j[1]) = "Queue" =>
                Slots(m1, g) + Load(m, g) = Slots(m, g) + Load(m1, g)
    /\ Filled(m) => Filled(m1)
    /\ Policy(m, j[1]) = "Queue" /\ m.node_states[j[1]].in_flight # {} =>
          /\ Live(m1) = Live(m)
          /\ m1.node_states[j[1]] =
               [m.node_states[j[1]] EXCEPT !.pending = Append(m.node_states[j[1]].pending, j)]
    /\ Policy(m, j[1]) = "Queue" /\ m.node_states[j[1]].in_flight = {} /\ ~Grouped(m, j[1]) =>
          m1.node_states[j[1]] = [m.node_states[j[1]] EXCEPT !.in_flight = {j}]

\* A trigger adds its job; only jobs of its own node are dropped for it, and only
\* under another policy than Queue.
LEMMA DispatchSound ==
    ASSUME NEW m, Sound(m), NEW j \in Job, Known(m, j[1]), j \notin Jobs(m),
           NEW m1, m1 = Dispatch(m, j)
    PROVE  Dispatched(m, m1, j)
  <1>1. PICK n : n = j[1]
    OBVIOUS
  <1>2. n \in DOMAIN m.node_states /\ Manager(m) /\ Policy(m, n) \in AsyncPolicy
    BY <1>1, ManagerFields DEF Known, Sound
  <1>3. ASSUME NEW x, Sound(x), SameConfig(m, x), NEW g \in DOMAIN m.groups
        PROVE  Slots(x, g) \in Nat /\ Load(x, g) \in Nat
    BY <1>3, ManagerFields, LoadIsNat DEF Slots, Sound, SameConfig
  <1>4. SameConfig(m, m)
    BY DEF SameConfig
  <1>5. CASE Policy(m, n) # "Queue"
    <2>1. PICK c : c = Cancel(m, n)
      OBVIOUS
    <2>2. /\ Sound(c) /\ SameConfig(m, c)
          /\ Jobs(c) \subseteq Jobs(m) /\ \A i \in Jobs(m) \ Jobs(c) : i[1] = n
          /\ \A i \in DOMAIN m.node_states : i # n => c.node_states[i] = m.node_states[i]
          /\ Live(c) \subseteq Live(m)
          /\ \A g \in DOMAIN m.groups :
                Slots(c, g) = 0 \/ Slots(c, g) + Load(m, g) <= Slots(m, g) + Load(c, g)
          /\ \A g \in DOMAIN m.groups :
                g # Group(m, n) => Slots(c, g) = Slots(m, g) /\ Load(c, g) = Load(m, g)
          /\ Filled(m) => FilledBut(c, n)
      BY <1>2, <1>5, <2>1, CancelSound
    <2>3. Known(c, n) /\ Policy(c, n) = Policy(m, n)
      BY <1>2, <2>2 DEF SameConfig, Known
    <2>4. m1 = Place(c, j, {}) \/ m1 = Place(c, j, {j})
      <3>1. m1 = try_spawn(c, j) \/ m1 = spawn_debounced(c, j)
        BY <1>1, <1>2, <1>5, <2>1 DEF Dispatch, AsyncPolicy
      <3>2. try_spawn(c, j) = Place(c, j, {}) /\ spawn_debounced(c, j) = Place(c, j, {j})
        BY <1>1, <2>2, <2>3, SpawnsPlace
      <3>. QED
        BY <3>1, <3>2
    <2>5. /\ Sound(m1) /\ SameConfig(c, m1) /\ Jobs(m1) = Jobs(c) \cup {j}
          /\ \A i \in DOMAIN c.node_states : i # n => m1.node_states[i] = c.node_states[i]
          /\ \A i \in Live(m1) : i \in Live(c) \/ i = j
          /\ \A g \in DOMAIN c.groups : Slots(m1, g) + Load(c, g) = Slots(c, g) + Load(m1, g)
          /\ FilledBut(c, n) => Filled(m1)
      <3>1. j \notin Jobs(c)
        BY <2>2
      <3>2. Known(c, j[1]) /\ Policy(c, j[1]) # "Queue" /\ Sound(c)
        BY <1>1, <1>5, <2>2, <2>3
      <3>. QED
        <4>2. {} \in SUBSET {j} /\ {j} \in SUBSET {j}
          OBVIOUS
        <4>1. Placed(c, m1, j)
          <5>1. CASE m1 = Place(c, j, {})
            BY <3>1, <3>2, <4>2, <5>1, PlaceSound
          <5>2. CASE m1 = Place(c, j, {j})
            BY <3>1, <3>2, <4>2, <5>2, PlaceSound
          <5>. QED
            BY <2>4, <5>1, <5>2
        <4>. QED
          BY <1>1, <4>1 DEF Placed
    <2>6. SameConfig(m, m1)
      BY <2>2, <2>5 DEF SameConfig
    <2>7. /\ DOMAIN c.node_states = DOMAIN m.node_states /\ DOMAIN c.groups = DOMAIN m.groups
      BY <2>2 DEF SameConfig
    <2>8. ASSUME NEW g \in DOMAIN m.groups
          PROVE  /\ Slots(m1, g) <= Load(m1, g) \/ Slots(m1, g) + Load(m, g) <= Slots(m, g) + Load(m1, g)
                 /\ g # Group(m, n) => Slots(m1, g) + Load(m, g) = Slots(m, g) + Load(m1, g)
      <3>1. /\ Slots(m, g) \in Nat /\ Load(m, g) \in Nat
            /\ Slots(c, g) \in Nat /\ Load(c, g) \in Nat
            /\ Slots(m1, g) \in Nat /\ Load(m1, g) \in Nat
        BY <1>3, <1>4, <2>2, <2>5, <2>6
      <3>2. Slots(m1, g) + Load(c, g) = Slots(c, g) + Load(m1, g)
        BY <2>5, <2>7
      <3>3. /\ Slots(c, g) = 0 \/ Slots(c, g) + Load(m, g) <= Slots(m, g) + Load(c, g)
            /\ g # Group(m, n) => Slots(c, g) = Slots(m, g) /\ Load(c, g) = Load(m, g)
        BY <2>2
      <3>. QED
        BY <3>1, <3>2, <3>3
    <2>. QED
      BY <1>1, <1>5, <2>2, <2>5, <2>6, <2>7, <2>8 DEF Dispatched
  <1>6. CASE Policy(m, n) = "Queue" /\ m.node_states[n].in_flight # {}
    <2>1. m1 = KeepBack(m, j)
      BY <1>1, <1>6 DEF Dispatch
    <2>2. /\ Sound(m1) /\ SameConfig(m, m1) /\ m1.groups = m.groups
          /\ Live(m1) = Live(m) /\ Jobs(m1) = Jobs(m) \cup {j}
          /\ m1.node_states[j[1]] =
                 [m.node_states[j[1]] EXCEPT !.pending = Append(m.node_states[j[1]].pending, j)]
          /\ \A i \in DOMAIN m.node_states : i # j[1] => m1.node_states[i] = m.node_states[i]
          /\ \A g : Held(m1, g) = Held(m, g)
      BY <2>1, KeepBackSound
    <2>3. \A g \in DOMAIN m.groups : Slots(m1, g) = Slots(m, g) /\ Load(m1, g) = Load(m, g)
      BY <2>2 DEF Slots, Load
    <2>4. Filled(m) => Filled(m1)
      BY <2>2 DEF Filled
    <2>5. \A g \in DOMAIN m.groups : Slots(m1, g) + Load(m, g) = Slots(m, g) + Load(m1, g)
      BY <2>3
    <2>6. \A g \in DOMAIN m.groups : Slots(m1, g) + Load(m, g) <= Slots(m, g) + Load(m1, g)
      BY <1>3, <1>4, <2>3
    <2>. QED
      BY <1>1, <1>6, <2>2, <2>4, <2>5, <2>6 DEF Dispatched
  <1>7. CASE Policy(m, n) = "Queue" /\ m.node_states[n].in_flight = {}
    <2>1. m1 = Place(m, j, {})
      BY <1>1, <1>7, SpawnsPlace DEF Dispatch
    <2>2. {} \in SUBSET {j}
      OBVIOUS
    <2>3. /\ Sound(m1) /\ SameConfig(m, m1) /\ Jobs(m1) = Jobs(m) \cup {j}
          /\ \A i \in DOMAIN m.node_states : i # j[1] => m1.node_states[i] = m.node_states[i]
          /\ \A i \in Live(m1) : i \in Live(m) \/ i = j
          /\ ~Grouped(m, j[1]) =>
                m1.node_states[j[1]] = [m.node_states[j[1]] EXCEPT !.in_flight = {j}]
          /\ \A g \in DOMAIN m.groups : Slots(m1, g) + Load(m, g) = Slots(m, g) + Load(m1, g)
          /\ FilledBut(m, j[1]) => Filled(m1)
      BY <2>1, <2>2, PlaceSound DEF Placed
    <2>4. Filled(m) => FilledBut(m, j[1])
      BY DEF Filled, FilledBut
    <2>5. \A g \in DOMAIN m.groups : Slots(m1, g) + Load(m, g) <= Slots(m, g) + Load(m1, g)
      BY <1>3, <1>4, <2>3
    <2>. QED
      BY <1>1, <1>7, <2>3, <2>4, <2>5 DEF Dispatched
  <1>. QED
    BY <1>5, <1>6, <1>7

\* m is m0 with an entry in node_states for n.
Inserted(m0, m, n, c) ==
    /\ Sound(m) /\ Jobs(m) = Jobs(m0) /\ m.groups = m0.groups /\ Live(m) = Live(m0)
    /\ DOMAIN m.node_states = DOMAIN m0.node_states \cup {n}
    /\ \A i \in DOMAIN m0.node_states : m.node_states[i] = m0.node_states[i]
    /\ ~Known(m0, n) =>
          /\ m.node_states[n] = [policy |-> c.policy, group_id |-> c.group_id,
                                 in_flight |-> {}, pending |-> <<>>]
          /\ \A j \in Jobs(m0) : j[1] # n
    /\ \A g : Held(m, g) = Held(m0, g)

\* spawn inserts the node's entry, if need be, and goes by its policy.
LEMMA SpawnSound ==
    ASSUME NEW m0, Sound(m0), NEW j \in Job, j \notin Jobs(m0),
           NEW c, c.policy \in AsyncPolicy, c.group_id \in Nat,
           NEW m1, m1 = spawn(m0, j, c)
    PROVE  \E m : Inserted(m0, m, j[1], c) /\ Known(m, j[1]) /\ Dispatched(m, m1, j)
  <1>1. PICK m : m = or_insert(m0, j[1], c)
    OBVIOUS
  <1>2. j[1] \in Node
    BY DEF Job
  <1>3. Inserted(m0, m, j[1], c)
    <2>1. CASE Known(m0, j[1])
      <3>1. m = m0
        BY <1>1, <2>1 DEF or_insert
      <3>. QED
        BY <2>1, <3>1 DEF Inserted, Known
    <2>2. CASE ~Known(m0, j[1])
      BY <1>1, <1>2, <2>2, InsertSound DEF Inserted
    <2>. QED
      BY <2>1, <2>2
  <1>4. Sound(m) /\ Known(m, j[1]) /\ j \notin Jobs(m)
    BY <1>3 DEF Inserted, Known
  <1>5. m1 = Dispatch(m, j)
    BY <1>1 DEF spawn, Dispatch, KeepBack
  <1>6. Dispatched(m, m1, j)
    BY <1>4, <1>5, DispatchSound
  <1>. QED
    BY <1>3, <1>4, <1>6

\* Tasks that go on, end or stop.
SetTasks(m, A, R, B) == [m EXCEPT !.asleep = A, !.running = R, !.aborted = B]

\* m1 is m with the tasks of SetTasks.
TasksMoved(m, m1, A, R, B) ==
    /\ Sound(m1) /\ SameConfig(m, m1)
    /\ m1.node_states = m.node_states /\ m1.groups = m.groups
    /\ m1.asleep = A /\ m1.running = R /\ m1.aborted = B
    /\ \A i : i \in Jobs(m1) <=> i \in Live(m1) \/ i \in Jobs(m) \ Live(m)

\* No task begins, but some may wake up.
LEMMA TasksSound ==
    ASSUME NEW m, Sound(m), NEW A, NEW R, NEW B,
           A \subseteq m.asleep, B \subseteq m.aborted, R \subseteq m.running \cup m.asleep,
           A \cap R = {},
           NEW m1, m1 = SetTasks(m, A, R, B)
    PROVE  TasksMoved(m, m1, A, R, B)
  <1>1. PICK known \in SUBSET Node : m \in ManagerState(known)
    BY DEF Manager, Sound
  <1>2. /\ m1 \in ManagerState(known)
        /\ m1.node_states = m.node_states /\ m1.groups = m.groups
        /\ m1.asleep = A /\ m1.running = R /\ m1.aborted = B
    BY <1>1 DEF ManagerState, SetTasks
  <1>3. Live(m1) = A \cup R \cup B /\ \A i \in Live(m1) : i \in Live(m)
    BY <1>2 DEF Live
  <1>4. /\ \A n : Known(m1, n) = Known(m, n) /\ Policy(m1, n) = Policy(m, n)
                  /\ Group(m1, n) = Group(m, n) /\ Pend(m1, n) = Pend(m, n)
        /\ \A g : Queued(m1, g) = Queued(m, g)
    BY <1>2 DEF Known, Policy, Group, Pend, Queued
  <1>5. Owned(m1)
    BY <1>2, <1>3, <1>4 DEF Sound, Owned
  <1>6. Apart(m1)
    <2>1. /\ m1.asleep \cap m1.running = {}
          /\ m1.asleep \cap m1.aborted = {}
          /\ m1.running \cap m1.aborted = {}
      BY <1>2 DEF Sound, Apart
    <2>. QED
      BY <1>2, <1>3, <1>4, <2>1 DEF Sound, Apart
  <1>7. \A i : i \in Jobs(m1) <=> i \in Live(m1) \/ i \in Jobs(m) \ Live(m)
    <2>1. \A n \in DOMAIN m.node_states : Pend(m, n) \cap Live(m) = {}
      BY DEF Sound, Apart
    <2>2. \A g \in DOMAIN m.groups : Queued(m, g) \cap Live(m) = {}
      BY DEF Sound, Apart
    <2>3. ASSUME NEW i \in Jobs(m1)
          PROVE  i \in Live(m1) \/ i \in Jobs(m) \ Live(m)
      BY <1>2, <1>4, <2>1, <2>2, WhereJobsAre
    <2>4. ASSUME NEW i, i \in Live(m1) \/ i \in Jobs(m) \ Live(m)
          PROVE  i \in Jobs(m1)
      BY <1>2, <1>4, <2>4, WhereJobsAre
    <2>. QED
      BY <2>3, <2>4
  <1>8. IsFiniteSet(m1.asleep) /\ IsFiniteSet(m1.running)
    <2>1. IsFiniteSet(m.asleep) /\ IsFiniteSet(m.running \cup m.asleep)
      BY FS_Union DEF Sound
    <2>. QED
      BY <1>2, <2>1, FS_Subset
  <1>9. SameConfig(m, m1)
    BY <1>2, <1>4 DEF SameConfig
  <1>. QED
    BY <1>2, <1>5, <1>6, <1>7, <1>8, <1>9 DEF Sound, Manager, TasksMoved

\* A task that wakes up has the same job and slot.
LEMMA WakeSound ==
    ASSUME NEW m, Sound(m), NEW j \in m.asleep,
           NEW m1, m1 = [m EXCEPT !.asleep = @ \ {j}, !.running = @ \cup {j}]
    PROVE  /\ Sound(m1) /\ SameConfig(m, m1)
           /\ m1.node_states = m.node_states /\ m1.groups = m.groups
           /\ Live(m1) = Live(m) /\ Jobs(m1) = Jobs(m)
           /\ \A g : Held(m1, g) = Held(m, g)
  <1>1. PICK known \in SUBSET Node : m \in ManagerState(known)
    BY DEF Manager, Sound
  <1>2. m1 = SetTasks(m, m.asleep \ {j}, m.running \cup {j}, m.aborted)
    BY <1>1 DEF SetTasks, ManagerState
  <1>3. (m.asleep \ {j}) \cap (m.running \cup {j}) = {}
    BY DEF Sound, Apart
  <1>4. /\ Sound(m1) /\ SameConfig(m, m1)
        /\ m1.node_states = m.node_states /\ m1.groups = m.groups
        /\ m1.asleep = m.asleep \ {j} /\ m1.running = m.running \cup {j} /\ m1.aborted = m.aborted
        /\ \A i : i \in Jobs(m1) <=> i \in Live(m1) \/ i \in Jobs(m) \ Live(m)
    <2>1. TasksMoved(m, m1, m.asleep \ {j}, m.running \cup {j}, m.aborted)
      BY <1>2, <1>3, TasksSound
    <2>. QED
      BY <2>1 DEF TasksMoved
  <1>5. Live(m1) = Live(m) /\ m1.asleep \cup m1.running = m.asleep \cup m.running
    BY <1>4 DEF Live
  <1>6. Jobs(m1) = Jobs(m)
    BY <1>4, <1>5, WhereJobsAre
  <1>7. \A g : Held(m1, g) = Held(m, g)
    BY <1>4, <1>5 DEF Held, Known, Group
  <1>. QED
    BY <1>4, <1>5, <1>6, <1>7

\* A task that ends, and the slot it held.
LEMMA EndSound ==
    ASSUME NEW m, Sound(m), NEW j \in m.running,
           NEW m1, m1 = [m EXCEPT !.running = @ \ {j}]
    PROVE  /\ Sound(m1) /\ SameConfig(m, m1)
           /\ m1.node_states = m.node_states /\ m1.groups = m.groups
           /\ j \in Live(m) /\ j \in Jobs(m)
           /\ Live(m1) = Live(m) \ {j} /\ Jobs(m1) = Jobs(m) \ {j}
           /\ \A g : Load(m1, g) = IF Group(m, j[1]) = g THEN Load(m, g) - 1 ELSE Load(m, g)
  <1>1. PICK known \in SUBSET Node : m \in ManagerState(known)
    BY DEF Manager, Sound
  <1>2. m1 = SetTasks(m, m.asleep, m.running \ {j}, m.aborted)
    BY <1>1 DEF SetTasks, ManagerState
  <1>3. /\ m.asleep \cap (m.running \ {j}) = {} /\ m.running \ {j} \subseteq m.running \cup m.asleep
        /\ m.asleep \subseteq m.asleep /\ m.aborted \subseteq m.aborted
    BY DEF Sound, Apart
  <1>4. /\ Sound(m1) /\ SameConfig(m, m1)
        /\ m1.node_states = m.node_states /\ m1.groups = m.groups
        /\ m1.asleep = m.asleep /\ m1.running = m.running \ {j} /\ m1.aborted = m.aborted
        /\ \A i : i \in Jobs(m1) <=> i \in Live(m1) \/ i \in Jobs(m) \ Live(m)
    <2>1. TasksMoved(m, m1, m.asleep, m.running \ {j}, m.aborted)
      BY <1>2, <1>3, TasksSound
    <2>. QED
      BY <2>1 DEF TasksMoved
  <1>5. j \in Live(m) /\ Live(m1) = Live(m) \ {j} /\ Known(m, j[1])
    BY <1>4 DEF Live, Sound, Apart, Owned
  <1>6. Jobs(m1) = Jobs(m) \ {j} /\ j \in Jobs(m)
    BY <1>4, <1>5, WhereJobsAre
  <1>7. \A g : Held(m1, g) = Held(m, g) \ {j}
    <2>1. m1.asleep \cup m1.running = (m.asleep \cup m.running) \ {j}
      BY <1>4 DEF Sound, Apart
    <2>. QED
      BY <1>4, <2>1 DEF Held, Known, Group
  <1>8. ASSUME NEW g
        PROVE  Load(m1, g) = IF Group(m, j[1]) = g THEN Load(m, g) - 1 ELSE Load(m, g)
    <2>1. IsFiniteSet(Held(m, g))
      BY LoadIsNat
    <2>2. CASE Group(m, j[1]) = g
      <3>1. j \in Held(m, g)
        BY <1>5, <2>2 DEF Held
      <3>2. Cardinality(Held(m, g) \ {j}) = Cardinality(Held(m, g)) - 1
        BY <2>1, <3>1, FS_RemoveElement
      <3>. QED
        BY <1>7, <2>2, <3>2 DEF Load
    <2>3. CASE Group(m, j[1]) # g
      <3>1. Held(m, g) \ {j} = Held(m, g)
        BY <2>3 DEF Held
      <3>. QED
        BY <1>7, <2>3, <3>1 DEF Load
    <2>. QED
      BY <2>2, <2>3
  <1>. QED
    BY <1>4, <1>5, <1>6, <1>8

\* A task that was told to abort and stops.
LEMMA StopSound ==
    ASSUME NEW m, Sound(m), NEW j \in m.aborted,
           NEW m1, m1 = [m EXCEPT !.aborted = @ \ {j}]
    PROVE  /\ Sound(m1) /\ SameConfig(m, m1)
           /\ m1.node_states = m.node_states /\ m1.groups = m.groups
           /\ j \in Live(m) /\ j \in Jobs(m) /\ Policy(m, j[1]) # "Queue"
           /\ Live(m1) = Live(m) \ {j} /\ Jobs(m1) = Jobs(m) \ {j}
           /\ \A g : Held(m1, g) = Held(m, g)
  <1>1. PICK known \in SUBSET Node : m \in ManagerState(known)
    BY DEF Manager, Sound
  <1>2. m1 = SetTasks(m, m.asleep, m.running, m.aborted \ {j})
    BY <1>1 DEF SetTasks, ManagerState
  <1>3. /\ m.asleep \cap m.running = {} /\ m.running \subseteq m.running \cup m.asleep
        /\ m.asleep \subseteq m.asleep /\ m.aborted \ {j} \subseteq m.aborted
    BY DEF Sound, Apart
  <1>4. /\ Sound(m1) /\ SameConfig(m, m1)
        /\ m1.node_states = m.node_states /\ m1.groups = m.groups
        /\ m1.asleep = m.asleep /\ m1.running = m.running /\ m1.aborted = m.aborted \ {j}
        /\ \A i : i \in Jobs(m1) <=> i \in Live(m1) \/ i \in Jobs(m) \ Live(m)
    <2>1. TasksMoved(m, m1, m.asleep, m.running, m.aborted \ {j})
      BY <1>2, <1>3, TasksSound
    <2>. QED
      BY <2>1 DEF TasksMoved
  <1>5. j \in Live(m) /\ Live(m1) = Live(m) \ {j} /\ Policy(m, j[1]) # "Queue"
    BY <1>4 DEF Live, Sound, Apart, Owned
  <1>6. Jobs(m1) = Jobs(m) \ {j} /\ j \in Jobs(m)
    BY <1>4, <1>5, WhereJobsAre
  <1>7. \A g : Held(m1, g) = Held(m, g)
    BY <1>4 DEF Held, Known, Group
  <1>. QED
    BY <1>4, <1>5, <1>6, <1>7
=============================================================================
