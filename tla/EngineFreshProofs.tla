-------------------------- MODULE EngineFreshProofs --------------------------
(***************************************************************************)
(* Proofs that the values of an engine are fresh: between the calls, every  *)
(* active compute node has the value that its inputs give, what a sink      *)
(* emitted last is what its inputs hold, and a cycle leaves no sink out     *)
(* that it reaches and that can emit.                                       *)
(*                                                                          *)
(* The first part is about activation alone: the stack of activate_node     *)
(* finishes a node only when all it reads from is active and finished.      *)
(***************************************************************************)
EXTENDS EngineProofs

-----------------------------------------------------------------------------
(* The stack of an activation                                               *)

\* Every frame above a "finish" frame, up to the next one, is for a node that the
\* finished one reads from.
Chained ==
    \A i, j \in DOMAIN work :
        /\ i < j /\ work[j].op = "finish"
        /\ \A k \in DOMAIN work : i < k /\ k < j => work[k].op # "finish"
        => work[i].op # "sink" /\ work[i].id \in Range(deps[work[j].id])

\* A registered node that an unfinished one reads from is active and finished, or its
\* frame is above the "finish" frame of the one that reads it.
Awaited ==
    \A j \in DOMAIN work : work[j].op = "finish" =>
        \A d \in Range(deps[work[j].id]) \cap DOMAIN entries :
            \/ d \in active \ Finishing(work)
            \/ \E i \in DOMAIN work : i < j /\ work[i].op \in {"enter", "finish"} /\ work[i].id = d

\* A finished node reads, of the registered nodes, from active and finished ones only.
FinishedAbove ==
    \A n \in active \ Finishing(work) :
        Range(deps[n]) \cap DOMAIN entries \subseteq active \ Finishing(work)

\* What holds of the stack while an activation goes on.
ActivationInv == phase = "activate" => Chained /\ Awaited /\ FinishedAbove

\* The node on top of the stack is not being finished further down: the frames in
\* between would be a circle of dependencies.
LEMMA NoCircle ==
    ASSUME WiringSound, Acyclic, work \in Seq(Frame), work # <<>>,
           Finishing(work) \subseteq active, Chained
    PROVE  Head(work).id \notin Finishing(Tail(work))
  <1>. SUFFICES ASSUME Head(work).id \in Finishing(Tail(work)) PROVE FALSE
    OBVIOUS
  <1>0. /\ Len(work) \in Nat \ {0} /\ DOMAIN work = 1..Len(work) /\ Head(work) = work[1]
        /\ DOMAIN Tail(work) = 1..(Len(work) - 1)
        /\ \A i \in 1..(Len(work) - 1) : Tail(work)[i] = work[i + 1] /\ i + 1 \in DOMAIN work
    BY StackTop
  <1>1. PICK p \in DOMAIN Tail(work) : Tail(work)[p].op = "finish" /\ Tail(work)[p].id = work[1].id
    BY <1>0 DEF Finishing
  <1>2. PICK P \in 2..Len(work) : work[P].op = "finish" /\ work[P].id = work[1].id
    <2>1. p + 1 \in 2..Len(work)
      BY <1>0
    <2>. QED
      BY <1>0, <1>1, <2>1
  <1>. DEFINE S == {work[q].id : q \in {k \in 2..P : work[k].op = "finish"}}
  <1>3. work[1].id \in S
    BY <1>2
  <1>4. S \subseteq active
    BY <1>0, <1>2 DEF Finishing
  <1>5. ASSUME NEW y \in S
        PROVE  Range(entries[y].deps) \cap S # {}
    <2>1. PICK q \in 2..P : work[q].op = "finish" /\ work[q].id = y
      OBVIOUS
    <2>. DEFINE T == {k \in 1..(q - 1) : k = 1 \/ work[k].op = "finish"}
    <2>2. q - 1 \in Nat /\ T \in SUBSET (1..(q - 1)) /\ 1 \in T
      BY <1>2
    <2>3. PICK k \in T : \A j \in T : j <= k
      <3>. HIDE DEF T
      <3>. QED
        BY <2>2, LastOfSome
    <2>4. \A i \in DOMAIN work : k < i /\ i < q => work[i].op # "finish"
      BY <1>0, <1>2, <2>3
    <2>5. k \in DOMAIN work /\ q \in DOMAIN work /\ k < q
      BY <1>0, <1>2
    <2>6. work[k].id \in Range(deps[y])
      BY <2>1, <2>4, <2>5 DEF Chained
    <2>7. work[k].id \in S
      <3>1. CASE k = 1
        BY <1>3, <3>1
      <3>2. CASE k # 1
        <4>1. k \in 2..P /\ work[k].op = "finish"
          BY <1>2, <3>2
        <4>. QED
          BY <4>1
      <3>. QED
        BY <3>1, <3>2
    <2>8. deps[y] = entries[y].deps
      BY <1>4 DEF WiringSound
    <2>. QED
      BY <2>6, <2>7, <2>8
  <1>6. S \in SUBSET DOMAIN entries
    BY <1>4 DEF WiringSound
  <1>. HIDE DEF S
  <1>. QED
    BY <1>3, <1>5, <1>6 DEF Acyclic

\* A frame is popped: that of a finished node, or of one that needs no activation.
LEMMA PopFrame ==
    ASSUME WiringSound, Acyclic, work \in Seq(Frame), work # <<>>,
           Finishing(work) \subseteq active, Chained, Awaited, FinishedAbove,
           work' = Tail(work), UNCHANGED <<entries, deps, active>>,
           \/ Head(work).op \in {"sink", "finish"}
           \/ Head(work).id \in active \/ Head(work).id \notin DOMAIN entries
    PROVE  Chained' /\ Awaited' /\ FinishedAbove'
  <1>. DEFINE h == Head(work).id
  <1>1. /\ Len(work) \in Nat \ {0} /\ DOMAIN work = 1..Len(work) /\ Head(work) = work[1]
        /\ DOMAIN work' = 1..(Len(work) - 1)
        /\ \A i \in 1..(Len(work) - 1) : work'[i] = work[i + 1] /\ i + 1 \in DOMAIN work
        /\ \A i \in DOMAIN work : i = 1 \/ (i - 1 \in 1..(Len(work) - 1) /\ work'[i - 1] = work[i])
        /\ 1 \in DOMAIN work
    BY StackTop
  <1>2. h \notin Finishing(work')
    BY NoCircle
  <1>3. Finishing(work) = Finishing(work') \cup (IF work[1].op = "finish" THEN {h} ELSE {})
    BY <1>1, FinishingTop
  <1>4. work[1].op = "finish" => h \in active
    BY <1>3
  <1>. HIDE DEF h
  <1>5. Chained'
    <2>. SUFFICES ASSUME NEW i \in DOMAIN work', NEW j \in DOMAIN work',
                         i < j, work'[j].op = "finish",
                         \A k \in DOMAIN work' : i < k /\ k < j => work'[k].op # "finish"
                  PROVE  work'[i].op # "sink" /\ work'[i].id \in Range(deps[work'[j].id])
      BY DEF Chained
    <2>1. i + 1 \in DOMAIN work /\ j + 1 \in DOMAIN work /\ i + 1 < j + 1 /\ work[j + 1].op = "finish"
      BY <1>1
    <2>2. \A k \in DOMAIN work : i + 1 < k /\ k < j + 1 => work[k].op # "finish"
      <3>. SUFFICES ASSUME NEW k \in DOMAIN work, i + 1 < k, k < j + 1
                    PROVE  work[k].op # "finish"
        OBVIOUS
      <3>1. k - 1 \in DOMAIN work' /\ i < k - 1 /\ k - 1 < j /\ work'[k - 1] = work[k]
        BY <1>1
      <3>. QED
        BY <3>1
    <2>. QED
      BY <1>1, <2>1, <2>2 DEF Chained
  <1>6. ASSUME NEW j \in DOMAIN work', work'[j].op = "finish",
               NEW d \in Range(deps[work'[j].id]) \cap DOMAIN entries
        PROVE  \/ d \in active \ Finishing(work')
               \/ \E i \in DOMAIN work' : i < j /\ work'[i].op \in {"enter", "finish"} /\ work'[i].id = d
    <2>1. j + 1 \in DOMAIN work /\ work[j + 1] = work'[j]
      BY <1>1
    <2>2. CASE d \in active \ Finishing(work)
      BY <1>3, <2>2
    <2>3. ASSUME NEW i \in DOMAIN work, i < j + 1, work[i].op \in {"enter", "finish"}, work[i].id = d
          PROVE  \/ d \in active \ Finishing(work')
                 \/ \E k \in DOMAIN work' : k < j /\ work'[k].op \in {"enter", "finish"} /\ work'[k].id = d
      <3>1. CASE i = 1
        <4>1. d = h
          BY <1>1, <2>3, <3>1 DEF h
        <4>2. d \in active
          BY <1>1, <1>4, <2>3, <3>1, <4>1 DEF h
        <4>. QED
          BY <1>2, <4>1, <4>2
      <3>2. CASE i # 1
        <4>1. i - 1 \in DOMAIN work' /\ i - 1 < j /\ work'[i - 1] = work[i]
          BY <1>1, <2>3, <3>2
        <4>. QED
          BY <2>3, <4>1
      <3>. QED
        BY <3>1, <3>2
    <2>. QED
      BY <1>6, <2>1, <2>2, <2>3 DEF Awaited
  <1>7. Awaited'
    BY <1>6 DEF Awaited
  <1>8. ASSUME NEW n \in active \ Finishing(work')
        PROVE  Range(deps[n]) \cap DOMAIN entries \subseteq active \ Finishing(work')
    <2>1. CASE n \notin Finishing(work)
      BY <1>3, <2>1 DEF FinishedAbove
    <2>2. CASE n \in Finishing(work)
      <3>1. n = h /\ work[1].op = "finish"
        BY <1>3, <1>8, <2>2
      <3>2. \A i \in DOMAIN work : ~(i < 1)
        BY <1>1
      <3>3. \A d \in Range(deps[h]) \cap DOMAIN entries : d \in active \ Finishing(work)
        BY <1>1, <3>1, <3>2 DEF Awaited, h
      <3>. QED
        BY <1>3, <3>1, <3>3
    <2>. QED
      BY <2>1, <2>2
  <1>9. FinishedAbove'
    BY <1>8 DEF FinishedAbove
  <1>. QED
    BY <1>5, <1>7, <1>9

\* A node is activated: its frame makes place for those of what it reads from.
LEMMA PushFrames ==
    ASSUME NEW id \in NodeId, NEW ds \in Seq(NodeId),
           work \in Seq(Frame), work # <<>>, Finishing(work) \subseteq active,
           Chained, Awaited, FinishedAbove,
           Head(work).op # "finish", Head(work).id = id, id \notin active,
           Pushed(work', work, id, ds), UNCHANGED entries, active' = active \cup {id}, deps'[id] = ds,
           \A n \in active : deps'[n] = deps[n]
    PROVE  Chained' /\ Awaited' /\ FinishedAbove'
  <1>a. PICK L : L = Len(ds)
    OBVIOUS
  <1>b. PICK N : N = Len(work)
    OBVIOUS
  <1>1. /\ L \in Nat /\ N \in Nat \ {0}
        /\ DOMAIN work = 1..N /\ DOMAIN work' = 1..(L + N) /\ DOMAIN ds = 1..L
        /\ \A i \in 1..L : work'[i].op = "enter" /\ work'[i].id = ds[i]
        /\ work'[L + 1].op = "finish" /\ work'[L + 1].id = id
        /\ \A k \in 2..N : work'[L + k] = work[k]
        /\ Finishing(work') = {id} \cup Finishing(Tail(work))
    BY <1>a, <1>b DEF Pushed
  <1>2. /\ Finishing(work) = Finishing(Tail(work)) /\ work[1] = Head(work) /\ 1 \in 1..N
        /\ L + 1 \in 1..(L + N)
    <2>1. work[1] = Head(work)
      BY StackTop
    <2>2. Finishing(work) = Finishing(Tail(work))
      BY FinishingTop
    <2>3. 1 \in 1..N /\ L + 1 \in 1..(L + N)
      BY <1>1
    <2>. QED
      BY <2>1, <2>2, <2>3
  <1>3. \A j \in 1..(L + N) : \/ j \in 1..L \/ j = L + 1
                              \/ j - L \in 2..N /\ j = L + (j - L) /\ work'[j] = work[j - L]
    <2>1. \A j \in 1..(L + N) : j \in 1..L \/ j = L + 1 \/ (j - L \in 2..N /\ j = L + (j - L))
      BY <1>1
    <2>. QED
      BY <1>1, <2>1
  <1>4. \A k \in 2..N : k \in 1..N /\ L + k \in 1..(L + N)
    BY <1>1
  <1>5. ASSUME NEW k \in 2..N, work[k].op = "finish"
        PROVE  deps'[work[k].id] = deps[work[k].id] /\ work[k].id # id
    BY <1>1, <1>4, <1>5 DEF Finishing
  <1>6. Chained'
    <2>. SUFFICES ASSUME NEW i \in DOMAIN work', NEW j \in DOMAIN work',
                         i < j, work'[j].op = "finish",
                         \A k \in DOMAIN work' : i < k /\ k < j => work'[k].op # "finish"
                  PROVE  work'[i].op # "sink" /\ work'[i].id \in Range(deps'[work'[j].id])
      BY DEF Chained
    <2>1. CASE j = L + 1
      <3>1. i \in 1..L
        BY <1>1, <2>1
      <3>2. ds[i] \in Range(ds)
        BY <1>1, <3>1 DEF Range
      <3>3. work'[i].op = "enter" /\ work'[i].id = ds[i] /\ deps'[work'[j].id] = ds
        BY <1>1, <2>1, <3>1
      <3>. QED
        BY <3>2, <3>3
    <2>2. CASE j - L \in 2..N /\ j = L + (j - L) /\ work'[j] = work[j - L]
      <3>1. PICK k \in 2..N : j = L + k /\ work'[j] = work[k]
        BY <2>2
      <3>2. i \notin 1..L
        <4>1. i \in 1..L => i < L + 1 /\ L + 1 < j
          BY <1>1, <3>1
        <4>. QED
          BY <1>1, <1>2, <4>1
      <3>3. PICK q \in 1..N : i = L + q /\ q < k
        <4>1. i \in 1..(L + N) /\ i < L + k /\ k \in 2..N
          BY <1>1, <3>1
        <4>2. i - L \in 1..N /\ i = L + (i - L) /\ i - L < k
          BY <1>1, <3>2, <4>1
        <4>. QED
          BY <4>2
      <3>4. \A p \in 1..N : q < p /\ p < k => work[p].op # "finish"
        <4>. SUFFICES ASSUME NEW p \in 1..N, q < p, p < k PROVE work[p].op # "finish"
          OBVIOUS
        <4>1. p \in 2..N /\ L + p \in 1..(L + N) /\ i < L + p /\ L + p < j
          BY <1>1, <3>1, <3>3
        <4>2. L + p \in DOMAIN work' /\ work'[L + p] = work[p]
          BY <1>1, <4>1
        <4>3. work'[L + p].op # "finish"
          BY <4>1, <4>2
        <4>. QED
          BY <4>2, <4>3
      <3>5. work[q].op # "sink" /\ work[q].id \in Range(deps[work[k].id])
        BY <1>1, <1>4, <3>1, <3>3, <3>4 DEF Chained
      <3>6. work'[i].op # "sink" /\ work'[i].id = work[q].id
        <4>1. CASE q = 1
          BY <1>1, <1>2, <3>3, <4>1
        <4>2. CASE q \in 2..N
          BY <1>1, <3>3, <3>5, <4>2
        <4>. QED
          BY <1>1, <4>1, <4>2
      <3>. QED
        BY <1>5, <3>1, <3>5, <3>6
    <2>. QED
      BY <1>1, <1>3, <2>1, <2>2
  <1>7. ASSUME NEW j \in DOMAIN work', work'[j].op = "finish",
               NEW d \in Range(deps'[work'[j].id]) \cap DOMAIN entries
        PROVE  \/ d \in active' \ Finishing(work')
               \/ \E i \in DOMAIN work' : i < j /\ work'[i].op \in {"enter", "finish"} /\ work'[i].id = d
    <2>1. CASE j = L + 1
      <3>1. d \in Range(ds)
        BY <1>1, <1>7, <2>1
      <3>2. PICK i \in 1..L : ds[i] = d
        BY <1>1, <3>1 DEF Range
      <3>3. i \in 1..(L + N) /\ i < L + 1
        BY <1>1
      <3>. QED
        BY <1>1, <2>1, <3>2, <3>3
    <2>2. CASE j - L \in 2..N /\ j = L + (j - L) /\ work'[j] = work[j - L]
      <3>1. PICK k \in 2..N : j = L + k /\ work'[j] = work[k]
        BY <2>2
      <3>2. d \in Range(deps[work[k].id]) \cap DOMAIN entries
        BY <1>5, <1>7, <3>1
      <3>3. CASE d \in active \ Finishing(work)
        BY <1>1, <1>2, <3>3
      <3>4. ASSUME NEW i \in DOMAIN work, i < k, work[i].op \in {"enter", "finish"}, work[i].id = d
            PROVE  \E p \in DOMAIN work' : p < j /\ work'[p].op \in {"enter", "finish"} /\ work'[p].id = d
        <4>1. L + i \in DOMAIN work' /\ L + i < j /\ (i = 1 \/ i \in 2..N)
          BY <1>1, <3>1, <3>4
        <4>2. work'[L + i].op \in {"enter", "finish"} /\ work'[L + i].id = d
          <5>1. CASE i = 1
            BY <1>1, <1>2, <3>4, <5>1
          <5>2. CASE i \in 2..N
            BY <1>1, <3>4, <5>2
          <5>. QED
            BY <4>1, <5>1, <5>2
        <4>. QED
          BY <4>1, <4>2
      <3>. QED
        BY <1>1, <1>4, <1>7, <3>1, <3>2, <3>3, <3>4 DEF Awaited
    <2>. QED
      BY <1>1, <1>3, <1>7, <2>1, <2>2
  <1>8. Awaited'
    BY <1>7 DEF Awaited
  <1>9. FinishedAbove'
    BY <1>1, <1>2 DEF FinishedAbove
  <1>. QED
    BY <1>6, <1>8, <1>9

\* merge and activate_sink start with a stack on which no node is unfinished.
LEMMA StartFrames ==
    ASSUME Connected, phase = "body", UNCHANGED <<deps, active>>,
           NEW op \in {"sink", "enter"}, NEW ids \in Seq(NodeId), work' = Frames(op, ids)
    PROVE  Chained' /\ Awaited' /\ FinishedAbove'
  <1>1. \A i \in DOMAIN work' : work'[i].op # "finish"
    <2>1. PICK f : f = Frames(op, ids)
      OBVIOUS
    <2>2. \A i \in DOMAIN f : f[i].op = op
      BY <2>1, FramesAre
    <2>. QED
      BY <2>1, <2>2
  <1>2. Finishing(work') = {}
    BY <1>1 DEF Finishing
  <1>3. \A n \in active : Range(deps[n]) \subseteq active
    BY DEF Connected
  <1>4. Chained' /\ Awaited'
    BY <1>1 DEF Chained, Awaited
  <1>5. FinishedAbove'
    BY <1>2, <1>3 DEF FinishedAbove
  <1>. QED
    BY <1>4, <1>5

\* A frame of activate_node goes, or makes place for the recursive calls.
LEMMA EnterFrames ==
    ASSUME TypeOK, WiringSound, Acyclic, Finishing(work) \subseteq active,
           Chained, Awaited, FinishedAbove, EnterNode
    PROVE  Chained' /\ Awaited' /\ FinishedAbove'
  <1>. DEFINE id == Head(work).id
              skip == \/ id \in active \/ id \notin DOMAIN entries
                      \/ Head(work).op = "sink" /\ Kind[id] # "Sink"
  <1>1. RegistryOK /\ work \in Seq(Frame) /\ work # <<>> /\ Head(work).op \in {"sink", "enter"}
    BY TypeParts DEF EnterNode, CallsOK
  <1>2. id \in NodeId
    BY <1>1, TopType
  <1>3. CASE skip /\ work' = Tail(work) /\ UNCHANGED registry
    <2>1. UNCHANGED <<entries, deps, active>>
      BY <1>3 DEF registry
    <2>2. Head(work).op \in {"sink", "finish"} \/ Head(work).id \in active
             \/ Head(work).id \notin DOMAIN entries
      BY <1>3
    <2>. QED
      BY <1>1, <1>3, <2>1, <2>2, PopFrame
  <1>4. CASE /\ ~skip
             /\ add_node(id, entries[id].deps)
             /\ active' = active \cup {id}
             /\ work' = Frames("enter", entries[id].deps) \o Frames("finish", <<id>>) \o Tail(work)
             /\ UNCHANGED <<entries, guards>>
    <2>1. id \notin active /\ id \in DOMAIN entries
      BY <1>4
    <2>2. entries[id].deps \in Seq(NodeId)
      BY <1>1, <2>1 DEF RegistryOK, Entry
    <2>3. deps'[id] = entries[id].deps /\ \A n \in active : deps'[n] = deps[n]
      BY <1>4, <2>1 DEF add_node, WiringSound
    <2>4. Pushed(work', work, id, entries[id].deps)
      BY <1>1, <1>2, <1>4, <2>2, PushShape
    <2>5. Head(work).op # "finish" /\ active' = active \cup {id} /\ UNCHANGED entries
      BY <1>1, <1>4
    <2>6. PICK x \in NodeId : x = id
      BY <1>2
    <2>7. PICK ds \in Seq(NodeId) : ds = entries[id].deps
      BY <2>2
    <2>8. /\ Pushed(work', work, x, ds) /\ Head(work).id = x /\ x \notin active
          /\ active' = active \cup {x} /\ deps'[x] = ds
      BY <2>1, <2>3, <2>4, <2>5, <2>6, <2>7
    <2>. QED
      BY <1>1, <2>3, <2>5, <2>8, PushFrames
  <1>. QED
    BY <1>3, <1>4 DEF EnterNode

\* Every step of the lifecycle keeps what holds of the stack.
LEMMA ActivationNext ==
    ASSUME TypeOK, WiringSound, GuardsPending, Connected, Acyclic, ActivationInv, [Next]_vars
    PROVE  ActivationInv'
  <1>. SUFFICES ASSUME phase' = "activate" PROVE Chained' /\ Awaited' /\ FinishedAbove'
    BY DEF ActivationInv
  <1>1. CASE UNCHANGED vars
    <2>1. UNCHANGED <<entries, deps, active, work, phase>>
      BY <1>1 DEF vars, registry
    <2>. QED
      BY <2>1 DEF ActivationInv, Chained, Awaited, FinishedAbove, Finishing
  <1>2. CASE \E h \in Handle : DropHandle(h)
    BY <1>2 DEF DropHandle
  <1>3. CASE Call
    BY <1>3 DEF Call
  <1>4. CASE \E r \in Direct : Build(r)
    BY <1>4 DEF Build
  <1>5. ASSUME NEW h \in Handle, NEW script \in Script, Merge(h, script)
        PROVE  Chained' /\ Awaited' /\ FinishedAbove'
    <2>1. node_ids(script) \in Seq(NodeId)
      BY NodeIdsType
    <2>2. /\ phase = "body" /\ UNCHANGED <<deps, active>> /\ work' = Frames("sink", node_ids(script))
      BY <1>5 DEF Merge
    <2>. QED
      BY <2>1, <2>2, StartFrames
  <1>6. ASSUME NEW id \in NodeId, ActivateSink(id)
        PROVE  Chained' /\ Awaited' /\ FinishedAbove'
    <2>1. <<id>> \in Seq(NodeId)
      OBVIOUS
    <2>2. phase = "body" /\ UNCHANGED <<deps, active>> /\ work' = Frames("enter", <<id>>)
      BY <1>6 DEF ActivateSink, registry
    <2>. QED
      BY <2>1, <2>2, StartFrames
  <1>7. CASE DrainNext \/ CascadeNext \/ EndDrain
    BY <1>7 DEF DrainNext, CascadeNext, EndDrain
  <1>8. CASE EnterNode
    <2>1. phase = "activate"
      BY <1>8 DEF EnterNode
    <2>. QED
      BY <1>8, <2>1, EnterFrames DEF ActivationInv, GuardsPending
  <1>9. CASE FinishNode
    <2>1. /\ phase = "activate" /\ work \in Seq(Frame) /\ work # <<>> /\ Head(work).op = "finish"
          /\ work' = Tail(work) /\ UNCHANGED <<entries, deps, active>>
      BY <1>9, TypeParts DEF FinishNode, CallsOK
    <2>. QED
      BY <2>1, PopFrame DEF ActivationInv, GuardsPending
  <1>10. CASE Return
    BY <1>10 DEF Return
  <1>. QED
    BY <1>1, <1>2, <1>3, <1>4, <1>5, <1>6, <1>7, <1>8, <1>9, <1>10 DEF Next, Step

-----------------------------------------------------------------------------
(* Fresh nodes                                                              *)

\* What a node over ds reads when the values are v, and whether all of it is there.
ReadFrom(v, ds) == UNION {v[d] : d \in Range(ds)}
Full(v, ds) == Range(ds) \subseteq DOMAIN v

\* With the values v and the emissions e, the node n over ds holds what it reads.
FreshIn(n, v, e, ds) ==
    /\ Kind[n] = "Compute" /\ Full(v, ds) => n \in DOMAIN v /\ v[n] = ReadFrom(v, ds)
    /\ n \in DOMAIN e /\ Full(v, ds) => e[n] = ReadFrom(v, ds)

\* The nodes that the cycle has still to run.
Waiting ==
    CASE stage = "sort"       -> dirty
      [] stage = "sequential" -> {sorted[i] : i \in (ran + 1)..Len(sorted)}
      [] stage = "parallel"   -> remaining
      [] OTHER                -> {}

\* Every active node is fresh but for those that an activation has not finished and
\* those that the cycle has still to run.
AllFresh == \A n \in active \ (Finishing(work) \cup Waiting) : FreshIn(n, values, emitted, deps[n])

\* What a node of a parallel cycle that has run reads from has run as well.
RanAfter ==
    stage = "parallel" =>
        \A m \in dirty \ remaining : ~IsAsync(m) => Range(deps[m]) \cap remaining = {}

\* Only sinks emit, and none before its activation is over.
EmitOK ==
    /\ \A n \in DOMAIN emitted : Kind[n] = "Sink"
    /\ Finishing(work) \cap DOMAIN emitted = {}

\* A sink that the cycle reached and has run emitted, if it could.
SinksRan ==
    stage # "none" =>
        \A n \in dirty \ Waiting :
            Kind[n] = "Sink" /\ Full(values, deps[n]) => n \in DOMAIN emitted

FreshInv == AllFresh /\ RanAfter /\ EmitOK /\ SinksRan

\* A fresh node stays fresh when nothing it reads gets another value, its own value
\* stays and its emission is not another one.
LEMMA FreshKept ==
    ASSUME NEW n, NEW v, NEW w, NEW e, NEW f, NEW ds, FreshIn(n, v, e, ds),
           \A d \in Range(ds) : d \in DOMAIN w => d \in DOMAIN v /\ w[d] = v[d],
           Kind[n] = "Compute" /\ n \in DOMAIN v => n \in DOMAIN w /\ w[n] = v[n],
           n \in DOMAIN f => n \in DOMAIN e /\ f[n] = e[n]
    PROVE  FreshIn(n, w, f, ds)
  <1>1. ASSUME Full(w, ds)
        PROVE  Full(v, ds) /\ ReadFrom(w, ds) = ReadFrom(v, ds)
    <2>1. \A d \in Range(ds) : d \in DOMAIN v /\ w[d] = v[d]
      BY <1>1 DEF Full
    <2>2. {w[d] : d \in Range(ds)} = {v[d] : d \in Range(ds)}
      BY <2>1
    <2>. QED
      BY <2>1, <2>2 DEF Full, ReadFrom
  <1>. QED
    BY <1>1 DEF FreshIn

\* A step that changes no value, no emission and no wiring.
LEMMA QuietFresh ==
    ASSUME FreshInv, UNCHANGED <<values, emitted, deps, active, cycle>>,
           Finishing(work') = Finishing(work), stage = "none" \/ UNCHANGED entries
    PROVE  FreshInv'
  <1>1. Waiting' = Waiting /\ stage' = stage /\ dirty' = dirty /\ remaining' = remaining
    BY DEF Waiting, cycle
  <1>2. AllFresh'
    BY <1>1 DEF AllFresh, FreshInv
  <1>3. RanAfter'
    BY <1>1 DEF RanAfter, IsAsync, FreshInv
  <1>4. EmitOK'
    BY DEF EmitOK, FreshInv
  <1>5. SinksRan'
    BY <1>1 DEF SinksRan, FreshInv
  <1>. QED
    BY <1>2, <1>3, <1>4, <1>5 DEF FreshInv

\* activate_node before its recursive calls: the node is not fresh yet.
LEMMA EnterFresh ==
    ASSUME FreshInv, TypeOK, WiringSound, StoreOK, stage = "none", EnterNode,
           UNCHANGED <<values, emitted, cycle>>
    PROVE  FreshInv'
  <1>. DEFINE id == Head(work).id
              skip == \/ id \in active \/ id \notin DOMAIN entries
                      \/ Head(work).op = "sink" /\ Kind[id] # "Sink"
  <1>1. RegistryOK /\ work \in Seq(Frame) /\ work # <<>> /\ Head(work).op \in {"sink", "enter"}
    BY TypeParts DEF EnterNode, CallsOK
  <1>2. id \in NodeId
    BY <1>1, TopType
  <1>3. Finishing(work) = Finishing(Tail(work))
    BY <1>1, FinishingTop
  <1>4. CASE skip /\ work' = Tail(work) /\ UNCHANGED registry
    BY <1>3, <1>4, QuietFresh DEF registry
  <1>5. CASE /\ ~skip
             /\ add_node(id, entries[id].deps)
             /\ active' = active \cup {id}
             /\ work' = Frames("enter", entries[id].deps) \o Frames("finish", <<id>>) \o Tail(work)
             /\ UNCHANGED <<entries, guards>>
    <2>1. id \notin active /\ id \in DOMAIN entries
      BY <1>5
    <2>2. entries[id].deps \in Seq(NodeId)
      BY <1>1, <2>1 DEF RegistryOK, Entry
    <2>3. \A n \in active : deps'[n] = deps[n]
      BY <1>5, <2>1 DEF add_node, WiringSound
    <2>4. Pushed(work', work, id, entries[id].deps)
      BY <1>1, <1>2, <1>5, <2>2, PushShape
    <2>5. Finishing(work') = {id} \cup Finishing(work)
      BY <1>3, <2>4 DEF Pushed
    <2>6. active' = active \cup {id} /\ id \notin DOMAIN emitted
      BY <1>5, <2>1 DEF StoreOK
    <2>7. Waiting' = Waiting /\ stage' = stage
      BY DEF Waiting, cycle
    <2>. HIDE DEF id
    <2>8. AllFresh'
      BY <2>3, <2>5, <2>6, <2>7 DEF AllFresh, FreshInv
    <2>9. RanAfter' /\ EmitOK' /\ SinksRan'
      BY <2>5, <2>6, <2>7 DEF RanAfter, EmitOK, SinksRan, FreshInv
    <2>. QED
      BY <2>8, <2>9 DEF FreshInv
  <1>. QED
    BY <1>4, <1>5 DEF EnterNode

\* activate_node after its recursive calls: the node and what it reads from are done.
LEMMA ActivateFresh ==
    ASSUME FreshInv, TypeOK, WiringSound, GuardsPending, ActivationInv, Acyclic,
           stage = "none", Activate
    PROVE  FreshInv'
  <1>1. /\ phase = "activate" /\ work \in Seq(Frame) /\ work # <<>> /\ Head(work).op = "finish"
        /\ work' = Tail(work) /\ UNCHANGED <<entries, deps, active, emitted, cycle>>
    BY TypeParts DEF Activate, FinishNode, CallsOK, seen
  <1>2. PICK id : id = Head(work).id
    OBVIOUS
  <1>3. Chained /\ Awaited /\ FinishedAbove /\ Finishing(work) \subseteq active
    BY <1>1 DEF ActivationInv, GuardsPending
  <1>4. Finishing(work) = Finishing(work') \cup {id}
    BY <1>1, <1>2, FinishingTop
  <1>5. id \in active /\ id \in DOMAIN entries /\ deps[id] = entries[id].deps /\ id \notin DOMAIN emitted
    BY <1>3, <1>4 DEF WiringSound, FreshInv, EmitOK
  <1>6. values' = IF Kind[id] = "Compute" THEN compute({id}) ELSE values
    BY <1>2 DEF Activate
  <1>7. \A d \in DOMAIN values' \ {id} : d \in DOMAIN values /\ values'[d] = values[d]
    BY <1>6, ComputeIs
  <1>8. \A n \in DOMAIN values \ {id} : n \in DOMAIN values' /\ values'[n] = values[n]
    BY <1>6, ComputeIs
  <1>9. id \notin Range(deps[id])
    <2>1. {id} \in SUBSET DOMAIN entries /\ {id} # {}
      BY <1>5
    <2>. QED
      BY <1>5, <2>1 DEF Acyclic
  <1>10. Waiting = {} /\ Waiting' = {} /\ stage' = "none"
    BY <1>1 DEF Waiting, cycle
  <1>11. ASSUME NEW n \in active \ Finishing(work'), n # id
         PROVE  FreshIn(n, values', emitted, deps[n])
    <2>1. n \in active \ Finishing(work)
      BY <1>4, <1>11
    <2>2. id \notin Range(deps[n])
      BY <1>3, <1>4, <1>5, <2>1 DEF FinishedAbove
    <2>3. FreshIn(n, values, emitted, deps[n])
      BY <1>10, <2>1 DEF FreshInv, AllFresh
    <2>. QED
      BY <1>7, <1>8, <1>11, <2>2, <2>3, FreshKept
  <1>12. FreshIn(id, values', emitted, deps[id])
    <2>1. Kind[id] = "Compute" /\ Full(values', deps[id]) =>
            id \in DOMAIN values' /\ values'[id] = ReadFrom(values', deps[id])
      <3>. SUFFICES ASSUME Kind[id] = "Compute", Full(values', deps[id])
                    PROVE  id \in DOMAIN values' /\ values'[id] = ReadFrom(values', deps[id])
        OBVIOUS
      <3>1. \A d \in Range(deps[id]) : d \in DOMAIN values /\ values'[d] = values[d]
        BY <1>7, <1>9 DEF Full
      <3>2. {values'[d] : d \in Range(deps[id])} = {values[d] : d \in Range(deps[id])}
        BY <3>1
      <3>3. HasInputs(entries[id].deps) /\ ReadFrom(values', deps[id]) = Read(entries[id].deps)
        BY <1>5, <3>1, <3>2 DEF HasInputs, ReadFrom, Read
      <3>4. id \in Complete({id}) /\ values' = compute({id})
        BY <1>6, <3>3, ComputeIs
      <3>. QED
        BY <3>3, <3>4, ComputeIs
    <2>. QED
      BY <1>5, <2>1 DEF FreshIn
  <1>13. AllFresh'
    BY <1>1, <1>10, <1>11, <1>12 DEF AllFresh
  <1>14. RanAfter' /\ EmitOK' /\ SinksRan'
    BY <1>1, <1>4, <1>10 DEF RanAfter, EmitOK, SinksRan, FreshInv
  <1>. QED
    BY <1>13, <1>14 DEF FreshInv

\* Removing a node leaves the lists of the other ones as they are.
LEMMA DeactivateKeeps ==
    ASSUME WiringSound, NEW id, NEW rest, deactivate_node(id, rest)
    PROVE  active' \subseteq active /\ \A n \in active' : deps'[n] = deps[n]
  BY DEF deactivate_node, remove_node, registry, WiringSound

\* The drain removes the values of the nodes it removes, and no others.
LEMMA DeactivateFresh ==
    ASSUME FreshInv, TypeOK, WiringSound, WiringSound', GuardsPending, GuardsPending',
           stage = "none", Deactivate
    PROVE  FreshInv'
  <1>. DEFINE gone == DOMAIN entries \ DOMAIN entries'
  <1>1. /\ values' = Without(values, gone) /\ emitted' = Without(emitted, gone)
        /\ UNCHANGED cycle /\ phase = "drain" /\ phase' = "drain"
    BY DEF Deactivate, DrainNext, CascadeNext
  <1>2. Finishing(work) = {} /\ Finishing(work') = {}
    BY <1>1 DEF GuardsPending
  <1>3. active' \subseteq active /\ \A n \in active' : deps'[n] = deps[n]
    <2>1. \E id, rest : deactivate_node(id, rest)
      BY DEF Deactivate, DrainNext, CascadeNext
    <2>. QED
      BY <2>1, DeactivateKeeps
  <1>4. active' \cap gone = {}
    BY DEF WiringSound
  <1>5. Waiting = {} /\ Waiting' = {} /\ stage' = "none"
    BY <1>1 DEF Waiting, cycle
  <1>. HIDE DEF gone
  <1>6. /\ \A d \in DOMAIN values' : d \in DOMAIN values /\ values'[d] = values[d]
        /\ \A n \in DOMAIN values \ gone : n \in DOMAIN values' /\ values'[n] = values[n]
        /\ \A d \in DOMAIN emitted' : d \in DOMAIN emitted /\ emitted'[d] = emitted[d]
    <2>1. /\ DOMAIN values' = DOMAIN values \ gone
          /\ \A n \in DOMAIN values \ gone : values'[n] = values[n]
      BY <1>1, WithoutIs
    <2>2. /\ DOMAIN emitted' = DOMAIN emitted \ gone
          /\ \A n \in DOMAIN emitted \ gone : emitted'[n] = emitted[n]
      BY <1>1, WithoutIs
    <2>. QED
      BY <2>1, <2>2
  <1>7. ASSUME NEW n \in active'
        PROVE  FreshIn(n, values', emitted', deps'[n])
    <2>1. FreshIn(n, values, emitted, deps[n])
      BY <1>2, <1>3, <1>5 DEF FreshInv, AllFresh
    <2>2. FreshIn(n, values', emitted', deps[n])
      BY <1>4, <1>6, <2>1, FreshKept
    <2>. QED
      BY <1>3, <2>2
  <1>8. AllFresh'
    BY <1>7 DEF AllFresh
  <1>9. RanAfter' /\ EmitOK' /\ SinksRan'
    BY <1>2, <1>5, <1>6 DEF RanAfter, EmitOK, SinksRan, FreshInv
  <1>. QED
    BY <1>8, <1>9 DEF FreshInv

\* A node that reads from an updated or from a dirty node is dirty.
LEMMA ReadersReached ==
    ASSUME RegistryOK, WiringSound, Connected, phase = "body", NEW U, NEW D, LeadsInto(U, D),
           NEW n \in active, NEW d \in Range(deps[n]), d \in U \/ d \in D
    PROVE  n \in D
  <1>1. d \in NodeId /\ n \in NodeId
    BY DEF Connected, RegistryOK
  <1>2. dependents[d][n] = Occurrences(deps[n], d) /\ dependents[d][n] \in Nat
    BY <1>1 DEF Connected, RegistryOK
  <1>3. Occurrences(deps[n], d) # 0
    <2>. DEFINE E == {k \in DOMAIN deps[n] : deps[n][k] = d}
    <2>1. IsFiniteSet(E)
      BY Positions
    <2>2. PICK k \in DOMAIN deps[n] : deps[n][k] = d
      BY DEF Range
    <2>3. E # {}
      BY <2>2
    <2>4. Cardinality(E) # 0
      <3>. HIDE DEF E
      <3>. QED
        BY <2>1, <2>3, FS_EmptySet
    <2>. QED
      BY <2>4 DEF Occurrences
  <1>4. dependents[d][n] > 0
    BY <1>2, <1>3
  <1>. QED
    BY <1>1, <1>4 DEF LeadsInto

\* The cycle begins: every node that reads an updated value is waiting.
LEMMA BeginFresh ==
    ASSUME FreshInv, StoreOK, RegistryOK, WiringSound, Connected, BeginCycle
    PROVE  FreshInv'
  <1>. DEFINE U == Ids(source_rx) \cup Ids(result_rx)
              g == [n \in U |-> IF n \in Ids(result_rx) THEN Last(result_rx, n)
                                                         ELSE Last(source_rx, n)]
  <1>1. /\ phase = "body" /\ stage = "none" /\ stage' = "sort" /\ dirty' = dirty_set(U)
        /\ values' = With(values, g)
        /\ UNCHANGED <<work, active, deps, emitted>>
    BY DEF BeginCycle, vars, registry, seen
  <1>2. /\ \A n \in U : Kind[n] \in {"Source", "AsyncCompute"}
    BY MessagesType DEF StoreOK
  <1>3. /\ DOMAIN values' = DOMAIN values \cup U
        /\ \A n \in DOMAIN values \ U : values'[n] = values[n]
    <2>1. DOMAIN g = U
      OBVIOUS
    <2>. HIDE DEF g, U
    <2>. QED
      BY <1>1, <2>1, WithIs
  <1>. HIDE DEF U, g
  <1>4. LeadsInto(U, dirty_set(U))
    BY DirtyIs
  <1>5. Waiting = {} /\ Waiting' = dirty_set(U)
    BY <1>1 DEF Waiting
  <1>6. ASSUME NEW n \in active \ (Finishing(work) \cup dirty_set(U))
        PROVE  FreshIn(n, values', emitted, deps[n])
    <2>1. Range(deps[n]) \cap U = {}
      BY <1>1, <1>4, ReadersReached
    <2>2. FreshIn(n, values, emitted, deps[n])
      BY <1>5 DEF FreshInv, AllFresh
    <2>3. Kind[n] = "Compute" => n \notin U
      BY <1>2
    <2>. QED
      BY <1>3, <2>1, <2>2, <2>3, FreshKept
  <1>7. AllFresh'
    BY <1>1, <1>5, <1>6 DEF AllFresh
  <1>8. RanAfter' /\ EmitOK' /\ SinksRan'
    BY <1>1, <1>5 DEF RanAfter, EmitOK, SinksRan, FreshInv
  <1>. QED
    BY <1>7, <1>8 DEF FreshInv

\* While topo_sort works, the whole dirty set is waiting.
LEMMA SortFresh ==
    ASSUME FreshInv, NEW n \in NodeId, SortNext(n)
    PROVE  FreshInv'
  <1>1. /\ stage = "sort" /\ stage' = "sort"
        /\ UNCHANGED <<values, emitted, deps, active, work, dirty>>
    BY DEF SortNext, vars, registry, store, seen
  <1>2. Waiting' = Waiting
    BY <1>1 DEF Waiting
  <1>3. AllFresh'
    BY <1>1, <1>2 DEF AllFresh, FreshInv
  <1>4. RanAfter' /\ EmitOK' /\ SinksRan'
    BY <1>1, <1>2 DEF RanAfter, EmitOK, SinksRan, FreshInv
  <1>. QED
    BY <1>3, <1>4 DEF FreshInv

\* The execution starts: the nodes to run are the dirty ones, but for async nodes.
LEMMA EndSortFresh ==
    ASSUME FreshInv, CycleInv, RegistryOK, WiringSound, Connected, Acyclic, EndSort
    PROVE  FreshInv'
  <1>1. /\ stage = "sort" /\ ran = 0 /\ ran' = 0 /\ sorted' = sorted /\ dirty' = dirty
        /\ UNCHANGED <<values, emitted, deps, active, work, entries>>
    BY DEF EndSort, vars, registry, store, seen, CycleInv, CycleOK
  <1>2. Range(sorted) = dirty /\ sorted \in Seq(NodeId)
    BY SortsAll DEF CycleInv, CycleOK
  <1>3. Waiting = dirty
    BY <1>1 DEF Waiting
  <1>4. CASE stage' = "sequential"
    <2>1. DOMAIN sorted = 1..Len(sorted) /\ Waiting' = {sorted[i] : i \in (0 + 1)..Len(sorted)}
      BY <1>1, <1>2, <1>4, LenProperties DEF Waiting
    <2>2. Waiting' = dirty
      BY <1>2, <2>1 DEF Range
    <2>3. AllFresh'
      BY <1>1, <1>3, <2>2 DEF AllFresh, FreshInv
    <2>4. RanAfter' /\ EmitOK' /\ SinksRan'
      BY <1>1, <1>4, <2>2 DEF RanAfter, EmitOK, SinksRan, FreshInv
    <2>. QED
      BY <2>3, <2>4 DEF FreshInv
  <1>5. CASE stage' = "parallel" /\ remaining' = {n \in Range(sorted) : ~IsAsync(n)}
    <2>1. Waiting' = {n \in dirty : ~IsAsync(n)}
      BY <1>2, <1>5 DEF Waiting
    <2>2. \A n \in dirty \ Waiting' : Kind[n] = "AsyncCompute"
      BY <2>1 DEF IsAsync
    <2>3. ASSUME NEW n \in active, Kind[n] = "AsyncCompute"
          PROVE  FreshIn(n, values, emitted, deps[n])
      BY <2>3 DEF FreshIn, FreshInv, EmitOK
    <2>4. AllFresh'
      BY <1>1, <1>3, <2>2, <2>3 DEF AllFresh, FreshInv
    <2>5. RanAfter'
      BY <1>1, <1>2, <1>5 DEF RanAfter, IsAsync
    <2>6. EmitOK'
      BY <1>1 DEF EmitOK, FreshInv
    <2>7. SinksRan'
      BY <1>1, <2>2 DEF SinksRan
    <2>. QED
      BY <2>4, <2>5, <2>6, <2>7 DEF FreshInv
  <1>. QED
    BY <1>4, <1>5 DEF EndSort

\* execute_sequential_with_async runs a node: nothing that ran before reads from it.
LEMMA RunFresh ==
    ASSUME FreshInv, CycleInv, Sorted, RegistryOK, WiringSound, GuardsPending, Connected, RunNode
    PROVE  FreshInv'
  <1>1. /\ stage = "sequential" /\ stage' = "sequential" /\ ran \in Nat /\ ran + 1 \in DOMAIN sorted
        /\ ran' = ran + 1 /\ sorted' = sorted /\ dirty' = dirty /\ phase = "body"
        /\ sorted \in Seq(NodeId) /\ DOMAIN sorted = 1..Len(sorted) /\ Len(sorted) \in Nat
        /\ UNCHANGED <<deps, active, work>>
    BY LenProperties DEF RunNode, CycleInv, CycleOK, vars, registry
  <1>2. PICK n \in NodeId : n = sorted[ran + 1]
    BY <1>1
  <1>3. n \in dirty /\ n \in active /\ deps[n] = entries[n].deps
    BY <1>1, <1>2 DEF Sorted, Range, CycleInv, OrderInv, WiringSound
  <1>4. Range(sorted) = dirty /\ Finishing(work) = {}
    BY <1>1 DEF Sorted, GuardsPending
  <1>5. Waiting = {sorted[i] : i \in (ran + 1)..Len(sorted)}
        /\ Waiting' = {sorted[i] : i \in (ran + 2)..Len(sorted)}
    <2>1. (ran + 1) + 1 = ran + 2
      BY <1>1
    <2>. QED
      BY <1>1, <2>1 DEF Waiting
  <1>6. ASSUME NEW m \in active, m \notin Waiting', m # n
        PROVE  m \notin Waiting /\ n \notin Range(deps[m])
    <2>1. m \notin Waiting
      <3>1. \A i \in (ran + 1)..Len(sorted) : i = ran + 1 \/ i \in (ran + 2)..Len(sorted)
        BY <1>1
      <3>. QED
        BY <1>2, <1>5, <1>6, <3>1
    <2>2. n \notin Range(deps[m])
      <3>. SUFFICES ASSUME n \in Range(deps[m]) PROVE FALSE
        OBVIOUS
      <3>1. m \in dirty
        BY <1>1, <1>3, ReadersReached DEF CycleInv, OrderInv
      <3>2. PICK i \in DOMAIN sorted : sorted[i] = m
        BY <1>4, <3>1 DEF Range
      <3>3. i <= ran + 1
        BY <1>1, <1>5, <2>1, <3>2
      <3>. QED
        BY <1>1, <1>2, <3>2, <3>3 DEF CycleInv, OrderInv
    <2>. QED
      BY <2>1, <2>2
  <1>7. n \notin Range(deps[n])
    <2>1. ran + 1 <= ran + 1
      BY <1>1
    <2>. QED
      BY <1>1, <1>2, <2>1 DEF CycleInv, OrderInv
  <1>9. ASSUME NEW v, NEW e,
               \A d \in DOMAIN v \ {n} : d \in DOMAIN values /\ v[d] = values[d],
               \A d \in DOMAIN values \ {n} : d \in DOMAIN v /\ v[d] = values[d],
               \A d \in DOMAIN e \ {n} : d \in DOMAIN emitted /\ e[d] = emitted[d],
               FreshIn(n, v, e, deps[n])
        PROVE  \A m \in active \ Waiting' : FreshIn(m, v, e, deps[m])
    <2>. SUFFICES ASSUME NEW m \in active \ Waiting', m # n PROVE FreshIn(m, v, e, deps[m])
      BY <1>9
    <2>1. m \notin Waiting /\ n \notin Range(deps[m])
      BY <1>6
    <2>2. FreshIn(m, values, emitted, deps[m])
      BY <1>4, <2>1 DEF FreshInv, AllFresh
    <2>. QED
      BY <1>9, <2>1, <2>2, FreshKept
  <1>8. ASSUME NEW v, NEW e,
               \A d \in DOMAIN v \ {n} : d \in DOMAIN values,
               DOMAIN emitted \subseteq DOMAIN e,
               Kind[n] = "Sink" /\ Full(v, deps[n]) => n \in DOMAIN e
        PROVE  \A m \in dirty \ Waiting' : Kind[m] = "Sink" /\ Full(v, deps[m]) => m \in DOMAIN e
    <2>. SUFFICES ASSUME NEW m \in dirty \ Waiting', m # n, Kind[m] = "Sink", Full(v, deps[m])
                  PROVE  m \in DOMAIN e
      BY <1>8
    <2>1. m \notin Waiting /\ n \notin Range(deps[m])
      BY <1>6 DEF CycleInv, OrderInv
    <2>2. Full(values, deps[m])
      BY <1>8, <2>1 DEF Full
    <2>. QED
      BY <1>1, <1>8, <2>1, <2>2 DEF SinksRan, FreshInv
  <1>10. CASE /\ n \in DOMAIN entries /\ Kind[n] = "Compute"
              /\ values' = Computed(n)
              /\ UNCHANGED <<spawns, emitted>>
    <2>1. /\ \A d \in DOMAIN values' \ {n} : d \in DOMAIN values /\ values'[d] = values[d]
          /\ \A d \in DOMAIN values \ {n} : d \in DOMAIN values' /\ values'[d] = values[d]
          /\ HasInputs(entries[n].deps) => n \in DOMAIN values' /\ values'[n] = Read(entries[n].deps)
      <3>1. CASE values' = compute({n})
        <4>1. PICK C : C = Complete({n})
          OBVIOUS
        <4>2. PICK v : v = compute({n})
          OBVIOUS
        <4>3. /\ DOMAIN v = DOMAIN values \cup C
              /\ \A d \in C : v[d] = Read(entries[d].deps)
              /\ \A d \in DOMAIN values \ C : v[d] = values[d]
              /\ C \subseteq {n} /\ (n \in C <=> HasInputs(entries[n].deps))
          BY <4>1, <4>2, ComputeIs
        <4>4. values' = v
          BY <3>1, <4>2
        <4>. QED
          BY <4>3, <4>4
      <3>2. CASE values' = Without(values, {n}) /\ Complete({n}) = {}
        <4>1. /\ DOMAIN values' = DOMAIN values \ {n}
              /\ \A d \in DOMAIN values \ {n} : values'[d] = values[d]
          BY <3>2, WithoutIs
        <4>2. ~HasInputs(entries[n].deps)
          BY <3>2 DEF Complete
        <4>. QED
          BY <4>1, <4>2
      <3>. QED
        BY <1>10, <3>1, <3>2 DEF Computed
    <2>2. n \notin DOMAIN emitted
      BY <1>10 DEF FreshInv, EmitOK
    <2>3. FreshIn(n, values', emitted, deps[n])
      <3>. SUFFICES ASSUME Full(values', deps[n])
                    PROVE  n \in DOMAIN values' /\ values'[n] = ReadFrom(values', deps[n])
        BY <2>2 DEF FreshIn
      <3>1. \A d \in Range(deps[n]) : d \in DOMAIN values /\ values'[d] = values[d]
        BY <1>7, <2>1 DEF Full
      <3>2. {values'[d] : d \in Range(deps[n])} = {values[d] : d \in Range(deps[n])}
        BY <3>1
      <3>3. HasInputs(entries[n].deps) /\ ReadFrom(values', deps[n]) = Read(entries[n].deps)
        BY <1>3, <3>1, <3>2 DEF HasInputs, ReadFrom, Read
      <3>. QED
        BY <2>1, <3>3
    <2>4. AllFresh'
      <3>1. \A m \in active \ Waiting' : FreshIn(m, values', emitted, deps[m])
        BY <1>9, <2>1, <2>3
      <3>. QED
        BY <1>1, <1>10, <3>1 DEF AllFresh
    <2>5. RanAfter' /\ EmitOK'
      BY <1>1, <1>10 DEF RanAfter, EmitOK, FreshInv
    <2>6. SinksRan'
      <3>1. \A m \in dirty \ Waiting' : Kind[m] = "Sink" /\ Full(values', deps[m]) => m \in DOMAIN emitted
        BY <1>8, <1>10, <2>1
      <3>. QED
        BY <1>1, <1>10, <3>1 DEF SinksRan
    <2>. QED
      BY <2>4, <2>5, <2>6 DEF FreshInv
  <1>11. CASE /\ n \in DOMAIN entries /\ Kind[n] = "Sink"
              /\ emitted' = emit({n})
              /\ UNCHANGED <<values, spawns>>
    <2>1. /\ \A d \in DOMAIN emitted' \ {n} : d \in DOMAIN emitted /\ emitted'[d] = emitted[d]
          /\ DOMAIN emitted' \subseteq DOMAIN emitted \cup {n}
          /\ DOMAIN emitted \subseteq DOMAIN emitted'
          /\ HasInputs(entries[n].deps) => n \in DOMAIN emitted' /\ emitted'[n] = Read(entries[n].deps)
      <3>1. /\ DOMAIN emitted' = DOMAIN emitted \cup Complete({n})
            /\ \A d \in Complete({n}) : emitted'[d] = Read(entries[d].deps)
            /\ \A d \in DOMAIN emitted \ Complete({n}) : emitted'[d] = emitted[d]
        BY <1>11, EmitIs
      <3>2. Complete({n}) \subseteq {n} /\ (HasInputs(entries[n].deps) => n \in Complete({n}))
        BY DEF Complete
      <3>. QED
        BY <3>1, <3>2
    <2>2. FreshIn(n, values, emitted', deps[n])
      BY <1>3, <1>11, <2>1 DEF FreshIn, Full, ReadFrom, HasInputs, Read
    <2>3. AllFresh'
      <3>1. \A m \in active \ Waiting' : FreshIn(m, values, emitted', deps[m])
        BY <1>9, <2>1, <2>2
      <3>. QED
        BY <1>1, <1>11, <3>1 DEF AllFresh
    <2>4. RanAfter' /\ EmitOK'
      BY <1>1, <1>4, <1>11, <2>1 DEF RanAfter, EmitOK, FreshInv
    <2>5. SinksRan'
      <3>1. Full(values, deps[n]) => n \in DOMAIN emitted'
        BY <1>3, <2>1 DEF Full, HasInputs
      <3>2. \A m \in dirty \ Waiting' : Kind[m] = "Sink" /\ Full(values, deps[m]) => m \in DOMAIN emitted'
        BY <1>8, <2>1, <3>1
      <3>. QED
        BY <1>1, <1>11, <3>2 DEF SinksRan
    <2>. QED
      BY <2>3, <2>4, <2>5 DEF FreshInv
  <1>12. CASE IsAsync(n) /\ UNCHANGED <<values, emitted>>
    <2>1. FreshIn(n, values, emitted, deps[n])
      BY <1>12 DEF FreshIn, IsAsync, FreshInv, EmitOK
    <2>2. \A m \in active \ Waiting' : FreshIn(m, values, emitted, deps[m])
      BY <1>9, <2>1
    <2>3. AllFresh'
      BY <1>1, <1>12, <2>2 DEF AllFresh
    <2>4. RanAfter' /\ EmitOK'
      BY <1>1, <1>12 DEF RanAfter, EmitOK, FreshInv
    <2>5. SinksRan'
      <3>1. \A m \in dirty \ Waiting' : Kind[m] = "Sink" /\ Full(values, deps[m]) => m \in DOMAIN emitted
        BY <1>8, <1>12 DEF IsAsync
      <3>. QED
        BY <1>1, <1>12, <3>1 DEF SinksRan
    <2>. QED
      BY <2>3, <2>4, <2>5 DEF FreshInv
  <1>. QED
    BY <1>1, <1>2, <1>10, <1>11, <1>12 DEF RunNode

\* execute_parallel runs a wave: nothing that ran before reads from its nodes, nor do
\* these from each other.
LEMMA WaveFresh ==
    ASSUME FreshInv, CycleInv, RegistryOK, WiringSound, GuardsPending, Connected, RunWave
    PROVE  FreshInv'
  <1>. DEFINE ready == {n \in remaining : degree[n] = 0}
              runs(k) == {n \in ready \cap DOMAIN entries : Kind[n] = k}
  <1>1. /\ stage = "parallel" /\ stage' = "parallel" /\ phase = "body" /\ dirty' = dirty
        /\ values' = compute(runs("Compute")) /\ emitted' = emit(runs("Sink"))
        /\ remaining' = remaining \ ready
        /\ UNCHANGED <<deps, active, work, entries>>
    BY DEF RunWave, CycleInv, CycleOK, vars, registry
  <1>2. PICK R : R = ready
    OBVIOUS
  <1>3. PICK C : C = runs("Compute")
    OBVIOUS
  <1>4. PICK K : K = runs("Sink")
    OBVIOUS
  <1>5. /\ R \subseteq remaining /\ R = {n \in remaining : degree[n] = 0}
        /\ C = {n \in R \cap DOMAIN entries : Kind[n] = "Compute"}
        /\ K = {n \in R \cap DOMAIN entries : Kind[n] = "Sink"}
        /\ values' = compute(C) /\ emitted' = emit(K) /\ remaining' = remaining \ R
    BY <1>1, <1>2, <1>3, <1>4
  <1>. HIDE DEF ready, runs
  <1>6. /\ remaining \subseteq dirty /\ dirty \subseteq active /\ active \subseteq DOMAIN entries
        /\ \A n \in active : deps[n] = entries[n].deps
        /\ Finishing(work) = {} /\ Waiting = remaining /\ Waiting' = remaining'
    BY <1>1 DEF CycleInv, OrderInv, CountInv, WiringSound, GuardsPending, Waiting
  <1>7. ASSUME NEW n \in R
        PROVE  Range(deps[n]) \cap remaining = {}
    <2>1. n \in active /\ degree[n] = 0 /\ degree[n] = Cardinality(Ahead(n))
      BY <1>5, <1>6 DEF CycleInv, CountInv
    <2>2. IsFiniteSet(Ahead(n))
      BY <2>1, Positions DEF Ahead
    <2>3. Ahead(n) = {}
      BY <2>1, <2>2, FS_EmptySet
    <2>. SUFFICES ASSUME NEW i \in DOMAIN deps[n], deps[n][i] \in remaining PROVE FALSE
      BY DEF Range
    <2>4. i \in Ahead(n)
      BY <1>6 DEF Ahead
    <2>. QED
      BY <2>3, <2>4
  <1>8. ASSUME NEW n \in active, n \notin remaining, Kind[n] # "AsyncCompute"
        PROVE  Range(deps[n]) \cap remaining = {}
    <2>. SUFFICES ASSUME NEW d \in Range(deps[n]), d \in remaining PROVE FALSE
      OBVIOUS
    <2>1. n \in dirty
      BY <1>1, <1>6, ReadersReached DEF CycleInv, OrderInv
    <2>. QED
      BY <1>1, <1>8, <2>1 DEF FreshInv, RanAfter, IsAsync
  <1>9. /\ DOMAIN values' = DOMAIN values \cup Complete(C) /\ Complete(C) \subseteq C
        /\ \A n \in Complete(C) : values'[n] = Read(entries[n].deps)
        /\ \A n \in DOMAIN values \ Complete(C) : values'[n] = values[n]
        /\ \A n \in C : n \in Complete(C) <=> HasInputs(entries[n].deps)
    BY <1>5, ComputeIs
  <1>10. /\ DOMAIN emitted' = DOMAIN emitted \cup Complete(K) /\ Complete(K) \subseteq K
         /\ \A n \in Complete(K) : emitted'[n] = Read(entries[n].deps)
         /\ \A n \in DOMAIN emitted \ Complete(K) : emitted'[n] = emitted[n]
         /\ \A n \in K : n \in Complete(K) <=> HasInputs(entries[n].deps)
    <2>1. /\ DOMAIN emitted' = DOMAIN emitted \cup Complete(K)
          /\ \A n \in Complete(K) : emitted'[n] = Read(entries[n].deps)
          /\ \A n \in DOMAIN emitted \ Complete(K) : emitted'[n] = emitted[n]
      BY <1>5, EmitIs
    <2>. QED
      BY <2>1, ComputeIs
  <1>11. ASSUME NEW n \in active, Range(deps[n]) \cap remaining = {}
         PROVE  /\ \A d \in Range(deps[n]) : d \in DOMAIN values' => d \in DOMAIN values /\ values'[d] = values[d]
                /\ Full(values', deps[n]) => /\ HasInputs(entries[n].deps)
                                             /\ ReadFrom(values', deps[n]) = Read(entries[n].deps)
    <2>1. \A d \in Range(deps[n]) : d \in DOMAIN values' => d \in DOMAIN values /\ values'[d] = values[d]
      BY <1>5, <1>9, <1>11
    <2>2. ASSUME Full(values', deps[n])
          PROVE  HasInputs(entries[n].deps) /\ ReadFrom(values', deps[n]) = Read(entries[n].deps)
      <3>1. \A d \in Range(deps[n]) : d \in DOMAIN values /\ values'[d] = values[d]
        BY <2>1, <2>2 DEF Full
      <3>2. {values'[d] : d \in Range(deps[n])} = {values[d] : d \in Range(deps[n])}
        BY <3>1
      <3>. QED
        BY <1>6, <3>1, <3>2 DEF HasInputs, ReadFrom, Read
    <2>. QED
      BY <2>1, <2>2
  <1>12. ASSUME NEW n \in R
         PROVE  FreshIn(n, values', emitted', deps[n])
    <2>1. n \in active /\ n \in DOMAIN entries /\ Range(deps[n]) \cap remaining = {}
      BY <1>5, <1>6, <1>7
    <2>2. Kind[n] = "Compute" /\ Full(values', deps[n]) =>
             n \in DOMAIN values' /\ values'[n] = ReadFrom(values', deps[n])
      BY <1>5, <1>9, <1>11, <2>1
    <2>3. n \in DOMAIN emitted' /\ Full(values', deps[n]) => emitted'[n] = ReadFrom(values', deps[n])
      <3>. SUFFICES ASSUME n \in DOMAIN emitted', Full(values', deps[n])
                    PROVE  emitted'[n] = ReadFrom(values', deps[n])
        OBVIOUS
      <3>1. Kind[n] = "Sink"
        BY <1>5, <1>10 DEF FreshInv, EmitOK
      <3>2. n \in K
        BY <1>5, <2>1, <3>1
      <3>. QED
        BY <1>10, <1>11, <2>1, <3>2
    <2>. QED
      BY <2>2, <2>3 DEF FreshIn
  <1>13. ASSUME NEW n \in active, n \notin remaining
         PROVE  FreshIn(n, values', emitted', deps[n])
    <2>1. FreshIn(n, values, emitted, deps[n])
      BY <1>6, <1>13 DEF FreshInv, AllFresh
    <2>2. CASE Kind[n] = "AsyncCompute"
      <3>1. n \notin DOMAIN emitted'
        BY <1>5, <1>10, <1>13, <2>2 DEF FreshInv, EmitOK
      <3>. QED
        BY <2>2, <3>1 DEF FreshIn
    <2>3. CASE Kind[n] # "AsyncCompute"
      <3>1. Range(deps[n]) \cap remaining = {}
        BY <1>8, <1>13, <2>3
      <3>2. /\ n \in DOMAIN values => n \in DOMAIN values' /\ values'[n] = values[n]
            /\ n \in DOMAIN emitted' => n \in DOMAIN emitted /\ emitted'[n] = emitted[n]
        BY <1>5, <1>9, <1>10, <1>13
      <3>3. \A d \in Range(deps[n]) : d \in DOMAIN values' => d \in DOMAIN values /\ values'[d] = values[d]
        BY <1>11, <3>1
      <3>. QED
        BY <2>1, <3>2, <3>3, FreshKept
    <2>. QED
      BY <2>2, <2>3
  <1>14. AllFresh'
    <2>1. \A n \in active \ remaining' : FreshIn(n, values', emitted', deps[n])
      BY <1>5, <1>12, <1>13
    <2>. QED
      BY <1>1, <1>6, <2>1 DEF AllFresh
  <1>15. RanAfter'
    <2>1. \A m \in dirty \ remaining' : ~IsAsync(m) => Range(deps[m]) \cap remaining' = {}
      <3>. SUFFICES ASSUME NEW m \in dirty \ remaining', ~IsAsync(m)
                    PROVE  Range(deps[m]) \cap remaining = {}
        BY <1>5
      <3>1. CASE m \in R
        BY <1>7, <3>1
      <3>2. CASE m \notin remaining
        BY <1>1, <3>2 DEF FreshInv, RanAfter
      <3>. QED
        BY <1>5, <3>1, <3>2
    <2>. QED
      BY <1>1, <2>1 DEF RanAfter, IsAsync
  <1>16. EmitOK'
    BY <1>1, <1>5, <1>6, <1>10 DEF EmitOK, FreshInv
  <1>17. SinksRan'
    <2>. SUFFICES ASSUME NEW m \in dirty \ remaining', Kind[m] = "Sink", Full(values', deps[m])
                  PROVE  m \in DOMAIN emitted'
      BY <1>1, <1>6 DEF SinksRan
    <2>1. CASE m \in R
      <3>1. m \in active /\ m \in K /\ Range(deps[m]) \cap remaining = {}
        BY <1>5, <1>6, <1>7, <2>1
      <3>. QED
        BY <1>10, <1>11, <3>1
    <2>2. CASE m \notin remaining
      <3>1. m \in active /\ Range(deps[m]) \cap remaining = {}
        BY <1>6, <1>8, <2>2
      <3>2. Full(values, deps[m])
        BY <1>11, <3>1 DEF Full
      <3>. QED
        BY <1>1, <1>6, <1>10, <2>2, <3>2 DEF SinksRan, FreshInv
    <2>. QED
      BY <1>5, <2>1, <2>2
  <1>. QED
    BY <1>14, <1>15, <1>16, <1>17 DEF FreshInv

\* When the nodes of a cycle have run, none is waiting.
LEMMA NothingWaits ==
    ASSUME CycleInv, RegistryOK, WiringSound, NoAsyncWaves, AllRan
    PROVE  Waiting = {}
  <1>1. CASE stage = "sequential"
    <2>1. ran = Len(sorted) /\ Len(sorted) \in Nat
      BY <1>1, LenProperties DEF AllRan, CycleInv, CycleOK
    <2>2. (ran + 1)..Len(sorted) = {}
      BY <2>1
    <2>. QED
      BY <1>1, <2>2 DEF Waiting
  <1>2. CASE stage = "parallel"
    BY <1>2, NoneLeft DEF Waiting
  <1>. QED
    BY <1>1, <1>2 DEF AllRan

\* The cycle ends when nothing is waiting.
LEMMA EndFresh ==
    ASSUME FreshInv, CycleInv, RegistryOK, WiringSound, NoAsyncWaves, EndCycle
    PROVE  FreshInv'
  <1>1. /\ AllRan /\ stage' = "none" /\ UNCHANGED <<values, emitted, deps, active, work>>
    BY DEF EndCycle, Return, registry
  <1>2. Waiting = {}
    BY <1>1, NothingWaits
  <1>3. Waiting' = {}
    BY <1>1 DEF Waiting
  <1>4. AllFresh'
    BY <1>1, <1>2, <1>3 DEF AllFresh, FreshInv
  <1>5. RanAfter' /\ EmitOK' /\ SinksRan'
    BY <1>1 DEF RanAfter, EmitOK, SinksRan, FreshInv
  <1>. QED
    BY <1>4, <1>5 DEF FreshInv

\* The steps outside the cycle that change values, or make a node active.
LEMMA OutsideFresh ==
    ASSUME FreshInv, TypeOK, WiringSound, WiringSound', GuardsPending, GuardsPending',
           ActivationInv, CycleInv, StoreOK, Acyclic,
           Deactivate \/ Activate \/ Proceed
    PROVE  FreshInv'
  <1>1. CASE Deactivate
    <2>1. stage = "none"
      BY <1>1 DEF Deactivate, DrainNext, CascadeNext, CycleInv, CycleOK
    <2>. QED
      BY <1>1, <2>1, DeactivateFresh
  <1>2. CASE Activate
    <2>1. stage = "none"
      BY <1>2 DEF Activate, FinishNode, CycleInv, CycleOK
    <2>. QED
      BY <1>2, <2>1, ActivateFresh
  <1>3. CASE Proceed
    <2>1. UNCHANGED <<values, emitted, cycle>>
      BY <1>3 DEF Proceed, store, seen
    <2>2. CASE EndDrain
      <3>1. UNCHANGED <<deps, active, work, entries>>
        BY <2>2 DEF EndDrain, registry
      <3>. QED
        BY <2>1, <3>1, QuietFresh
    <2>3. CASE EnterNode
      <3>1. stage = "none"
        BY <2>3 DEF EnterNode, CycleInv, CycleOK
      <3>. QED
        BY <2>1, <2>3, <3>1, EnterFresh
    <2>4. CASE Return
      <3>1. UNCHANGED <<deps, active, work, entries>>
        BY <2>4 DEF Return, registry
      <3>. QED
        BY <2>1, <3>1, QuietFresh
    <2>. QED
      BY <1>3, <2>2, <2>3, <2>4 DEF Proceed
  <1>. QED
    BY <1>1, <1>2, <1>3

\* What clients call changes no value.
LEMMA ManageFresh ==
    ASSUME FreshInv, GuardsPending, Manage
    PROVE  FreshInv'
  <1>1. stage = "none" /\ UNCHANGED <<values, emitted, cycle>>
    BY DEF Manage, store, seen
  <1>2. CASE (\E h \in Handle : DropHandle(h)) \/ Call \/ (\E r \in Direct : Build(r))
    <2>1. UNCHANGED <<deps, active, work>>
      BY <1>2 DEF DropHandle, Call, Build, registry
    <2>. QED
      BY <1>1, <2>1, QuietFresh
  <1>3. ASSUME NEW op \in {"sink", "enter"}, NEW ids, phase = "body",
               UNCHANGED <<deps, active>>, work' = Frames(op, ids)
        PROVE  FreshInv'
    <2>1. Finishing(work') = {} /\ Finishing(work) = {}
      BY <1>3, FinishingFrames DEF GuardsPending
    <2>. QED
      BY <1>1, <1>3, <2>1, QuietFresh
  <1>4. ASSUME NEW h \in Handle, NEW script \in Script, Merge(h, script)
        PROVE  FreshInv'
    <2>1. phase = "body" /\ UNCHANGED <<deps, active>> /\ work' = Frames("sink", node_ids(script))
      BY <1>4 DEF Merge
    <2>. QED
      BY <1>3, <2>1
  <1>5. ASSUME NEW id \in NodeId, ActivateSink(id)
        PROVE  FreshInv'
    <2>1. phase = "body" /\ UNCHANGED <<deps, active>> /\ work' = Frames("enter", <<id>>)
      BY <1>5 DEF ActivateSink, registry
    <2>. QED
      BY <1>3, <2>1
  <1>. QED
    BY <1>2, <1>4, <1>5 DEF Manage

\* Every step of the engine keeps its nodes fresh.
LEMMA FreshNext ==
    ASSUME FreshInv, TypeOK, WiringSound, WiringSound', GuardsPending, GuardsPending',
           ActivationInv, CycleInv, Sorted, StoreOK, Connected, Acyclic, NoAsyncWaves,
           [EngineNext]_allVars
    PROVE  FreshInv'
  <1>0. RegistryOK
    BY TypeParts
  <1>1. ASSUME UNCHANGED <<vars, values, emitted, cycle>>
        PROVE  FreshInv'
    <2>1. UNCHANGED <<deps, active, work, entries>>
      BY <1>1 DEF vars, registry
    <2>. QED
      BY <1>1, <2>1, QuietFresh
  <1>2. CASE UNCHANGED allVars
    BY <1>1, <1>2 DEF allVars, store, seen
  <1>3. ASSUME NEW s \in NodeId, Send(s)
        PROVE  FreshInv'
    BY <1>1, <1>3 DEF Send, seen
  <1>4. ASSUME NEW j \in jobs, JobEnds(j)
        PROVE  FreshInv'
    BY <1>1, <1>4 DEF JobEnds, seen
  <1>5. ASSUME NEW p \in Strategy, SetErrorStrategy(p[1], p[2])
        PROVE  FreshInv'
    BY <1>1, <1>5 DEF SetErrorStrategy, seen
  <1>6. CASE Manage
    BY <1>6, ManageFresh
  <1>7. CASE Deactivate \/ Activate \/ Proceed
    BY <1>7, OutsideFresh
  <1>8. CASE BeginCycle
    BY <1>0, <1>8, BeginFresh
  <1>9. CASE NoCycle
    <2>1. UNCHANGED <<values, emitted, cycle, deps, active, work, entries>>
      BY <1>9 DEF NoCycle, Return, registry, store, seen
    <2>. QED
      BY <2>1, QuietFresh
  <1>10. ASSUME NEW n \in NodeId, SortNext(n)
         PROVE  FreshInv'
    BY <1>10, SortFresh
  <1>11. CASE EndSort
    BY <1>0, <1>11, EndSortFresh
  <1>12. CASE RunNode
    BY <1>0, <1>12, RunFresh
  <1>13. CASE RunWave
    BY <1>0, <1>13, WaveFresh
  <1>14. CASE EndCycle
    BY <1>0, <1>14, EndFresh
  <1>. QED
    BY <1>2, <1>3, <1>4, <1>5, <1>6, <1>7, <1>8, <1>9, <1>10, <1>11, <1>12, <1>13, <1>14
       DEF EngineNext, EngineStep, CycleStep

-----------------------------------------------------------------------------
(* The theorems                                                             *)

\* Activation goes through a graph without circles depth first: whatever is merged and
\* however often its nodes name each other, a node's activation ends only after that
\* of every node it reads from (Engine::activate_node).
THEOREM ActivationsAreDeep ==
    Spec /\ []NoDangling /\ []Acyclic => []ActivationInv
  <1>1. Init => ActivationInv
    BY DEF Init, ActivationInv
  <1>2. /\ TypeOK /\ WiringSound /\ GuardsPending /\ Connected /\ Acyclic /\ ActivationInv
        /\ [Next]_vars
        => ActivationInv'
    BY ActivationNext
  <1>. QED
    BY <1>1, <1>2, TypeCorrect, WiringIsSound, GuardsAreHeld, StaysConnected, PTL DEF Spec

\* As long as no active node reads from one that is gone, the graph has no circle and the
\* parallel cycle is not used on async nodes, an active node that nothing is about to finish or to run holds
\* what it reads, in the middle of a cycle, an activation or a drain as well.
THEOREM NodesAreFresh ==
    EngineSpec /\ []NoDangling /\ []Acyclic /\ []NoAsyncWaves
        => [](CycleInv /\ StoreOK /\ GuardsPending /\ FreshInv)
  <1>1. EngineInit => Sorted /\ FreshInv /\ StoreOK
    <2>1. EngineInit => Sorted
      BY DEF EngineInit, Sorted
    <2>2. EngineInit => FreshInv
      BY DEF EngineInit, Init, FreshInv, AllFresh, RanAfter, EmitOK, SinksRan
    <2>. QED
      BY <2>1, <2>2, StoreInit
  <1>2. /\ TypeOK /\ WiringSound /\ CycleInv /\ Connected /\ Acyclic /\ Sorted
        /\ [EngineNext]_allVars
        => Sorted'
    BY SortedNext, TypeParts
  <1>3. TypeOK /\ CycleInv /\ StoreOK /\ [EngineNext]_allVars => StoreOK'
    BY StoreNext
  <1>4. /\ FreshInv /\ TypeOK /\ WiringSound /\ WiringSound' /\ GuardsPending /\ GuardsPending'
        /\ ActivationInv /\ CycleInv /\ Sorted /\ StoreOK /\ Connected /\ Acyclic /\ NoAsyncWaves
        /\ [EngineNext]_allVars
        => FreshInv'
    BY FreshNext
  <1>. QED
    BY <1>1, <1>2, <1>3, <1>4, EngineIsLifecycle, CycleIsSound, GuardsAreHeld,
       StaysConnected, ActivationsAreDeep, PTL DEF EngineSpec

\* Between the calls every active compute node has the value that its inputs give: no
\* cycle, sequential or in waves, no activation and no removal leaves a stale or mixed
\* one behind (Engine::run_cycle, run_cycle_parallel, activate_node, deactivate_node).
THEOREM ValuesAreCoherent ==
    EngineSpec /\ []NoDangling /\ []Acyclic /\ []NoAsyncWaves => []Coherent
  <1>1. CycleInv /\ GuardsPending /\ FreshInv => Coherent
    <2>. SUFFICES ASSUME CycleInv, GuardsPending, FreshInv, phase = "idle",
                         NEW n \in active, Kind[n] = "Compute", HasInputs(deps[n])
                  PROVE  n \in DOMAIN values /\ values[n] = Read(deps[n])
      BY DEF Coherent
    <2>1. Finishing(work) = {} /\ Waiting = {}
      BY DEF GuardsPending, CycleInv, CycleOK, Waiting
    <2>2. FreshIn(n, values, emitted, deps[n])
      BY <2>1 DEF FreshInv, AllFresh
    <2>. QED
      BY <2>2 DEF FreshIn, Full, ReadFrom, HasInputs, Read
  <1>. QED
    BY <1>1, NodesAreFresh, PTL

\* Between the calls, what a sink emitted last is what its inputs hold; and when a cycle
\* has run its nodes, every sink that it reached and whose inputs all have values has
\* emitted (Engine::run_cycle, Scheduler::execute_parallel).  Nothing is said of a sink
\* that no cycle has reached: merged onto inputs that have values, it has emitted nothing.
THEOREM SinksAreFresh ==
    EngineSpec /\ []NoDangling /\ []Acyclic /\ []NoAsyncWaves => []SinkFresh
  <1>1. /\ TypeOK /\ WiringSound /\ NoAsyncWaves
        /\ CycleInv /\ StoreOK /\ GuardsPending /\ FreshInv
        => SinkFresh
    <2>. SUFFICES ASSUME TypeOK, WiringSound, NoAsyncWaves, CycleInv, StoreOK, GuardsPending, FreshInv
                  PROVE  SinkFresh
      OBVIOUS
    <2>1. ASSUME phase = "idle", NEW n \in DOMAIN emitted, HasInputs(deps[n])
          PROVE  emitted[n] = Read(deps[n])
      <3>1. Finishing(work) = {} /\ Waiting = {} /\ n \in active
        BY <2>1 DEF GuardsPending, CycleInv, CycleOK, Waiting, StoreOK
      <3>2. FreshIn(n, values, emitted, deps[n])
        BY <3>1 DEF FreshInv, AllFresh
      <3>. QED
        BY <2>1, <3>2 DEF FreshIn, Full, ReadFrom, HasInputs, Read
    <2>2. ASSUME AllRan, NEW n \in dirty, Kind[n] = "Sink", HasInputs(deps[n])
          PROVE  n \in DOMAIN emitted
      <3>1. Waiting = {}
        BY <2>2, NothingWaits, TypeParts
      <3>2. stage # "none"
        BY <2>2 DEF AllRan
      <3>. QED
        BY <2>2, <3>1, <3>2 DEF FreshInv, SinksRan, Full, HasInputs
    <2>. QED
      BY <2>1, <2>2 DEF SinkFresh
  <1>. QED
    BY <1>1, NodesAreFresh, EngineIsLifecycle, TypeCorrect, WiringIsSound, PTL

\* The same, from what the clients do: when a dropped handle shares no node with another
\* one, whoever brings a node brings what it reads from, nothing reads in a circle and
\* the parallel cycle is left to graphs without async nodes, the engine keeps registered
\* what is claimed, keeps it connected and shows its present value.
THEOREM ClientsAreServed ==
    EngineSpec /\ []Unshared /\ []InputsBrought /\ []Acyclic /\ []NoAsyncWaves
        => [](ExactLifetime /\ Connected /\ SortComplete /\ Coherent /\ SinkFresh)
  BY EngineIsLifecycle, LifetimesAreExact, NothingDangles, StaysConnected, SortIsComplete,
     ValuesAreCoherent, SinksAreFresh, PTL

-----------------------------------------------------------------------------
(* What the engine reports                                                  *)

\* The sizes of two sets without a common member add up.
LEMMA DisjointCount ==
    ASSUME NEW S, NEW T, IsFiniteSet(S), IsFiniteSet(T), S \cap T = {}
    PROVE  IsFiniteSet(S \cup T) /\ Cardinality(S \cup T) = Cardinality(S) + Cardinality(T)
  <1>1. /\ IsFiniteSet(S \cup T)
        /\ Cardinality(S \cup T) = Cardinality(S) + Cardinality(T) - Cardinality(S \cap T)
    BY FS_Union
  <1>2. Cardinality(S \cap T) = 0
    BY FS_EmptySet
  <1>3. Cardinality(S) \in Nat /\ Cardinality(T) \in Nat
    BY FS_CardinalityType
  <1>. QED
    BY <1>1, <1>2, <1>3

\* The active nodes are of four kinds, each of which metrics counts.
LEMMA KindsCounted ==
    ASSUME NEW L, L \subseteq NodeId
    PROVE  Cardinality(L) = Cardinality({n \in L : Kind[n] = "Source"})
                              + Cardinality({n \in L : Kind[n] = "Compute"})
                              + Cardinality({n \in L : Kind[n] = "AsyncCompute"})
                              + Cardinality({n \in L : Kind[n] = "Sink"})
  <1>1. PICK A : A = {n \in L : Kind[n] = "Source"}
    OBVIOUS
  <1>2. PICK B : B = {n \in L : Kind[n] = "Compute"}
    OBVIOUS
  <1>3. PICK C : C = {n \in L : Kind[n] = "AsyncCompute"}
    OBVIOUS
  <1>4. PICK D : D = {n \in L : Kind[n] = "Sink"}
    OBVIOUS
  <1>5. L = ((A \cup B) \cup C) \cup D
    BY <1>1, <1>2, <1>3, <1>4, KindAssumption DEF NodeKind
  <1>6. A \cap B = {} /\ (A \cup B) \cap C = {} /\ ((A \cup B) \cup C) \cap D = {}
    BY <1>1, <1>2, <1>3, <1>4
  <1>7. IsFiniteSet(A) /\ IsFiniteSet(B) /\ IsFiniteSet(C) /\ IsFiniteSet(D)
    BY <1>1, <1>2, <1>3, <1>4, NodeAssumption, FS_Subset
  <1>8. IsFiniteSet(A \cup B) /\ Cardinality(A \cup B) = Cardinality(A) + Cardinality(B)
    BY <1>6, <1>7, DisjointCount
  <1>9. /\ IsFiniteSet((A \cup B) \cup C)
        /\ Cardinality((A \cup B) \cup C) = Cardinality(A \cup B) + Cardinality(C)
    BY <1>6, <1>7, <1>8, DisjointCount
  <1>10. Cardinality(L) = Cardinality((A \cup B) \cup C) + Cardinality(D)
    BY <1>5, <1>6, <1>7, <1>9, DisjointCount
  <1>. QED
    BY <1>1, <1>2, <1>3, <1>4, <1>8, <1>9, <1>10

\* Between the calls snapshot and metrics agree with each other and with the handles: all
\* nodes of a merged subgraph are listed until it is drained, no edge starts at a node that
\* is not, and the counts add up, as long as dropped handles share no node, inputs are
\* brought along and a subgraph's nodes lead to its sinks (Engine::snapshot, metrics).
THEOREM ReportsHold ==
    EngineSpec /\ []Unshared /\ []InputsBrought /\ []SinksReach => []ReportsAgree
  <1>1. TypeOK /\ WiringSound /\ Connected /\ MergedActive => ReportsAgree
    <2>. SUFFICES ASSUME TypeOK, WiringSound, Connected, MergedActive, phase = "idle"
                  PROVE  ReportsAgree
      BY DEF ReportsAgree
    <2>1. PICK L : L = active \cap DOMAIN entries
      OBVIOUS
    <2>2. L = active /\ L \subseteq NodeId
      BY <2>1 DEF WiringSound, TypeOK
    <2>3. {i.id : i \in snapshot.nodes} = L
      <3>1. snapshot.nodes = {NodeInfo(n) : n \in L}
        BY <2>1 DEF snapshot
      <3>2. \A n \in L : NodeInfo(n).id = n
        BY DEF NodeInfo
      <3>. QED
        BY <3>1, <3>2
    <2>4. \A h \in Handle : Range(handles[h].node_ids) \subseteq L
      BY <2>2 DEF MergedActive, Named
    <2>5. \A e \in snapshot.edges : e[1] \in L
      BY <2>1, <2>2 DEF snapshot, Connected, WiringSound
    <2>6. Cardinality(L) = metrics("Source") + metrics("Compute")
                             + metrics("AsyncCompute") + metrics("Sink")
      BY <2>1, <2>2, KindsCounted DEF metrics
    <2>. QED
      BY <2>3, <2>4, <2>5, <2>6 DEF ReportsAgree
  <1>. QED
    BY <1>1, EngineIsLifecycle, SubgraphsAreActive, NothingDangles, StaysConnected,
       TypeCorrect, WiringIsSound, PTL
=============================================================================
