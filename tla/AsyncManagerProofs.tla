--------------------------- MODULE AsyncManagerProofs ---------------------------
(***************************************************************************)
(* Proofs about module AsyncManager, for any nodes, registrations, groups   *)
(* and number of triggers.                                                  *)
(***************************************************************************)
EXTENDS AsyncMethodProofs

-----------------------------------------------------------------------------
(* The inductive invariant                                                  *)

\* The jobs whose results are on their way to process_completion.
Travelling == Range(results) \cup Range(batch)

\* They are in no other place, and in one of the two only.
TravelInv ==
    /\ results \in Seq(Job) /\ batch \in Seq(Job)
    /\ IsInjective(results) /\ IsInjective(batch)
    /\ Range(results) \cap Range(batch) = {}
    /\ Travelling \cap Jobs(manager) = {}
    /\ \A j \in Travelling : Known(manager, j[1])

\* Every job is one that was triggered.
CountInv ==
    /\ triggers \in [Node -> 0..MaxTriggers]
    /\ applied \in [Node -> Seq(Nat)]
    /\ \A j \in Jobs(manager) \cup Travelling : j \in Job /\ j[2] <= triggers[j[1]]

\* The configuration of a node is one it was built with.
ConfigInv ==
    \A n \in DOMAIN manager.node_states :
        /\ Group(manager, n) <= Len(manager.groups)
        /\ \E b \in Builds : /\ b.id = n /\ b.policy = Policy(manager, n)
                             /\ b.group_id = Group(manager, n)

JobsInv == Sound(manager) /\ TravelInv /\ CountInv /\ ConfigInv

-----------------------------------------------------------------------------
(* What each action does                                                    *)

\* The states of known nodes, and the groups, keep their configuration.
KeepsConfig ==
    /\ DOMAIN manager.node_states \subseteq DOMAIN manager'.node_states
    /\ \A n \in DOMAIN manager.node_states :
          Policy(manager', n) = Policy(manager, n) /\ Group(manager', n) = Group(manager, n)
    /\ DOMAIN manager.groups \subseteq DOMAIN manager'.groups
    /\ Len(manager.groups) <= Len(manager'.groups)

\* Equal intervals end at the same number.
LEMMA SameBound ==
    ASSUME NEW a \in Nat, NEW b \in Nat, 1..a = 1..b
    PROVE  a = b
  <1>1. a # 0 => a \in 1..b
    OBVIOUS
  <1>2. b # 0 => b \in 1..a
    OBVIOUS
  <1>. QED
    BY <1>1, <1>2

\* A method that keeps the configuration.
LEMMA SameKeeps ==
    ASSUME Sound(manager), Sound(manager'), SameConfig(manager, manager')
    PROVE  KeepsConfig /\ Len(manager'.groups) = Len(manager.groups)
  <1>1. /\ DOMAIN manager.groups = 1..Len(manager.groups) /\ Len(manager.groups) \in Nat
        /\ DOMAIN manager'.groups = 1..Len(manager'.groups) /\ Len(manager'.groups) \in Nat
    BY ManagerFields DEF Sound
  <1>3. Len(manager'.groups) = Len(manager.groups)
    BY <1>1, SameBound DEF SameConfig
  <1>. QED
    BY <1>1, <1>3 DEF KeepsConfig, SameConfig

\* A trigger's job is a new one, ...
LEMMA TriggerNew ==
    ASSUME JobsInv, NEW b \in Builds, Trigger(b), NEW j, j = <<b.id, triggers[b.id] + 1>>
    PROVE  /\ j \in Job /\ j[1] = b.id /\ j[2] = triggers[b.id] + 1
           /\ b.id \in Node /\ b.policy \in AsyncPolicy /\ b.group_id \in Nat
           /\ triggers' = [triggers EXCEPT ![b.id] = j[2]] /\ triggers' \in [Node -> 0..MaxTriggers]
           /\ j \notin Jobs(manager) /\ j \notin Travelling
           /\ b.group_id <= Len(manager.groups)
           /\ batch = <<>> /\ UNCHANGED <<results, batch, applied>>
  <1>1. b.id \in Node /\ b.policy \in AsyncPolicy /\ b.group_id \in Nat
    BY BuildsAssumption
  <1>2. triggers \in [Node -> 0..MaxTriggers] /\ triggers[b.id] \in Nat /\ triggers[b.id] < MaxTriggers
    BY <1>1, MaxTriggersAssumption DEF JobsInv, CountInv, Trigger
  <1>3. j \in Job /\ j[1] = b.id /\ j[2] = triggers[b.id] + 1
    BY <1>1, <1>2 DEF Job
  <1>4. j \notin Jobs(manager) /\ j \notin Travelling
    <2>1. ~(j[2] <= triggers[j[1]])
      BY <1>2, <1>3
    <2>. QED
      BY <2>1 DEF JobsInv, CountInv
  <1>5. triggers' = [triggers EXCEPT ![b.id] = j[2]] /\ triggers' \in [Node -> 0..MaxTriggers]
    BY <1>1, <1>2, <1>3, MaxTriggersAssumption DEF Trigger
  <1>. QED
    BY <1>1, <1>3, <1>4, <1>5 DEF Trigger

\* ... which the manager takes over.
LEMMA TriggerSpawns ==
    ASSUME JobsInv, NEW b \in Builds, Trigger(b), NEW j, j = <<b.id, triggers[b.id] + 1>>
    PROVE  \E m, c : /\ c.policy = b.policy /\ c.group_id = b.group_id
                     /\ Inserted(manager, m, j[1], c) /\ Known(m, j[1])
                     /\ Dispatched(m, manager', j)
  <1>1. PICK c : c = [policy |-> b.policy, group_id |-> b.group_id]
    OBVIOUS
  <1>2. /\ j \in Job /\ j \notin Jobs(manager) /\ j[2] = triggers[b.id] + 1
        /\ b.policy \in AsyncPolicy /\ b.group_id \in Nat
        /\ b.id \in Node /\ triggers \in [Node -> 0..MaxTriggers]
    BY TriggerNew DEF JobsInv, CountInv
  <1>3. c.policy = b.policy /\ c.group_id = b.group_id
    BY <1>1
  <1>4. triggers'[b.id] = triggers[b.id] + 1
    BY <1>2 DEF Trigger
  <1>5. manager' = spawn(manager, j, c)
    BY <1>1, <1>4 DEF Trigger
  <1>6. Sound(manager) /\ c.policy \in AsyncPolicy /\ c.group_id \in Nat
    BY <1>2, <1>3 DEF JobsInv
  <1>7. \E m : Inserted(manager, m, j[1], c) /\ Known(m, j[1]) /\ Dispatched(m, manager', j)
    BY <1>2, <1>5, <1>6, SpawnSound
  <1>. QED
    BY <1>3, <1>7

\* What a trigger leaves of the manager.
TriggerDone(b, j) ==
    /\ Sound(manager') /\ KeepsConfig
    /\ DOMAIN manager'.node_states = DOMAIN manager.node_states \cup {b.id}
    /\ ~Known(manager, b.id) =>
          Policy(manager', b.id) = b.policy /\ Group(manager', b.id) = b.group_id
    /\ DOMAIN manager'.groups = DOMAIN manager.groups
    /\ Len(manager'.groups) = Len(manager.groups)
    /\ Jobs(manager') \subseteq Jobs(manager) \cup {j} /\ j \in Jobs(manager')
    /\ \A i \in Jobs(manager) \ Jobs(manager') : i[1] = b.id /\ Policy(manager', b.id) # "Queue"
    /\ \A n \in DOMAIN manager.node_states :
          n # b.id => manager'.node_states[n] = manager.node_states[n]
    /\ \A i \in Live(manager') : i \in Live(manager) \/ i = j

\* It keeps what the other nodes and groups have.
LEMMA TriggerKeeps ==
    ASSUME JobsInv, NEW b \in Builds, Trigger(b), NEW j, j = <<b.id, triggers[b.id] + 1>>
    PROVE  TriggerDone(b, j)
  <1>1. PICK m, c : /\ c.policy = b.policy /\ c.group_id = b.group_id
                    /\ Inserted(manager, m, j[1], c) /\ Known(m, j[1])
                    /\ Dispatched(m, manager', j)
    BY TriggerSpawns
  <1>2. j[1] = b.id
    BY TriggerNew
  <1>3. /\ Sound(m) /\ Jobs(m) = Jobs(manager) /\ m.groups = manager.groups /\ Live(m) = Live(manager)
        /\ DOMAIN m.node_states = DOMAIN manager.node_states \cup {b.id}
        /\ \A i \in DOMAIN manager.node_states : m.node_states[i] = manager.node_states[i]
        /\ ~Known(manager, b.id) =>
              m.node_states[b.id] = [policy |-> c.policy, group_id |-> c.group_id,
                                     in_flight |-> {}, pending |-> <<>>]
    BY <1>1, <1>2 DEF Inserted
  <1>4. /\ Sound(manager') /\ SameConfig(m, manager')
        /\ Jobs(manager') \subseteq Jobs(m) \cup {j} /\ j \in Jobs(manager')
        /\ \A i \in Jobs(m) \ Jobs(manager') : i[1] = b.id /\ Policy(m, b.id) # "Queue"
        /\ \A i \in DOMAIN m.node_states : i # b.id => manager'.node_states[i] = m.node_states[i]
        /\ \A i \in Live(manager') : i \in Live(m) \/ i = j
    BY <1>1, <1>2 DEF Dispatched
  <1>5. /\ DOMAIN manager'.node_states = DOMAIN m.node_states
        /\ \A n \in DOMAIN m.node_states :
              Policy(manager', n) = Policy(m, n) /\ Group(manager', n) = Group(m, n)
        /\ DOMAIN manager'.groups = DOMAIN manager.groups
    BY <1>3, <1>4 DEF SameConfig
  <1>6. \A n \in DOMAIN manager.node_states :
          Policy(m, n) = Policy(manager, n) /\ Group(m, n) = Group(manager, n)
    BY <1>3 DEF Policy, Group
  <1>7. ~Known(manager, b.id) => Policy(m, b.id) = b.policy /\ Group(m, b.id) = b.group_id
    BY <1>1, <1>3 DEF Policy, Group
  <1>8. Len(manager'.groups) = Len(manager.groups) /\ Len(manager.groups) \in Nat
    <2>1. Sound(manager)
      BY DEF JobsInv
    <2>2. /\ DOMAIN manager.groups = 1..Len(manager.groups) /\ Len(manager.groups) \in Nat
          /\ DOMAIN manager'.groups = 1..Len(manager'.groups) /\ Len(manager'.groups) \in Nat
      BY <1>4, <2>1, ManagerFields DEF Sound
    <2>. QED
      BY <1>5, <2>2, SameBound
  <1>9. KeepsConfig
    BY <1>3, <1>5, <1>6, <1>8 DEF KeepsConfig
  <1>. QED
    BY <1>3, <1>4, <1>5, <1>7, <1>8, <1>9 DEF TriggerDone

-----------------------------------------------------------------------------
(* JobsInv is inductive                                                     *)

\* Nodes that are known keep a configuration they were built with.
LEMMA ConfigKept ==
    ASSUME JobsInv, KeepsConfig, Sound(manager'),
           DOMAIN manager'.node_states = DOMAIN manager.node_states
    PROVE  ConfigInv'
  <1>. SUFFICES ASSUME NEW n \in DOMAIN manager'.node_states
                PROVE  /\ Group(manager', n) <= Len(manager'.groups)
                       /\ \E b \in Builds : /\ b.id = n /\ b.policy = Policy(manager', n)
                                            /\ b.group_id = Group(manager', n)
    BY DEF ConfigInv
  <1>1. /\ Group(manager, n) \in Nat /\ Len(manager.groups) \in Nat /\ Len(manager'.groups) \in Nat
    BY ManagerFields DEF JobsInv, Sound
  <1>2. /\ Policy(manager', n) = Policy(manager, n) /\ Group(manager', n) = Group(manager, n)
        /\ Len(manager.groups) <= Len(manager'.groups)
    BY DEF KeepsConfig
  <1>3. /\ Group(manager, n) <= Len(manager.groups)
        /\ \E b \in Builds : /\ b.id = n /\ b.policy = Policy(manager, n)
                             /\ b.group_id = Group(manager, n)
    BY DEF JobsInv, ConfigInv
  <1>. QED
    BY <1>1, <1>2, <1>3

\* Jobs that end or move to the channel keep TravelInv and CountInv.
LEMMA CountKept ==
    ASSUME JobsInv, Jobs(manager') \cup Travelling' \subseteq Jobs(manager) \cup Travelling,
           triggers' = triggers, applied' \in [Node -> Seq(Nat)]
    PROVE  CountInv'
  <1>1. \A j \in Jobs(manager') \cup Travelling' : j \in Job /\ j[2] <= triggers[j[1]]
    BY DEF JobsInv, CountInv
  <1>. QED
    BY <1>1 DEF JobsInv, CountInv

\* A known node stays known.
LEMMA KnownKept ==
    ASSUME KeepsConfig, NEW n, Known(manager, n)
    PROVE  Known(manager', n)
  BY DEF KeepsConfig, Known

\* Engine::concurrency_group.
LEMMA JobsCreateGroup ==
    ASSUME JobsInv, NEW max \in Capacity, CreateGroup(max)
    PROVE  JobsInv' /\ KeepsConfig
  <1>1. max \in Nat /\ Sound(manager) /\ manager' = create_group(manager, max)
        /\ UNCHANGED <<results, batch, triggers, applied>>
    BY CapacityAssumption DEF JobsInv, CreateGroup
  <1>2. /\ Sound(manager') /\ Jobs(manager') = Jobs(manager)
        /\ manager'.node_states = manager.node_states
        /\ DOMAIN manager'.groups = DOMAIN manager.groups \cup {Len(manager.groups) + 1}
        /\ Len(manager'.groups) = Len(manager.groups) + 1
    BY <1>1, GroupSound, ZenonT(30)
  <1>3. Len(manager.groups) \in Nat
    BY <1>1, ManagerFields DEF Sound
  <1>4. KeepsConfig
    BY <1>2, <1>3 DEF KeepsConfig, Policy, Group
  <1>5. Travelling' = Travelling
    BY <1>1 DEF Travelling
  <1>6. TravelInv'
    <2>1. \A j \in Travelling : Known(manager', j[1])
      BY <1>4, KnownKept DEF JobsInv, TravelInv
    <2>. QED
      BY <1>1, <1>2, <1>5, <2>1 DEF JobsInv, TravelInv
  <1>7. CountInv'
    BY <1>1, <1>2, <1>5, CountKept DEF JobsInv, CountInv
  <1>8. ConfigInv'
    BY <1>2, <1>4, ConfigKept
  <1>. QED
    BY <1>2, <1>4, <1>6, <1>7, <1>8 DEF JobsInv

\* spawn_async_work.
LEMMA JobsTrigger ==
    ASSUME JobsInv, NEW b \in Builds, Trigger(b)
    PROVE  JobsInv'
  <1>1. PICK j : j = <<b.id, triggers[b.id] + 1>>
    OBVIOUS
  <1>2. /\ j \in Job /\ j[1] = b.id /\ j[2] = triggers[b.id] + 1
        /\ b.id \in Node
        /\ triggers' = [triggers EXCEPT ![b.id] = j[2]] /\ triggers' \in [Node -> 0..MaxTriggers]
        /\ j \notin Travelling
        /\ b.group_id <= Len(manager.groups)
        /\ UNCHANGED <<results, batch, applied>>
    BY <1>1, TriggerNew
  <1>3. TriggerDone(b, j)
    BY <1>1, TriggerKeeps
  <1>4. Travelling' = Travelling
    BY <1>2 DEF Travelling
  <1>5. KeepsConfig
    BY <1>3 DEF TriggerDone
  <1>6. TravelInv'
    <2>1. \A i \in Travelling : Known(manager', i[1])
      BY <1>5, KnownKept DEF JobsInv, TravelInv
    <2>2. Travelling \cap Jobs(manager') = {}
      BY <1>2, <1>3 DEF JobsInv, TravelInv, TriggerDone
    <2>. QED
      BY <1>2, <1>4, <2>1, <2>2 DEF JobsInv, TravelInv
  <1>7. CountInv'
    <2>. SUFFICES ASSUME NEW i \in Jobs(manager') \cup Travelling'
                  PROVE  i \in Job /\ i[2] <= triggers'[i[1]]
      BY <1>2 DEF JobsInv, CountInv
    <2>1. triggers \in [Node -> 0..MaxTriggers]
      BY DEF JobsInv, CountInv
    <2>2. CASE i = j
      BY <1>2, <2>1, <2>2
    <2>3. CASE i # j
      <3>1. i \in Jobs(manager) \cup Travelling
        BY <1>3, <1>4, <2>3 DEF TriggerDone
      <3>2. i \in Job /\ i[2] <= triggers[i[1]] /\ i[1] \in Node /\ i[2] \in Nat
        BY <3>1 DEF JobsInv, CountInv, Job
      <3>. QED
        BY <1>2, <2>1, <3>2
    <2>. QED
      BY <2>2, <2>3
  <1>8. ConfigInv'
    <2>. SUFFICES ASSUME NEW n \in DOMAIN manager'.node_states
                  PROVE  /\ Group(manager', n) <= Len(manager'.groups)
                         /\ \E d \in Builds : /\ d.id = n /\ d.policy = Policy(manager', n)
                                              /\ d.group_id = Group(manager', n)
      BY DEF ConfigInv
    <2>1. CASE Known(manager, n)
      <3>1. /\ Policy(manager', n) = Policy(manager, n) /\ Group(manager', n) = Group(manager, n)
            /\ Len(manager'.groups) = Len(manager.groups)
        BY <1>3, <2>1 DEF TriggerDone, KeepsConfig, Known
      <3>. QED
        BY <2>1, <3>1 DEF JobsInv, ConfigInv, Known
    <2>2. CASE ~Known(manager, n)
      <3>1. n = b.id
        BY <1>3, <2>2 DEF TriggerDone, Known
      <3>2. /\ Policy(manager', n) = b.policy /\ Group(manager', n) = b.group_id
            /\ Len(manager'.groups) = Len(manager.groups)
        BY <1>3, <2>2, <3>1 DEF TriggerDone
      <3>. QED
        BY <1>2, <3>1, <3>2
    <2>. QED
      BY <2>1, <2>2
  <1>. QED
    BY <1>3, <1>6, <1>7, <1>8 DEF JobsInv, TriggerDone

\* A task that has ended has sent its job's result, ...
LEMMA SendKeeps ==
    ASSUME JobsInv, NEW j \in Live(manager), KeepsConfig, UNCHANGED batch,
           results' = Append(results, j), Jobs(manager') = Jobs(manager) \ {j}
    PROVE  TravelInv' /\ Travelling' = Travelling \cup {j} /\ j \notin Travelling
  <1>1. j \in Jobs(manager) /\ j \in Job /\ Known(manager, j[1])
    BY WhereJobsAre DEF JobsInv, CountInv, Sound, Owned
  <1>2. j \notin Travelling
    BY <1>1 DEF JobsInv, TravelInv
  <1>3. /\ results' \in Seq(Job) /\ Range(results') = Range(results) \cup {j}
        /\ IsInjective(results')
    BY <1>1, <1>2, PushBack DEF JobsInv, TravelInv, Travelling
  <1>4. Travelling' = Travelling \cup {j}
    BY <1>3 DEF Travelling
  <1>5. \A i \in Travelling' : Known(manager', i[1])
    BY <1>1, <1>4, KnownKept DEF JobsInv, TravelInv
  <1>6. Range(results') \cap Range(batch) = {} /\ Travelling' \cap Jobs(manager') = {}
    BY <1>2, <1>3, <1>4 DEF JobsInv, TravelInv, Travelling
  <1>. QED
    BY <1>2, <1>3, <1>4, <1>5, <1>6 DEF JobsInv, TravelInv

\* ... or has sent nothing.
LEMMA SilentKeeps ==
    ASSUME JobsInv, KeepsConfig, UNCHANGED <<results, batch>>,
           Jobs(manager') \subseteq Jobs(manager)
    PROVE  TravelInv' /\ Travelling' = Travelling
  <1>1. Travelling' = Travelling
    BY DEF Travelling
  <1>2. \A i \in Travelling' : Known(manager', i[1])
    BY <1>1, KnownKept DEF JobsInv, TravelInv
  <1>. QED
    BY <1>1, <1>2 DEF JobsInv, TravelInv

\* The debounce timer.
LEMMA JobsTimerFires ==
    ASSUME JobsInv, NEW j \in manager.asleep, TimerFires(j)
    PROVE  JobsInv'
  <1>1. /\ Sound(manager') /\ SameConfig(manager, manager') /\ Jobs(manager') = Jobs(manager)
        /\ UNCHANGED <<results, batch, triggers, applied>>
    BY WakeSound DEF TimerFires, JobsInv
  <1>2. KeepsConfig
    BY <1>1, SameKeeps DEF JobsInv
  <1>3. TravelInv' /\ Travelling' = Travelling
    BY <1>1, <1>2, SilentKeeps
  <1>4. CountInv'
    BY <1>1, <1>3, CountKept DEF JobsInv, CountInv
  <1>5. ConfigInv'
    BY <1>1, <1>2, ConfigKept DEF SameConfig
  <1>. QED
    BY <1>1, <1>3, <1>4, <1>5 DEF JobsInv

\* A future that becomes ready.
LEMMA JobsTaskDone ==
    ASSUME JobsInv, NEW j \in manager.running, TaskDone(j)
    PROVE  /\ JobsInv' /\ Travelling' = Travelling \cup {j} /\ j \notin Travelling
           /\ SameConfig(manager, manager')
  <1>1. /\ Sound(manager') /\ SameConfig(manager, manager') /\ Jobs(manager') = Jobs(manager) \ {j}
        /\ j \in Live(manager) /\ j \in Jobs(manager)
        /\ results' = Append(results, j) /\ UNCHANGED <<batch, triggers, applied>>
    BY EndSound DEF TaskDone, JobsInv
  <1>2. KeepsConfig
    BY <1>1, SameKeeps DEF JobsInv
  <1>3. TravelInv' /\ Travelling' = Travelling \cup {j} /\ j \notin Travelling
    BY <1>1, <1>2, SendKeeps
  <1>4. CountInv'
    BY <1>1, <1>3, CountKept DEF JobsInv, CountInv
  <1>5. ConfigInv'
    BY <1>1, <1>2, ConfigKept DEF SameConfig
  <1>. QED
    BY <1>1, <1>3, <1>4, <1>5 DEF JobsInv

\* A future that panics.
LEMMA JobsTaskPanics ==
    ASSUME JobsInv, NEW j \in manager.running, TaskPanics(j)
    PROVE  JobsInv' /\ Travelling' = Travelling /\ SameConfig(manager, manager')
  <1>1. /\ Sound(manager') /\ SameConfig(manager, manager') /\ Jobs(manager') = Jobs(manager) \ {j}
        /\ UNCHANGED <<results, batch, triggers, applied>>
    BY EndSound DEF TaskPanics, JobsInv
  <1>2. KeepsConfig
    BY <1>1, SameKeeps DEF JobsInv
  <1>3. TravelInv' /\ Travelling' = Travelling
    BY <1>1, <1>2, SilentKeeps
  <1>4. CountInv'
    BY <1>1, <1>3, CountKept DEF JobsInv, CountInv
  <1>5. ConfigInv'
    BY <1>1, <1>2, ConfigKept DEF SameConfig
  <1>. QED
    BY <1>1, <1>3, <1>4, <1>5 DEF JobsInv

\* A task told to abort, which stops or sends its result.
LEMMA JobsAbortLands ==
    ASSUME JobsInv, NEW j \in manager.aborted, AbortLands(j)
    PROVE  /\ JobsInv' /\ SameConfig(manager, manager')
           /\ \/ Travelling' = Travelling
              \/ Travelling' = Travelling \cup {j} /\ j \notin Travelling
  <1>1. /\ Sound(manager') /\ SameConfig(manager, manager') /\ Jobs(manager') = Jobs(manager) \ {j}
        /\ j \in Live(manager) /\ j \in Jobs(manager)
        /\ UNCHANGED <<batch, triggers, applied>>
    BY StopSound DEF AbortLands, JobsInv
  <1>2. KeepsConfig
    BY <1>1, SameKeeps DEF JobsInv
  <1>5. TravelInv' /\ (Travelling' = Travelling \/ (Travelling' = Travelling \cup {j} /\ j \notin Travelling))
    <2>1. CASE UNCHANGED results
      BY <1>1, <1>2, <2>1, SilentKeeps
    <2>2. CASE results' = Append(results, j)
      BY <1>1, <1>2, <2>2, SendKeeps
    <2>. QED
      BY <2>1, <2>2 DEF AbortLands
  <1>6. CountInv'
    BY <1>1, <1>5, CountKept DEF JobsInv, CountInv
  <1>7. ConfigInv'
    BY <1>1, <1>2, ConfigKept DEF SameConfig
  <1>. QED
    BY <1>1, <1>5, <1>6, <1>7 DEF JobsInv

\* The channel is emptied.
LEMMA JobsDrainResults ==
    ASSUME JobsInv, DrainResults
    PROVE  JobsInv' /\ Travelling' = Travelling /\ UNCHANGED <<manager, triggers, applied>>
  <1>1. batch = <<>> /\ batch' = results /\ results' = <<>> /\ UNCHANGED <<manager, triggers, applied>>
    BY DEF DrainResults
  <1>2. /\ Range(batch) = {} /\ Range(results') = {} /\ results' \in Seq(Job) /\ IsInjective(results')
    <2>1. <<>> \in Seq(Job)
      BY EmptySeq
    <2>. QED
      BY <1>1, <2>1 DEF Range, IsInjective
  <1>3. Travelling' = Travelling
    BY <1>1, <1>2 DEF Travelling
  <1>4. TravelInv'
    BY <1>1, <1>2, <1>3 DEF JobsInv, TravelInv
  <1>5. CountInv'
    BY <1>1, <1>3 DEF JobsInv, CountInv
  <1>. QED
    BY <1>1, <1>3, <1>4, <1>5 DEF JobsInv, ConfigInv

\* A completion of the job j takes it from the batch.
LEMMA JobsComplete ==
    ASSUME JobsInv, Complete, NEW j, j = Head(batch)
    PROVE  /\ JobsInv' /\ j \in Job /\ Known(manager, j[1])
           /\ j \in Travelling /\ j \notin Jobs(manager)
           /\ Travelling' = Travelling \ {j}
           /\ Completed(manager, manager', j[1], manager.node_states[j[1]].pending)
           /\ applied' = [applied EXCEPT ![j[1]] = Append(@, j[2])]
           /\ UNCHANGED triggers
  <1>1. /\ batch # <<>> /\ batch' = Tail(batch) /\ UNCHANGED <<results, triggers>>
        /\ manager' = process_completion(manager, j[1])
        /\ applied' = [applied EXCEPT ![j[1]] = Append(@, j[2])]
    BY DEF Complete, TakeCompletion
  <1>2. /\ j \in Job /\ batch' \in Seq(Job) /\ Range(batch) = {j} \cup Range(batch')
        /\ j \notin Range(batch') /\ IsInjective(batch')
    <2>1. batch \in Seq(Job) /\ IsInjective(batch)
      BY DEF JobsInv, TravelInv
    <2>. QED
      BY <1>1, <2>1, PopFront
  <1>3. j \in Travelling /\ Known(manager, j[1]) /\ j \notin Jobs(manager) /\ j \notin Range(results)
    BY <1>2 DEF JobsInv, TravelInv, Travelling
  <1>4. Travelling' = Travelling \ {j}
    BY <1>1, <1>2, <1>3 DEF Travelling
  <1>5. Completed(manager, manager', j[1], manager.node_states[j[1]].pending)
    BY <1>1, <1>3, CompletionSound DEF JobsInv, Known
  <1>6. Sound(manager') /\ SameConfig(manager, manager') /\ Jobs(manager') = Jobs(manager)
    BY <1>5 DEF Completed
  <1>7. KeepsConfig
    BY <1>6, SameKeeps DEF JobsInv
  <1>8. TravelInv'
    <2>1. \A i \in Travelling' : Known(manager', i[1])
      BY <1>4, <1>7, KnownKept DEF JobsInv, TravelInv
    <2>2. Range(results') \cap Range(batch') = {} /\ Travelling' \cap Jobs(manager') = {}
      BY <1>1, <1>2, <1>4, <1>6 DEF JobsInv, TravelInv
    <2>. QED
      BY <1>1, <1>2, <2>1, <2>2 DEF JobsInv, TravelInv
  <1>9. applied' \in [Node -> Seq(Nat)]
    <2>1. j[1] \in Node /\ j[2] \in Nat /\ applied \in [Node -> Seq(Nat)]
      BY <1>2 DEF Job, JobsInv, CountInv
    <2>2. Append(applied[j[1]], j[2]) \in Seq(Nat)
      BY <2>1, AppendProperties
    <2>. QED
      BY <1>1, <2>1, <2>2
  <1>10. CountInv'
    BY <1>1, <1>4, <1>6, <1>9, CountKept
  <1>11. ConfigInv'
    BY <1>6, <1>7, ConfigKept DEF SameConfig
  <1>. QED
    BY <1>1, <1>2, <1>3, <1>4, <1>5, <1>6, <1>8, <1>10, <1>11 DEF JobsInv

\* Initially there is nothing.
LEMMA JobsInit ==
    ASSUME Init
    PROVE  JobsInv /\ Jobs(manager) = {} /\ Travelling = {} /\ DOMAIN manager.groups = {}
           /\ DOMAIN manager.node_states = {} /\ Live(manager) = {}
  <1>1. <<>> \in Seq(Job) /\ <<>> \in Seq(GroupState) /\ <<>> \in Seq(Nat)
    BY EmptySeq
  <1>2. /\ manager.node_states = [n \in {} |-> {}] /\ manager.groups = <<>>
        /\ manager.asleep = {} /\ manager.running = {} /\ manager.aborted = {}
        /\ DOMAIN manager.node_states = {} /\ DOMAIN manager.groups = {}
    BY DEF Init, NoConfig
  <1>3. Manager(manager)
    <2>1. {} \in SUBSET Node
      OBVIOUS
    <2>2. manager \in ManagerState({})
      BY <1>1, <1>2 DEF Init, NoConfig, ManagerState
    <2>. QED
      BY <2>1, <2>2 DEF Manager
  <1>4. Live(manager) = {}
    BY <1>2 DEF Live
  <1>5. Sound(manager)
    <2>1. Owned(manager)
      BY <1>2, <1>4 DEF Owned
    <2>2. Apart(manager)
      BY <1>2, <1>4 DEF Apart
    <2>. QED
      BY <1>2, <1>3, <2>1, <2>2, FS_EmptySet DEF Sound
  <1>6. Jobs(manager) = {}
    BY <1>2, <1>4, WhereJobsAre
  <1>7. Range(results) = {} /\ Range(batch) = {} /\ IsInjective(results) /\ IsInjective(batch)
    BY DEF Init, Range, IsInjective
  <1>8. Travelling = {}
    BY <1>7 DEF Travelling
  <1>9. TravelInv
    BY <1>1, <1>7, <1>8 DEF Init, TravelInv
  <1>10. CountInv
    <2>1. applied \in [Node -> Seq(Nat)]
      BY <1>1 DEF Init
    <2>2. triggers \in [Node -> 0..MaxTriggers]
      BY MaxTriggersAssumption DEF Init
    <2>. QED
      BY <1>6, <1>8, <2>1, <2>2 DEF CountInv
  <1>. QED
    BY <1>2, <1>4, <1>5, <1>6, <1>8, <1>9, <1>10 DEF JobsInv, ConfigInv

\* Nothing happens.
LEMMA JobsStutter ==
    ASSUME JobsInv, UNCHANGED vars
    PROVE  JobsInv' /\ Travelling' = Travelling
  BY DEF vars, JobsInv, TravelInv, CountInv, ConfigInv, Travelling

\* Every step keeps JobsInv.
LEMMA JobsStep ==
    ASSUME JobsInv, [Next]_vars
    PROVE  JobsInv'
  <1>1. ASSUME NEW max \in Capacity, CreateGroup(max)
        PROVE  JobsInv'
    BY <1>1, JobsCreateGroup
  <1>2. ASSUME NEW b \in Builds, Trigger(b)
        PROVE  JobsInv'
    BY <1>2, JobsTrigger
  <1>3. ASSUME NEW j \in manager.asleep, TimerFires(j)
        PROVE  JobsInv'
    BY <1>3, JobsTimerFires
  <1>4. ASSUME NEW j \in manager.running, TaskDone(j) \/ TaskPanics(j)
        PROVE  JobsInv'
    BY <1>4, JobsTaskDone, JobsTaskPanics
  <1>5. ASSUME NEW j \in manager.aborted, AbortLands(j)
        PROVE  JobsInv'
    BY <1>5, JobsAbortLands
  <1>6. ASSUME DrainResults
        PROVE  JobsInv'
    BY <1>6, JobsDrainResults
  <1>7. ASSUME Complete
        PROVE  JobsInv'
    BY <1>7, JobsComplete
  <1>8. ASSUME UNCHANGED vars
        PROVE  JobsInv'
    BY <1>8, JobsStutter
  <1>. QED
    BY <1>1, <1>2, <1>3, <1>4, <1>5, <1>6, <1>7, <1>8 DEF Next

\* Every job of the manager, of its tasks and of its channel is in one place only, ...
THEOREM AsyncJobs == Spec => []JobsInv
  <1>1. Init => JobsInv
    BY JobsInit
  <1>2. JobsInv /\ [Next]_vars => JobsInv'
    BY JobsStep
  <1>. QED
    BY <1>1, <1>2, PTL DEF Spec

\* ... and every variable has its type.
THEOREM AsyncTypes == Spec => []TypeOK
  <1>1. JobsInv => TypeOK
    BY DEF JobsInv, TravelInv, CountInv, Sound, Manager, TypeOK
  <1>. QED
    BY <1>1, AsyncJobs, PTL

-----------------------------------------------------------------------------
(* WorkConserving                                                           *)

\* It holds of the manager at first.
LEMMA FilledInit ==
    ASSUME Init
    PROVE  Filled(manager)
  BY JobsInit DEF Filled

\* Every step keeps it.
LEMMA FilledStep ==
    ASSUME JobsInv, Filled(manager), [Next]_vars
    PROVE  Filled(manager')
  <1>1. ASSUME NEW max \in Capacity, CreateGroup(max)
        PROVE  Filled(manager')
    <2>1. max \in Nat /\ Sound(manager) /\ manager' = create_group(manager, max)
      BY <1>1, CapacityAssumption DEF JobsInv, CreateGroup
    <2>2. /\ DOMAIN manager'.groups = DOMAIN manager.groups \cup {Len(manager.groups) + 1}
          /\ \A g \in DOMAIN manager.groups : manager'.groups[g] = manager.groups[g]
          /\ manager'.groups[Len(manager.groups) + 1] =
                [max_concurrent |-> max, in_flight |-> 0, queue |-> <<>>]
      BY <2>1, GroupSound
    <2>. QED
      BY <2>1, <2>2 DEF Filled
  <1>2. ASSUME NEW b \in Builds, Trigger(b)
        PROVE  Filled(manager')
    <2>1. PICK j : j = <<b.id, triggers[b.id] + 1>>
      OBVIOUS
    <2>2. PICK m, c : Inserted(manager, m, j[1], c) /\ Dispatched(m, manager', j)
      BY <1>2, <2>1, TriggerSpawns
    <2>3. Filled(m)
      BY <2>2 DEF Inserted, Filled
    <2>. QED
      BY <2>2, <2>3 DEF Dispatched
  <1>3. ASSUME NEW j \in manager.asleep, TimerFires(j)
        PROVE  Filled(manager')
    <2>1. manager'.groups = manager.groups
      BY <1>3, WakeSound DEF TimerFires, JobsInv
    <2>. QED
      BY <2>1 DEF Filled
  <1>4. ASSUME NEW j \in manager.running, TaskDone(j) \/ TaskPanics(j)
        PROVE  Filled(manager')
    <2>1. manager' = [manager EXCEPT !.running = @ \ {j}]
      BY <1>4 DEF TaskDone, TaskPanics
    <2>2. manager'.groups = manager.groups
      BY <2>1, EndSound DEF JobsInv
    <2>. QED
      BY <2>2 DEF Filled
  <1>5. ASSUME NEW j \in manager.aborted, AbortLands(j)
        PROVE  Filled(manager')
    BY <1>5, StopSound DEF AbortLands, JobsInv, Filled
  <1>6. ASSUME DrainResults
        PROVE  Filled(manager')
    BY <1>6 DEF DrainResults
  <1>7. ASSUME Complete
        PROVE  Filled(manager')
    BY <1>7, JobsComplete DEF Completed
  <1>8. ASSUME UNCHANGED vars
        PROVE  Filled(manager')
    BY <1>8 DEF vars
  <1>. QED
    BY <1>1, <1>2, <1>3, <1>4, <1>5, <1>6, <1>7, <1>8 DEF Next

\* The state of the manager is WorkConserving's.
THEOREM AsyncFilled == Spec => []Filled(manager)
  <1>1. Init => Filled(manager)
    BY FilledInit
  <1>2. JobsInv /\ Filled(manager) /\ [Next]_vars => Filled(manager)'
    BY FilledStep
  <1>. QED
    BY <1>1, <1>2, AsyncJobs, PTL DEF Spec

\* A group's count never exceeds max_concurrent, and work waits in the queue of a
\* group only while all its slots are taken.
THEOREM AsyncConserves == Spec => []WorkConserving
  <1>1. Filled(manager) => WorkConserving
    BY DEF Filled, WorkConserving
  <1>. QED
    BY <1>1, AsyncFilled, PTL

-----------------------------------------------------------------------------
(* The manager implements AsyncWork                                         *)

\* The open jobs are those of the manager and of the channel.
LEMMA OpenIs ==
    /\ OpenJobs = Jobs(manager) \cup Travelling
    /\ OpenJobs' = Jobs(manager') \cup Travelling'
  BY Zenon DEF OpenJobs, Jobs, Live, Pend, Queued, Travelling

\* A job that was cancelled is of a node that may lose it.
LEMMA NotLossless ==
    ASSUME ConfigInv, NEW n, Known(manager, n), Policy(manager, n) # "Queue"
    PROVE  n \notin Lossless
  BY DEF ConfigInv, Known, Lossless

\* A trigger asks for a job, and may drop others of its node.
LEMMA TriggerRequests ==
    ASSUME JobsInv, NEW b \in Builds, Trigger(b)
    PROVE  Work!Request(b.id)
  <1>1. PICK j : j = <<b.id, triggers[b.id] + 1>>
    OBVIOUS
  <1>2. /\ j[1] = b.id /\ j[2] = triggers[b.id] + 1 /\ b.id \in Node
        /\ triggers' = [triggers EXCEPT ![b.id] = j[2]]
        /\ UNCHANGED <<results, batch, applied>>
        /\ j \notin Jobs(manager) /\ j \notin Travelling
    BY <1>1, TriggerNew
  <1>3. /\ Jobs(manager') \subseteq Jobs(manager) \cup {j} /\ j \in Jobs(manager')
        /\ \A i \in Jobs(manager) \ Jobs(manager') : i[1] = b.id /\ Policy(manager', b.id) # "Queue"
        /\ b.id \in DOMAIN manager'.node_states
    BY <1>1, TriggerKeeps DEF TriggerDone
  <1>4. PICK dropped : dropped = Jobs(manager) \ Jobs(manager')
    OBVIOUS
  <1>5. Travelling' = Travelling /\ Travelling \cap Jobs(manager) = {}
    BY <1>2 DEF Travelling, JobsInv, TravelInv
  <1>6. OpenJobs' = (OpenJobs \ dropped) \cup {<<b.id, triggers[b.id] + 1>>}
    BY <1>1, <1>3, <1>4, <1>5, OpenIs
  <1>7. dropped \in SUBSET Work!JobsOf(b.id)
    BY <1>3, <1>4, OpenIs DEF Work!JobsOf
  <1>8. Work!MayDrop(dropped)
    <2>. SUFFICES ASSUME NEW i \in dropped
                  PROVE  i[1] \notin Lossless
      BY DEF Work!MayDrop
    <2>1. i[1] = b.id /\ Policy(manager', b.id) # "Queue"
      BY <1>3, <1>4
    <2>2. \E d \in Builds : d.id = b.id /\ d.policy = Policy(manager', b.id)
      BY <1>3, JobsTrigger DEF JobsInv, ConfigInv
    <2>. QED
      BY <2>1, <2>2 DEF Lossless
  <1>9. triggers' = [triggers EXCEPT ![b.id] = @ + 1]
    BY <1>2
  <1>. QED
    BY <1>2, <1>6, <1>7, <1>8, <1>9 DEF Work!Request

\* A completion delivers a job.
LEMMA CompleteDelivers ==
    ASSUME JobsInv, Complete
    PROVE  \E j \in OpenJobs : Work!Deliver(j)
  <1>1. PICK j : j = Head(batch)
    OBVIOUS
  <1>2. /\ j \in Travelling /\ j \notin Jobs(manager)
        /\ Travelling' = Travelling \ {j} /\ Jobs(manager') = Jobs(manager)
        /\ applied' = [applied EXCEPT ![j[1]] = Append(@, j[2])]
        /\ UNCHANGED triggers
    BY <1>1, JobsComplete DEF Completed
  <1>3. j \in OpenJobs /\ OpenJobs' = OpenJobs \ {j}
    BY <1>2, OpenIs
  <1>. QED
    BY <1>2, <1>3 DEF Work!Deliver

\* Every step is one of AsyncWork's, or leaves it as it is.
LEMMA WorkStep ==
    ASSUME JobsInv, [Next]_vars
    PROVE  [Work!Next]_(Work!vars)
  <1>1. ASSUME NEW max \in Capacity, CreateGroup(max)
        PROVE  UNCHANGED Work!vars
    <2>1. max \in Nat /\ Sound(manager) /\ manager' = create_group(manager, max)
          /\ UNCHANGED <<results, batch, triggers, applied>>
      BY <1>1, CapacityAssumption DEF JobsInv, CreateGroup
    <2>2. Jobs(manager') = Jobs(manager) /\ Travelling' = Travelling
      BY <2>1, GroupSound DEF Travelling
    <2>. QED
      BY <2>1, <2>2, OpenIs DEF Work!vars
  <1>2. ASSUME NEW b \in Builds, Trigger(b)
        PROVE  Work!Next
    <2>1. b.id \in Node
      BY BuildsAssumption
    <2>. QED
      BY <1>2, <2>1, TriggerRequests DEF Work!Next
  <1>3. ASSUME NEW j \in manager.asleep, TimerFires(j)
        PROVE  UNCHANGED Work!vars
    <2>1. Jobs(manager') = Jobs(manager) /\ UNCHANGED <<results, batch, triggers, applied>>
      BY <1>3, WakeSound DEF TimerFires, JobsInv
    <2>. QED
      BY <2>1, OpenIs DEF Work!vars, Travelling
  <1>4. ASSUME NEW j \in manager.running, TaskDone(j)
        PROVE  UNCHANGED Work!vars
    <2>1. /\ Jobs(manager') = Jobs(manager) \ {j} /\ j \in Jobs(manager)
          /\ UNCHANGED <<triggers, applied>>
      BY <1>4, EndSound DEF TaskDone, JobsInv
    <2>2. Travelling' = Travelling \cup {j}
      BY <1>4, JobsTaskDone
    <2>. QED
      BY <2>1, <2>2, OpenIs DEF Work!vars
  <1>5. ASSUME NEW j \in manager.running, TaskPanics(j)
        PROVE  Work!Next
    <2>1. /\ Jobs(manager') = Jobs(manager) \ {j} /\ j \in Jobs(manager)
          /\ UNCHANGED <<results, batch, triggers, applied>> /\ j[1] \in Panics
      BY <1>5, EndSound DEF TaskPanics, JobsInv
    <2>2. Travelling' = Travelling /\ j \notin Travelling
      BY <2>1 DEF Travelling, JobsInv, TravelInv
    <2>3. OpenJobs' = OpenJobs \ {j} /\ j \in OpenJobs
      BY <2>1, <2>2, OpenIs
    <2>4. Work!Drop(j)
      BY <2>1, <2>3 DEF Work!Drop, Work!MayDrop, Lossless
    <2>. QED
      BY <2>3, <2>4 DEF Work!Next
  <1>6. ASSUME NEW j \in manager.aborted, AbortLands(j)
        PROVE  [Work!Next]_(Work!vars)
    <2>1. /\ Jobs(manager') = Jobs(manager) \ {j} /\ j \in Jobs(manager) /\ j \in Live(manager)
          /\ UNCHANGED <<triggers, applied>> /\ Policy(manager, j[1]) # "Queue"
      BY <1>6, StopSound DEF AbortLands, JobsInv
    <2>2. j \notin Travelling
      BY <2>1 DEF JobsInv, TravelInv
    <2>3. CASE Travelling' = Travelling
      <3>1. OpenJobs' = OpenJobs \ {j} /\ j \in OpenJobs
        BY <2>1, <2>2, <2>3, OpenIs
      <3>2. j[1] \notin Lossless
        BY <2>1, NotLossless DEF JobsInv, Sound, Owned
      <3>3. Work!Drop(j)
        BY <2>1, <3>1, <3>2 DEF Work!Drop, Work!MayDrop
      <3>. QED
        BY <3>1, <3>3 DEF Work!Next
    <2>4. CASE Travelling' = Travelling \cup {j}
      <3>1. OpenJobs' = OpenJobs
        BY <2>1, <2>4, OpenIs
      <3>. QED
        BY <2>1, <3>1 DEF Work!vars
    <2>. QED
      BY <1>6, <2>3, <2>4, JobsAbortLands
  <1>7. ASSUME DrainResults
        PROVE  UNCHANGED Work!vars
    BY <1>7, JobsDrainResults, OpenIs DEF Work!vars
  <1>8. ASSUME Complete
        PROVE  Work!Next
    BY <1>8, CompleteDelivers DEF Work!Next
  <1>9. ASSUME UNCHANGED vars
        PROVE  UNCHANGED Work!vars
    <2>1. Travelling' = Travelling /\ UNCHANGED <<manager, triggers, applied>>
      BY <1>9 DEF vars, Travelling
    <2>. QED
      BY <2>1, OpenIs DEF Work!vars
  <1>. QED
    BY <1>1, <1>2, <1>3, <1>4, <1>5, <1>6, <1>7, <1>8, <1>9 DEF Next

\* Whatever the policies, groups, aborts, timers and panics, every job asked for is
\* delivered once or dropped for good, and no job of a node with the Queue policy is
\* dropped: the manager is all that module AsyncWork promises the engine.
THEOREM AsyncImplements == Spec => WorkSpec
  <1>1. Init => Work!Init
    <2>. SUFFICES ASSUME Init
                  PROVE  Work!Init
      OBVIOUS
    <2>1. OpenJobs = {}
      BY JobsInit, OpenIs
    <2>. QED
      BY <2>1 DEF Init, Work!Init
  <1>2. JobsInv /\ [Next]_vars => [Work!Next]_(Work!vars)
    BY WorkStep
  <1>. QED
    BY <1>1, <1>2, AsyncJobs, PTL DEF Spec, WorkSpec, Work!Spec

-----------------------------------------------------------------------------
(* QueueInOrder                                                             *)

\* Node n, outside a group and under the Queue policy, has the jobs F in flight and P
\* pending after t triggers, with the results a applied: of the jobs T that have a task
\* or a result on its way n has the next one only, and those after it wait in order.
InLine(n, F, P, T, t, a) ==
    /\ \A i \in DOMAIN a : a[i] = i
    /\ \A j \in T : j[1] = n => j \in F
    /\ \/ F = {} /\ P = <<>> /\ t = Len(a)
       \/ /\ F = {<<n, Len(a) + 1>>}
          /\ t = Len(a) + 1 + Len(P)
          /\ \A i \in DOMAIN P : P[i] = <<n, Len(a) + 1 + i>>

\* Counting on from a and from p.
LEMMA OneMore ==
    ASSUME NEW a \in Nat, NEW p \in Nat
    PROVE  /\ (a + 1 + p) + 1 = a + 1 + (p + 1)
           /\ a + 1 + p = (a + 1) + p
           /\ p # 0 => a + p = a + 1 + (p - 1)
           /\ a + (p + 1) = a + 1 + p
  OBVIOUS

\* A trigger of a node that is idle.
LEMMA InLineIdle ==
    ASSUME NEW n, NEW P, NEW T, NEW t \in Nat, NEW a \in Seq(Nat), InLine(n, {}, P, T, t, a),
           NEW j, j = <<n, t + 1>>, NEW T1 \in SUBSET (T \cup {j})
    PROVE  InLine(n, {j}, P, T1, t + 1, a)
  <1>1. P = <<>> /\ t = Len(a) /\ \A i \in DOMAIN a : a[i] = i
    BY DEF InLine
  <1>2. \A i \in T1 : i[1] = n => i \in {j}
    BY DEF InLine
  <1>3. t + 1 = Len(a) + 1 + Len(P)
    <2>1. Len(P) = 0
      BY <1>1
    <2>. QED
      BY <1>1, <2>1
  <1>. QED
    BY <1>1, <1>2, <1>3 DEF InLine

\* A trigger of a node that is not.
LEMMA InLineBusy ==
    ASSUME NEW n \in Node, NEW F, F # {}, NEW P \in Seq(Job), NEW T,
           NEW t \in Nat, NEW a \in Seq(Nat), InLine(n, F, P, T, t, a),
           NEW j, j = <<n, t + 1>>, NEW T1 \in SUBSET T
    PROVE  InLine(n, F, Append(P, j), T1, t + 1, a)
  <1>1. /\ F = {<<n, Len(a) + 1>>} /\ t = Len(a) + 1 + Len(P)
        /\ \A i \in DOMAIN P : P[i] = <<n, Len(a) + 1 + i>>
        /\ \A i \in DOMAIN a : a[i] = i
        /\ \A i \in T : i[1] = n => i \in F
    BY DEF InLine
  <1>2. Len(a) \in Nat /\ Len(P) \in Nat /\ j \in Job
    BY LenProperties DEF Job
  <1>3. PICK P1 : P1 = Append(P, j)
    OBVIOUS
  <1>4. /\ DOMAIN P = 1..Len(P)
        /\ DOMAIN P1 = 1..(Len(P) + 1) /\ Len(P1) = Len(P) + 1
        /\ \A i \in 1..Len(P) : P1[i] = P[i]
        /\ P1[Len(P) + 1] = j
    BY <1>2, <1>3, AppendProperties, LenProperties
  <1>5. t + 1 = Len(a) + 1 + Len(P1)
    BY <1>1, <1>2, <1>4, OneMore
  <1>6. ASSUME NEW i \in DOMAIN P1
        PROVE  P1[i] = <<n, Len(a) + 1 + i>>
    <2>1. CASE i \in 1..Len(P)
      BY <1>1, <1>4, <2>1
    <2>2. CASE i = Len(P) + 1
      BY <1>4, <1>5, <2>2
    <2>. QED
      BY <1>2, <1>4, <2>1, <2>2
  <1>. QED
    BY <1>1, <1>3, <1>5, <1>6 DEF InLine

\* The job k has been the only one, and is applied now.
LastDone(n, P, T, t, a, k) ==
    /\ Len(a) = k /\ k \in Nat /\ \A i \in DOMAIN a : a[i] = i
    /\ \A j \in T : j[1] = n => j = <<n, k>>
    /\ t = k + Len(P) /\ \A i \in DOMAIN P : P[i] = <<n, k + i>>

\* The completion of the job k, which is the one in flight.
LEMMA InLineDone ==
    ASSUME NEW n, NEW F, NEW P, NEW T, NEW t, NEW a \in Seq(Nat),
           InLine(n, F, P, T, t, a), NEW k \in Nat, <<n, k>> \in T
    PROVE  LastDone(n, P, T, t, Append(a, k), k)
  <1>1. <<n, k>> \in F
    BY DEF InLine
  <1>2. /\ F = {<<n, Len(a) + 1>>} /\ t = Len(a) + 1 + Len(P)
        /\ \A i \in DOMAIN P : P[i] = <<n, Len(a) + 1 + i>>
        /\ \A i \in DOMAIN a : a[i] = i
        /\ \A j \in T : j[1] = n => j \in F
    BY <1>1 DEF InLine
  <1>3. k = Len(a) + 1 /\ Len(a) \in Nat /\ DOMAIN a = 1..Len(a)
    BY <1>1, <1>2, LenProperties
  <1>4. PICK a1 : a1 = Append(a, k)
    OBVIOUS
  <1>5. /\ DOMAIN a1 = 1..(Len(a) + 1) /\ Len(a1) = Len(a) + 1
        /\ \A i \in 1..Len(a) : a1[i] = a[i]
        /\ a1[Len(a) + 1] = k
    BY <1>4, AppendProperties, LenProperties
  <1>6. \A i \in DOMAIN a1 : a1[i] = i
    BY <1>2, <1>3, <1>5
  <1>7. \A j \in T : j[1] = n => j = <<n, k>>
    BY <1>2, <1>3
  <1>. QED
    BY <1>2, <1>3, <1>4, <1>5, <1>6, <1>7 DEF LastDone

\* ... after which nothing waits, ...
LEMMA InLineLast ==
    ASSUME NEW n, NEW F, NEW P, P = <<>>, NEW T, NEW t, NEW a \in Seq(Nat),
           InLine(n, F, P, T, t, a), NEW k \in Nat, <<n, k>> \in T,
           NEW T1 \in SUBSET (T \ {<<n, k>>})
    PROVE  InLine(n, {}, P, T1, t, Append(a, k))
  <1>1. LastDone(n, P, T, t, Append(a, k), k)
    BY InLineDone
  <1>2. PICK a1 : a1 = Append(a, k)
    OBVIOUS
  <1>3. /\ Len(a1) = k /\ k \in Nat /\ \A i \in DOMAIN a1 : a1[i] = i
        /\ \A j \in T : j[1] = n => j = <<n, k>>
        /\ t = k + Len(P)
    BY <1>1, <1>2 DEF LastDone
  <1>4. t = Len(a1)
    BY <1>3
  <1>. QED
    BY <1>2, <1>3, <1>4 DEF InLine

\* ... or the next job is started.
LEMMA InLineNext ==
    ASSUME NEW n, NEW F, NEW P \in Seq(Job), P # <<>>, NEW T, NEW t, NEW a \in Seq(Nat),
           InLine(n, F, P, T, t, a), NEW k \in Nat, <<n, k>> \in T,
           NEW T1 \in SUBSET ((T \ {<<n, k>>}) \cup {Head(P)})
    PROVE  InLine(n, {Head(P)}, Tail(P), T1, t, Append(a, k))
  <1>1. LastDone(n, P, T, t, Append(a, k), k)
    BY InLineDone
  <1>2. PICK a1 : a1 = Append(a, k)
    OBVIOUS
  <1>3. /\ Len(a1) = k /\ k \in Nat /\ \A i \in DOMAIN a1 : a1[i] = i
        /\ \A j \in T : j[1] = n => j = <<n, k>>
        /\ t = k + Len(P) /\ \A i \in DOMAIN P : P[i] = <<n, k + i>>
    BY <1>1, <1>2 DEF LastDone
  <1>4. DOMAIN P = 1..Len(P) /\ Len(P) \in Nat \ {0} /\ Head(P) = P[1]
    BY LenProperties, EmptySeq
  <1>5. PICK P1 : P1 = Tail(P)
    OBVIOUS
  <1>6. /\ Len(P1) = Len(P) - 1 /\ DOMAIN P1 = 1..(Len(P) - 1)
        /\ \A i \in 1..(Len(P) - 1) : P1[i] = P[i + 1]
    BY <1>5, HeadTailProperties, LenProperties
  <1>7. Head(P) = <<n, Len(a1) + 1>>
    <2>1. P[1] = <<n, k + 1>>
      BY <1>3, <1>4
    <2>. QED
      BY <1>3, <1>4, <2>1
  <1>8. t = Len(a1) + 1 + Len(P1)
    BY <1>3, <1>4, <1>6, OneMore
  <1>9. ASSUME NEW i \in DOMAIN P1
        PROVE  P1[i] = <<n, Len(a1) + 1 + i>>
    <2>1. i + 1 \in DOMAIN P /\ P1[i] = P[i + 1] /\ i \in Nat
      BY <1>4, <1>6
    <2>2. P[i + 1] = <<n, k + (i + 1)>>
      BY <1>3, <2>1
    <2>3. k + (i + 1) = Len(a1) + 1 + i
      BY <1>3, <2>1, OneMore
    <2>. QED
      BY <2>1, <2>2, <2>3
  <1>10. \A j \in T1 : j[1] = n => j \in {Head(P)}
    BY <1>3
  <1>. QED
    BY <1>2, <1>3, <1>5, <1>7, <1>8, <1>9, <1>10 DEF InLine

OnTheWay == Live(manager) \cup Travelling

Line(n) ==
    /\ ~Known(manager, n) => triggers[n] = 0 /\ applied[n] = <<>>
    /\ HasPolicy(n, "Queue") /\ ~Grouped(manager, n) =>
          InLine(n, manager.node_states[n].in_flight, manager.node_states[n].pending,
                 OnTheWay, triggers[n], applied[n])

OrderInv == \A n \in Node : Line(n)

\* A node stays outside the groups, or in its group.
LEMMA GroupedKept ==
    ASSUME JobsInv, JobsInv', KeepsConfig, NEW n, Known(manager, n)
    PROVE  Known(manager', n) /\ (Grouped(manager', n) <=> Grouped(manager, n))
           /\ Policy(manager', n) = Policy(manager, n)
  <1>1. /\ DOMAIN manager.groups = 1..Len(manager.groups) /\ Len(manager.groups) \in Nat
        /\ DOMAIN manager'.groups = 1..Len(manager'.groups) /\ Len(manager'.groups) \in Nat
        /\ Group(manager, n) \in Nat
    BY ManagerFields DEF JobsInv, Sound, Known
  <1>2. /\ Group(manager, n) <= Len(manager.groups)
        /\ Group(manager', n) = Group(manager, n) /\ Policy(manager', n) = Policy(manager, n)
        /\ Len(manager.groups) <= Len(manager'.groups)
    BY DEF JobsInv, ConfigInv, KeepsConfig, Known
  <1>. QED
    BY <1>1, <1>2, KnownKept DEF Grouped

\* A step that is not about n.
LEMMA LineFrame ==
    ASSUME JobsInv, JobsInv', KeepsConfig, NEW n \in Node, Line(n),
           Known(manager', n) => Known(manager, n),
           Known(manager, n) /\ ~Grouped(manager, n) =>
              manager'.node_states[n] = manager.node_states[n],
           triggers'[n] = triggers[n], applied'[n] = applied[n],
           \A j \in OnTheWay' : j[1] = n /\ ~Grouped(manager, n) => j \in OnTheWay
    PROVE  Line(n)'
  <1>1. ~Known(manager', n) => triggers'[n] = 0 /\ applied'[n] = <<>>
    BY KnownKept DEF Line
  <1>2. ASSUME Known(manager', n), Policy(manager', n) = "Queue", ~Grouped(manager', n)
        PROVE  InLine(n, manager'.node_states[n].in_flight, manager'.node_states[n].pending,
                      OnTheWay', triggers'[n], applied'[n])
    <2>1. Known(manager, n) /\ ~Grouped(manager, n) /\ Policy(manager, n) = "Queue"
      BY <1>2, GroupedKept
    <2>2. InLine(n, manager.node_states[n].in_flight, manager.node_states[n].pending,
                 OnTheWay, triggers[n], applied[n])
      BY <2>1 DEF Line, HasPolicy
    <2>. QED
      BY <2>1, <2>2 DEF InLine
  <1>. QED
    BY <1>1, <1>2 DEF Line, HasPolicy

\* What the state of n in the line says.
LEMMA LineTypes ==
    ASSUME JobsInv, NEW n \in Node, Known(manager, n)
    PROVE  /\ manager.node_states[n] \in NodeState
           /\ manager.node_states[n].pending \in Seq(Job)
           /\ triggers[n] \in Nat /\ applied[n] \in Seq(Nat)
  BY ManagerFields, MaxTriggersAssumption DEF JobsInv, CountInv, Sound, Known

\* A trigger appends its job to the line of its node.
LEMMA OrderTrigger ==
    ASSUME JobsInv, OrderInv, NEW b \in Builds, Trigger(b)
    PROVE  OrderInv'
  <1>1. PICK j : j = <<b.id, triggers[b.id] + 1>>
    OBVIOUS
  <1>2. /\ j \in Job /\ j[1] = b.id /\ j[2] = triggers[b.id] + 1 /\ b.id \in Node
        /\ triggers' = [triggers EXCEPT ![b.id] = j[2]]
        /\ j \notin Jobs(manager) /\ j \notin Travelling
        /\ UNCHANGED <<results, batch, applied>>
    BY <1>1, TriggerNew
  <1>3. TriggerDone(b, j) /\ JobsInv'
    BY <1>1, TriggerKeeps, JobsTrigger
  <1>4. Travelling' = Travelling
    BY <1>2 DEF Travelling
  <1>5. triggers \in [Node -> 0..MaxTriggers] /\ triggers'[b.id] = triggers[b.id] + 1
        /\ \A n \in Node : n # b.id => triggers'[n] = triggers[n]
    BY <1>2 DEF JobsInv, CountInv
  <1>6. ASSUME NEW n \in Node, n # b.id
        PROVE  Line(n)'
    <2>1. \A i \in OnTheWay' : i[1] = n => i \in OnTheWay
      BY <1>2, <1>3, <1>4, <1>6 DEF OnTheWay, TriggerDone
    <2>2. /\ Known(manager', n) => Known(manager, n)
          /\ Known(manager, n) => manager'.node_states[n] = manager.node_states[n]
      BY <1>3, <1>6 DEF TriggerDone, Known
    <2>3. KeepsConfig /\ Line(n)
      BY <1>3 DEF TriggerDone, OrderInv
    <2>4. triggers'[n] = triggers[n] /\ applied'[n] = applied[n]
      BY <1>2, <1>5, <1>6
    <2>. QED
      BY <1>3, <2>1, <2>2, <2>3, <2>4, LineFrame
  <1>7. Line(b.id)'
    <2>1. PICK n : n = b.id
      OBVIOUS
    <2>2. PICK m, c : /\ c.policy = b.policy /\ c.group_id = b.group_id
                      /\ Inserted(manager, m, n, c) /\ Known(m, n)
                      /\ Dispatched(m, manager', j)
      BY <1>1, <1>2, <2>1, TriggerSpawns
    <2>3. n \in Node /\ j[1] = n /\ j = <<n, triggers[n] + 1>> /\ Known(manager', n)
      BY <1>1, <1>2, <1>3, <2>1 DEF TriggerDone, Known
    <2>. SUFFICES ASSUME Policy(manager', n) = "Queue", ~Grouped(manager', n)
                  PROVE  InLine(n, manager'.node_states[n].in_flight,
                                manager'.node_states[n].pending,
                                OnTheWay', triggers'[n], applied'[n])
      BY <2>1, <2>3 DEF Line, HasPolicy
    <2>4. Policy(m, n) = "Queue" /\ ~Grouped(m, n)
      BY <2>2, <2>3 DEF Dispatched, SameConfig, Grouped, Known
    <2>5. PICK F, P : F = m.node_states[n].in_flight /\ P = m.node_states[n].pending
      OBVIOUS
    <2>6. /\ InLine(n, F, P, OnTheWay, triggers[n], applied[n])
          /\ triggers[n] \in Nat /\ applied[n] \in Seq(Nat)
      <3>1. triggers[n] \in Nat /\ applied[n] \in Seq(Nat)
        BY <2>3, MaxTriggersAssumption DEF JobsInv, CountInv
      <3>2. CASE Known(manager, n)
        <4>1. m.node_states[n] = manager.node_states[n] /\ m.groups = manager.groups
          BY <2>2, <3>2 DEF Inserted, Known
        <4>2. HasPolicy(n, "Queue") /\ ~Grouped(manager, n)
          BY <2>4, <3>2, <4>1 DEF HasPolicy, Policy, Group, Grouped
        <4>. QED
          BY <2>3, <2>5, <3>1, <4>1, <4>2 DEF OrderInv, Line
      <3>3. CASE ~Known(manager, n)
        <4>1. F = {} /\ P = <<>> /\ \A i \in Jobs(manager) : i[1] # n
          BY <2>2, <2>5, <3>3 DEF Inserted
        <4>2. triggers[n] = 0 /\ applied[n] = <<>>
          BY <2>3, <3>3 DEF OrderInv, Line
        <4>3. \A i \in OnTheWay : i[1] # n
          BY <3>3, <4>1, WhereJobsAre DEF OnTheWay, JobsInv, TravelInv
        <4>4. Len(<<>>) = 0 /\ DOMAIN <<>> = {}
          OBVIOUS
        <4>. QED
          BY <3>1, <4>1, <4>2, <4>3, <4>4 DEF InLine
      <3>. QED
        BY <3>2, <3>3
    <2>7. m.node_states[n] \in NodeState /\ P \in Seq(Job) /\ Live(m) = Live(manager)
      BY <2>2, <2>5, ManagerFields DEF Inserted, Sound, Known
    <2>8. triggers'[n] = triggers[n] + 1 /\ applied'[n] = applied[n]
      BY <1>2, <1>5, <2>1
    <2>9. CASE F = {}
      <3>1. manager'.node_states[n] = [m.node_states[n] EXCEPT !.in_flight = {j}]
        BY <2>2, <2>3, <2>4, <2>5, <2>9 DEF Dispatched
      <3>2. manager'.node_states[n].in_flight = {j} /\ manager'.node_states[n].pending = P
        BY <2>5, <2>7, <3>1 DEF NodeState
      <3>3. OnTheWay' \in SUBSET (OnTheWay \cup {j})
        BY <1>3, <1>4 DEF OnTheWay, TriggerDone
      <3>4. InLine(n, {j}, P, OnTheWay', triggers[n] + 1, applied[n])
        BY <2>3, <2>6, <2>9, <3>3, InLineIdle
      <3>. QED
        BY <2>8, <3>2, <3>4
    <2>10. CASE F # {}
      <3>1. /\ manager'.node_states[n] =
                 [m.node_states[n] EXCEPT !.pending = Append(m.node_states[n].pending, j)]
            /\ Live(manager') = Live(m)
        BY <2>2, <2>3, <2>4, <2>5, <2>10 DEF Dispatched
      <3>2. /\ manager'.node_states[n].in_flight = F
            /\ manager'.node_states[n].pending = Append(P, j)
        BY <2>5, <2>7, <3>1 DEF NodeState
      <3>3. OnTheWay' \in SUBSET OnTheWay
        BY <1>4, <2>7, <3>1 DEF OnTheWay
      <3>4. InLine(n, F, Append(P, j), OnTheWay', triggers[n] + 1, applied[n])
        BY <2>3, <2>6, <2>7, <2>10, <3>3, InLineBusy
      <3>. QED
        BY <2>8, <3>2, <3>4
    <2>. QED
      BY <2>9, <2>10
  <1>. QED
    BY <1>6, <1>7 DEF OrderInv

\* A completion applies the next job of its node.
LEMMA OrderComplete ==
    ASSUME JobsInv, OrderInv, Complete
    PROVE  OrderInv'
  <1>1. PICK j : j = Head(batch)
    OBVIOUS
  <1>2. /\ JobsInv' /\ j \in Job /\ Known(manager, j[1])
        /\ j \in Travelling /\ j \notin Jobs(manager)
        /\ Travelling' = Travelling \ {j}
        /\ Completed(manager, manager', j[1], manager.node_states[j[1]].pending)
        /\ applied' = [applied EXCEPT ![j[1]] = Append(@, j[2])]
        /\ UNCHANGED triggers
    BY <1>1, JobsComplete
  <1>3. PICK n : n = j[1]
    OBVIOUS
  <1>4. n \in Node /\ j[2] \in Nat /\ j = <<n, j[2]>>
    BY <1>2, <1>3 DEF Job
  <1>5. PICK F, P : F = manager.node_states[n].in_flight /\ P = manager.node_states[n].pending
    OBVIOUS
  <1>6. Completed(manager, manager', n, P) /\ KeepsConfig /\ SameConfig(manager, manager')
    BY <1>2, <1>3, <1>5, SameKeeps DEF Completed, JobsInv
  <1>7. applied \in [Node -> Seq(Nat)] /\ applied'[n] = Append(applied[n], j[2])
        /\ \A i \in Node : i # n => applied'[i] = applied[i]
    BY <1>2, <1>3, <1>4 DEF JobsInv, CountInv
  <1>8. /\ manager.node_states[n] \in NodeState /\ P \in Seq(Job)
        /\ applied[n] \in Seq(Nat)
    BY <1>2, <1>3, <1>4, <1>5, LineTypes
  <1>9. P # <<>> => Head(P)[1] = n
    <2>1. P # <<>> => Head(P) \in Range(P)
      BY <1>8, PopFront
    <2>. QED
      BY <1>2, <1>3, <1>5, <2>1 DEF JobsInv, Sound, Owned, Pend, Known
  <1>10. j \notin Live(manager)
    BY <1>2, WhereJobsAre
  <1>11. ASSUME NEW i \in OnTheWay'
         PROVE  \/ i \in OnTheWay /\ i # j
                \/ Grouped(manager, i[1])
                \/ P # <<>> /\ i = Head(P)
    BY <1>2, <1>6, <1>10 DEF OnTheWay, Completed
  <1>12. ASSUME NEW i \in Node, i # n
         PROVE  Line(i)'
    <2>1. \A h \in OnTheWay' : h[1] = i /\ ~Grouped(manager, i) => h \in OnTheWay
      BY <1>9, <1>11, <1>12
    <2>2. /\ Known(manager', i) => Known(manager, i)
          /\ Known(manager, i) /\ ~Grouped(manager, i) =>
                manager'.node_states[i] = manager.node_states[i]
      BY <1>6, <1>12 DEF Completed, Known, SameConfig
    <2>3. triggers'[i] = triggers[i] /\ applied'[i] = applied[i] /\ Line(i)
      BY <1>2, <1>7, <1>12 DEF OrderInv
    <2>. QED
      BY <1>2, <1>6, <2>1, <2>2, <2>3, LineFrame
  <1>13. Line(n)'
    <2>1. Known(manager', n)
      BY <1>2, <1>3, <1>6, KnownKept
    <2>. SUFFICES ASSUME Policy(manager', n) = "Queue", ~Grouped(manager', n)
                  PROVE  InLine(n, manager'.node_states[n].in_flight,
                                manager'.node_states[n].pending,
                                OnTheWay', triggers'[n], applied'[n])
      BY <2>1 DEF Line, HasPolicy
    <2>2. Known(manager, n) /\ Policy(manager, n) = "Queue" /\ ~Grouped(manager, n)
      BY <1>2, <1>3, <1>6, GroupedKept
    <2>3. InLine(n, F, P, OnTheWay, triggers[n], applied[n])
      BY <1>4, <1>5, <2>2 DEF OrderInv, Line, HasPolicy
    <2>4. <<n, j[2]>> \in OnTheWay
      BY <1>2, <1>4 DEF OnTheWay
    <2>6. CASE P = <<>>
      <3>1. manager'.node_states[n] = [manager.node_states[n] EXCEPT !.in_flight = {}]
        BY <1>6, <2>2, <2>6 DEF Completed
      <3>2. manager'.node_states[n].in_flight = {} /\ manager'.node_states[n].pending = P
        BY <1>5, <1>8, <3>1 DEF NodeState
      <3>3. {i \in OnTheWay' : i[1] = n} \in SUBSET (OnTheWay \ {<<n, j[2]>>})
        BY <1>4, <1>11, <2>2, <2>6
      <3>4. InLine(n, {}, P, {i \in OnTheWay' : i[1] = n}, triggers[n], Append(applied[n], j[2]))
        BY <1>4, <1>8, <2>3, <2>4, <2>6, <3>3, InLineLast
      <3>5. InLine(n, {}, P, OnTheWay', triggers[n], Append(applied[n], j[2]))
        BY <3>4 DEF InLine
      <3>. QED
        BY <1>2, <1>7, <3>2, <3>5
    <2>7. CASE P # <<>>
      <3>1. manager'.node_states[n] = [manager.node_states[n] EXCEPT !.in_flight = {Head(P)},
                                                                     !.pending = Tail(P)]
        BY <1>6, <2>2, <2>7 DEF Completed
      <3>2. /\ manager'.node_states[n].in_flight = {Head(P)}
            /\ manager'.node_states[n].pending = Tail(P)
        BY <1>8, <3>1 DEF NodeState
      <3>3. {i \in OnTheWay' : i[1] = n} \in SUBSET ((OnTheWay \ {<<n, j[2]>>}) \cup {Head(P)})
        BY <1>4, <1>11, <2>2
      <3>4. InLine(n, {Head(P)}, Tail(P), {i \in OnTheWay' : i[1] = n}, triggers[n],
                   Append(applied[n], j[2]))
        BY <1>4, <1>8, <2>3, <2>4, <2>7, <3>3, InLineNext
      <3>5. InLine(n, {Head(P)}, Tail(P), OnTheWay', triggers[n], Append(applied[n], j[2]))
        BY <3>4 DEF InLine
      <3>. QED
        BY <1>2, <1>7, <3>2, <3>5
    <2>. QED
      BY <2>6, <2>7
  <1>. QED
    BY <1>12, <1>13 DEF OrderInv

\* A step that leaves the nodes alone, and the jobs on their way but for some that end.
LEMMA OrderFrame ==
    ASSUME JobsInv, JobsInv', OrderInv, KeepsConfig,
           manager'.node_states = manager.node_states, UNCHANGED <<triggers, applied>>,
           OnTheWay' \in SUBSET OnTheWay
    PROVE  OrderInv'
  <1>1. ASSUME NEW n \in Node
        PROVE  Line(n)'
    BY LineFrame DEF OrderInv, Known
  <1>. QED
    BY <1>1 DEF OrderInv

\* Every step keeps OrderInv.
LEMMA OrderStep ==
    ASSUME JobsInv, OrderInv, [Next]_vars
    PROVE  OrderInv'
  <1>0. JobsInv' /\ Sound(manager)
    BY JobsStep DEF JobsInv
  <1>1. ASSUME NEW max \in Capacity, CreateGroup(max)
        PROVE  OrderInv'
    <2>1. max \in Nat /\ manager' = create_group(manager, max)
          /\ UNCHANGED <<results, batch, triggers, applied>>
      BY <1>1, CapacityAssumption DEF CreateGroup
    <2>2. /\ manager'.node_states = manager.node_states
          /\ manager'.asleep = manager.asleep /\ manager'.running = manager.running
          /\ manager'.aborted = manager.aborted
      <3>1. PICK m1 : m1 = create_group(manager, max)
        OBVIOUS
      <3>2. /\ m1.node_states = manager.node_states
            /\ m1.asleep = manager.asleep /\ m1.running = manager.running
            /\ m1.aborted = manager.aborted
        BY <1>0, <2>1, <3>1, GroupSound, ZenonT(30)
      <3>. QED
        BY <2>1, <3>1, <3>2
    <2>3. OnTheWay' = OnTheWay
      BY <2>1, <2>2 DEF OnTheWay, Live, Travelling
    <2>. QED
      BY <1>0, <1>1, <2>1, <2>2, <2>3, JobsCreateGroup, OrderFrame
  <1>2. ASSUME NEW b \in Builds, Trigger(b)
        PROVE  OrderInv'
    BY <1>2, OrderTrigger
  <1>3. ASSUME NEW j \in manager.asleep, TimerFires(j)
        PROVE  OrderInv'
    <2>1. /\ SameConfig(manager, manager') /\ Live(manager') = Live(manager)
          /\ manager'.node_states = manager.node_states
          /\ UNCHANGED <<results, batch, triggers, applied>>
      BY <1>0, <1>3, WakeSound DEF TimerFires
    <2>2. OnTheWay' = OnTheWay
      BY <2>1 DEF OnTheWay, Travelling
    <2>. QED
      BY <1>0, <2>1, <2>2, SameKeeps, OrderFrame DEF JobsInv
  <1>4. ASSUME NEW j \in manager.running, TaskDone(j)
        PROVE  OrderInv'
    <2>1. /\ SameConfig(manager, manager') /\ Live(manager') = Live(manager) \ {j} /\ j \in Live(manager)
          /\ manager'.node_states = manager.node_states
          /\ UNCHANGED <<batch, triggers, applied>>
      BY <1>0, <1>4, EndSound DEF TaskDone
    <2>2. OnTheWay' = OnTheWay
      BY <1>4, <2>1, JobsTaskDone DEF OnTheWay
    <2>. QED
      BY <1>0, <2>1, <2>2, SameKeeps, OrderFrame DEF JobsInv
  <1>5. ASSUME NEW j \in manager.running, TaskPanics(j)
        PROVE  OrderInv'
    <2>1. /\ SameConfig(manager, manager') /\ Live(manager') = Live(manager) \ {j}
          /\ manager'.node_states = manager.node_states
          /\ UNCHANGED <<results, batch, triggers, applied>>
      BY <1>0, <1>5, EndSound DEF TaskPanics
    <2>2. OnTheWay' \in SUBSET OnTheWay
      BY <2>1 DEF OnTheWay, Travelling
    <2>. QED
      BY <1>0, <2>1, <2>2, SameKeeps, OrderFrame DEF JobsInv
  <1>6. ASSUME NEW j \in manager.aborted, AbortLands(j)
        PROVE  OrderInv'
    <2>1. /\ SameConfig(manager, manager') /\ Live(manager') = Live(manager) \ {j} /\ j \in Live(manager)
          /\ manager'.node_states = manager.node_states
          /\ UNCHANGED <<batch, triggers, applied>>
      BY <1>0, <1>6, StopSound DEF AbortLands
    <2>2. OnTheWay' \in SUBSET OnTheWay
      BY <1>6, <2>1, JobsAbortLands DEF OnTheWay
    <2>. QED
      BY <1>0, <2>1, <2>2, SameKeeps, OrderFrame DEF JobsInv
  <1>7. ASSUME DrainResults
        PROVE  OrderInv'
    <2>1. OnTheWay' = OnTheWay /\ UNCHANGED <<manager, triggers, applied>>
      BY <1>7, JobsDrainResults DEF OnTheWay
    <2>. QED
      BY <2>1 DEF OrderInv, Line, HasPolicy
  <1>8. ASSUME Complete
        PROVE  OrderInv'
    BY <1>8, OrderComplete
  <1>9. ASSUME UNCHANGED vars
        PROVE  OrderInv'
    BY <1>9 DEF vars, OrderInv, Line, HasPolicy, OnTheWay, Travelling
  <1>. QED
    BY <1>1, <1>2, <1>3, <1>4, <1>5, <1>6, <1>7, <1>8, <1>9 DEF Next

\* A set all of whose elements are in one singleton.
LEMMA AtMostOne ==
    ASSUME NEW S, NEW x, S \in SUBSET {x}
    PROVE  Cardinality(S) <= 1
  <1>1. Cardinality({x}) = 1 /\ Cardinality({}) = 0
    BY FS_EmptySet, FS_Singleton
  <1>2. S = {} \/ S = {x}
    OBVIOUS
  <1>3. Cardinality(S) = 0 \/ Cardinality(S) = 1
    BY <1>1, <1>2
  <1>. QED
    BY <1>3

\* A Queue node outside a group computes its triggers one at a time and in order,
\* whatever the interleaving of triggers, completions, drains and panics.
THEOREM AsyncInOrder == Spec => []QueueInOrder
  <1>1. Init => OrderInv
    <2>. SUFFICES ASSUME Init
                  PROVE  OrderInv
      OBVIOUS
    <2>1. \A n \in Node : ~Known(manager, n) /\ triggers[n] = 0 /\ applied[n] = <<>>
      BY JobsInit DEF Init, Known
    <2>. QED
      BY <2>1 DEF OrderInv, Line, HasPolicy
  <1>2. JobsInv /\ OrderInv /\ [Next]_vars => OrderInv'
    BY OrderStep
  <1>3. JobsInv /\ OrderInv => QueueInOrder
    <2>. SUFFICES ASSUME JobsInv, OrderInv, NEW n \in Node,
                         HasPolicy(n, "Queue"), ~Grouped(manager, n)
                  PROVE  /\ Cardinality(Tasks(n)) <= 1
                         /\ \A i \in DOMAIN applied[n] : applied[n][i] = i
      BY DEF QueueInOrder
    <2>1. InLine(n, manager.node_states[n].in_flight, manager.node_states[n].pending,
                 OnTheWay, triggers[n], applied[n])
      BY DEF OrderInv, Line
    <2>2. Tasks(n) \in SUBSET manager.node_states[n].in_flight
      BY <2>1 DEF InLine, Tasks, OnTheWay, Live
    <2>3. /\ \A i \in DOMAIN applied[n] : applied[n][i] = i
          /\ \/ manager.node_states[n].in_flight = {}
             \/ manager.node_states[n].in_flight = {<<n, Len(applied[n]) + 1>>}
      BY <2>1 DEF InLine
    <2>4. Tasks(n) \in SUBSET {<<n, Len(applied[n]) + 1>>}
      BY <2>2, <2>3
    <2>. QED
      BY <2>3, <2>4, AtMostOne
  <1>. QED
    BY <1>1, <1>2, <1>3, AsyncJobs, PTL DEF Spec

-----------------------------------------------------------------------------
(* QueueGroupLimit and NoSlotLeak: slots, tasks and results of a group      *)

\* The results on their way whose completion gives back a slot of group g.
Owing(g) == {j \in Travelling : InGroup(j[1], g)}
Due(g) == Cardinality(Owing(g))

AllQueue(g) == \A n \in Node : InGroup(n, g) => HasPolicy(n, "Queue")
NoPanics(g) == \A b \in Builds : b.group_id = g => b.id \notin Panics

\* Where nothing is cancelled no slot is given back twice, and where nothing panics
\* each one is given back.
Balanced(g) ==
    /\ AllQueue(g) => Load(manager, g) + Due(g) <= Slots(manager, g)
    /\ NoPanics(g) => Slots(manager, g) <= Load(manager, g) + Due(g)

BalanceInv == \A g \in DOMAIN manager.groups : Balanced(g)

\* The set of results on their way is finite.
LEMMA OwingIsFinite ==
    ASSUME JobsInv
    PROVE  IsFiniteSet(Travelling) /\ \A g : IsFiniteSet(Owing(g)) /\ Due(g) \in Nat
  <1>1. IsFiniteSet(Range(results)) /\ IsFiniteSet(Range(batch))
    BY RangeCount DEF JobsInv, TravelInv
  <1>2. IsFiniteSet(Travelling)
    BY <1>1, FS_Union DEF Travelling
  <1>3. ASSUME NEW g
        PROVE  IsFiniteSet(Owing(g)) /\ Due(g) \in Nat
    <2>1. Owing(g) \in SUBSET Travelling
      BY DEF Owing
    <2>2. IsFiniteSet(Owing(g))
      BY <1>2, <2>1, FS_Subset
    <2>. QED
      BY <2>2, FS_CardinalityType DEF Due
  <1>. QED
    BY <1>2, <1>3

\* What a group has: its slots, its tasks and its results on their way.
LEMMA GroupNumbers ==
    ASSUME JobsInv, NEW g \in DOMAIN manager.groups
    PROVE  /\ Slots(manager, g) \in Nat /\ Load(manager, g) \in Nat /\ Due(g) \in Nat
  BY ManagerFields, LoadIsNat, OwingIsFinite DEF JobsInv, Sound, Slots

\* A known node stays in its group, with its policy.
LEMMA InGroupKept ==
    ASSUME KeepsConfig, NEW n, Known(manager, n), NEW g
    PROVE  /\ InGroup(n, g)' <=> InGroup(n, g)
           /\ HasPolicy(n, "Queue")' <=> HasPolicy(n, "Queue")
  BY KnownKept DEF KeepsConfig, InGroup, HasPolicy, Known

\* A group whose nodes all have the Queue policy had only such nodes before.
LEMMA AllQueueKept ==
    ASSUME JobsInv, KeepsConfig, NEW g, AllQueue(g)'
    PROVE  AllQueue(g)
  <1>. SUFFICES ASSUME NEW n \in Node, InGroup(n, g)
                PROVE  HasPolicy(n, "Queue")
    BY DEF AllQueue
  <1>1. Known(manager, n)
    BY DEF InGroup
  <1>. QED
    BY <1>1, InGroupKept DEF AllQueue

\* Nothing is sent or completed.
LEMMA DueSame ==
    ASSUME JobsInv, KeepsConfig, Travelling' = Travelling, NEW g
    PROVE  Due(g)' = Due(g)
  <1>1. \A j \in Travelling : InGroup(j[1], g)' <=> InGroup(j[1], g)
    BY InGroupKept DEF JobsInv, TravelInv
  <1>2. Owing(g)' = Owing(g)
    BY <1>1 DEF Owing
  <1>. QED
    BY <1>2 DEF Due

\* A result is sent.
LEMMA DueMore ==
    ASSUME JobsInv, KeepsConfig, NEW j, Known(manager, j[1]), j \notin Travelling,
           Travelling' = Travelling \cup {j}, NEW g
    PROVE  Due(g)' = IF Group(manager, j[1]) = g THEN Due(g) + 1 ELSE Due(g)
  <1>1. \A i \in Travelling \cup {j} : InGroup(i[1], g)' <=> InGroup(i[1], g)
    BY InGroupKept DEF JobsInv, TravelInv
  <1>2. IsFiniteSet(Owing(g)) /\ j \notin Owing(g)
    BY OwingIsFinite DEF Owing
  <1>3. CASE Group(manager, j[1]) = g
    <2>1. Owing(g)' = Owing(g) \cup {j}
      BY <1>1, <1>3 DEF Owing, InGroup
    <2>. QED
      BY <1>2, <1>3, <2>1, FS_AddElement DEF Due
  <1>4. CASE Group(manager, j[1]) # g
    <2>1. Owing(g)' = Owing(g)
      BY <1>1, <1>4 DEF Owing, InGroup
    <2>. QED
      BY <1>4, <2>1 DEF Due
  <1>. QED
    BY <1>3, <1>4

\* A completion is processed.
LEMMA DueLess ==
    ASSUME JobsInv, KeepsConfig, NEW j \in Travelling, Travelling' = Travelling \ {j}, NEW g
    PROVE  /\ Due(g) = IF Group(manager, j[1]) = g THEN Due(g)' + 1 ELSE Due(g)'
           /\ Due(g)' \in Nat
  <1>1. \A i \in Travelling : InGroup(i[1], g)' <=> InGroup(i[1], g)
    BY InGroupKept DEF JobsInv, TravelInv
  <1>2. IsFiniteSet(Owing(g)) /\ Known(manager, j[1])
    BY OwingIsFinite DEF JobsInv, TravelInv
  <1>3. CASE Group(manager, j[1]) = g
    <2>1. Owing(g)' = Owing(g) \ {j} /\ j \in Owing(g)
      BY <1>1, <1>2, <1>3 DEF Owing, InGroup
    <2>2. /\ Cardinality(Owing(g) \ {j}) = Cardinality(Owing(g)) - 1
          /\ IsFiniteSet(Owing(g) \ {j})
          /\ Cardinality(Owing(g)) \in Nat
      BY <1>2, <2>1, FS_RemoveElement, FS_CardinalityType
    <2>3. Cardinality(Owing(g) \ {j}) \in Nat
      BY <2>2, FS_CardinalityType
    <2>. QED
      BY <1>3, <2>1, <2>2, <2>3 DEF Due
  <1>4. CASE Group(manager, j[1]) # g
    <2>1. Owing(g)' = Owing(g)
      BY <1>1, <1>4 DEF Owing, InGroup
    <2>. QED
      BY <1>2, <1>4, <2>1, FS_CardinalityType DEF Due
  <1>. QED
    BY <1>3, <1>4

\* A new group has no nodes yet.
LEMMA BalanceCreateGroup ==
    ASSUME JobsInv, BalanceInv, NEW max \in Capacity, CreateGroup(max)
    PROVE  BalanceInv'
  <1>1. /\ max \in Nat /\ Sound(manager) /\ manager' = create_group(manager, max)
        /\ UNCHANGED <<results, batch>> /\ JobsInv' /\ KeepsConfig
    BY CapacityAssumption, JobsCreateGroup DEF JobsInv, CreateGroup
  <1>2. /\ DOMAIN manager'.groups = DOMAIN manager.groups \cup {Len(manager.groups) + 1}
        /\ \A g \in DOMAIN manager.groups : manager'.groups[g] = manager.groups[g]
        /\ manager'.groups[Len(manager.groups) + 1] =
              [max_concurrent |-> max, in_flight |-> 0, queue |-> <<>>]
        /\ \A g : Held(manager', g) = Held(manager, g)
        /\ manager'.node_states = manager.node_states
    BY <1>1, GroupSound
  <1>3. Travelling' = Travelling
    BY <1>1 DEF Travelling
  <1>4. ASSUME NEW g \in DOMAIN manager.groups
        PROVE  Balanced(g)'
    <2>1. Slots(manager', g) = Slots(manager, g) /\ Load(manager', g) = Load(manager, g)
      BY <1>2 DEF Slots, Load
    <2>. QED
      BY <1>1, <1>3, <2>1, DueSame, AllQueueKept DEF BalanceInv, Balanced, NoPanics
  <1>5. ASSUME NEW g, g = Len(manager.groups) + 1
        PROVE  Balanced(g)'
    <2>1. \A n : ~InGroup(n, g)'
      <3>1. /\ Len(manager.groups) \in Nat
            /\ \A n \in DOMAIN manager.node_states :
                  Group(manager, n) \in Nat /\ Group(manager, n) <= Len(manager.groups)
        BY <1>1, ManagerFields DEF JobsInv, ConfigInv, Sound
      <3>2. \A n : Known(manager, n) => Group(manager, n) # g
        BY <1>5, <3>1 DEF Known
      <3>. QED
        BY <1>2, <3>2 DEF InGroup, Known, Group
    <2>2. Owing(g)' = {} /\ Held(manager', g) = {}
      BY <2>1 DEF Owing, Held, InGroup
    <2>3. Due(g)' = 0 /\ Load(manager', g) = 0
      BY <2>2, FS_EmptySet DEF Due, Load
    <2>4. Slots(manager', g) = 0
      BY <1>2, <1>5 DEF Slots
    <2>. QED
      BY <2>3, <2>4 DEF Balanced
  <1>. QED
    BY <1>2, <1>4, <1>5 DEF BalanceInv

\* Equal gains, ...
LEMMA Gains ==
    ASSUME NEW s \in Nat, NEW s1 \in Nat, NEW l \in Nat, NEW l1 \in Nat, NEW d \in Nat
    PROVE  /\ s1 + l = s + l1 /\ l + d <= s => l1 + d <= s1
           /\ s1 + l <= s + l1 /\ s <= l + d => s1 <= l1 + d
           /\ s1 <= l1 => s1 <= l1 + d
  OBVIOUS

\* A trigger takes a slot for the task it starts.
LEMMA BalanceTrigger ==
    ASSUME JobsInv, BalanceInv, NEW b \in Builds, Trigger(b)
    PROVE  BalanceInv'
  <1>1. PICK j : j = <<b.id, triggers[b.id] + 1>>
    OBVIOUS
  <1>2. /\ j[1] = b.id /\ b.id \in Node /\ UNCHANGED <<results, batch>>
        /\ TriggerDone(b, j) /\ JobsInv'
    BY <1>1, TriggerNew, TriggerKeeps, JobsTrigger
  <1>3. Travelling' = Travelling /\ KeepsConfig /\ DOMAIN manager'.groups = DOMAIN manager.groups
    BY <1>2 DEF Travelling, TriggerDone
  <1>4. PICK m, c : /\ Inserted(manager, m, b.id, c) /\ Known(m, b.id)
                    /\ Dispatched(m, manager', j)
    BY <1>1, <1>2, TriggerSpawns
  <1>. SUFFICES ASSUME NEW g \in DOMAIN manager.groups
                PROVE  Balanced(g)'
    BY <1>3 DEF BalanceInv
  <1>5. /\ Slots(m, g) = Slots(manager, g) /\ Load(m, g) = Load(manager, g)
        /\ g \in DOMAIN m.groups
    BY <1>4 DEF Inserted, Slots, Load
  <1>6. /\ \/ Slots(manager', g) <= Load(manager', g)
           \/ Slots(manager', g) + Load(m, g) <= Slots(m, g) + Load(manager', g)
        /\ g # Group(m, b.id) \/ Policy(m, b.id) = "Queue" =>
              Slots(manager', g) + Load(m, g) = Slots(m, g) + Load(manager', g)
    BY <1>2, <1>4, <1>5 DEF Dispatched
  <1>7. /\ Group(manager', b.id) = Group(m, b.id) /\ Policy(manager', b.id) = Policy(m, b.id)
        /\ Known(manager', b.id)
    BY <1>2, <1>4 DEF Dispatched, SameConfig, Known
  <1>8. AllQueue(g)' => g # Group(m, b.id) \/ Policy(m, b.id) = "Queue"
    BY <1>2, <1>7 DEF AllQueue, InGroup, HasPolicy
  <1>9. /\ Due(g)' = Due(g) /\ (AllQueue(g)' => AllQueue(g))
        /\ Slots(manager, g) \in Nat /\ Load(manager, g) \in Nat /\ Due(g) \in Nat
        /\ Slots(manager', g) \in Nat /\ Load(manager', g) \in Nat
    BY <1>2, <1>3, DueSame, AllQueueKept, GroupNumbers, ManagerFields, LoadIsNat
       DEF JobsInv, Sound, Slots
  <1>10. Balanced(g) /\ (NoPanics(g)' <=> NoPanics(g))
    BY DEF BalanceInv, NoPanics
  <1>11. AllQueue(g)' => Load(manager', g) + Due(g)' <= Slots(manager', g)
    <2>. SUFFICES ASSUME AllQueue(g)'
                  PROVE  Load(manager', g) + Due(g)' <= Slots(manager', g)
      OBVIOUS
    <2>1. Slots(manager', g) + Load(manager, g) = Slots(manager, g) + Load(manager', g)
      BY <1>5, <1>6, <1>8
    <2>2. Load(manager, g) + Due(g) <= Slots(manager, g)
      BY <1>9, <1>10 DEF Balanced
    <2>. QED
      BY <1>9, <2>1, <2>2, Gains
  <1>12. NoPanics(g)' => Slots(manager', g) <= Load(manager', g) + Due(g)'
    <2>. SUFFICES ASSUME NoPanics(g)'
                  PROVE  Slots(manager', g) <= Load(manager', g) + Due(g)'
      OBVIOUS
    <2>1. Slots(manager, g) <= Load(manager, g) + Due(g)
      BY <1>10 DEF Balanced
    <2>. QED
      BY <1>5, <1>6, <1>9, <2>1, Gains
  <1>. QED
    BY <1>11, <1>12 DEF Balanced

\* A task that has its result holds its slot until the completion.
LEMMA BalanceTaskDone ==
    ASSUME JobsInv, BalanceInv, NEW j \in manager.running, TaskDone(j)
    PROVE  BalanceInv'
  <1>1. /\ JobsInv' /\ Travelling' = Travelling \cup {j} /\ j \notin Travelling
        /\ KeepsConfig /\ DOMAIN manager'.groups = DOMAIN manager.groups
    BY JobsTaskDone, SameKeeps DEF JobsInv, SameConfig
  <1>2. /\ manager'.groups = manager.groups /\ j \in Live(manager)
        /\ \A g : Load(manager', g) =
                    IF Group(manager, j[1]) = g THEN Load(manager, g) - 1 ELSE Load(manager, g)
    BY EndSound DEF TaskDone, JobsInv
  <1>3. Known(manager, j[1])
    BY <1>2 DEF JobsInv, Sound, Owned
  <1>. SUFFICES ASSUME NEW g \in DOMAIN manager.groups
                PROVE  Balanced(g)'
    BY <1>1 DEF BalanceInv
  <1>4. Due(g)' = IF Group(manager, j[1]) = g THEN Due(g) + 1 ELSE Due(g)
    BY <1>1, <1>3, DueMore
  <1>5. Load(manager', g) + Due(g)' = Load(manager, g) + Due(g)
    BY <1>2, <1>4, GroupNumbers
  <1>6. Slots(manager', g) = Slots(manager, g)
    BY <1>2 DEF Slots
  <1>. QED
    BY <1>1, <1>5, <1>6, AllQueueKept DEF BalanceInv, Balanced, NoPanics

\* A task that panics leaves its slot taken.
LEMMA BalanceTaskPanics ==
    ASSUME JobsInv, BalanceInv, NEW j \in manager.running, TaskPanics(j)
    PROVE  BalanceInv'
  <1>1. /\ JobsInv' /\ Travelling' = Travelling
        /\ KeepsConfig /\ DOMAIN manager'.groups = DOMAIN manager.groups
    BY JobsTaskPanics, SameKeeps DEF JobsInv, SameConfig
  <1>2. /\ manager'.groups = manager.groups /\ j \in Live(manager) /\ j[1] \in Panics
        /\ \A g : Load(manager', g) =
                    IF Group(manager, j[1]) = g THEN Load(manager, g) - 1 ELSE Load(manager, g)
    BY EndSound DEF TaskPanics, JobsInv
  <1>3. Known(manager, j[1])
    BY <1>2 DEF JobsInv, Sound, Owned
  <1>. SUFFICES ASSUME NEW g \in DOMAIN manager.groups
                PROVE  Balanced(g)'
    BY <1>1 DEF BalanceInv
  <1>4. Due(g)' = Due(g) /\ Slots(manager', g) = Slots(manager, g) /\ (AllQueue(g)' => AllQueue(g))
    BY <1>1, <1>2, DueSame, AllQueueKept DEF Slots
  <1>5. NoPanics(g) => Group(manager, j[1]) # g
    BY <1>2, <1>3 DEF NoPanics, JobsInv, ConfigInv, Known
  <1>6. /\ Load(manager', g) <= Load(manager, g)
        /\ Group(manager, j[1]) # g => Load(manager', g) = Load(manager, g)
        /\ Load(manager', g) \in Nat
    BY <1>1, <1>2, GroupNumbers, LoadIsNat DEF JobsInv
  <1>7. Load(manager', g) + Due(g) <= Load(manager, g) + Due(g)
    BY <1>6, GroupNumbers
  <1>8. NoPanics(g)' <=> NoPanics(g)
    BY DEF NoPanics
  <1>9. Balanced(g)
    BY DEF BalanceInv
  <1>10. AllQueue(g)' => Load(manager', g) + Due(g)' <= Slots(manager', g)
    BY <1>4, <1>6, <1>7, <1>9, GroupNumbers DEF Balanced
  <1>11. NoPanics(g)' => Slots(manager', g) <= Load(manager', g) + Due(g)'
    BY <1>4, <1>5, <1>6, <1>8, <1>9 DEF Balanced
  <1>. QED
    BY <1>10, <1>11 DEF Balanced

\* A task told to abort holds no slot; its result, if there is one, frees one.
LEMMA BalanceAbortLands ==
    ASSUME JobsInv, BalanceInv, NEW j \in manager.aborted, AbortLands(j)
    PROVE  BalanceInv'
  <1>1. /\ JobsInv' /\ KeepsConfig /\ DOMAIN manager'.groups = DOMAIN manager.groups
        /\ \/ Travelling' = Travelling
           \/ Travelling' = Travelling \cup {j} /\ j \notin Travelling
    BY JobsAbortLands, SameKeeps DEF JobsInv, SameConfig
  <1>2. /\ manager'.groups = manager.groups /\ j \in Live(manager)
        /\ Policy(manager, j[1]) # "Queue"
        /\ \A g : Held(manager', g) = Held(manager, g)
    BY StopSound DEF AbortLands, JobsInv
  <1>3. Known(manager, j[1]) /\ j[1] \in Node
    BY <1>2, ManagerFields DEF JobsInv, Sound, Owned, Known
  <1>. SUFFICES ASSUME NEW g \in DOMAIN manager.groups
                PROVE  Balanced(g)'
    BY <1>1 DEF BalanceInv
  <1>4. /\ Slots(manager', g) = Slots(manager, g) /\ Load(manager', g) = Load(manager, g)
    BY <1>2 DEF Slots, Load
  <1>5. AllQueue(g) => Group(manager, j[1]) # g
    BY <1>2, <1>3 DEF AllQueue, InGroup, HasPolicy
  <1>6. /\ Due(g) <= Due(g)' /\ Due(g)' \in Nat
        /\ Group(manager, j[1]) # g => Due(g)' = Due(g)
    <2>1. CASE Travelling' = Travelling
      BY <1>1, <2>1, DueSame, GroupNumbers
    <2>2. CASE Travelling' = Travelling \cup {j} /\ j \notin Travelling
      BY <1>1, <1>3, <2>2, DueMore, GroupNumbers
    <2>. QED
      BY <1>1, <2>1, <2>2
  <1>7. Load(manager, g) + Due(g) <= Load(manager, g) + Due(g)'
    BY <1>6, GroupNumbers
  <1>8. Balanced(g) /\ (NoPanics(g)' <=> NoPanics(g)) /\ (AllQueue(g)' => AllQueue(g))
    BY <1>1, AllQueueKept DEF BalanceInv, NoPanics
  <1>9. AllQueue(g)' => Load(manager', g) + Due(g)' <= Slots(manager', g)
    BY <1>4, <1>5, <1>6, <1>8 DEF Balanced
  <1>10. NoPanics(g)' => Slots(manager', g) <= Load(manager', g) + Due(g)'
    BY <1>4, <1>6, <1>7, <1>8, GroupNumbers DEF Balanced
  <1>. QED
    BY <1>9, <1>10 DEF Balanced

\* A completion frees the slot that its task has held.
LEMMA BalanceComplete ==
    ASSUME JobsInv, BalanceInv, Complete
    PROVE  BalanceInv'
  <1>1. PICK j : j = Head(batch)
    OBVIOUS
  <1>2. /\ JobsInv' /\ j \in Travelling /\ Travelling' = Travelling \ {j}
        /\ Completed(manager, manager', j[1], manager.node_states[j[1]].pending)
    BY <1>1, JobsComplete
  <1>3. /\ KeepsConfig /\ DOMAIN manager'.groups = DOMAIN manager.groups
        /\ \A g \in DOMAIN manager.groups :
              Slots(manager', g) + Load(manager, g) = Freed(manager, j[1], g) + Load(manager', g)
    BY <1>2, SameKeeps DEF Completed, JobsInv, SameConfig
  <1>. SUFFICES ASSUME NEW g \in DOMAIN manager.groups
                PROVE  Balanced(g)'
    BY <1>3 DEF BalanceInv
  <1>4. /\ Due(g) = IF Group(manager, j[1]) = g THEN Due(g)' + 1 ELSE Due(g)'
        /\ Due(g)' \in Nat
    BY <1>2, <1>3, DueLess
  <1>5. /\ Slots(manager, g) \in Nat /\ Load(manager, g) \in Nat /\ Due(g) \in Nat
        /\ Slots(manager', g) \in Nat /\ Load(manager', g) \in Nat /\ Due(g)' \in Nat
    BY <1>2, <1>3, <1>4, GroupNumbers, ManagerFields, LoadIsNat DEF JobsInv, Sound, Slots
  <1>6. Balanced(g) /\ (NoPanics(g)' <=> NoPanics(g)) /\ (AllQueue(g)' => AllQueue(g))
    BY <1>2, <1>3, AllQueueKept DEF BalanceInv, NoPanics
  <1>7. CASE Group(manager, j[1]) = g /\ Slots(manager, g) > 0
    <2>1. Slots(manager', g) + Load(manager, g) = (Slots(manager, g) - 1) + Load(manager', g)
      BY <1>3, <1>7 DEF Freed
    <2>2. /\ Load(manager, g) + Due(g) <= Slots(manager, g) =>
                Load(manager', g) + Due(g)' <= Slots(manager', g)
          /\ Slots(manager, g) <= Load(manager, g) + Due(g) =>
                Slots(manager', g) <= Load(manager', g) + Due(g)'
      BY <1>4, <1>5, <1>7, <2>1
    <2>. QED
      BY <1>6, <2>2 DEF Balanced
  <1>8. CASE Group(manager, j[1]) = g /\ ~(Slots(manager, g) > 0)
    <2>1. Slots(manager', g) + Load(manager, g) = Slots(manager, g) + Load(manager', g)
      BY <1>3, <1>8 DEF Freed
    <2>2. /\ ~(Load(manager, g) + Due(g) <= Slots(manager, g))
          /\ Slots(manager', g) <= Load(manager', g) + Due(g)'
      BY <1>4, <1>5, <1>8, <2>1
    <2>. QED
      BY <1>6, <2>2 DEF Balanced
  <1>9. CASE Group(manager, j[1]) # g
    <2>1. Slots(manager', g) + Load(manager, g) = Slots(manager, g) + Load(manager', g)
      BY <1>3, <1>9 DEF Freed
    <2>2. /\ Load(manager, g) + Due(g) <= Slots(manager, g) =>
                Load(manager', g) + Due(g)' <= Slots(manager', g)
          /\ Slots(manager, g) <= Load(manager, g) + Due(g) =>
                Slots(manager', g) <= Load(manager', g) + Due(g)'
      BY <1>4, <1>5, <1>9, <2>1
    <2>. QED
      BY <1>6, <2>2 DEF Balanced
  <1>. QED
    BY <1>7, <1>8, <1>9

\* Every step keeps BalanceInv.
LEMMA BalanceStep ==
    ASSUME JobsInv, BalanceInv, [Next]_vars
    PROVE  BalanceInv'
  <1>1. ASSUME KeepsConfig, Travelling' = Travelling, manager'.groups = manager.groups,
               \A g : Held(manager', g) = Held(manager, g)
        PROVE  BalanceInv'
    <2>. SUFFICES ASSUME NEW g \in DOMAIN manager.groups
                  PROVE  Balanced(g)'
      BY <1>1 DEF BalanceInv
    <2>1. Slots(manager', g) = Slots(manager, g) /\ Load(manager', g) = Load(manager, g)
      BY <1>1 DEF Slots, Load
    <2>. QED
      BY <1>1, <2>1, DueSame, AllQueueKept DEF BalanceInv, Balanced, NoPanics
  <1>2. ASSUME NEW max \in Capacity, CreateGroup(max)
        PROVE  BalanceInv'
    BY <1>2, BalanceCreateGroup
  <1>3. ASSUME NEW b \in Builds, Trigger(b)
        PROVE  BalanceInv'
    BY <1>3, BalanceTrigger
  <1>4. ASSUME NEW j \in manager.asleep, TimerFires(j)
        PROVE  BalanceInv'
    <2>1. /\ Sound(manager') /\ SameConfig(manager, manager')
          /\ manager'.groups = manager.groups
          /\ \A g : Held(manager', g) = Held(manager, g)
          /\ UNCHANGED <<results, batch>>
      <3>1. PICK m1 : m1 = [manager EXCEPT !.asleep = @ \ {j}, !.running = @ \cup {j}]
        OBVIOUS
      <3>2. manager' = m1 /\ UNCHANGED <<results, batch>> /\ Sound(manager)
        BY <1>4, <3>1 DEF TimerFires, JobsInv
      <3>3. /\ Sound(m1) /\ SameConfig(manager, m1) /\ m1.groups = manager.groups
            /\ \A g : Held(m1, g) = Held(manager, g)
        BY <3>1, <3>2, WakeSound, ZenonT(30)
      <3>. QED
        BY <3>2, <3>3
    <2>2. KeepsConfig /\ Travelling' = Travelling
      BY <2>1, SameKeeps DEF JobsInv, Travelling
    <2>. QED
      BY <1>1, <2>1, <2>2
  <1>5. ASSUME NEW j \in manager.running, TaskDone(j) \/ TaskPanics(j)
        PROVE  BalanceInv'
    BY <1>5, BalanceTaskDone, BalanceTaskPanics
  <1>6. ASSUME NEW j \in manager.aborted, AbortLands(j)
        PROVE  BalanceInv'
    BY <1>6, BalanceAbortLands
  <1>7. ASSUME DrainResults \/ UNCHANGED vars
        PROVE  BalanceInv'
    <2>1. manager' = manager /\ Travelling' = Travelling
      BY <1>7, JobsDrainResults, JobsStutter DEF vars
    <2>2. KeepsConfig
      <3>1. Len(manager.groups) \in Nat
        BY ManagerFields DEF JobsInv, Sound
      <3>. QED
        BY <2>1, <3>1 DEF KeepsConfig
    <2>. QED
      BY <1>1, <2>1, <2>2
  <1>8. ASSUME Complete
        PROVE  BalanceInv'
    BY <1>8, BalanceComplete
  <1>. QED
    BY <1>2, <1>3, <1>4, <1>5, <1>6, <1>7, <1>8 DEF Next

\* A group's slots, tasks and results on their way are in balance: where nothing is
\* cancelled its slots cover its tasks, where nothing panics its tasks its slots.
THEOREM AsyncBalance == Spec => []BalanceInv
  <1>1. Init => BalanceInv
    BY JobsInit DEF BalanceInv
  <1>2. JobsInv /\ BalanceInv /\ [Next]_vars => BalanceInv'
    BY BalanceStep
  <1>. QED
    BY <1>1, <1>2, AsyncJobs, PTL DEF Spec

\* A group whose nodes all have the Queue policy, where nothing is ever cancelled,
\* never has more than max_concurrent tasks at once.
THEOREM AsyncGroupLimit == Spec => []QueueGroupLimit
  <1>1. JobsInv /\ Filled(manager) /\ BalanceInv => QueueGroupLimit
    <2>. SUFFICES ASSUME JobsInv, Filled(manager), BalanceInv,
                         NEW g \in DOMAIN manager.groups, AllQueue(g)
                  PROVE  Cardinality({j \in manager.running : InGroup(j[1], g)})
                            <= manager.groups[g].max_concurrent
      BY DEF QueueGroupLimit, AllQueue
    <2>1. PICK T : T = {j \in manager.running : InGroup(j[1], g)}
      OBVIOUS
    <2>2. T \in SUBSET Held(manager, g) /\ IsFiniteSet(Held(manager, g))
      BY <2>1, LoadIsNat DEF Held, InGroup, JobsInv
    <2>3. IsFiniteSet(T) /\ Cardinality(T) <= Load(manager, g)
      BY <2>2, FS_Subset DEF Load
    <2>4. Cardinality(T) \in Nat
      BY <2>3, FS_CardinalityType
    <2>5. Load(manager, g) + Due(g) <= Slots(manager, g)
      BY DEF BalanceInv, Balanced
    <2>6. Slots(manager, g) <= manager.groups[g].max_concurrent
          /\ manager.groups[g].max_concurrent \in Nat
      BY ManagerFields DEF Filled, Slots, JobsInv, Sound
    <2>7. Cardinality(T) <= manager.groups[g].max_concurrent
      BY <2>3, <2>4, <2>5, <2>6, GroupNumbers
    <2>. QED
      BY <2>1, <2>7
  <1>. QED
    BY <1>1, AsyncJobs, AsyncFilled, AsyncBalance, PTL

\* The elements of a sequence without repetition are as many as their places.
LEMMA PlacesCount ==
    ASSUME NEW S, NEW s \in Seq(S), IsInjective(s), NEW X
    PROVE  /\ IsFiniteSet({i \in DOMAIN s : s[i] \in X})
           /\ Cardinality({i \in DOMAIN s : s[i] \in X}) = Cardinality({x \in Range(s) : x \in X})
  <1>1. PICK I : I = {i \in DOMAIN s : s[i] \in X}
    OBVIOUS
  <1>2. PICK E : E = {x \in Range(s) : x \in X}
    OBVIOUS
  <1>3. PICK f : f = [i \in I |-> s[i]]
    OBVIOUS
  <1>4. f \in [I -> E] /\ \A x \in E : \E i \in I : f[i] = x
    BY <1>1, <1>2, <1>3 DEF Range
  <1>5. \A i, h \in I : f[i] = f[h] => i = h
    BY <1>1, <1>3 DEF IsInjective
  <1>6. f \in Surjection(I, E) /\ f \in Injection(I, E)
    BY <1>4, <1>5 DEF Surjection, Injection, IsInjective
  <1>7. IsFiniteSet(I)
    <2>1. DOMAIN s = 1..Len(s) /\ Len(s) \in Nat
      BY LenProperties
    <2>2. IsFiniteSet(DOMAIN s)
      BY <2>1, FS_Interval
    <2>3. I \in SUBSET DOMAIN s
      BY <1>1
    <2>. QED
      BY <2>2, <2>3, FS_Subset
  <1>8. Cardinality(E) = Cardinality(I)
    BY <1>6, <1>7, FS_Surjection
  <1>. QED
    BY <1>1, <1>2, <1>7, <1>8

\* The results on their way are those in the channel and those in the batch.
LEMMA UndrainedIsDue ==
    ASSUME JobsInv, NEW g
    PROVE  Undrained(g) = Due(g)
  <1>1. PICK X : X = {j \in Job : InGroup(j[1], g)}
    OBVIOUS
  <1>2. /\ results \in Seq(Job) /\ batch \in Seq(Job)
        /\ IsInjective(results) /\ IsInjective(batch)
        /\ Range(results) \cap Range(batch) = {}
    BY DEF JobsInv, TravelInv
  <1>3. /\ \A i \in DOMAIN results : results[i] \in Job
        /\ \A i \in DOMAIN batch : batch[i] \in Job
    BY <1>2, ElementOfSeq, LenProperties
  <1>4. PICK A : A = {x \in Range(results) : x \in X}
    OBVIOUS
  <1>5. PICK B : B = {x \in Range(batch) : x \in X}
    OBVIOUS
  <1>6. Cardinality({i \in DOMAIN results : InGroup(results[i][1], g)}) = Cardinality(A)
    <2>1. {i \in DOMAIN results : InGroup(results[i][1], g)} = {i \in DOMAIN results : results[i] \in X}
      BY <1>1, <1>3
    <2>2. Cardinality({i \in DOMAIN results : results[i] \in X})
             = Cardinality({x \in Range(results) : x \in X})
      BY <1>2, PlacesCount
    <2>. QED
      BY <1>4, <2>1, <2>2
  <1>7. Cardinality({i \in DOMAIN batch : InGroup(batch[i][1], g)}) = Cardinality(B)
    <2>1. {i \in DOMAIN batch : InGroup(batch[i][1], g)} = {i \in DOMAIN batch : batch[i] \in X}
      BY <1>1, <1>3
    <2>. QED
      BY <1>2, <1>5, <2>1, PlacesCount
  <1>8. Owing(g) = A \cup B
    BY <1>1, <1>3, <1>4, <1>5 DEF Owing, Travelling, Range
  <1>9. A \cap B = {}
    BY <1>2, <1>4, <1>5
  <1>10. IsFiniteSet(A) /\ IsFiniteSet(B)
    <2>1. A \in SUBSET Owing(g) /\ B \in SUBSET Owing(g) /\ IsFiniteSet(Owing(g))
      BY <1>8, OwingIsFinite
    <2>. QED
      BY <2>1, FS_Subset
  <1>11. Cardinality(A \cup B) = Cardinality(A) + Cardinality(B)
    BY <1>9, <1>10, DisjointCount
  <1>. QED
    BY <1>6, <1>7, <1>8, <1>11 DEF Undrained, Due

\* No slot of a group whose futures do not panic leaks: each one counted is held by a
\* task that was not cancelled or by a result on its way.
THEOREM AsyncNoLeak == Spec => []NoSlotLeak
  <1>1. JobsInv /\ BalanceInv => NoSlotLeak
    <2>. SUFFICES ASSUME JobsInv, BalanceInv, NEW g \in DOMAIN manager.groups, NoPanics(g)
                  PROVE  manager.groups[g].in_flight <= Undrained(g) +
                Cardinality({j \in manager.asleep \cup manager.running : InGroup(j[1], g)})
      BY DEF NoSlotLeak, NoPanics
    <2>1. Slots(manager, g) <= Load(manager, g) + Due(g)
      BY DEF BalanceInv, Balanced
    <2>2. {j \in manager.asleep \cup manager.running : InGroup(j[1], g)} = Held(manager, g)
      BY DEF Held, InGroup
    <2>3. Load(manager, g) + Due(g) = Due(g) + Load(manager, g)
      BY GroupNumbers
    <2>. QED
      BY <2>1, <2>2, <2>3, UndrainedIsDue DEF Slots, Load
  <1>. QED
    BY <1>1, AsyncJobs, AsyncBalance, PTL
=============================================================================
