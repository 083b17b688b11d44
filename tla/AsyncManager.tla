---------------------------- MODULE AsyncManager -----------------------------
(***************************************************************************)
(* AsyncManager (async_compute.rs): the async policies, the concurrency     *)
(* groups and the tasks they start on the tokio runtime.                    *)
(*                                                                          *)
(* The manager's own methods run one at a time on the engine's thread and   *)
(* are operators from its state to its state; the tasks run concurrently.   *)
(* A job <<n, k>> is the computation of the k-th trigger of node n.         *)
(*                                                                          *)
(* Each trigger comes with the policy and the group of the registration     *)
(* that the node has at that time.  A node may be removed and built again   *)
(* with others between two triggers; the manager is not told of it and      *)
(* keeps the ones of the first trigger in node_states.                      *)
(***************************************************************************)
EXTENDS Naturals, Sequences, FiniteSets, FiniteSetsExt, Functions, SequencesExt

CONSTANTS
    Node,           \* async compute nodes
    Builds,         \* the registrations of async nodes: [id, policy, group_id]
    Capacity,       \* the values of max_concurrent that groups are created with
    Panics,         \* nodes whose futures may panic
    MaxGroups,      \* bound on the groups created
    MaxTriggers     \* bound on the triggers of one node

AsyncPolicy == {"LatestWins", "Queue", "Debounce"}

\* A group's id is its place in `groups', counted from 1; 0 stands for None.
ASSUME BuildsAssumption ==
    Builds \subseteq [id : Node, policy : AsyncPolicy, group_id : Nat]
ASSUME CapacityAssumption == Capacity \subseteq Nat
ASSUME PanicsAssumption == Panics \subseteq Node
ASSUME MaxGroupsAssumption == MaxGroups \in Nat
ASSUME MaxTriggersAssumption == MaxTriggers \in Nat

Job == Node \X (Nat \ {0})

VARIABLES
    manager,    \* the AsyncManager and the tasks it has spawned:
                \*   node_states: node that was triggered -> [policy, group_id,
                \*                in_flight: the job of its JoinHandle, or none,
                \*                pending: jobs kept back by the Queue policy]
                \*   groups: sequence of [max_concurrent, in_flight, queue]
                \*   asleep, running, aborted: tasks in the debounce timer,
                \*                in their future, and told to abort while polled
    results,    \* result_rx: jobs in the order their tasks sent the result
    batch,      \* results drained whose completion is still to be processed
    triggers,   \* node -> how often spawn was called with it
    applied     \* node -> the results handed to the value store, in order

vars == <<manager, results, batch, triggers, applied>>

\* A node that has never been triggered has no entry in node_states.
Known(m, n) == n \in DOMAIN m.node_states
Policy(m, n) == m.node_states[n].policy
Group(m, n) == m.node_states[n].group_id

\* An id that is not in the map of groups limits nothing.
Grouped(m, n) == Group(m, n) \in DOMAIN m.groups

-----------------------------------------------------------------------------
(* The methods of AsyncManager on the state m.                              *)

create_group(m, max) ==
    [m EXCEPT !.groups = Append(@, [max_concurrent |-> max, in_flight |-> 0, queue |-> <<>>])]

\* Mutant: the subtraction does not saturate.
ReleaseAlways(m, n) ==
    IF Grouped(m, n) THEN [m EXCEPT !.groups[Group(m, n)].in_flight = @ - 1] ELSE m

\* The slot of a node's group is given back: saturating_sub(1).
Release(m, n) ==
    IF Grouped(m, n) /\ m.groups[Group(m, n)].in_flight > 0
    THEN [m EXCEPT !.groups[Group(m, n)].in_flight = @ - 1] ELSE m

\* handle.abort(): a sleeping task stops at once, one that is being polled only at
\* its next await.
Abort(m, J) ==
    [m EXCEPT !.asleep  = @ \ J,
              !.running = @ \ J,
              !.aborted = @ \cup (m.running \cap J)]

\* Mutant: the slot of a cancelled task is not given back.
CancelKeepsSlot(m, n) ==
    [Abort(m, m.node_states[n].in_flight) EXCEPT !.node_states[n].in_flight = {}]

\* Cancel existing: the slot is given back whether or not the task still ran.
Cancel(m, n) ==
    IF m.node_states[n].in_flight = {} THEN m
    ELSE Release([Abort(m, m.node_states[n].in_flight)
                    EXCEPT !.node_states[n].in_flight = {}], n)

\* Mutant: one task too many.
FullOver(m, n) ==
    /\ Grouped(m, n)
    /\ m.groups[Group(m, n)].in_flight > m.groups[Group(m, n)].max_concurrent

\* A node's group has no free slot.
Full(m, n) ==
    /\ Grouped(m, n)
    /\ m.groups[Group(m, n)].in_flight >= m.groups[Group(m, n)].max_concurrent

Enqueue(m, j) == [m EXCEPT !.groups[Group(m, j[1])].queue = Append(@, j)]
TakeSlot(m, n) ==
    IF Grouped(m, n) THEN [m EXCEPT !.groups[Group(m, n)].in_flight = @ + 1] ELSE m

spawn_raw(m, j) ==
    [m EXCEPT !.node_states[j[1]].in_flight = {j}, !.running = @ \cup {j}]

try_spawn(m, j) ==
    IF Full(m, j[1]) THEN Enqueue(m, j) ELSE spawn_raw(TakeSlot(m, j[1]), j)

\* spawn_debounced: the task sleeps first, but without a slot the job joins the
\* group's queue and loses its timer.
spawn_debounced(m, j) ==
    IF Full(m, j[1]) THEN Enqueue(m, j)
    ELSE [TakeSlot(m, j[1]) EXCEPT !.node_states[j[1]].in_flight = {j},
                                   !.asleep = @ \cup {j}]

\* node_states.entry(id).or_insert_with(..): only the first trigger's configuration
\* is kept.
or_insert(m, n, c) ==
    IF Known(m, n) THEN m
    ELSE [m EXCEPT !.node_states = [i \in DOMAIN @ \cup {n} |->
            IF i = n THEN [policy |-> c.policy, group_id |-> c.group_id,
                           in_flight |-> {}, pending |-> <<>>]
                     ELSE @[i]]]

\* Mutant: under LatestWins a trigger is dropped while a task is in flight.
spawn_first_wins(m0, j, c) ==
    LET n    == j[1]
        m    == or_insert(m0, n, c)
        busy == m.node_states[n].in_flight # {}
    IN  CASE Policy(m, n) = "LatestWins" -> IF busy THEN m ELSE try_spawn(m, j)
          [] Policy(m, n) = "Debounce"   -> spawn_debounced(Cancel(m, n), j)
          [] Policy(m, n) = "Queue" ->
                IF busy THEN [m EXCEPT !.node_states[n].pending = Append(@, j)]
                        ELSE try_spawn(m, j)

\* spawn, by the policy in the node's state.
spawn(m0, j, c) ==
    LET n    == j[1]
        m    == or_insert(m0, n, c)
        busy == m.node_states[n].in_flight # {}
    IN  CASE Policy(m, n) = "LatestWins" -> try_spawn(Cancel(m, n), j)
          [] Policy(m, n) = "Debounce"   -> spawn_debounced(Cancel(m, n), j)
          [] Policy(m, n) = "Queue" ->
                IF busy THEN [m EXCEPT !.node_states[n].pending = Append(@, j)]
                        ELSE try_spawn(m, j)

\* The number of queued jobs for which the group has a free slot.
Startable(gr) ==
    LET free == gr.max_concurrent - gr.in_flight
    IN  IF free <= 0 THEN 0 ELSE IF Len(gr.queue) <= free THEN Len(gr.queue) ELSE free

\* The last job of n in s, or none.
LastOf(n, s) ==
    {s[i] : i \in {i \in DOMAIN s : s[i][1] = n /\ \A h \in (i + 1)..Len(s) : s[h][1] # n}}

\* try_spawn_from_group_queue: its loop starts queued jobs while there are free
\* slots; a node's JoinHandle is the one of its last job started.
try_spawn_from_group_queue(m, g) ==
    LET queue   == m.groups[g].queue
        k       == Startable(m.groups[g])
        started == SubSeq(queue, 1, k)
    IN  [m EXCEPT !.groups[g].in_flight = @ + k,
                  !.groups[g].queue = SubSeq(queue, k + 1, Len(queue)),
                  !.running = @ \cup Range(started),
                  !.node_states = [n \in DOMAIN @ |->
                        IF LastOf(n, started) = {} THEN @[n]
                        ELSE [@[n] EXCEPT !.in_flight = LastOf(n, started)]]]

\* The JoinHandle of n is forgotten and its slot given back and offered.
Settle(m, n) ==
    LET m1 == Release([m EXCEPT !.node_states[n].in_flight = {}], n)
    IN  IF Grouped(m, n) THEN try_spawn_from_group_queue(m1, Group(m, n)) ELSE m1

\* Mutant: the pending job that came last is taken.
process_completion_lifo(m, n) ==
    LET pending == m.node_states[n].pending
        last    == Len(pending)
    IN  IF Policy(m, n) = "Queue" /\ pending # <<>>
        THEN try_spawn(Settle([m EXCEPT !.node_states[n].pending = SubSeq(@, 1, last - 1)], n),
                       pending[last])
        ELSE Settle(m, n)

\* Mutant: the free slot is not offered to the group's queue.
process_completion_no_pull(m, n) ==
    LET pending  == m.node_states[n].pending
        freed(s) == Release([s EXCEPT !.node_states[n].in_flight = {}], n)
    IN  IF Policy(m, n) = "Queue" /\ pending # <<>>
        THEN try_spawn(freed([m EXCEPT !.node_states[n].pending = Tail(@)]), Head(pending))
        ELSE freed(m)

\* Mutant: the pending job is taken from its queue and not started.
process_completion_forgets(m, n) ==
    IF Policy(m, n) = "Queue" /\ m.node_states[n].pending # <<>>
    THEN Settle([m EXCEPT !.node_states[n].pending = Tail(@)], n) ELSE Settle(m, n)

\* process_completion, which goes by the node only: whichever job has ended, the
\* node's JoinHandle is forgotten and a slot of its group is given back.
process_completion(m, n) ==
    LET pending == m.node_states[n].pending
    IN  IF Policy(m, n) = "Queue" /\ pending # <<>>
        THEN try_spawn(Settle([m EXCEPT !.node_states[n].pending = Tail(@)], n), Head(pending))
        ELSE Settle(m, n)

-----------------------------------------------------------------------------
NoConfig == [n \in {} |-> {}]

Init ==
    /\ manager = [node_states |-> NoConfig, groups |-> <<>>,
                  asleep |-> {}, running |-> {}, aborted |-> {}]
    /\ results = <<>>
    /\ batch = <<>>
    /\ triggers = [n \in Node |-> 0]
    /\ applied = [n \in Node |-> <<>>]

\* Engine::concurrency_group.
CreateGroup(max) ==
    /\ batch = <<>>
    /\ Len(manager.groups) < MaxGroups
    /\ manager' = create_group(manager, max)
    /\ UNCHANGED <<results, batch, triggers, applied>>

\* spawn_async_work for one node, registered as b, at the end of a cycle.  A node
\* is built with the handle of a group that exists.
Trigger(b) ==
    /\ batch = <<>>
    /\ b.group_id <= Len(manager.groups)
    /\ triggers[b.id] < MaxTriggers
    /\ triggers' = [triggers EXCEPT ![b.id] = @ + 1]
    /\ manager' = spawn(manager, <<b.id, triggers'[b.id]>>,
                        [policy |-> b.policy, group_id |-> b.group_id])
    /\ UNCHANGED <<results, batch, applied>>

\* tokio::time::sleep of a debounced task is over.
TimerFires(j) ==
    /\ manager' = [manager EXCEPT !.asleep = @ \ {j}, !.running = @ \cup {j}]
    /\ UNCHANGED <<results, batch, triggers, applied>>

\* A task's future is ready: the result is sent.
TaskDone(j) ==
    /\ manager' = [manager EXCEPT !.running = @ \ {j}]
    /\ results' = Append(results, j)
    /\ UNCHANGED <<batch, triggers, applied>>

\* A task told to abort while it was being polled: it stops at its next await,
\* or there is none and the result is sent after all.
AbortLands(j) ==
    /\ manager' = [manager EXCEPT !.aborted = @ \ {j}]
    /\ \/ UNCHANGED results
       \/ results' = Append(results, j)
    /\ UNCHANGED <<batch, triggers, applied>>

\* A panic ends the task without a result; nobody looks at its JoinHandle.
TaskPanics(j) ==
    /\ j[1] \in Panics
    /\ manager' = [manager EXCEPT !.running = @ \ {j}]
    /\ UNCHANGED <<results, batch, triggers, applied>>

\* drain_results: take everything there is ...
DrainResults ==
    /\ batch = <<>> /\ results # <<>>
    /\ batch' = results
    /\ results' = <<>>
    /\ UNCHANGED <<manager, triggers, applied>>

\* ... and process the completions in order; the results go to the value store.
TakeCompletion == batch # <<>> /\ batch' = Tail(batch)

Complete ==
    /\ TakeCompletion
    /\ LET n == Head(batch)[1]
       IN  /\ manager' = process_completion(manager, n)
           /\ applied' = [applied EXCEPT ![n] = Append(@, Head(batch)[2])]
    /\ UNCHANGED <<results, triggers>>

Next ==
    \/ \E max \in Capacity : CreateGroup(max)
    \/ \E b \in Builds : Trigger(b)
    \/ \E j \in manager.asleep : TimerFires(j)
    \/ \E j \in manager.running : TaskDone(j) \/ TaskPanics(j)
    \/ \E j \in manager.aborted : AbortLands(j)
    \/ DrainResults
    \/ Complete

Spec == Init /\ [][Next]_vars

\* Timers fire, futures that do not panic become ready, and cycles go on to be
\* run: by the owner of the engine, or by the event loop, which the AsyncComplete
\* that follows a result wakes up.  There are finitely many jobs, so that fairness
\* to all timers together is fairness to each of them, and so for the futures.
FairSpec ==
    /\ Spec
    /\ WF_vars(\E j \in manager.asleep : TimerFires(j))
    /\ WF_vars(\E j \in manager.running : j[1] \notin Panics /\ TaskDone(j))
    /\ WF_vars(DrainResults)
    /\ WF_batch(TakeCompletion)

-----------------------------------------------------------------------------
(* Properties                                                               *)

Tasks(n) == {j \in manager.asleep \cup manager.running : j[1] = n}
InGroup(n, g) == Known(manager, n) /\ Group(manager, n) = g
HasPolicy(n, p) == Known(manager, n) /\ Policy(manager, n) = p

\* The results of group g's nodes that are on their way to process_completion.
Undrained(g) ==
    Cardinality({i \in DOMAIN results : InGroup(results[i][1], g)})
      + Cardinality({i \in DOMAIN batch : InGroup(batch[i][1], g)})

NodeState == [policy : AsyncPolicy, group_id : Nat, in_flight : SUBSET Job, pending : Seq(Job)]
GroupState == [max_concurrent : Nat, in_flight : Nat, queue : Seq(Job)]
ManagerState(known) ==
    [node_states : [known -> NodeState], groups : Seq(GroupState),
     asleep : SUBSET Job, running : SUBSET Job, aborted : SUBSET Job]

\* Every variable has its type.
TypeOK ==
    /\ \E known \in SUBSET Node : manager \in ManagerState(known)
    /\ results \in Seq(Job) /\ batch \in Seq(Job)
    /\ triggers \in [Node -> 0..MaxTriggers]
    /\ applied \in [Node -> Seq(Nat)]

\* A Queue node outside a group computes its triggers one at a time and in
\* order, whatever the interleaving of triggers, completions and drains, and
\* also when a future panics: no result is skipped, repeated or overtaken.
QueueInOrder ==
    \A n \in Node : HasPolicy(n, "Queue") /\ ~Grouped(manager, n) =>
        /\ Cardinality(Tasks(n)) <= 1
        /\ \A i \in DOMAIN applied[n] : applied[n][i] = i

\* A group's count never exceeds max_concurrent, and work waits in the queue of
\* a group only while all its slots are taken, also in a group without slots.
WorkConserving ==
    \A g \in DOMAIN manager.groups :
        LET gr == manager.groups[g]
        IN  /\ gr.in_flight <= gr.max_concurrent
            /\ gr.queue # <<>> => gr.in_flight = gr.max_concurrent

\* No slot of a group leaks, unless futures of its nodes panic: each slot counted is
\* held by a task that was not cancelled or by a result on its way, so it will be
\* given back.
NoSlotLeak ==
    \A g \in DOMAIN manager.groups :
        (\A b \in Builds : b.group_id = g => b.id \notin Panics) =>
            manager.groups[g].in_flight <= Undrained(g) +
                Cardinality({j \in manager.asleep \cup manager.running : InGroup(j[1], g)})

\* A group whose nodes all have the Queue policy, where nothing is ever
\* cancelled, never has more than max_concurrent tasks at once.
QueueGroupLimit ==
    \A g \in DOMAIN manager.groups :
        (\A n \in Node : InGroup(n, g) => HasPolicy(n, "Queue")) =>
            Cardinality({j \in manager.running : InGroup(j[1], g)})
                <= manager.groups[g].max_concurrent

\* A node outside a group, or in one that has slots.
Served(n) ==
    Known(manager, n) /\ (Grouped(manager, n) =>
                            manager.groups[Group(manager, n)].max_concurrent > 0)

\* Every trigger of a Queue node is computed and its result applied, unless the
\* node's group was created without slots.
QueueDelivers ==
    \A n \in Node \ Panics, k \in 1..MaxTriggers :
        (triggers[n] >= k /\ HasPolicy(n, "Queue") /\ Served(n) ~> k \in Range(applied[n]))

\* The latest trigger of a LatestWins or Debounce node is computed and its
\* result applied, unless a newer one arrives: a cancellation never costs the
\* last computation.
LatestDelivers ==
    \A n \in Node \ Panics, k \in 1..MaxTriggers :
        (triggers[n] = k /\ ~HasPolicy(n, "Queue") /\ Served(n)
            ~> k \in Range(applied[n]) \/ triggers[n] > k)

\* "a maximum number of concurrent async tasks" (engine.rs, line 67), not even
\* counting the tasks that were told to abort and have not stopped yet.
GroupLimit ==
    \A g \in DOMAIN manager.groups :
        Cardinality({j \in manager.running : InGroup(j[1], g)})
            <= manager.groups[g].max_concurrent

\* "Queue pending computations and execute them sequentially." (graph.rs, line 25)
QueueSequential == \A n \in Node : HasPolicy(n, "Queue") => Cardinality(Tasks(n)) <= 1

-----------------------------------------------------------------------------
(* What the engine sees of it                                               *)

\* The jobs that are somewhere in the manager, its tasks or its channel.
OpenJobs ==
    manager.asleep \cup manager.running \cup manager.aborted
      \cup Range(results) \cup Range(batch)
      \cup (UNION {Range(manager.node_states[n].pending) : n \in DOMAIN manager.node_states})
      \cup (UNION {Range(manager.groups[g].queue) : g \in DOMAIN manager.groups})

\* Nodes that are only ever built with the Queue policy and do not panic.
Lossless == {n \in Node \ Panics : \A b \in Builds : b.id = n => b.policy = "Queue"}

Work == INSTANCE AsyncWork WITH
            open      <- OpenJobs,
            requested <- triggers,
            delivered <- applied

\* The manager implements AsyncWork: whatever the policies, groups, aborts and
\* timers, every job asked for is delivered once, or cancelled for good, and no job
\* of a node with the Queue policy is lost on its way through the two queues.
WorkSpec == Work!Spec
=============================================================================
