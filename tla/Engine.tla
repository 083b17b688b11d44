------------------------------- MODULE Engine --------------------------------
(***************************************************************************)
(* The engine: the lifecycle of its nodes with the value store, the error   *)
(* strategies and the propagation cycle of run_cycle and                    *)
(* run_cycle_parallel (engine.rs, scheduler.rs, topology.rs).               *)
(*                                                                          *)
(* A value is abstracted to its provenance: the set of source messages      *)
(* <<source, number>> it was computed from.  A compute node's value is the  *)
(* union of its dependencies' values, so a value made of an old and a new   *)
(* reading of one source differs from every consistent one.                 *)
(*                                                                          *)
(* Async work is seen through what the cycle uses of AsyncManager: a job is *)
(* handed over at the end of a cycle and later delivers its result or is    *)
(* cancelled, in any order.  Module AsyncManager models how.                *)
(***************************************************************************)
EXTENDS Lifecycle

CONSTANTS
    Strategy,   \* pairs <<node, strategy>> that clients may set
    MaxSends    \* bound on the messages the sources send

\* A NodeId is one of the program's node types with a name hash of 64 bits.
ASSUME NodeAssumption == IsFiniteSet(NodeId)

ErrorStrategy == {"PropagateStale", "PropagateError", "Retry"}

ASSUME StrategyAssumption == Strategy \subseteq NodeId \X ErrorStrategy
ASSUME MaxSendsAssumption == MaxSends \in Nat

VARIABLES
    values,             \* ValueStore: id -> value
    error_strategies,   \* id -> ErrorStrategy
    source_rx,          \* messages <<id, value>> from the sources
    result_rx,          \* results <<id, value>> of async jobs
    jobs,               \* async jobs <<id, value>> handed to the AsyncManager, equal
                        \* ones counted once
    sent,               \* number of messages sent so far
    stage,              \* progress of the cycle being run
    dirty,              \* the cycle's dirty set
    degree,             \* in_degree of topo_sort, then ready_count of the scheduler
    queue,              \* topo_sort's queue: how often a node is in it
    sorted,             \* topo_sort's result
    ran,                \* how many nodes of sorted the sequential cycle has run
    remaining,          \* nodes the parallel cycle has not run
    spawns,             \* async jobs collected by the cycle
    emitted,            \* what each active sink emitted last
    collected           \* MetricsCollector: total_cycles, and nodes_computed of the last

store == <<values, error_strategies, source_rx, result_rx, jobs, sent>>
cycle == <<stage, dirty, degree, queue, sorted, ran, remaining, spawns>>
seen == <<emitted, collected>>
allVars == <<vars, store, cycle, seen>>

-----------------------------------------------------------------------------
(* Values                                                                   *)

Without(f, S) == [n \in DOMAIN f \ S |-> f[n]]
\* f with the values that g gives.
With(f, g) == [n \in DOMAIN f \cup DOMAIN g |-> IF n \in DOMAIN g THEN g[n] ELSE f[n]]

\* What a node built over ds reads, and whether all of it is there.
Read(ds) == UNION {values[d] : d \in Range(ds)}
HasInputs(ds) == Range(ds) \subseteq DOMAIN values

\* AnyNodeImpl of the nodes of S: all three methods give up (None, or no emission)
\* when a dependency has no value.
Complete(S) == {n \in S : HasInputs(entries[n].deps)}
compute(S) == With(values, [n \in Complete(S) |-> Read(entries[n].deps)])
emit(S) == With(emitted, [n \in Complete(S) |-> Read(entries[n].deps)])
compute_async(S) == {<<n, Read(entries[n].deps)>> : n \in Complete(S)}

\* The last message for n in the channel ch.
Last(ch, n) == LET i == CHOOSE i \in DOMAIN ch : /\ ch[i][1] = n
                                                /\ \A j \in (i + 1)..Len(ch) : ch[j][1] # n
               IN  ch[i][2]
Ids(ch) == {ch[i][1] : i \in DOMAIN ch}

-----------------------------------------------------------------------------
(* Topology                                                                 *)

\* Topology::dirty_set: everything reached from the updated nodes, the smallest set
\* that no list of dependents leads out of.
dirty_set(updated) ==
    LET edges  == {e \in NodeId \X NodeId : dependents[e[1]][e[2]] > 0}
        Closed == {D \in SUBSET {e[2] : e \in edges} :
                        \A e \in edges : (e[1] \in updated \/ e[1] \in D) => e[2] \in D}
    IN  {n \in NodeId : \A D \in Closed : n \in D}

\* The dependencies of n, with repetition, that are in the dirty set D.
DirtyDeps(n, D) ==
    IF n \in DOMAIN deps THEN Cardinality({i \in DOMAIN deps[n] : deps[n][i] \in D}) ELSE 0

Saturating(a, b) == IF a > b THEN a - b ELSE 0

-----------------------------------------------------------------------------
EngineInit ==
    /\ Init
    /\ values = [n \in {} |-> {}]
    /\ error_strategies = [n \in {} |-> "PropagateStale"]
    /\ source_rx = <<>> /\ result_rx = <<>> /\ jobs = {} /\ sent = 0
    /\ stage = "none"
    /\ dirty = {} /\ degree = [n \in NodeId |-> 0] /\ queue = [n \in NodeId |-> 0]
    /\ sorted = <<>> /\ ran = 0 /\ remaining = {} /\ spawns = {}
    /\ emitted = [n \in {} |-> {}]
    /\ collected = [total_cycles |-> 0, nodes_computed |-> 0]

\* Mutant: the message is numbered before it is counted.
SendUncounted(s) ==
    /\ sent < MaxSends
    /\ Kind[s] = "Source"
    /\ sent' = sent + 1
    /\ source_rx' = Append(source_rx, <<s, {<<s, sent>>}>>)
    /\ UNCHANGED <<vars, values, error_strategies, result_rx, jobs, cycle, seen>>

\* Sender::send, from whatever thread holds the sender, also after its source is gone.
Send(s) ==
    /\ sent < MaxSends
    /\ Kind[s] = "Source"
    /\ sent' = sent + 1
    /\ source_rx' = Append(source_rx, <<s, {<<s, sent'>>}>>)
    /\ UNCHANGED <<vars, values, error_strategies, result_rx, jobs, cycle, seen>>

\* An async job ends: its result is sent, or it was cancelled.
JobEnds(j) ==
    /\ jobs' = jobs \ {j}
    /\ \/ result_rx' = Append(result_rx, j)
       \/ UNCHANGED result_rx
    /\ UNCHANGED <<vars, values, error_strategies, source_rx, sent, cycle, seen>>

\* Engine::set_error_strategy: the one method that writes and does not drain.
SetErrorStrategy(n, s) ==
    /\ phase = "idle"
    /\ error_strategies' = With(error_strategies, [m \in {n} |-> s])
    /\ UNCHANGED <<vars, values, source_rx, result_rx, jobs, sent, cycle, seen>>

\* Deactivation also removes the value and the strategy of a removed node.
Deactivate ==
    /\ DrainNext \/ CascadeNext
    /\ LET gone == DOMAIN entries \ DOMAIN entries'
       IN  /\ values' = Without(values, gone)
           /\ error_strategies' = Without(error_strategies, gone)
           /\ emitted' = Without(emitted, gone)
    /\ UNCHANGED <<source_rx, result_rx, jobs, sent, cycle, collected>>

\* Mutant: no initial computation.
ActivateOnly ==
    /\ FinishNode
    /\ UNCHANGED <<store, cycle, seen>>

\* Activation also computes a compute node whose inputs are already there.
Activate ==
    /\ FinishNode
    /\ LET id == Head(work).id
       IN  values' = IF Kind[id] = "Compute" THEN compute({id}) ELSE values
    /\ UNCHANGED <<error_strategies, source_rx, result_rx, jobs, sent, cycle, seen>>

\* The steps that have no effect on the values: what clients call ...
Manage ==
    /\ \/ \E h \in Handle : DropHandle(h)
       \/ Call
       \/ \E r \in Direct : Build(r)
       \/ \E h \in Handle, script \in Script : Merge(h, script)
       \/ \E id \in NodeId : ActivateSink(id)
    /\ stage = "none"
    /\ UNCHANGED <<store, cycle, seen>>

\* ... and how these calls go on.
Proceed ==
    /\ EndDrain \/ EnterNode \/ (phase = "activate" /\ Return)
    /\ UNCHANGED <<store, cycle, seen>>

-----------------------------------------------------------------------------
(* run_cycle_impl                                                           *)

\* Both channels are drained into the store, results after messages; then the
\* dirty set and the in-degrees within it are computed.
BeginCycle ==
    /\ phase = "body" /\ stage = "none"
    /\ source_rx # <<>> \/ result_rx # <<>>
    /\ LET updated == Ids(source_rx) \cup Ids(result_rx)
       IN  /\ dirty' = dirty_set(updated)
           /\ values' = With(values, [n \in updated |->
                            IF n \in Ids(result_rx) THEN Last(result_rx, n)
                                                    ELSE Last(source_rx, n)])
           /\ degree' = [n \in NodeId |-> IF n \in dirty' THEN DirtyDeps(n, dirty') ELSE 0]
           /\ queue' = [n \in NodeId |-> IF n \in dirty' /\ degree'[n] = 0 THEN 1 ELSE 0]
    /\ source_rx' = <<>> /\ result_rx' = <<>>
    /\ stage' = "sort"
    /\ UNCHANGED <<vars, error_strategies, jobs, sent, sorted, ran, remaining, spawns, seen>>

\* A cycle with nothing to drain, or a method that only drains removals.
NoCycle ==
    /\ phase = "body" /\ stage = "none"
    /\ Return
    /\ UNCHANGED <<store, cycle, seen>>

\* Mutant: the degree of a dependent drops once, however many edges there are.
SortOnce(n) ==
    /\ stage = "sort" /\ queue[n] > 0
    /\ sorted' = Append(sorted, n)
    /\ LET edges(m)  == IF m \in dirty /\ dependents[n][m] > 0 THEN 1 ELSE 0
           pushes(m) == Saturating(edges(m) + (IF degree[m] > 0 THEN 1 ELSE 0), degree[m])
       IN  /\ degree' = [m \in NodeId |-> Saturating(degree[m], edges(m))]
           /\ queue' = [m \in NodeId |-> queue[m] - (IF m = n THEN 1 ELSE 0) + pushes(m)]
    /\ UNCHANGED <<vars, store, stage, dirty, ran, remaining, spawns, seen>>

\* Topology::topo_sort: a queued node is taken; the degree of a dependent drops
\* once per edge, and each drop that ends at 0 queues it.
SortNext(n) ==
    /\ stage = "sort" /\ queue[n] > 0
    /\ sorted' = Append(sorted, n)
    /\ LET edges(m)  == IF m \in dirty THEN dependents[n][m] ELSE 0
           pushes(m) == Saturating(edges(m) + (IF degree[m] > 0 THEN 1 ELSE 0), degree[m])
       IN  /\ degree' = [m \in NodeId |-> Saturating(degree[m], edges(m))]
           /\ queue' = [m \in NodeId |-> queue[m] - (IF m = n THEN 1 ELSE 0) + pushes(m)]
    /\ UNCHANGED <<vars, store, stage, dirty, ran, remaining, spawns, seen>>

IsAsync(n) == n \in DOMAIN entries /\ Kind[n] = "AsyncCompute"

\* Mutant: the scheduler starts with every node ready.
EndSortAllReady ==
    /\ stage = "sort" /\ \A n \in NodeId : queue[n] = 0
    /\ \/ stage' = "sequential" /\ UNCHANGED remaining
       \/ stage' = "parallel" /\ remaining' = {n \in Range(sorted) : ~IsAsync(n)}
    /\ degree' = [n \in NodeId |-> 0]
    /\ UNCHANGED <<vars, store, dirty, queue, sorted, ran, spawns, seen>>

\* The execution starts: in the sorted order, or on the scheduler's ready
\* counts, which leave the async nodes out of what runs but not of the counts.
EndSort ==
    /\ stage = "sort" /\ \A n \in NodeId : queue[n] = 0
    /\ \/ /\ stage' = "sequential"
          /\ UNCHANGED <<degree, remaining>>
       \/ /\ stage' = "parallel"
          /\ remaining' = {n \in Range(sorted) : ~IsAsync(n)}
          /\ degree' = [n \in NodeId |-> IF n \in remaining' THEN DirtyDeps(n, dirty) ELSE 0]
    /\ UNCHANGED <<vars, store, dirty, queue, sorted, ran, spawns, seen>>

\* execute_compute_with_error_handling: Retry ends like PropagateStale, since
\* nothing changes the store between its attempts.
Computed(n) ==
    LET strategy == IF n \in DOMAIN error_strategies THEN error_strategies[n]
                                                     ELSE "PropagateStale"
    IN  IF strategy = "PropagateError" /\ Complete({n}) = {} THEN Without(values, {n})
                                                             ELSE compute({n})

\* execute_sequential_with_async: the next node in the sorted order, which is
\* registered and not a source, since sorted has only nodes with dependencies that
\* are wired (WiringSound).
RunNode ==
    /\ stage = "sequential" /\ ran < Len(sorted)
    /\ ran' = ran + 1
    /\ LET n == sorted[ran']
       IN  \/ /\ n \in DOMAIN entries /\ Kind[n] = "Compute"
              /\ values' = Computed(n)
              /\ UNCHANGED <<spawns, emitted>>
           \/ /\ n \in DOMAIN entries /\ Kind[n] = "Sink"
              /\ emitted' = emit({n})
              /\ UNCHANGED <<values, spawns>>
           \/ /\ IsAsync(n)
              /\ spawns' = spawns \cup compute_async({n})
              /\ UNCHANGED <<values, emitted>>
    /\ UNCHANGED <<vars, error_strategies, source_rx, result_rx, jobs, sent,
                   stage, dirty, degree, queue, sorted, remaining, collected>>

\* Mutant: the count of a dependent drops once per wave, however many edges there are.
RunWaveOnce ==
    /\ stage = "parallel"
    /\ LET ready   == {n \in remaining : degree[n] = 0}
           runs(k) == {n \in ready \cap DOMAIN entries : Kind[n] = k}
       IN  /\ ready # {}
           /\ values' = compute(runs("Compute"))
           /\ emitted' = emit(runs("Sink"))
           /\ degree' = [m \in NodeId |-> Saturating(degree[m], IF \E n \in ready : dependents[n][m] > 0 THEN 1 ELSE 0)]
           /\ remaining' = remaining \ ready
    /\ UNCHANGED <<vars, error_strategies, source_rx, result_rx, jobs, sent,
                   stage, dirty, queue, sorted, ran, spawns, collected>>

\* Scheduler::execute_parallel: one wave.  Its threads only read the store; the
\* results are written and the counts of the dependents lowered when all joined.
RunWave ==
    /\ stage = "parallel"
    /\ LET ready   == {n \in remaining : degree[n] = 0}
           runs(k) == {n \in ready \cap DOMAIN entries : Kind[n] = k}
           done(m) == Cardinality(UNION {{n} \X (1..dependents[n][m]) : n \in ready})
       IN  /\ ready # {}
           /\ values' = compute(runs("Compute"))
           /\ emitted' = emit(runs("Sink"))
           /\ degree' = [m \in NodeId |-> Saturating(degree[m], done(m))]
           /\ remaining' = remaining \ ready
    /\ UNCHANGED <<vars, error_strategies, source_rx, result_rx, jobs, sent,
                   stage, dirty, queue, sorted, ran, spawns, collected>>

\* MetricsCollector::record_cycle, without the durations.
record_cycle(n) == [total_cycles |-> collected.total_cycles + 1, nodes_computed |-> n]

\* The nodes of the cycle have run; the parallel cycle also stops when none is ready.
AllRan == \/ stage = "sequential" /\ ran = Len(sorted)
          \/ stage = "parallel" /\ \A n \in remaining : degree[n] # 0

\* The cycle ends: the async jobs are handed over (the parallel cycle collects
\* them only now), the cycle is recorded and the method returns.
EndCycle ==
    /\ AllRan
    /\ LET late == {n \in Range(sorted) : stage = "parallel" /\ IsAsync(n)}
       IN  jobs' = jobs \cup spawns \cup compute_async(late)
    /\ Return
    /\ stage' = "none"
    /\ dirty' = {} /\ sorted' = <<>> /\ ran' = 0 /\ remaining' = {} /\ spawns' = {}
    /\ degree' = [n \in NodeId |-> 0]
    /\ collected' = record_cycle(Len(sorted))
    /\ UNCHANGED <<values, error_strategies, source_rx, result_rx, sent, queue, emitted>>

-----------------------------------------------------------------------------
(* What the engine reports of itself.  Neither method drains.                *)

NodeInfo(n) == [id |-> n, kind |-> Kind[n], deps |-> entries[n].deps,
                ref_count |-> entries[n].ref_count]

\* Mutant: every registered node is listed, active or not.
snapshot_registered ==
    [nodes |-> {NodeInfo(n) : n \in DOMAIN entries},
     edges |-> {e \in NodeId \X DOMAIN entries : e[1] \in Range(entries[e[2]].deps)}]

\* Engine::snapshot; an edge is listed once.
snapshot ==
    LET listed == active \cap DOMAIN entries
    IN  [nodes |-> {NodeInfo(n) : n \in listed},
         edges |-> {e \in NodeId \X listed : e[1] \in Range(entries[e[2]].deps)}]

\* Engine::metrics: how many nodes of a kind are active.
metrics(kind) == Cardinality({n \in active \cap DOMAIN entries : Kind[n] = kind})

-----------------------------------------------------------------------------
CycleStep ==
    \/ BeginCycle \/ NoCycle \/ (\E n \in NodeId : SortNext(n)) \/ EndSort
    \/ RunNode \/ RunWave \/ EndCycle

\* The steps of a method that has been called.
EngineStep == Deactivate \/ Activate \/ Proceed \/ CycleStep

EngineNext ==
    \/ \E s \in NodeId : Send(s)
    \/ \E j \in jobs : JobEnds(j)
    \/ \E p \in Strategy : SetErrorStrategy(p[1], p[2])
    \/ Manage
    \/ EngineStep

EngineSpec == EngineInit /\ [][EngineNext]_allVars

\* What clients can keep to: the parallel cycle is not used on async nodes.
NoAsyncWaves == stage = "parallel" => \A n \in dirty : ~IsAsync(n)

-----------------------------------------------------------------------------
(* Properties                                                               *)

\* The store, the channels and the cycle's variables have their types.
EngineTypeOK ==
    LET Value == SUBSET (NodeId \X (1..MaxSends))
    IN  /\ TypeOK
        /\ DOMAIN values \subseteq NodeId
        /\ \A n \in DOMAIN values : values[n] \in Value
        /\ DOMAIN error_strategies \subseteq NodeId
        /\ \A n \in DOMAIN error_strategies : error_strategies[n] \in ErrorStrategy
        /\ source_rx \in Seq(NodeId \X Value)
        /\ result_rx \in Seq(NodeId \X Value)
        /\ jobs \subseteq NodeId \X Value
        /\ spawns \subseteq NodeId \X Value
        /\ sent \in 0..MaxSends
        /\ stage \in {"none", "sort", "sequential", "parallel"}
        /\ dirty \subseteq NodeId /\ remaining \subseteq NodeId
        /\ degree \in [NodeId -> Nat] /\ queue \in [NodeId -> Nat]
        /\ sorted \in Seq(NodeId) /\ ran \in 0..Len(sorted)
        /\ DOMAIN emitted \subseteq active
        /\ collected.total_cycles \in Nat /\ collected.nodes_computed \in 0..Cardinality(NodeId)

\* Between the methods, every active compute node whose inputs all have values
\* has the value computed from just these values: no cycle, activation or
\* removal leaves a node with a value made from old or mixed inputs.
Coherent ==
    phase = "idle" =>
        \A n \in active : Kind[n] = "Compute" /\ HasInputs(deps[n]) =>
            n \in DOMAIN values /\ values[n] = Read(deps[n])

\* What a sink emitted last is what its inputs hold, and a cycle that reaches a sink
\* leaves none out whose inputs all have values: a change, also several steps
\* upstream, makes the sink emit after all that it reads.  (A sink merged onto inputs
\* that have values already emits nothing before a cycle reaches it.)
SinkFresh ==
    /\ phase = "idle" =>
          \A n \in DOMAIN emitted : HasInputs(deps[n]) => emitted[n] = Read(deps[n])
    /\ AllRan =>
          \A n \in dirty : Kind[n] = "Sink" /\ HasInputs(deps[n]) => n \in DOMAIN emitted

\* topo_sort returns the whole dirty set, each node once and after every dirty
\* node it reads from.
SortComplete ==
    stage \in {"sequential", "parallel"} =>
        /\ Range(sorted) = dirty
        /\ Len(sorted) = Cardinality(dirty)
        /\ \A i, j \in DOMAIN sorted : i <= j => sorted[j] \notin Range(deps[sorted[i]])

\* nodes_computed of a recorded cycle is the number of nodes that really ran: no
\* node of the sorted order is skipped, and no node is left waiting for its turn
\* when the scheduler finds nothing ready and gives up (scheduler.rs, line 57).
NodesComputed ==
    [][collected' # collected =>
        collected'.nodes_computed = Len(sorted) - Cardinality(remaining)]_allVars

\* Between the methods, snapshot and metrics agree with each other and with the
\* handles, although neither drains: all nodes of a merged subgraph are listed
\* until its removal is drained, no edge starts at a node that is not listed, and
\* the counts by kind add up to the nodes.
ReportsAgree ==
    phase = "idle" =>
        LET listed == {i.id : i \in snapshot.nodes}
        IN  /\ \A h \in Handle : Range(handles[h].node_ids) \subseteq listed
            /\ \A e \in snapshot.edges : e[1] \in listed
            /\ Cardinality(listed) = metrics("Source") + metrics("Compute")
                                         + metrics("AsyncCompute") + metrics("Sink")

=============================================================================
