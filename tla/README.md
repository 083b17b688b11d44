# Verification of the reactive graph engine

TLA+ models of the engine in `src/src/` and of the pricing server in
`src/examples/fx_pricing/`, TLC runs that check them on small instances, and TLAPS
proofs of every safety property of these runs, and of the refinements, for every
instance.

## 1. The system

Clients define sources, compute nodes, sinks and async compute nodes; the engine
keeps one value per node and, when sources send, recomputes what depends on them.

| Component | State | Operations | Talks to |
|---|---|---|---|
| Node registry (`graph.rs`) | `entries`: id → kind, deps, `ref_count` | `register_node` | builders, `Engine` |
| Subgraphs (`subgraph.rs`) | a builder's `descriptors`, `node_ids`; a handle's ids | builder `register_node`, `Engine::merge`, `SubgraphHandle::drop` | queues ids in `pending_removals` |
| Topology (`topology.rs`) | `deps`, `dependents` | `add_node`, `remove_node`, `dirty_set`, `topo_sort` | `Engine`, `Scheduler` |
| Engine (`engine.rs`) | `active`, `guards`, `error_strategies`, `pending_removals` | `graph`, `merge`, `activate_sink`, `run_cycle(_parallel)`, `set_error_strategy`, drain, (de)activation | everything |
| Metrics and introspection (`metrics.rs`, `introspection.rs`) | the last cycle, the number of cycles | `record_cycle`, `metrics`, `snapshot` | `Engine` |
| Scheduler (`scheduler.rs`) | ready counts of one cycle | `execute_parallel`: waves of threads | value store, topology |
| Value store (`value_store.rs`), error strategies (`error.rs`) | one value per id; one strategy per id | set, get, remove | cycle |
| Async manager (`async_compute.rs`) | per node: policy, group, `in_flight`, `pending`; per group: count, queue | `create_group`, `spawn`, `drain_results`, `process_completion` | tokio tasks, result channel |
| Event loop (`event_loop.rs`) | the command channel, the bridge thread | batching, one cycle per batch | engine, clients |
| Engine handle (`engine_handle.rs`, `command.rs`, `sender.rs`) | channel senders | `update_source`, `merge`, `shutdown`, drop; `Sender::send` | event loop, bridge |
| Identities, traits, builders (`node_ref.rs`, `traits.rs`, `inputs.rs`, `builder/`) | a builder's `dep_ids` | `from_key`, `new`, `dep`, `build`; what `activate`, `compute`, `emit`, `compute_async` return | registry, store |
| Pricing server (`examples/fx_pricing/`) | `AppState::trades`; a feed thread per active rate | `create_trade`, `remove_trade`, `main`, `SpotRate::activate`, `SpotRateGuard::drop` | engine handle, redis |

What is hard in it: reference counts given back on two paths (the ids of a dropped
handle and the cascade from removed dependents); edges that must agree in two maps;
recomputation order below diamonds and repeated dependencies; values for nodes that
are gone; cancellation that races with completion; slots that are given back on two
paths; wake-ups between three kinds of threads; merges that race with a shutdown, a
cancelled request or a panic; an engine thread that waits for a feed thread which sends
to it; values of all types in one untyped store.
`PROJECT.json` lists these hazards at their lines, with the properties for each.

## 2. Modules

| Module | Models | Runs |
|---|---|---|
| `Lifecycle` | registry, subgraphs, handles, activation, deactivation, the edge maps | through `MCLifecycle` |
| `Engine` (extends `Lifecycle`) | value store, strategies, both cycles, topological sort, metrics, snapshot | through `MCEngine` |
| `AsyncManager` (implements `AsyncWork`) | policies, groups, tasks | through `MCAsync` |
| `AsyncWork` | what a cycle may expect of jobs it hands over | as a property of `AsyncManager` |
| `EventLoop` | command channel, bridge, clients, shutdown, panic | through `MCEventLoop` |
| `FxPricing` (instances of `Lifecycle` and `EventLoop`) | the pricing server and its feed threads | through `MCFxPricing` |
| `TypedNodes` | identities, builders, the types of values, references and senders | through `MCTypedNodes` |
| `LifecycleProofs` | theorems about `Lifecycle` | tlapm |
| `EngineProofs` (extends `LifecycleProofs`) | theorems about the cycle: sort, waves, counts, types | tlapm |
| `EngineFreshProofs` (extends `EngineProofs`) | theorems about values, sinks and reports | tlapm |
| `AsyncMethodProofs` | lemmas on what each method of the manager does | tlapm |
| `AsyncManagerProofs` (extends it) | theorems about `AsyncManager` and `AsyncWork` | tlapm |
| `EventLoopProofs`, `TypedNodesProofs`, `FxPricingProofs` | theorems about the module of that name | tlapm |

Definitions marked "Mutant" in the modules are no part of the models: each is a
plausible error in the definition it precedes, and the property that it breaks is
named in `PROJECT.json`.

**Lifecycle.** The engine is single threaded, so a public method runs to its end. It
is modelled in small steps all the same, because the order of the recursive calls is
what matters: `phase` is the part of the method that runs (`idle`, `drain`, `body`,
`activate`) and `work` the stack of calls still to make. `EnterNode` is
`activate_node` up to its recursive calls, `FinishNode` what follows them,
`deactivate_node` the function up to its cascade. `DrainNext` takes the ids of the
oldest dropped handle in reverse. All draining methods start with the same `Call`
and drain; which of them it was is chosen in phase `body` (`Build`, `Merge`,
`ActivateSink`, a cycle, or nothing). `dependents[d][n]` counts how often `n` is in
`d`'s list. A handle's slot is reused once it is drained; `left` is the number of its
ids that are still to be deactivated. `direct` is a history variable for nodes
registered through `graph()`, which no handle gives back.

**Engine.** A value is its provenance, the set of source messages it was computed
from; a compute node's value is the union of its inputs. A mixed (glitched) or stale
value therefore differs from the right one. `Deactivate` and `Activate` add to the
steps of `Lifecycle` what the code does to values and strategies there. `BeginCycle`
drains both channels and computes the dirty set and the in-degrees; `SortNext` is one
turn of Kahn's loop, with any queued node, since the queue's order comes from a
`HashMap`; `RunNode` is one node of the sequential cycle, `RunWave` one wave of the
parallel one (its threads only read the store, and results are written after the
join), `EndCycle` hands the async jobs over and records the cycle. `emitted` records
what a sink emitted last; `SinkFresh` is about a sink from the first cycle that reaches
it, since one merged onto inputs that have values emits nothing at that time. A job later ends with a result or is cancelled, in any order:
that is all the cycle can see of the async manager, and what `AsyncWork` states.

**AsyncManager.** The methods are operators from the manager's state to its state;
tasks are the concurrency. `abort` (tokio, external) stops a sleeping task at once and
one that is being polled at its next await, if there is one: an aborted task may
still send. A task that has sent and is then aborted keeps its result in the channel.
A trigger carries the policy and group of the node's present registration, which may
differ from those of the first trigger that `node_states` keeps. Groups are created
between triggers, also with no slots.

**AsyncWork.** The abstract promise: jobs are requested one by one for a node, each is
delivered at most once or dropped, and jobs of `Lossless` nodes are not dropped. The
refinement mapping takes for `open` every job found in a task, a queue, the channel or
the batch being processed, for `requested` the number of triggers, and for `delivered`
the results given to the store; `Lossless` are the nodes only ever built with the Queue
policy whose futures do not panic.

**EventLoop.** Clients, the bridge thread, tasks and the loop interleave at channel
operations: the bridge's forward and its notification are two steps, and so are a
task's result and its `AsyncComplete`. Of the engine, the module keeps whose subgraph
is registered and the sequence of values the cycles wrote. A client's `merge` blocks
until the reply arrives or the reply sender is dropped with its command. A closure that
panics in a cycle ends the thread (`Panic`): the channel, with the commands in it, is
dropped and senders fail from then on. A `SubgraphBuilder` offers no async node, so an
engine behind an `EngineHandle` starts no task today; the task's part of the protocol is
modelled since the loop has a command for it.

**FxPricing.** It runs the commands of `EventLoop` on the registry of `Lifecycle`: the
Merge or Remove at the head of the batch is carried out call by call (`Begin`,
`Recurse`, `Register`), and `Finish` takes it off the batch together with the method's
return. A request is a client of the loop that merges once. The guards of `Lifecycle`
are the `SpotRateGuard`s: taking one starts a feed thread, dropping one makes the
engine's thread wait (`Joined`) until that thread has ended. A request may be cancelled
at its await, while its blocking merge goes on. Redis is external: connecting succeeds
or not, a subscribed thread receives rates or loses its connection. The engine's
`Panic` is left to `EventLoop`, since the closures of the example do not panic.

**TypedNodes.** A value is its type. `Declared` are the nodes a program may build, each
with the type that scopes its key, its output and input types; `KeyHash` is the hash, a
constant. `dep` accepts a reference of the type whose turn it is, as the typestate of
the builders does; `build` returns a reference of the type asked for also when the
identity is registered already. `Remove` is any point at which the last reference goes,
and a message or result may arrive after it.

## 3. Runs

| Run | Bounds | Distinct states | Shows |
|---|---|---|---|
| `lifecycle_shared` | 4 nodes, 2 handles, 4 subgraphs, 1 direct registration per node | 44,192 | `WiringSound`, `GuardsMatch`, `RefsClaimed`, `NoLeak`, `CallsReturn` for sharing, repeated, dangling, empty and cyclic registrations |
| `engine` | 10 nodes, 2 handles (symmetric), 4 subgraphs, 2 messages | 761,516 | `Coherent`, `SinkFresh`, `SortComplete`, `ExactLifetime`, `Connected`, `ReportsAgree`, `NodesComputed` |
| `async_queue` | 3 Queue nodes: one alone that may panic, one in a group of 0, 1 or 2 slots, one built now inside and now outside of it; 3 triggers each | 82,140 | `QueueInOrder`, `QueueGroupLimit`, `QueueDelivers` |
| `async_group` | LatestWins, Debounce and Queue in a group of 0, 1 or 2 slots, 2 triggers each | 48,892 | `WorkConserving`, `NoSlotLeak`, `LatestDelivers`, `WorkSpec` |
| `event_loop` | 2 clients, 2 values sent or updated, 1 task | 429,554 | `NoLostWakeup`, `OriginOrder`, `HandleMatchesRegistry`, `SendsApplied`, `MergeReturns` |
| `fx_trades` | 3 trades on one pair (symmetric), no rates | 193,690 | `OneFeedPerSource`, `TradeKept`, `FeedsEnd`, no deadlock |
| `fx_live` | 1 trade and 1 request for an unknown pair, 1 rate, fair threads | 18,698 | `DeletedGoes`, `ShutdownCompletes`, `RatesApplied`, `Layers` |
| `typed_nodes` | 4 nodes of all kinds that can be read, one key, 2 types, 1 message on its way | 289,221 | `WellTyped`, `InputsFit` |

Why these bounds are enough for the question asked: two handles are the least at which
sharing, dropping both before one drain and reusing a slot happen, and the subgraphs
contain a node registered twice, a dependency named twice, one that nobody registers
and a cycle; in `engine` two of them share a source and a mid node, so that one is merged
onto the values of the other, and the third shares nothing with them, so that a handle
is dropped while one over other nodes lives; two messages are the least with an old and a new reading; three triggers
are the least at which two jobs are kept back behind a third, and two at which a late
completion meets a newer task; a group of no slots is the boundary of the limit. Two
values are the least that can be reordered, and two clients the least of which one
merges while the other shuts the loop down. With three trades one can be removed
while a second is merged and a third is listed; one rate is enough to reach the engine
while its thread waits, and one trade to be cancelled, deleted and shut down at every
point. One key makes all identities meet that differ in their scope only.

What clients promise in some runs, without which the code does not keep the property.
The conditions are defined in the models (sections "What clients can keep to") and are
the hypotheses of the theorems of section 5:
- `engine` (`SoundUse` in `MCEngine`): `Unshared`, no handle is dropped while another
  one names the same nodes or `graph()` built them; `InputsBrought`, who names a node
  names what it reads from; `SinksReach`, a subgraph's nodes lead to its sinks;
  `NoAsyncWaves`, the parallel cycle is not used when an async node is dirty. Without
  `Unshared` the lifecycle breaks values as `shared_nodes` shows; the last is
  `parallel_async`. `Acyclic` holds by the registrations of the run. Async nodes are
  built through `graph()`, as in the code.
- `typed_nodes` (`TypesAgree`, an assumption that TLC evaluates): the closure nodes of
  one kind use a key with one type only.

`fx_trades` makes no such promise: trades share sources, so a shared node does
disappear from under a trade there as well, and `TradeKept` claims only a trade's own
nodes.

Deadlock is checked for the engine, its lifecycle, the builders and the pricing server
(`Terminated` is the end of the process). It is off in the async and loop runs, where
the bounds on triggers and sends, and the shutdown, let the system stop.

### Disagreements between the code and what is said of it

| Run | Said | Done |
|---|---|---|
| `shared_nodes` | shared nodes stay alive while a trade uses them (`examples/fx_pricing/README.md:32`) | a dropped trade takes two references from a shared node: its own and the cascade's |
| `parallel_async` | affected nodes are re-run (`README.md:5`) | nodes below an async node never become ready in a parallel cycle and keep their old value |
| `group_limit` | a maximum number of concurrent tasks (`engine.rs:67`) | a slot is given back by the abort and again by the late result |
| `queue_overlap` | executed sequentially (`graph.rs:25`) | jobs in a group's queue do not hold back the node's next one |

The models contain some further behaviour that a reader of the comments may not expect,
for which no run states the opposite. A late result also clears `in_flight` of a
LatestWins node's newer task (`async_compute.rs:233`), which is then not cancelled by
the next trigger; for this reason, and since an abort does not stop a task in its last
poll, an older result may be applied after the newest one. `LatestDelivers` says that
the newest result arrives, not that it stays. A message or result for a node that is
gone leaves a value which a later registration of the same id starts with
(`engine.rs:247`); the nodes over it agree with that value, so `Coherent` and
`SinkFresh` hold, and `WellTyped` says no more than that its type fits. A node that is
built again keeps the policy and the group of its first trigger. The parallel cycle does
not look at the error strategies (`scheduler.rs:112`). `set_error_strategy` and
`concurrency_group` do not drain. A key of a closure source can be built again with
another type. The event loop holds two senders of its own channel, so it does not end
when the last handle is gone.

## 4. Fairness

- `Lifecycle`: weak fairness of the steps of a method that was called. A method never
  waits. Clients have no fairness: they need not call. `Engine` states safety only; that
  a cycle gets stuck nowhere is the deadlock check of its run.
- `AsyncManager`: weak fairness of timers, of futures of nodes that do not panic, and
  of the drain. The drain is justified by the `AsyncComplete` each task sends after its
  result, which makes the event loop run a cycle (`NoLostWakeup`, `SendsApplied`).
  Jobs are finitely many, so fairness to all timers together is fairness to each.
  Triggers and aborts are not fair.
- `EventLoop`: weak fairness of the loop, of the bridge thread, of tasks, and of a
  client that is blocked on a reply channel that is closed. Clients' calls and the
  panic are not fair.
- `FxPricing`: weak fairness of the engine's thread, of the bridge, of handlers and
  `main` past their first step, and of the feed threads' attempts to connect and looks
  at the shutdown flag (the read has a timeout, `nodes.rs`). Requests, disconnections,
  rates, lost connections and the signal are not fair.

## 5. Proofs

tlapm checks every safety property that a passing run checks, for every value of the
constants: any nodes, subgraphs (dangling and cyclic ones included), handles, groups,
triggers, clients, trades, pairs and declarations, and all bounds of the runs.

Assumptions, named in the models and evaluated by TLC: each node has a kind and only
sources have guards; no async registration in a subgraph; handles and `NodeId`s are
finitely many; builds, capacities, strategies and bounds have their types; `Main` is no
trade; sinks have no output type. Theorems about behaviours in which clients keep a
condition have it as a hypothesis `[]Condition`; the conditions are those of section 3
and two that follow from what clients do: `NoDangling` (no active node reads from one
that is gone) and `Acyclic`.

| Theorem | States | Under |
|---|---|---|
| `TypeCorrect`, `WiringIsSound` | `Lifecycle`'s `TypeOK`, `WiringSound` | |
| `RefsAreClaimed`, `GuardsAreHeld`, `NothingLeaks` | `RefsClaimed`, `GuardsMatch`, `NoLeak` | |
| `LifetimesAreExact` | `ExactLifetime` | `Unshared` |
| `NothingDangles` | `NoDangling` | `Unshared`, `InputsBrought` |
| `StaysConnected` | `Connected` | `NoDangling` |
| `SubgraphsAreActive` | a merged subgraph's nodes are active until it is drained | `Unshared`, `InputsBrought`, `SinksReach` |
| `EngineIsLifecycle` | `EngineSpec => Spec` of `Lifecycle` | |
| `EngineTypes`, `CycleIsSound` | `EngineTypeOK`, `CycleInv` | |
| `CyclesRunAll` | `NodesComputed` (action property) | `NoAsyncWaves` |
| `SortIsComplete` | `SortComplete` | `NoDangling`, `Acyclic` |
| `ActivationsAreDeep` | `ActivationInv` | `NoDangling`, `Acyclic` |
| `NodesAreFresh`, `ValuesAreCoherent`, `SinksAreFresh` | `FreshInv`, `Coherent`, `SinkFresh` | `NoDangling`, `Acyclic`, `NoAsyncWaves` |
| `ClientsAreServed` | `ExactLifetime`, `Connected`, `SortComplete`, `Coherent`, `SinkFresh` together | `Unshared`, `InputsBrought`, `Acyclic`, `NoAsyncWaves` |
| `ReportsHold` | `ReportsAgree` | `Unshared`, `InputsBrought`, `SinksReach` |
| `AsyncJobs`, `AsyncBalance` | `JobsInv`, `BalanceInv` | |
| `AsyncTypes`, `AsyncConserves`, `AsyncInOrder`, `AsyncGroupLimit`, `AsyncNoLeak` | `TypeOK`, `WorkConserving`, `QueueInOrder`, `QueueGroupLimit`, `NoSlotLeak` | |
| `AsyncImplements` | `WorkSpec`: the manager implements `AsyncWork` | |
| `EventLoopTypes`, `EventLoopWakes`, `EventLoopHandles`, `EventLoopOrder` | `TypeOK`, `NoLostWakeup`, `HandleMatchesRegistry`, `OriginOrder` | |
| `ValuesAreDeclared`, `TypedTypes` | `DeclaredInv`, `TypeOK` | |
| `ReadsAreWellTyped`, `InputsAreFit` | `WellTyped`, `InputsFit` | `TypesAgree` |
| `FxTypes`, `FxOneFeed`, `FxFeedsEnd`, `FxTradeKept` | `TypeOK`, `OneFeedPerSource`, `FeedsEnd`, `TradeKept` | |
| `FxFeeds`, `FxCommands`, `FxLife` | `FeedsInv`, `CommandInv`, `LifeInv` | |
| `FxLayers` | `Layers`: the server implements `Lifecycle` and `EventLoop` | |

**Lifecycle.** `TypeOK` and `WiringSound` are inductive (the latter given the former).
The work is in the edge counts: `add_node` adds as many reverse edges as the dependency
occurs, and only for a node that has none yet, because it was not active.
- `RefsClaimed` needs `FreeUnclaimed` (a free slot has no ids left), so that a merge
  into it only adds claims. A merge takes one reference per descriptor and adds one
  claim at least per descriptor; a drain step settles one claim and gives back one
  reference to the same id; a cascade gives back references without settling claims.
  Hence `<=`, and the equality that `shared_nodes` refutes. `NoLeak` follows.
- `GuardsMatch` needs `GuardsPending`: during an activation a guarded source may be
  active without its guard, exactly while its `finish` frame is on the stack.
- `Connected` needs `DepsActive` (what an active node reads from is active or has an
  `enter` frame) and `EdgesKept`, both in cyclic graphs too.
- `ExactLifetime` needs `LifetimeInv`: handles are drained one after the other, each
  once; the nodes of handles whose drain has not begun and those built through `graph()`
  stay (`KeptStay`), since neither the drain nor its cascade comes to them
  (`DrainSpares`). With the inputs brought along the same gives `NoDangling`.
- `SubgraphsAreActive` needs `SinksInv`: a sink that a handle names is active or has its
  frame on the stack. Were some of its nodes inactive, an active node would read from
  one of them by `SinksReach`, which `Connected` excludes.

**Engine.** The engine's steps are steps of `Lifecycle` or stutter, so all of the above
holds of it. `CycleInv` is `CycleOK` (what is set at which stage), `OrderInv` (the dirty
set is active and closed under dependents, and `sorted` respects it) and `CountInv`
(in-degrees and ready counts are the numbers of edges from nodes still to come). From it
the scheduler finds nothing ready only when nothing is left, and Kahn's algorithm, by the
minimal element that `Acyclic` gives, returns everything. `FreshInv` says that every
active node holds what its inputs give, except those under a `finish` frame and those
that the cycle has still to run; `ActivationInv` (the stack is a path of readers, whose
inputs are above them or done) is what makes a node's inputs final when it is computed.
Its part `SinksRan` says that a dirty sink that is no longer waiting has emitted, if all
its inputs have values. Between the calls, and when a cycle has run its nodes, nothing is
excepted, which gives `Coherent` and `SinkFresh`.
`dirty_set` is defined as the least set with the changed nodes that is closed under
dependents, so no induction over data is needed.

**Async manager.** `AsyncMethodProofs` states for each method which jobs move where.
`JobsInv`: each job is in one place only, a task, a queue, the channel or the batch; the
places agree with the node states. `Filled` is `WorkConserving` of a manager; between
the release of a slot and the start of the next job it holds but for that slot.
`OrderInv` puts the jobs of a Queue node outside of a group in one line, from the last
delivered to the last triggered. `BalanceInv` compares the slots counted with the tasks
that hold one and the results that will give one back, from above where nothing is
cancelled and from below where nothing panics, group by group.

**Event loop.** `WakeInv`: a value in a channel of the next cycle has its notification
still before it, with the thread that sent it or among the pending commands, or the
batch has noted that a cycle must run. `RegistryInv`: per client at most one Merge is
pending and no Remove comes after it, and who is registered without holding has a Remove
pending. `FlowInv`: store, channel, bridge and commands, one after the other, carry the
values of an origin in order and without a gap.

**Typed nodes.** `DeclaredInv`: whatever is stored, referred to, registered or on its
way under an identity has a type that some declaration of this identity gives it.

**Pricing server.** `FeedsInv`: a method runs only for the command in hand (`BusyInv`), a
thread that was not told to end belongs to a guard held, and the end of the engine tells
all. `CommandInv`: each trade is merged once and then removed once, and where its
commands are agrees with the request, the client and what is registered. `LifeInv`: the
own nodes of a trade are in the registry between its Merge and its Remove, step by step
of the drain (`DrainInv`) and the activation; only a publisher reads from a node of its
trade, so cascades from others do not come to it. Shared nodes do disappear from under a
trade here, so none of the conditions above is assumed.
tlapm cannot cite a theorem of a module through `INSTANCE` with a substitution, so
`FxPricingProofs` proves what it needs of the two layers itself; by `FxLayers` the
theorems about them hold of the server, those of `Lifecycle` for finitely many trades.

Only model-checked:
- all liveness properties (`CallsReturn`, `QueueDelivers`, `LatestDelivers`,
  `SendsApplied`, `MergeReturns`, `DeletedGoes`, `ShutdownCompletes`, `RatesApplied`)
  and the absence of deadlock: they need fairness or `ENABLED`, which is out of the
  prover's reach;
- what the four violation runs show.

## 6. Not modelled

- The numbers: rates and what closures compute from them, durations in the metrics, the
  time a debounce or a retry takes. `Retry` calls a closure again on an unchanged store;
  its attempts are one step that ends like `PropagateStale`.
- The hash function behind a key (`KeyHash` is a constant; two keys with one hash would
  be one node), `key_debug`, and the bound of the macros on the number of inputs.
- `list_trades`, which only reads, the formats of requests and answers, and redis beyond
  what a feed thread sees of it.
- `pending_async` of the metrics, which the code always reports as 0.
- The re-exports and unit tests of `lib.rs`; the tests were read as documentation.
- `clone` of an `EngineHandle` is another client.

## 7. Plan

1. Done: `Lifecycle`, `Engine`, `AsyncManager` with its refinement of `AsyncWork`,
   `EventLoop`, `TypedNodes`, the composition `FxPricing`, their runs, and the proofs
   of section 5.
2. Left to prove: that a SubgraphBuilder's registrations keep `Acyclic`, since it offers a
   reference only to what it has built, from a condition on `Script` instead of on
   behaviours; and measures for the termination of `activate_node` and of the cascade, as
   action properties below the liveness that TLC checks.
