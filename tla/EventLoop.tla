------------------------------ MODULE EventLoop ------------------------------
(***************************************************************************)
(* The engine on its own thread (event_loop.rs) and what reaches it through *)
(* its command channel: EngineHandle and RemoteSubgraphHandle of the client *)
(* threads (engine_handle.rs), the bridge thread behind the source Senders, *)
(* and the async tasks with their AsyncComplete notification.               *)
(*                                                                          *)
(* Of the engine the module keeps which clients' subgraphs are registered   *)
(* and the sequence of values written to its store; Lifecycle and Engine    *)
(* say what a merge, a removal and a cycle do.                              *)
(***************************************************************************)
EXTENDS Naturals, Sequences, FiniteSets, SequencesExt

CONSTANTS
    Client,     \* threads with an EngineHandle, each merging a subgraph of its own
    MaxValues,  \* bound on the values sent, through source Senders and update_source
    MaxTasks    \* bound on the async tasks that cycles start

ASSUME MaxAssumption == MaxValues \in Nat /\ MaxTasks \in Nat

VARIABLES
    cmds,           \* the command channel
    bridge,         \* the channel from the source Senders to the bridge thread
    owed,           \* the bridge thread has forwarded a value and not yet notified
    source_rx,      \* values for the next cycle
    running,        \* async tasks whose future is not ready
    finished,       \* async tasks that sent their result and not yet AsyncComplete
    result_rx,      \* results for the next cycle
    pc,             \* the event loop: "recv", "handle", "stopped"
    batch,          \* commands taken from the channel and not yet handled
    has_updates,
    should_shutdown,
    registered,     \* clients whose subgraph is in the engine
    store,          \* every value the cycles wrote to the store, in order
    client,         \* client -> "ready", "merging", "holding", "gone"
    sent, updates, tasks    \* how many values were sent and tasks started

loop == <<pc, batch, has_updates, should_shutdown>>
async == <<running, finished, result_rx, tasks>>
vars == <<cmds, bridge, owed, source_rx, async, loop, registered, store, client,
          sent, updates>>

Command ==
    [op : {"SourceUpdate"}, value : Nat \ {0}]
      \cup [op : {"Merge", "Remove"}, from : Client]
      \cup [op : {"AsyncComplete", "SourceReady", "Shutdown"}]

\* A value in the store: where it came from and its number there.
Value == {"sender", "update", "task"} \X (Nat \ {0})

\* tx.send: once the loop has ended, the receiver is gone and the error ignored.
SendCmd(c) == cmds' = IF pc = "stopped" THEN cmds ELSE Append(cmds, c)

Init ==
    /\ cmds = <<>> /\ bridge = <<>> /\ owed = FALSE /\ source_rx = <<>>
    /\ running = {} /\ finished = {} /\ result_rx = <<>>
    /\ pc = "recv" /\ batch = <<>> /\ has_updates = FALSE /\ should_shutdown = FALSE
    /\ registered = {} /\ store = <<>>
    /\ client = [c \in Client |-> "ready"]
    /\ sent = 0 /\ updates = 0 /\ tasks = 0

-----------------------------------------------------------------------------
(* Clients                                                                  *)

\* Mutant: the value is numbered before it is counted.
UpdateUncounted(c) ==
    /\ client[c] \in {"ready", "holding"} /\ sent + updates < MaxValues
    /\ updates' = updates + 1
    /\ SendCmd([op |-> "SourceUpdate", value |-> updates])
    /\ UNCHANGED <<bridge, owed, source_rx, async, loop, registered, store, client, sent>>

\* EngineHandle::update_source.
UpdateSource(c) ==
    /\ client[c] \in {"ready", "holding"} /\ sent + updates < MaxValues
    /\ updates' = updates + 1
    /\ SendCmd([op |-> "SourceUpdate", value |-> updates'])
    /\ UNCHANGED <<bridge, owed, source_rx, async, loop, registered, store, client, sent>>

\* EngineHandle::merge up to its blocking recv on the reply channel.
CallMerge(c) ==
    /\ client[c] = "ready"
    /\ client' = [client EXCEPT ![c] = "merging"]
    /\ SendCmd([op |-> "Merge", from |-> c])
    /\ UNCHANGED <<bridge, owed, source_rx, async, loop, registered, store, sent, updates>>

\* Mutant: the caller keeps a reply sender of its own, and its recv never fails.
MergeWaits(c) == client[c] = "merging" /\ FALSE

\* The recv fails when the command, and the reply sender in it, is gone without
\* a reply: the client goes on with a handle without ids.
MergeFails(c) ==
    /\ client[c] = "merging"
    /\ [op |-> "Merge", from |-> c] \notin ToSet(cmds) \cup ToSet(batch)
    /\ client' = [client EXCEPT ![c] = "ready"]
    /\ UNCHANGED <<cmds, bridge, owed, source_rx, async, loop, registered, store,
                   sent, updates>>

\* RemoteSubgraphHandle::drop.
DropHandle(c) ==
    /\ client[c] = "holding"
    /\ client' = [client EXCEPT ![c] = "ready"]
    /\ SendCmd([op |-> "Remove", from |-> c])
    /\ UNCHANGED <<bridge, owed, source_rx, async, loop, registered, store, sent, updates>>

\* EngineHandle::shutdown; the client does not use its handle again.
Shutdown(c) ==
    /\ client[c] = "ready"
    /\ client' = [client EXCEPT ![c] = "gone"]
    /\ SendCmd([op |-> "Shutdown"])
    /\ UNCHANGED <<bridge, owed, source_rx, async, loop, registered, store, sent, updates>>

\* The client drops its EngineHandle.
Leave(c) ==
    /\ client[c] = "ready"
    /\ client' = [client EXCEPT ![c] = "gone"]
    /\ UNCHANGED <<cmds, bridge, owed, source_rx, async, loop, registered, store,
                   sent, updates>>

-----------------------------------------------------------------------------
(* Sources, the bridge thread and async tasks                               *)

\* Sender::send of an activated source: its channel is the bridge's.
SenderSend ==
    /\ sent + updates < MaxValues
    /\ sent' = sent + 1
    /\ bridge' = Append(bridge, <<"sender", sent'>>)
    /\ UNCHANGED <<cmds, owed, source_rx, async, loop, registered, store, client, updates>>

\* Mutant: no notification follows.
ForwardOnly ==
    /\ ~owed /\ bridge # <<>>
    /\ bridge' = Tail(bridge)
    /\ source_rx' = IF pc = "stopped" THEN source_rx ELSE Append(source_rx, Head(bridge))
    /\ UNCHANGED <<cmds, owed, async, loop, registered, store, client, sent, updates>>

\* Mutant: the newest value is forwarded first.
ForwardNewest ==
    /\ ~owed /\ bridge # <<>>
    /\ bridge' = Front(bridge)
    /\ source_rx' = IF pc = "stopped" THEN source_rx ELSE Append(source_rx, Last(bridge))
    /\ owed' = TRUE
    /\ UNCHANGED <<cmds, async, loop, registered, store, client, sent, updates>>

\* The bridge thread forwards a value ...
BridgeForward ==
    /\ ~owed /\ bridge # <<>>
    /\ bridge' = Tail(bridge)
    /\ source_rx' = IF pc = "stopped" THEN source_rx ELSE Append(source_rx, Head(bridge))
    /\ owed' = TRUE
    /\ UNCHANGED <<cmds, async, loop, registered, store, client, sent, updates>>

\* ... and then wakes the event loop up.
BridgeNotify ==
    /\ owed
    /\ owed' = FALSE
    /\ SendCmd([op |-> "SourceReady"])
    /\ UNCHANGED <<bridge, source_rx, async, loop, registered, store, client, sent, updates>>

\* A task's future is ready and the result sent; the runtime ends with the loop.
TaskDone(t) ==
    /\ pc # "stopped"
    /\ running' = running \ {t}
    /\ finished' = finished \cup {t}
    /\ result_rx' = Append(result_rx, <<"task", t>>)
    /\ UNCHANGED <<cmds, bridge, owed, source_rx, tasks, loop, registered, store, client,
                   sent, updates>>

TaskNotify(t) ==
    /\ finished' = finished \ {t}
    /\ SendCmd([op |-> "AsyncComplete"])
    /\ UNCHANGED <<bridge, owed, source_rx, running, result_rx, tasks, loop, registered,
                   store, client, sent, updates>>

-----------------------------------------------------------------------------
(* run_event_loop                                                           *)

\* Mutant: the commands that came with the first one are lost.
RecvFirst ==
    /\ pc = "recv" /\ cmds # <<>>
    /\ batch' = <<Head(cmds)>>
    /\ cmds' = <<>>
    /\ has_updates' = FALSE /\ should_shutdown' = FALSE
    /\ pc' = "handle"
    /\ UNCHANGED <<bridge, owed, source_rx, async, registered, store, client, sent, updates>>

\* Mutant: the batch is handled from its end.
RecvReversed ==
    /\ pc = "recv" /\ cmds # <<>>
    /\ batch' = Reverse(cmds)
    /\ cmds' = <<>>
    /\ has_updates' = FALSE /\ should_shutdown' = FALSE
    /\ pc' = "handle"
    /\ UNCHANGED <<bridge, owed, source_rx, async, registered, store, client, sent, updates>>

\* Block for one command, then take all that are there.
Recv ==
    /\ pc = "recv" /\ cmds # <<>>
    /\ batch' = cmds
    /\ cmds' = <<>>
    /\ has_updates' = FALSE /\ should_shutdown' = FALSE
    /\ pc' = "handle"
    /\ UNCHANGED <<bridge, owed, source_rx, async, registered, store, client, sent, updates>>

\* The next command of the batch, also when a Shutdown came before it.
Handle ==
    /\ pc = "handle" /\ batch # <<>>
    /\ batch' = Tail(batch)
    /\ LET cmd == Head(batch)
       IN  \/ /\ cmd.op = "SourceUpdate"
              /\ source_rx' = Append(source_rx, <<"update", cmd.value>>)
              /\ has_updates' = TRUE
              /\ UNCHANGED <<should_shutdown, registered, client>>
           \/ /\ cmd.op \in {"SourceReady", "AsyncComplete"}
              /\ has_updates' = TRUE
              /\ UNCHANGED <<source_rx, should_shutdown, registered, client>>
           \/ /\ cmd.op = "Merge"
              /\ registered' = registered \cup {cmd.from}
              /\ client' = [client EXCEPT ![cmd.from] = "holding"]
              /\ UNCHANGED <<source_rx, has_updates, should_shutdown>>
           \/ /\ cmd.op = "Remove"
              /\ registered' = registered \ {cmd.from}
              /\ UNCHANGED <<source_rx, has_updates, should_shutdown, client>>
           \/ /\ cmd.op = "Shutdown"
              /\ should_shutdown' = TRUE
              /\ UNCHANGED <<source_rx, has_updates, registered, client>>
    /\ UNCHANGED <<cmds, bridge, owed, async, pc, store, sent, updates>>

\* run_cycle, if the batch called for one: both channels go to the store, and
\* new source values may start an async task.
EndBatch ==
    /\ pc = "handle" /\ batch = <<>> /\ ~should_shutdown
    /\ pc' = "recv"
    /\ \/ /\ has_updates
          /\ store' = store \o source_rx \o result_rx
          /\ source_rx' = <<>> /\ result_rx' = <<>>
          /\ \/ UNCHANGED <<running, tasks>>
             \/ /\ source_rx # <<>> /\ tasks < MaxTasks
                /\ tasks' = tasks + 1
                /\ running' = running \cup {tasks'}
       \/ /\ ~has_updates
          /\ UNCHANGED <<store, source_rx, result_rx, running, tasks>>
    /\ UNCHANGED <<cmds, bridge, owed, finished, batch, has_updates, should_shutdown,
                   registered, client, sent, updates>>

\* The same at the end of a batch with a Shutdown, after which the loop ends: the
\* channels are dropped and, with the runtime, the tasks.
Stop ==
    /\ pc = "handle" /\ batch = <<>> /\ should_shutdown
    /\ pc' = "stopped"
    /\ store' = IF has_updates THEN store \o source_rx \o result_rx ELSE store
    /\ cmds' = <<>> /\ source_rx' = <<>> /\ result_rx' = <<>>
    /\ running' = {} /\ finished' = {}
    /\ UNCHANGED <<bridge, owed, tasks, batch, has_updates, should_shutdown, registered,
                   client, sent, updates>>

\* Code of a client panics on the engine's thread: an activation callback in a
\* merge, the drop of a guard in a removal, a compute or emit in a cycle.  The
\* thread unwinds and drops the rest of the batch with the replies in it, the
\* channels, the engine and the runtime; the EngineHandles are left.
Panic ==
    /\ pc = "handle"
    /\ \/ batch # <<>> /\ Head(batch).op \in {"Merge", "Remove"}
       \/ batch = <<>> /\ has_updates
    /\ pc' = "stopped"
    /\ batch' = <<>> /\ cmds' = <<>> /\ source_rx' = <<>> /\ result_rx' = <<>>
    /\ running' = {} /\ finished' = {}
    /\ UNCHANGED <<bridge, owed, tasks, has_updates, should_shutdown, registered, store,
                   client, sent, updates>>

-----------------------------------------------------------------------------
LoopStep == Recv \/ Handle \/ EndBatch \/ Stop
BridgeStep == BridgeForward \/ BridgeNotify
TaskStep == (\E t \in running : TaskDone(t)) \/ (\E t \in finished : TaskNotify(t))

Next ==
    \/ \E c \in Client : \/ UpdateSource(c) \/ CallMerge(c) \/ MergeFails(c)
                         \/ DropHandle(c) \/ Shutdown(c) \/ Leave(c)
    \/ SenderSend \/ BridgeStep \/ TaskStep \/ LoopStep \/ Panic

Spec == Init /\ [][Next]_vars

\* Every thread keeps running; clients call when they like, but a merge whose
\* reply channel is closed returns.
FairSpec ==
    /\ Spec
    /\ WF_vars(LoopStep) /\ WF_vars(BridgeStep) /\ WF_vars(TaskStep)
    /\ \A c \in Client : WF_vars(MergeFails(c))

-----------------------------------------------------------------------------
(* Properties                                                               *)

\* Every variable has its type.
TypeOK ==
    /\ cmds \in Seq(Command) /\ batch \in Seq(Command)
    /\ bridge \in Seq(Value) /\ source_rx \in Seq(Value)
    /\ result_rx \in Seq(Value) /\ store \in Seq(Value)
    /\ owed \in BOOLEAN /\ has_updates \in BOOLEAN /\ should_shutdown \in BOOLEAN
    /\ running \subseteq 1..MaxTasks /\ finished \subseteq 1..MaxTasks
    /\ pc \in {"recv", "handle", "stopped"}
    /\ registered \subseteq Client
    /\ client \in [Client -> {"ready", "merging", "holding", "gone"}]
    /\ sent \in 0..MaxValues /\ updates \in 0..MaxValues /\ tasks \in 0..MaxTasks

Ops(s) == {s[i].op : i \in DOMAIN s}

\* No lost wake-up: when the loop goes to sleep on an empty command channel,
\* whatever is in source_rx or result_rx has a notification still to come, from
\* the bridge or the task that put it there.  It rests on both sending the value
\* first and the notification after it.
NoLostWakeup ==
    pc = "recv" /\ cmds = <<>> =>
        /\ source_rx # <<>> => owed
        /\ result_rx # <<>> => finished # {}

\* Values from one origin reach the store in the order they were sent, each once
\* and none left out: the channels, the batches and the bridge neither reorder
\* nor drop nor repeat what a cycle writes.
OriginOrder ==
    \A i \in DOMAIN store : store[i][1] \in {"sender", "update"} =>
        /\ \A j \in 1..(i - 1) : store[j][1] = store[i][1] => store[j][2] < store[i][2]
        /\ \A n \in 1..store[i][2] : <<store[i][1], n>> \in ToSet(store)

\* While the loop runs, a client that holds a handle has its subgraph in the
\* engine, and one that neither holds nor waits for it has not, up to a Remove
\* that is on its way: no Remove is handled before the Merge it undoes, or after
\* the next Merge of the same subgraph.
HandleMatchesRegistry ==
    \A c \in Client : pc # "stopped" =>
        /\ client[c] = "holding" => c \in registered
        /\ c \in registered /\ client[c] # "holding" =>
              [op |-> "Remove", from |-> c] \in ToSet(cmds) \cup ToSet(batch)

\* Every value given to a Sender or to update_source is written to the store,
\* or the engine has ended.
SendsApplied ==
    \A k \in 1..MaxValues :
        /\ sent >= k ~> <<"sender", k>> \in ToSet(store) \/ pc = "stopped"
        /\ updates >= k ~> <<"update", k>> \in ToSet(store) \/ pc = "stopped"

\* merge always returns, also when it races with a shutdown or the engine's thread
\* panics, in this merge or in what comes before it: no reply sender survives.
MergeReturns == \A c \in Client : client[c] = "merging" ~> client[c] # "merging"
=============================================================================
