---------------------------- MODULE EventLoopProofs ----------------------------
(***************************************************************************)
(* Proofs about module EventLoop: its types, that no wake-up is lost, that   *)
(* values reach the store in order, and that the registry follows the        *)
(* handles, for any number of clients, values and tasks.                     *)
(***************************************************************************)
EXTENDS EventLoop, SequenceTheorems, TLAPS

-----------------------------------------------------------------------------
(* The type invariant                                                       *)

\* The commands and the values have their types.
LEMMA CommandType ==
    /\ \A v \in Nat \ {0} : [op |-> "SourceUpdate", value |-> v] \in Command
    /\ \A c \in Client : /\ [op |-> "Merge", from |-> c] \in Command
                         /\ [op |-> "Remove", from |-> c] \in Command
    /\ [op |-> "SourceReady"] \in Command
    /\ [op |-> "AsyncComplete"] \in Command
    /\ [op |-> "Shutdown"] \in Command
  BY DEF Command

\* What a command of each kind carries.
LEMMA CommandCases ==
    ASSUME NEW cmd \in Command
    PROVE  /\ cmd.op \in {"SourceUpdate", "Merge", "Remove", "AsyncComplete",
                          "SourceReady", "Shutdown"}
           /\ cmd.op = "SourceUpdate" =>
                /\ cmd.value \in Nat \ {0}
                /\ cmd = [op |-> "SourceUpdate", value |-> cmd.value]
           /\ cmd.op \in {"Merge", "Remove"} =>
                /\ cmd.from \in Client
                /\ cmd = [op |-> cmd.op, from |-> cmd.from]
  BY DEF Command

\* A sent command leaves a well-typed channel.
LEMMA SendCmdType ==
    ASSUME cmds \in Seq(Command), NEW c \in Command, SendCmd(c)
    PROVE  cmds' \in Seq(Command)
  BY AppendProperties DEF SendCmd

\* TypeOK is an invariant: every command, value and counter stays in its type.
THEOREM EventLoopTypes == Spec => []TypeOK
  <1>1. Init => TypeOK
    <2>1. <<>> \in Seq(Command) /\ <<>> \in Seq(Value)
      BY EmptySeq
    <2>2. 0 \in 0..MaxValues /\ 0 \in 0..MaxTasks
      BY MaxAssumption
    <2>. QED
      BY <2>1, <2>2 DEF Init, TypeOK
  <1>2. TypeOK /\ [Next]_vars => TypeOK'
    <2>. SUFFICES ASSUME TypeOK, [Next]_vars
                  PROVE  TypeOK'
      OBVIOUS
    <2>. USE MaxAssumption DEF TypeOK, loop, async
    <2>1. ASSUME NEW c \in Client, UpdateSource(c)
          PROVE  TypeOK'
      <3>1. updates' \in Nat \ {0} /\ updates' \in 0..MaxValues
        BY <2>1 DEF UpdateSource
      <3>2. cmds' \in Seq(Command)
        BY <2>1, <3>1, CommandType, SendCmdType DEF UpdateSource
      <3>. QED
        BY <2>1, <3>1, <3>2 DEF UpdateSource
    <2>2. ASSUME NEW c \in Client, CallMerge(c)
          PROVE  TypeOK'
      <3>1. cmds' \in Seq(Command)
        BY <2>2, CommandType, SendCmdType DEF CallMerge
      <3>. QED
        BY <2>2, <3>1 DEF CallMerge
    <2>3. ASSUME NEW c \in Client, MergeFails(c)
          PROVE  TypeOK'
      BY <2>3 DEF MergeFails
    <2>4. ASSUME NEW c \in Client, DropHandle(c)
          PROVE  TypeOK'
      <3>1. cmds' \in Seq(Command)
        BY <2>4, CommandType, SendCmdType DEF DropHandle
      <3>. QED
        BY <2>4, <3>1 DEF DropHandle
    <2>5. ASSUME NEW c \in Client, Shutdown(c)
          PROVE  TypeOK'
      <3>1. cmds' \in Seq(Command)
        BY <2>5, CommandType, SendCmdType DEF Shutdown
      <3>. QED
        BY <2>5, <3>1 DEF Shutdown
    <2>6. ASSUME NEW c \in Client, Leave(c)
          PROVE  TypeOK'
      BY <2>6 DEF Leave
    <2>7. ASSUME SenderSend
          PROVE  TypeOK'
      <3>1. sent' \in 0..MaxValues /\ <<"sender", sent'>> \in Value
        BY <2>7 DEF SenderSend, Value
      <3>2. bridge' \in Seq(Value)
        BY <2>7, <3>1, AppendProperties DEF SenderSend
      <3>. QED
        BY <2>7, <3>1, <3>2 DEF SenderSend
    <2>8. ASSUME BridgeForward
          PROVE  TypeOK'
      <3>1. Head(bridge) \in Value /\ bridge' \in Seq(Value)
        BY <2>8, HeadTailProperties DEF BridgeForward
      <3>2. source_rx' \in Seq(Value)
        BY <2>8, <3>1, AppendProperties DEF BridgeForward
      <3>. QED
        BY <2>8, <3>1, <3>2 DEF BridgeForward
    <2>9. ASSUME BridgeNotify
          PROVE  TypeOK'
      <3>1. cmds' \in Seq(Command)
        BY <2>9, CommandType, SendCmdType DEF BridgeNotify
      <3>. QED
        BY <2>9, <3>1 DEF BridgeNotify
    <2>10. ASSUME NEW t \in running, TaskDone(t)
           PROVE  TypeOK'
      <3>1. <<"task", t>> \in Value
        BY DEF Value
      <3>2. result_rx' \in Seq(Value)
        BY <2>10, <3>1, AppendProperties DEF TaskDone
      <3>. QED
        BY <2>10, <3>2 DEF TaskDone
    <2>11. ASSUME NEW t \in finished, TaskNotify(t)
           PROVE  TypeOK'
      <3>1. cmds' \in Seq(Command)
        BY <2>11, CommandType, SendCmdType DEF TaskNotify
      <3>. QED
        BY <2>11, <3>1 DEF TaskNotify
    <2>12. ASSUME Recv
           PROVE  TypeOK'
      <3>1. <<>> \in Seq(Command)
        BY EmptySeq
      <3>. QED
        BY <2>12, <3>1 DEF Recv
    <2>13. ASSUME Handle
           PROVE  TypeOK'
      <3>1. Head(batch) \in Command /\ batch' \in Seq(Command)
        BY <2>13, HeadTailProperties DEF Handle
      <3>2. source_rx' \in Seq(Value)
        <4>1. CASE Head(batch).op = "SourceUpdate"
          <5>1. <<"update", Head(batch).value>> \in Value
            BY <3>1, <4>1, CommandCases DEF Value
          <5>2. Append(source_rx, <<"update", Head(batch).value>>) \in Seq(Value)
            BY <5>1, AppendProperties
          <5>3. \/ source_rx' = source_rx
                \/ source_rx' = Append(source_rx, <<"update", Head(batch).value>>)
            BY <2>13 DEF Handle
          <5>. QED
            BY <5>2, <5>3
        <4>2. CASE Head(batch).op # "SourceUpdate"
          BY <2>13, <4>2 DEF Handle
        <4>. QED
          BY <4>1, <4>2
      <3>3. registered' \subseteq Client
           /\ client' \in [Client -> {"ready", "merging", "holding", "gone"}]
        BY <2>13, <3>1, CommandCases DEF Handle
      <3>4. has_updates' \in BOOLEAN /\ should_shutdown' \in BOOLEAN
        BY <2>13 DEF Handle
      <3>. QED
        BY <2>13, <3>1, <3>2, <3>3, <3>4 DEF Handle
    <2>14. ASSUME EndBatch
           PROVE  TypeOK'
      <3>1. <<>> \in Seq(Value) /\ store \o source_rx \o result_rx \in Seq(Value)
        BY EmptySeq, ConcatProperties
      <3>2. store' \in Seq(Value) /\ source_rx' \in Seq(Value) /\ result_rx' \in Seq(Value)
        BY <2>14, <3>1 DEF EndBatch
      <3>3. tasks' \in 0..MaxTasks /\ running' \subseteq 1..MaxTasks
        <4>1. CASE UNCHANGED <<running, tasks>>
          BY <4>1
        <4>2. CASE /\ tasks < MaxTasks /\ tasks' = tasks + 1
                   /\ running' = running \cup {tasks'}
          BY <4>2
        <4>. QED
          BY <2>14, <4>1, <4>2 DEF EndBatch
      <3>. QED
        BY <2>14, <3>2, <3>3 DEF EndBatch
    <2>15. ASSUME Stop
           PROVE  TypeOK'
      <3>1. /\ <<>> \in Seq(Value) /\ <<>> \in Seq(Command)
            /\ store \o source_rx \o result_rx \in Seq(Value)
        BY EmptySeq, ConcatProperties
      <3>. QED
        BY <2>15, <3>1 DEF Stop
    <2>16. ASSUME Panic
           PROVE  TypeOK'
      <3>1. <<>> \in Seq(Value) /\ <<>> \in Seq(Command)
        BY EmptySeq
      <3>. QED
        BY <2>16, <3>1 DEF Panic
    <2>17. CASE UNCHANGED vars
      BY <2>17 DEF vars
    <2>. QED
      BY <2>1, <2>2, <2>3, <2>4, <2>5, <2>6, <2>7, <2>8, <2>9, <2>10, <2>11, <2>12,
         <2>13, <2>14, <2>15, <2>16, <2>17 DEF Next, BridgeStep, TaskStep, LoopStep
  <1>. QED
    BY <1>1, <1>2, PTL DEF Spec

-----------------------------------------------------------------------------
(* The commands not yet handled                                             *)

\* What the loop has still to handle, in the order in which it will.
Pending == batch \o cmds

\* The loop takes commands from the channel only when its batch is empty.
BatchInv == pc = "recv" => batch = <<>>

\* BatchInv is an invariant.
LEMMA BatchEmpty == Spec => []BatchInv
  <1>1. Init => BatchInv
    BY DEF Init, BatchInv
  <1>2. BatchInv /\ [Next]_vars => BatchInv'
    BY DEF BatchInv, vars, loop, Next, UpdateSource, CallMerge, MergeFails, DropHandle,
           Shutdown, Leave, SenderSend, BridgeStep, BridgeForward, BridgeNotify, TaskStep,
           TaskDone, TaskNotify, LoopStep, Recv, Handle, EndBatch, Stop, Panic
  <1>. QED
    BY <1>1, <1>2, PTL DEF Spec

\* The pending commands are a sequence of commands.
LEMMA PendingType ==
    ASSUME TypeOK
    PROVE  /\ Pending \in Seq(Command)
           /\ DOMAIN Pending = 1..Len(Pending)
           /\ Len(Pending) \in Nat
  <1>1. Pending \in Seq(Command)
    BY ConcatProperties DEF TypeOK, Pending
  <1>. QED
    BY <1>1, LenProperties

\* A command sent to a running loop is the last of the pending ones.
LEMMA PendingSend ==
    ASSUME TypeOK, NEW c \in Command, SendCmd(c), pc # "stopped", batch' = batch
    PROVE  Pending' = Append(Pending, c)
  <1>1. cmds' = Append(cmds, c)
    BY DEF SendCmd
  <1>2. <<c>> \in Seq(Command)
    OBVIOUS
  <1>3. batch \o Append(cmds, c) = (batch \o cmds) \o <<c>>
    <2>1. cmds \in Seq(Command) /\ batch \in Seq(Command)
      BY DEF TypeOK
    <2>2. Append(cmds, c) = cmds \o <<c>>
      BY <2>1, AppendIsConcat
    <2>3. batch \o (cmds \o <<c>>) = (batch \o cmds) \o <<c>>
      BY <1>2, <2>1, ConcatAssociative
    <2>. QED
      BY <2>2, <2>3
  <1>. QED
    BY <1>1, <1>3, AppendIsConcat, PendingType DEF Pending

\* Receiving moves commands without reordering them.
LEMMA PendingRecv ==
    ASSUME TypeOK, BatchInv, Recv
    PROVE  Pending' = Pending
  <1>1. batch = <<>> /\ batch' = cmds /\ cmds' = <<>>
    BY DEF Recv, BatchInv
  <1>. QED
    BY <1>1, ConcatEmptySeq DEF TypeOK, Pending

\* Handling takes the first pending command.
LEMMA PendingHandle ==
    ASSUME TypeOK, Handle
    PROVE  /\ Pending # <<>>
           /\ Head(batch) = Pending[1]
           /\ Pending' \in Seq(Command)
           /\ Len(Pending') = Len(Pending) - 1
           /\ \A i \in 1..Len(Pending') : Pending'[i] = Pending[i + 1]
  <1>1. /\ batch \in Seq(Command) /\ cmds \in Seq(Command) /\ batch # <<>>
        /\ batch' = Tail(batch) /\ cmds' = cmds
    BY DEF Handle, TypeOK
  <1>2. Tail(batch) \in Seq(Command) /\ Len(Tail(batch)) = Len(batch) - 1
        /\ \A i \in 1..Len(Tail(batch)) : Tail(batch)[i] = batch[i + 1]
    BY <1>1, HeadTailProperties
  <1>3. Len(batch) \in Nat \ {0} /\ Len(cmds) \in Nat
    BY <1>1, EmptySeq, LenProperties
  <1>4. /\ Len(Pending) = Len(batch) + Len(cmds)
        /\ \A i \in 1..(Len(batch) + Len(cmds)) :
              Pending[i] = IF i <= Len(batch) THEN batch[i] ELSE cmds[i - Len(batch)]
    BY <1>1, ConcatProperties DEF Pending
  <1>5. /\ Pending' \in Seq(Command)
        /\ Len(Pending') = Len(Tail(batch)) + Len(cmds)
        /\ \A i \in 1..(Len(Tail(batch)) + Len(cmds)) :
              Pending'[i] = IF i <= Len(Tail(batch)) THEN Tail(batch)[i]
                                                    ELSE cmds[i - Len(Tail(batch))]
    BY <1>1, <1>2, ConcatProperties DEF Pending
  <1>6. Pending[1] = batch[1] /\ Pending # <<>>
    BY <1>3, <1>4
  <1>7. ASSUME NEW i \in 1..Len(Pending')
        PROVE  Pending'[i] = Pending[i + 1]
    <2>1. CASE i <= Len(Tail(batch))
      BY <1>2, <1>3, <1>4, <1>5, <2>1
    <2>2. CASE i > Len(Tail(batch))
      BY <1>2, <1>3, <1>4, <1>5, <2>2
    <2>. QED
      BY <1>2, <1>3, <1>5, <2>1, <2>2
  <1>. QED
    BY <1>1, <1>2, <1>3, <1>4, <1>5, <1>6, <1>7

-----------------------------------------------------------------------------
(* No lost wake-up                                                          *)

Pends(op) == \E i \in DOMAIN Pending : Pending[i].op = op

\* Why NoLostWakeup holds: a value in a channel of the next cycle has its
\* notification before it, in the thread that sent it or among the pending
\* commands, or the batch being handled has noted that a cycle must run.
WakeInv ==
    pc # "stopped" =>
        /\ source_rx # <<>> =>
              owed \/ Pends("SourceReady") \/ (pc = "handle" /\ has_updates)
        /\ result_rx # <<>> =>
              finished # {} \/ Pends("AsyncComplete") \/ (pc = "handle" /\ has_updates)

\* A command that is sent stays pending, with those before it.
LEMMA PendsSend ==
    ASSUME TypeOK, NEW c \in Command, SendCmd(c), pc # "stopped", batch' = batch
    PROVE  Pends(c.op)' /\ \A op : Pends(op) => Pends(op)'
  <1>1. /\ Len(Pending') = Len(Pending) + 1
        /\ DOMAIN Pending' = 1..(Len(Pending) + 1)
        /\ \A i \in 1..Len(Pending) : Pending'[i] = Pending[i]
        /\ Pending'[Len(Pending) + 1] = c
    <2>1. Pending' = Append(Pending, c) /\ Pending \in Seq(Command)
      BY PendingSend, PendingType
    <2>. QED
      BY <2>1, AppendProperties, LenProperties
  <1>. QED
    BY <1>1, PendingType DEF Pends

\* Handling a command leaves the others pending.
LEMMA PendsHandle ==
    ASSUME TypeOK, Handle, NEW op, Pends(op), Head(batch).op # op
    PROVE  Pends(op)'
  <1>1. PICK i \in DOMAIN Pending : Pending[i].op = op
    BY DEF Pends
  <1>2. i # 1
    BY <1>1, PendingHandle
  <1>3. i - 1 \in 1..Len(Pending') /\ Pending'[i - 1] = Pending[i]
    BY <1>1, <1>2, PendingHandle, PendingType
  <1>4. DOMAIN Pending' = 1..Len(Pending')
    BY PendingHandle, LenProperties
  <1>. QED
    BY <1>1, <1>3, <1>4 DEF Pends

\* A step that touches neither the batch nor the channel leaves them pending.
LEMMA PendsSame ==
    ASSUME Pending' = Pending
    PROVE  \A op : Pends(op)' <=> Pends(op)
  BY DEF Pends

\* WakeInv is preserved by every step.
LEMMA WakeStep ==
    ASSUME TypeOK, BatchInv, WakeInv, [Next]_vars
    PROVE  WakeInv'
  <1>. USE DEF WakeInv, loop, async
  <1>1. ASSUME NEW c \in Client, UpdateSource(c)
        PROVE  WakeInv'
    <2>1. updates' \in Nat \ {0}
      BY <1>1, MaxAssumption DEF UpdateSource, TypeOK
    <2>. QED
      BY <1>1, <2>1, CommandType, PendsSend DEF UpdateSource
  <1>2. ASSUME NEW c \in Client, CallMerge(c)
        PROVE  WakeInv'
    BY <1>2, CommandType, PendsSend DEF CallMerge
  <1>3. ASSUME NEW c \in Client, MergeFails(c)
        PROVE  WakeInv'
    BY <1>3 DEF MergeFails, Pends, Pending
  <1>4. ASSUME NEW c \in Client, DropHandle(c)
        PROVE  WakeInv'
    BY <1>4, CommandType, PendsSend DEF DropHandle
  <1>5. ASSUME NEW c \in Client, Shutdown(c)
        PROVE  WakeInv'
    BY <1>5, CommandType, PendsSend DEF Shutdown
  <1>6. ASSUME NEW c \in Client, Leave(c)
        PROVE  WakeInv'
    BY <1>6 DEF Leave, Pends, Pending
  <1>7. ASSUME SenderSend
        PROVE  WakeInv'
    BY <1>7 DEF SenderSend, Pends, Pending
  <1>8. ASSUME BridgeForward
        PROVE  WakeInv'
    <2>1. Pending' = Pending
      BY <1>8 DEF BridgeForward, Pending
    <2>. QED
      BY <1>8, <2>1, PendsSame DEF BridgeForward
  <1>9. ASSUME BridgeNotify
        PROVE  WakeInv'
    BY <1>9, CommandType, PendsSend DEF BridgeNotify
  <1>10. ASSUME NEW t \in running, TaskDone(t)
         PROVE  WakeInv'
    <2>1. Pending' = Pending
      BY <1>10 DEF TaskDone, Pending
    <2>. QED
      BY <1>10, <2>1, PendsSame DEF TaskDone
  <1>11. ASSUME NEW t \in finished, TaskNotify(t)
         PROVE  WakeInv'
    BY <1>11, CommandType, PendsSend DEF TaskNotify
  <1>12. ASSUME Recv
         PROVE  WakeInv'
    <2>1. Pending' = Pending
      BY <1>12, PendingRecv
    <2>. QED
      BY <1>12, <2>1, PendsSame DEF Recv
  <1>13. ASSUME Handle
         PROVE  WakeInv'
    <2>1. CASE Head(batch).op \in {"SourceReady", "AsyncComplete", "SourceUpdate"}
      BY <1>13, <2>1 DEF Handle
    <2>2. CASE Head(batch).op \notin {"SourceReady", "AsyncComplete", "SourceUpdate"}
      <3>1. Pends("SourceReady") => Pends("SourceReady")'
        BY <1>13, <2>2, PendsHandle
      <3>2. Pends("AsyncComplete") => Pends("AsyncComplete")'
        BY <1>13, <2>2, PendsHandle
      <3>3. UNCHANGED <<source_rx, result_rx, owed, finished, pc, has_updates>>
        BY <1>13, <2>2 DEF Handle
      <3>. QED
        BY <3>1, <3>2, <3>3
    <2>. QED
      BY <2>1, <2>2
  <1>14. ASSUME EndBatch
         PROVE  WakeInv'
    BY <1>14 DEF EndBatch, Pends, Pending
  <1>15. ASSUME Stop \/ Panic
         PROVE  WakeInv'
    BY <1>15 DEF Stop, Panic
  <1>16. CASE UNCHANGED vars
    BY <1>16 DEF vars, Pends, Pending
  <1>. QED
    BY <1>1, <1>2, <1>3, <1>4, <1>5, <1>6, <1>7, <1>8, <1>9, <1>10, <1>11, <1>12, <1>13,
       <1>14, <1>15, <1>16 DEF Next, BridgeStep, TaskStep, LoopStep

\* No lost wake-up, for any number of clients, values and tasks: whenever the loop
\* blocks on an empty command channel, a value waiting for a cycle has its
\* notification still to come.
THEOREM EventLoopWakes == Spec => []NoLostWakeup
  <1>1. Init => WakeInv
    BY DEF Init, WakeInv
  <1>2. TypeOK /\ BatchInv /\ WakeInv => NoLostWakeup
    <2>. SUFFICES ASSUME TypeOK, BatchInv, WakeInv, pc = "recv", cmds = <<>>
                  PROVE  /\ source_rx # <<>> => owed
                         /\ result_rx # <<>> => finished # {}
      BY DEF NoLostWakeup
    <2>1. Pending = <<>>
      BY ConcatEmptySeq DEF Pending, BatchInv, TypeOK
    <2>2. \A op : ~Pends(op)
      BY <2>1 DEF Pends
    <2>. QED
      BY <2>2 DEF WakeInv
  <1>. QED
    BY <1>1, <1>2, WakeStep, EventLoopTypes, BatchEmpty, PTL DEF Spec

-----------------------------------------------------------------------------
(* The registry follows the handles                                         *)

MergeOf(c) == [op |-> "Merge", from |-> c]
RemoveOf(c) == [op |-> "Remove", from |-> c]

\* Why HandleMatchesRegistry holds.  At most one Merge of a client is pending, its
\* caller waits for it, and no Remove follows it; while a client holds its handle no
\* Remove of its subgraph is pending; and one is while the subgraph outlives the handle.
OneMerge(c) ==
    \A i, j \in DOMAIN Pending : Pending[i] = MergeOf(c) /\ Pending[j] = MergeOf(c) => i = j
MergeIsLast(c) ==
    \A i \in DOMAIN Pending : Pending[i] = MergeOf(c) =>
        /\ client[c] = "merging"
        /\ \A j \in DOMAIN Pending : Pending[j] = RemoveOf(c) => j < i
HeldIsKept(c) ==
    client[c] = "holding" =>
        c \in registered /\ \A i \in DOMAIN Pending : Pending[i] # RemoveOf(c)
LeftIsRemoved(c) ==
    c \in registered /\ client[c] # "holding" =>
        \E i \in DOMAIN Pending : Pending[i] = RemoveOf(c)
ClientInv(c) == OneMerge(c) /\ MergeIsLast(c) /\ HeldIsKept(c) /\ LeftIsRemoved(c)

RegistryInv == pc # "stopped" => \A c \in Client : ClientInv(c)

\* The pending commands of a running loop after a command was sent to it.
LEMMA PendingAppended ==
    ASSUME TypeOK, NEW cmd \in Command, SendCmd(cmd), pc # "stopped", batch' = batch
    PROVE  /\ Len(Pending') = Len(Pending) + 1
           /\ DOMAIN Pending' = 1..(Len(Pending) + 1)
           /\ \A i \in 1..Len(Pending) : Pending'[i] = Pending[i]
           /\ Pending'[Len(Pending) + 1] = cmd
  <1>1. Pending' = Append(Pending, cmd) /\ Pending \in Seq(Command)
    BY PendingSend, PendingType
  <1>. QED
    BY <1>1, AppendProperties, LenProperties

\* A client whose state and commands a step leaves alone keeps its invariant.
LEMMA ClientSame ==
    ASSUME NEW c \in Client, ClientInv(c), Pending' = Pending,
           client'[c] = client[c], registered' = registered
    PROVE  ClientInv(c)'
  BY DEF ClientInv, OneMerge, MergeIsLast, HeldIsKept, LeftIsRemoved, MergeOf, RemoveOf

\* A command that is not a Merge or a Remove of a client does not concern it.
LEMMA ClientSend ==
    ASSUME TypeOK, pc # "stopped", NEW cmd \in Command, SendCmd(cmd), batch' = batch,
           NEW c \in Client, ClientInv(c), cmd # MergeOf(c), cmd # RemoveOf(c),
           client'[c] = client[c], registered' = registered
    PROVE  ClientInv(c)'
  <1>1. /\ Len(Pending) \in Nat /\ DOMAIN Pending = 1..Len(Pending)
        /\ DOMAIN Pending' = 1..(Len(Pending) + 1)
        /\ \A i \in 1..Len(Pending) : Pending'[i] = Pending[i]
        /\ Pending'[Len(Pending) + 1] = cmd
    BY PendingAppended, PendingType
  <1>2. OneMerge(c)'
    BY <1>1 DEF ClientInv, OneMerge
  <1>3. MergeIsLast(c)'
    BY <1>1 DEF ClientInv, MergeIsLast
  <1>4. HeldIsKept(c)'
    BY <1>1 DEF ClientInv, HeldIsKept
  <1>5. LeftIsRemoved(c)'
    BY <1>1 DEF ClientInv, LeftIsRemoved
  <1>. QED
    BY <1>2, <1>3, <1>4, <1>5 DEF ClientInv

\* RegistryInv is preserved by every step.
LEMMA RegistryStep ==
    ASSUME TypeOK, BatchInv, RegistryInv, [Next]_vars
    PROVE  RegistryInv'
  <1>. SUFFICES ASSUME pc' # "stopped", NEW c \in Client
                PROVE  ClientInv(c)'
    BY DEF RegistryInv
  <1>. USE DEF loop, async
  <1>0. pc # "stopped" /\ ClientInv(c)
    BY DEF RegistryInv, vars, Next, UpdateSource, CallMerge, MergeFails, DropHandle,
           Shutdown, Leave, SenderSend, BridgeStep, BridgeForward, BridgeNotify, TaskStep,
           TaskDone, TaskNotify, LoopStep, Recv, Handle, EndBatch, Stop, Panic
  <1>1. ASSUME NEW d \in Client, UpdateSource(d)
        PROVE  ClientInv(c)'
    <2>1. [op |-> "SourceUpdate", value |-> updates'] \in Command
      BY <1>1, CommandType, MaxAssumption DEF UpdateSource, TypeOK
    <2>2. /\ [op |-> "SourceUpdate", value |-> updates'] # MergeOf(c)
          /\ [op |-> "SourceUpdate", value |-> updates'] # RemoveOf(c)
      BY DEF MergeOf, RemoveOf
    <2>. QED
      BY <1>0, <1>1, <2>1, <2>2, ClientSend DEF UpdateSource
  <1>2. ASSUME NEW d \in Client, CallMerge(d)
        PROVE  ClientInv(c)'
    <2>1. CASE d = c
      <3>1. /\ client[c] = "ready" /\ client'[c] = "merging" /\ registered' = registered
            /\ MergeOf(c) \in Command /\ SendCmd(MergeOf(c)) /\ batch' = batch
        BY <1>2, <2>1, CommandType DEF CallMerge, MergeOf, TypeOK
      <3>2. MergeOf(c) # RemoveOf(c)
        BY DEF MergeOf, RemoveOf
      <3>3. \A i \in DOMAIN Pending : Pending[i] # MergeOf(c)
        BY <1>0, <3>1 DEF ClientInv, OneMerge, MergeIsLast, HeldIsKept, LeftIsRemoved
      <3>. QED
        BY <1>0, <3>1, <3>2, <3>3, PendingAppended, PendingType DEF ClientInv, OneMerge, MergeIsLast, HeldIsKept, LeftIsRemoved
    <2>2. CASE d # c
      <3>1. MergeOf(d) # MergeOf(c) /\ MergeOf(d) # RemoveOf(c) /\ MergeOf(d) \in Command
        BY <2>2, CommandType DEF MergeOf, RemoveOf
      <3>. QED
        BY <1>0, <1>2, <2>2, <3>1, ClientSend DEF CallMerge, MergeOf, TypeOK
    <2>. QED
      BY <2>1, <2>2
  <1>3. ASSUME NEW d \in Client, MergeFails(d)
        PROVE  ClientInv(c)'
    <2>1. Pending' = Pending /\ registered' = registered
      BY <1>3 DEF MergeFails, Pending
    <2>2. CASE d = c
      <3>1. client[c] = "merging" /\ client'[c] = "ready"
        BY <1>3, <2>2 DEF MergeFails, TypeOK
      <3>2. MergeOf(c) \notin ToSet(cmds) \cup ToSet(batch)
        BY <1>3, <2>2 DEF MergeFails, MergeOf
      <3>3. \A i \in DOMAIN Pending : Pending[i] # MergeOf(c)
        <4>1. /\ DOMAIN cmds = 1..Len(cmds) /\ DOMAIN batch = 1..Len(batch)
              /\ Len(cmds) \in Nat /\ Len(batch) \in Nat
          BY LenProperties DEF TypeOK
        <4>2. /\ DOMAIN Pending = 1..(Len(batch) + Len(cmds))
              /\ \A i \in 1..(Len(batch) + Len(cmds)) :
                    Pending[i] = IF i <= Len(batch) THEN batch[i] ELSE cmds[i - Len(batch)]
          BY ConcatProperties, PendingType DEF Pending, TypeOK
        <4>. QED
          BY <3>2, <4>1, <4>2 DEF ToSet
      <3>. QED
        BY <1>0, <2>1, <3>1, <3>3 DEF ClientInv, OneMerge, MergeIsLast, HeldIsKept, LeftIsRemoved
    <2>3. CASE d # c
      BY <1>0, <1>3, <2>1, <2>3, ClientSame DEF MergeFails, TypeOK
    <2>. QED
      BY <2>2, <2>3
  <1>4. ASSUME NEW d \in Client, DropHandle(d)
        PROVE  ClientInv(c)'
    <2>1. CASE d = c
      <3>1. /\ client[c] = "holding" /\ client'[c] = "ready" /\ registered' = registered
            /\ RemoveOf(c) \in Command /\ SendCmd(RemoveOf(c)) /\ batch' = batch
        BY <1>4, <2>1, CommandType DEF DropHandle, RemoveOf, TypeOK
      <3>2. MergeOf(c) # RemoveOf(c)
        BY DEF MergeOf, RemoveOf
      <3>3. \A i \in DOMAIN Pending : Pending[i] # MergeOf(c)
        BY <1>0, <3>1 DEF ClientInv, OneMerge, MergeIsLast, HeldIsKept, LeftIsRemoved
      <3>. QED
        BY <1>0, <3>1, <3>2, <3>3, PendingAppended, PendingType DEF ClientInv, OneMerge, MergeIsLast, HeldIsKept, LeftIsRemoved
    <2>2. CASE d # c
      <3>1. RemoveOf(d) # MergeOf(c) /\ RemoveOf(d) # RemoveOf(c) /\ RemoveOf(d) \in Command
        BY <2>2, CommandType DEF MergeOf, RemoveOf
      <3>. QED
        BY <1>0, <1>4, <2>2, <3>1, ClientSend DEF DropHandle, RemoveOf, TypeOK
    <2>. QED
      BY <2>1, <2>2
  <1>5. ASSUME NEW d \in Client, Shutdown(d)
        PROVE  ClientInv(c)'
    <2>1. /\ [op |-> "Shutdown"] \in Command
          /\ [op |-> "Shutdown"] # MergeOf(c) /\ [op |-> "Shutdown"] # RemoveOf(c)
      BY CommandType DEF MergeOf, RemoveOf
    <2>2. CASE d = c
      <3>1. client[c] = "ready" /\ client'[c] = "gone" /\ registered' = registered
        BY <1>5, <2>2 DEF Shutdown, TypeOK
      <3>2. \A i \in DOMAIN Pending : Pending[i] # MergeOf(c)
        BY <1>0, <3>1 DEF ClientInv, OneMerge, MergeIsLast, HeldIsKept, LeftIsRemoved
      <3>3. SendCmd([op |-> "Shutdown"]) /\ batch' = batch
        BY <1>5 DEF Shutdown
      <3>. QED
        BY <1>0, <2>1, <3>1, <3>2, <3>3, PendingAppended, PendingType DEF ClientInv, OneMerge, MergeIsLast, HeldIsKept, LeftIsRemoved
    <2>3. CASE d # c
      BY <1>0, <1>5, <2>1, <2>3, ClientSend DEF Shutdown, TypeOK
    <2>. QED
      BY <2>2, <2>3
  <1>6. ASSUME NEW d \in Client, Leave(d)
        PROVE  ClientInv(c)'
    <2>1. Pending' = Pending /\ registered' = registered
      BY <1>6 DEF Leave, Pending
    <2>2. CASE d = c
      <3>1. client[c] = "ready" /\ client'[c] = "gone"
        BY <1>6, <2>2 DEF Leave, TypeOK
      <3>. QED
        BY <1>0, <2>1, <3>1 DEF ClientInv, OneMerge, MergeIsLast, HeldIsKept, LeftIsRemoved
    <2>3. CASE d # c
      BY <1>0, <1>6, <2>1, <2>3, ClientSame DEF Leave, TypeOK
    <2>. QED
      BY <2>2, <2>3
  <1>7. ASSUME \/ SenderSend \/ BridgeForward
               \/ (\E t \in running : TaskDone(t)) \/ EndBatch \/ UNCHANGED vars
        PROVE  ClientInv(c)'
    <2>1. UNCHANGED <<cmds, batch, client, registered>>
      BY <1>7 DEF SenderSend, BridgeForward, TaskDone, EndBatch, vars
    <2>. QED
      BY <1>0, <2>1, ClientSame DEF Pending
  <1>8. ASSUME BridgeNotify \/ (\E t \in finished : TaskNotify(t))
        PROVE  ClientInv(c)'
    <2>1. PICK cmd \in {[op |-> "SourceReady"], [op |-> "AsyncComplete"]} :
            SendCmd(cmd) /\ UNCHANGED <<batch, client, registered>>
      BY <1>8 DEF BridgeNotify, TaskNotify
    <2>2. cmd \in Command /\ cmd # MergeOf(c) /\ cmd # RemoveOf(c)
      BY <2>1, CommandType DEF MergeOf, RemoveOf
    <2>. QED
      BY <1>0, <2>1, <2>2, ClientSend
  <1>9. ASSUME Recv
        PROVE  ClientInv(c)'
    BY <1>0, <1>9, PendingRecv, ClientSame DEF Recv
  <1>10. ASSUME Handle
         PROVE  ClientInv(c)'
    <2>. DEFINE cmd == Head(batch)
    <2>1. /\ cmd \in Command /\ cmd = Pending[1]
          /\ DOMAIN Pending' = 1..(Len(Pending) - 1) /\ 1 \in DOMAIN Pending
          /\ \A i \in 1..(Len(Pending) - 1) : Pending'[i] = Pending[i + 1]
          /\ \A i \in 1..(Len(Pending) - 1) : i + 1 \in DOMAIN Pending
      <3>1. Head(batch) \in Command
        BY <1>10, HeadTailProperties DEF Handle, TypeOK
      <3>2. DOMAIN Pending' = 1..Len(Pending') /\ Len(Pending) \in Nat \ {0}
        BY <1>10, PendingHandle, PendingType, LenProperties, EmptySeq
      <3>. QED
        BY <1>10, <3>1, <3>2, PendingHandle, PendingType
    <2>2. CASE cmd = MergeOf(c)
      <3>1. client'[c] = "holding" /\ c \in registered'
        BY <1>10, <2>2 DEF Handle, TypeOK, MergeOf
      <3>2. \A i \in DOMAIN Pending : Pending[i] # RemoveOf(c)
        <4>1. \A j \in DOMAIN Pending : Pending[j] = RemoveOf(c) => j < 1
          BY <1>0, <2>1, <2>2 DEF ClientInv, OneMerge, MergeIsLast, HeldIsKept, LeftIsRemoved
        <4>. QED
          BY <4>1, PendingType
      <3>3. \A i \in DOMAIN Pending : Pending[i] = MergeOf(c) => i = 1
        BY <1>0, <2>1, <2>2 DEF ClientInv, OneMerge, MergeIsLast, HeldIsKept, LeftIsRemoved
      <3>4. \A i \in DOMAIN Pending' : Pending'[i] # MergeOf(c) /\ Pending'[i] # RemoveOf(c)
        BY <2>1, <3>2, <3>3, PendingType
      <3>. QED
        BY <3>1, <3>4 DEF ClientInv, OneMerge, MergeIsLast, HeldIsKept, LeftIsRemoved
    <2>3. CASE cmd = RemoveOf(c)
      <3>1. client' = client /\ c \notin registered'
        BY <1>10, <2>3 DEF Handle, RemoveOf
      <3>2. client[c] # "holding"
        BY <1>0, <2>1, <2>3 DEF ClientInv, OneMerge, MergeIsLast, HeldIsKept, LeftIsRemoved
      <3>3. OneMerge(c)'
        BY <1>0, <2>1, <3>1, PendingType DEF ClientInv, OneMerge
      <3>4. MergeIsLast(c)'
        BY <1>0, <2>1, <3>1, PendingType DEF ClientInv, MergeIsLast
      <3>. QED
        BY <3>1, <3>2, <3>3, <3>4 DEF ClientInv, HeldIsKept, LeftIsRemoved
    <2>4. CASE cmd # MergeOf(c) /\ cmd # RemoveOf(c)
      <3>1. client'[c] = client[c] /\ (c \in registered' <=> c \in registered)
        <4>1. CASE cmd.op = "Merge"
          <5>1. cmd.from # c /\ cmd.from \in Client
            BY <2>1, <2>4, <4>1, CommandCases DEF MergeOf
          <5>. QED
            BY <1>10, <4>1, <5>1 DEF Handle, TypeOK
        <4>2. CASE cmd.op = "Remove"
          <5>1. cmd.from # c
            BY <2>1, <2>4, <4>2, CommandCases DEF RemoveOf
          <5>. QED
            BY <1>10, <4>2, <5>1 DEF Handle
        <4>3. CASE cmd.op \notin {"Merge", "Remove"}
          BY <1>10, <4>3 DEF Handle
        <4>. QED
          BY <4>1, <4>2, <4>3
      <3>2. \A i \in DOMAIN Pending : Pending[i] = RemoveOf(c) => i # 1
        BY <2>1, <2>4
      <3>3. ASSUME NEW i \in DOMAIN Pending, Pending[i] = RemoveOf(c)
            PROVE  i - 1 \in DOMAIN Pending' /\ Pending'[i - 1] = RemoveOf(c)
        BY <2>1, <3>2, <3>3, PendingType
      <3>4. OneMerge(c)'
        <4>1. \A i \in DOMAIN Pending' :
                 i \in Nat /\ i + 1 \in DOMAIN Pending /\ Pending[i + 1] = Pending'[i]
          BY <2>1, PendingType
        <4>2. OneMerge(c)
          BY <1>0 DEF ClientInv
        <4>. QED
          BY <4>1, <4>2 DEF OneMerge
      <3>5. MergeIsLast(c)'
        <4>. SUFFICES ASSUME NEW i \in DOMAIN Pending', Pending'[i] = MergeOf(c)
                      PROVE  /\ client'[c] = "merging"
                             /\ \A j \in DOMAIN Pending' : Pending'[j] = RemoveOf(c) => j < i
          BY DEF MergeIsLast
        <4>1. /\ i \in Nat /\ i + 1 \in DOMAIN Pending /\ Pending[i + 1] = MergeOf(c)
              /\ \A j \in DOMAIN Pending' :
                    j \in Nat /\ j + 1 \in DOMAIN Pending /\ Pending[j + 1] = Pending'[j]
          BY <2>1, PendingType
        <4>2. /\ client[c] = "merging"
              /\ \A j \in DOMAIN Pending : Pending[j] = RemoveOf(c) => j < i + 1
          BY <1>0, <4>1 DEF ClientInv, MergeIsLast
        <4>3. \A j \in DOMAIN Pending' : Pending'[j] = RemoveOf(c) => j + 1 < i + 1
          BY <4>1, <4>2
        <4>. QED
          BY <3>1, <4>1, <4>2, <4>3
      <3>6. HeldIsKept(c)'
        BY <1>0, <2>1, <3>1, PendingType DEF ClientInv, HeldIsKept
      <3>7. LeftIsRemoved(c)'
        BY <1>0, <2>1, <3>1, <3>3, PendingType DEF ClientInv, LeftIsRemoved
      <3>. QED
        BY <3>4, <3>5, <3>6, <3>7 DEF ClientInv
    <2>. QED
      BY <2>2, <2>3, <2>4
  <1>11. ~Stop /\ ~Panic
    BY DEF Stop, Panic
  <1>. QED
    BY <1>1, <1>2, <1>3, <1>4, <1>5, <1>6, <1>7, <1>8, <1>9, <1>10, <1>11
       DEF Next, BridgeStep, TaskStep, LoopStep

\* While the loop runs, a client that holds a handle has its subgraph in the engine,
\* and the subgraph of one that does not is gone or has its Remove on the way, for
\* any number of clients merging, dropping and merging again.
THEOREM EventLoopHandles == Spec => []HandleMatchesRegistry
  <1>1. Init => RegistryInv
    <2>. SUFFICES ASSUME Init, NEW c \in Client
                  PROVE  ClientInv(c)
      BY DEF RegistryInv
    <2>1. Pending = <<>>
      BY EmptySeq, ConcatEmptySeq DEF Init, Pending
    <2>2. client[c] = "ready" /\ registered = {}
      BY DEF Init
    <2>. QED
      BY <2>1, <2>2 DEF ClientInv, OneMerge, MergeIsLast, HeldIsKept, LeftIsRemoved
  <1>2. TypeOK /\ RegistryInv => HandleMatchesRegistry
    <2>. SUFFICES ASSUME TypeOK, RegistryInv, NEW c \in Client, pc # "stopped",
                         c \in registered, client[c] # "holding"
                  PROVE  RemoveOf(c) \in ToSet(cmds) \cup ToSet(batch)
      BY DEF HandleMatchesRegistry, RegistryInv, ClientInv, HeldIsKept, LeftIsRemoved, RemoveOf
    <2>1. PICK i \in DOMAIN Pending : Pending[i] = RemoveOf(c)
      BY DEF RegistryInv, ClientInv, OneMerge, MergeIsLast, HeldIsKept, LeftIsRemoved
    <2>2. /\ DOMAIN cmds = 1..Len(cmds) /\ DOMAIN batch = 1..Len(batch)
          /\ Len(cmds) \in Nat /\ Len(batch) \in Nat
      BY LenProperties DEF TypeOK
    <2>3. /\ DOMAIN Pending = 1..(Len(batch) + Len(cmds))
          /\ Pending[i] = IF i <= Len(batch) THEN batch[i] ELSE cmds[i - Len(batch)]
      <3>1. batch \in Seq(Command) /\ cmds \in Seq(Command)
        BY DEF TypeOK
      <3>2. /\ Len(batch \o cmds) = Len(batch) + Len(cmds)
            /\ \A j \in 1..(Len(batch) + Len(cmds)) :
                  (batch \o cmds)[j] = IF j <= Len(batch) THEN batch[j] ELSE cmds[j - Len(batch)]
        BY <3>1, ConcatProperties
      <3>3. DOMAIN Pending = 1..(Len(batch) + Len(cmds))
        BY <3>2, PendingType DEF Pending
      <3>. QED
        BY <2>1, <3>2, <3>3 DEF Pending
    <2>. QED
      BY <2>1, <2>2, <2>3 DEF ToSet
  <1>. QED
    BY <1>1, <1>2, RegistryStep, EventLoopTypes, BatchEmpty, PTL DEF Spec

-----------------------------------------------------------------------------
(* Values reach the store in order                                          *)

\* The values of origin o in s are in increasing order.
InOrder(o, s) ==
    \A i, j \in DOMAIN s : i < j /\ s[i][1] = o /\ s[j][1] = o => s[i][2] < s[j][2]

\* Those in s come before those in t.
Before(o, s, t) ==
    \A v \in ToSet(s), w \in ToSet(t) : v[1] = o /\ w[1] = o => v[2] < w[2]

\* The values 1..n of origin o on their way through x and rx to the store st: each
\* is in one of the three, and they are in order within each and from one to the next.
Flow(o, st, rx, x, n) ==
    /\ InOrder(o, st) /\ InOrder(o, rx) /\ InOrder(o, x)
    /\ Before(o, st, rx) /\ Before(o, st, x) /\ Before(o, rx, x)
    /\ \A v \in ToSet(st) \cup ToSet(rx) \cup ToSet(x) : v[1] = o => v[2] <= n
    /\ \A k \in 1..n : <<o, k>> \in ToSet(st) \cup ToSet(rx) \cup ToSet(x)

\* The elements of sequences made with the usual operators.
LEMMA ElementsOf ==
    ASSUME NEW s \in Seq(Value)
    PROVE  /\ ToSet(s) \subseteq Value
           /\ \A v \in Value : ToSet(Append(s, v)) = ToSet(s) \cup {v}
           /\ s # <<>> => ToSet(s) = {Head(s)} \cup ToSet(Tail(s))
  <1>1. DOMAIN s = 1..Len(s) /\ Len(s) \in Nat /\ \A i \in DOMAIN s : s[i] \in Value
    BY LenProperties, ElementOfSeq
  <1>2. ToSet(s) \subseteq Value
    BY <1>1 DEF ToSet
  <1>3. ASSUME NEW v \in Value
        PROVE  ToSet(Append(s, v)) = ToSet(s) \cup {v}
    <2>1. /\ DOMAIN Append(s, v) = 1..(Len(s) + 1)
          /\ \A i \in 1..Len(s) : Append(s, v)[i] = s[i]
          /\ Append(s, v)[Len(s) + 1] = v
      BY AppendProperties, LenProperties
    <2>2. \A w \in ToSet(Append(s, v)) : w \in ToSet(s) \cup {v}
      BY <1>1, <2>1 DEF ToSet
    <2>3. \A w \in ToSet(s) \cup {v} : w \in ToSet(Append(s, v))
      BY <1>1, <2>1 DEF ToSet
    <2>. QED
      BY <2>2, <2>3
  <1>4. ASSUME s # <<>>
        PROVE  ToSet(s) = {Head(s)} \cup ToSet(Tail(s))
    <2>1. /\ DOMAIN Tail(s) = 1..(Len(s) - 1) /\ Len(s) \in Nat \ {0}
          /\ \A i \in 1..(Len(s) - 1) : Tail(s)[i] = s[i + 1]
          /\ Head(s) = s[1]
      BY <1>4, HeadTailProperties, LenProperties, EmptySeq
    <2>2. \A w \in ToSet(s) : w \in {Head(s)} \cup ToSet(Tail(s))
      <3>1. ASSUME NEW i \in DOMAIN s, i # 1
            PROVE  i - 1 \in DOMAIN Tail(s) /\ s[i] = Tail(s)[i - 1]
        BY <1>1, <2>1, <3>1
      <3>2. ASSUME NEW i \in DOMAIN s
            PROVE  s[i] \in {Head(s)} \cup ToSet(Tail(s))
        BY <2>1, <3>1 DEF ToSet
      <3>. QED
        BY <3>2 DEF ToSet
    <2>3. \A w \in {Head(s)} \cup ToSet(Tail(s)) : w \in ToSet(s)
      BY <1>1, <2>1 DEF ToSet
    <2>. QED
      BY <2>2, <2>3
  <1>. QED
    BY <1>2, <1>3, <1>4

\* ... and of a concatenation.
LEMMA ElementsOfConcat ==
    ASSUME NEW s \in Seq(Value), NEW t \in Seq(Value)
    PROVE  ToSet(s \o t) = ToSet(s) \cup ToSet(t)
  <1>1. /\ DOMAIN s = 1..Len(s) /\ Len(s) \in Nat
        /\ DOMAIN t = 1..Len(t) /\ Len(t) \in Nat
        /\ DOMAIN (s \o t) = 1..(Len(s) + Len(t))
        /\ \A i \in 1..(Len(s) + Len(t)) :
              (s \o t)[i] = IF i <= Len(s) THEN s[i] ELSE t[i - Len(s)]
    BY LenProperties, ConcatProperties
  <1>2. \A w \in ToSet(s \o t) : w \in ToSet(s) \cup ToSet(t)
    BY <1>1 DEF ToSet
  <1>3. \A w \in ToSet(s) : w \in ToSet(s \o t)
    BY <1>1 DEF ToSet
  <1>4. \A w \in ToSet(t) : w \in ToSet(s \o t)
    <2>1. ASSUME NEW i \in DOMAIN t
          PROVE  i + Len(s) \in DOMAIN (s \o t) /\ t[i] = (s \o t)[i + Len(s)]
      BY <1>1
    <2>. QED
      BY <2>1 DEF ToSet
  <1>. QED
    BY <1>2, <1>3, <1>4

\* A value at the end keeps the order when those before it are smaller.
LEMMA InOrderAppend ==
    ASSUME NEW o, NEW s \in Seq(Value), NEW v \in Value, InOrder(o, s),
           v[1] = o => \A w \in ToSet(s) : w[1] = o => w[2] < v[2]
    PROVE  InOrder(o, Append(s, v))
  <1>1. /\ DOMAIN Append(s, v) = 1..(Len(s) + 1) /\ DOMAIN s = 1..Len(s)
        /\ Len(s) \in Nat
        /\ \A i \in 1..Len(s) : Append(s, v)[i] = s[i]
        /\ Append(s, v)[Len(s) + 1] = v
    BY AppendProperties, LenProperties
  <1>. QED
    BY <1>1 DEF InOrder, ToSet

\* What is left after the first value keeps the order, and comes after it.
LEMMA InOrderTail ==
    ASSUME NEW o, NEW s \in Seq(Value), s # <<>>, InOrder(o, s)
    PROVE  /\ InOrder(o, Tail(s))
           /\ Head(s)[1] = o => \A w \in ToSet(Tail(s)) : w[1] = o => Head(s)[2] < w[2]
  <1>1. /\ DOMAIN Tail(s) = 1..(Len(s) - 1) /\ Len(s) \in Nat \ {0}
        /\ \A i \in 1..(Len(s) - 1) : Tail(s)[i] = s[i + 1]
        /\ Head(s) = s[1] /\ DOMAIN s = 1..Len(s)
    BY HeadTailProperties, LenProperties, EmptySeq
  <1>2. \A i \in DOMAIN Tail(s) : i \in Nat /\ i + 1 \in DOMAIN s /\ 1 < i + 1
    BY <1>1
  <1>3. InOrder(o, Tail(s))
    BY <1>1, <1>2 DEF InOrder
  <1>4. ASSUME Head(s)[1] = o, NEW w \in ToSet(Tail(s)), w[1] = o
        PROVE  Head(s)[2] < w[2]
    <2>1. PICK i \in DOMAIN Tail(s) : w = Tail(s)[i]
      BY <1>4 DEF ToSet
    <2>2. w = s[i + 1] /\ 1 \in DOMAIN s
      BY <1>1, <2>1
    <2>. QED
      BY <1>1, <1>2, <1>4, <2>1, <2>2 DEF InOrder
  <1>. QED
    BY <1>3, <1>4

\* Sequences in order, one before the other, are in order together.
LEMMA InOrderConcat ==
    ASSUME NEW o, NEW s \in Seq(Value), NEW t \in Seq(Value),
           InOrder(o, s), InOrder(o, t), Before(o, s, t)
    PROVE  InOrder(o, s \o t)
  <1>1. /\ DOMAIN s = 1..Len(s) /\ Len(s) \in Nat
        /\ DOMAIN t = 1..Len(t) /\ Len(t) \in Nat
        /\ DOMAIN (s \o t) = 1..(Len(s) + Len(t))
        /\ \A i \in 1..(Len(s) + Len(t)) :
              (s \o t)[i] = IF i <= Len(s) THEN s[i] ELSE t[i - Len(s)]
    BY LenProperties, ConcatProperties
  <1>2. SUFFICES ASSUME NEW i \in DOMAIN (s \o t), NEW j \in DOMAIN (s \o t), i < j,
                        (s \o t)[i][1] = o, (s \o t)[j][1] = o
                 PROVE  (s \o t)[i][2] < (s \o t)[j][2]
    BY DEF InOrder
  <1>3. CASE j <= Len(s)
    BY <1>1, <1>2, <1>3 DEF InOrder
  <1>4. CASE i > Len(s)
    <2>1. i - Len(s) \in DOMAIN t /\ j - Len(s) \in DOMAIN t /\ i - Len(s) < j - Len(s)
      BY <1>1, <1>2, <1>4
    <2>. QED
      BY <1>1, <1>2, <1>4, <2>1 DEF InOrder
  <1>5. CASE i <= Len(s) /\ j > Len(s)
    <2>1. (s \o t)[i] \in ToSet(s) /\ (s \o t)[j] \in ToSet(t)
      BY <1>1, <1>2, <1>5 DEF ToSet
    <2>. QED
      BY <1>2, <2>1 DEF Before
  <1>. QED
    BY <1>1, <1>3, <1>4, <1>5

\* The flow of an origin: a value is sent ...
LEMMA FlowSend ==
    ASSUME NEW o \in {"sender", "update"}, NEW st \in Seq(Value), NEW rx \in Seq(Value),
           NEW x \in Seq(Value), NEW n \in Nat, Flow(o, st, rx, x, n)
    PROVE  Flow(o, st, rx, Append(x, <<o, n + 1>>), n + 1)
  <1>. DEFINE v == <<o, n + 1>>
              y == Append(x, v)
  <1>1. v \in Value /\ v[1] = o /\ v[2] = n + 1
    BY DEF Value
  <1>2. ToSet(y) = ToSet(x) \cup {v}
    BY <1>1, ElementsOf
  <1>3. ToSet(st) \subseteq Value /\ ToSet(rx) \subseteq Value /\ ToSet(x) \subseteq Value
    BY ElementsOf
  <1>4. \A w \in ToSet(st) \cup ToSet(rx) \cup ToSet(x) : w[1] = o => w[2] \in Nat /\ w[2] <= n
    BY <1>3 DEF Flow, Value
  <1>5. InOrder(o, y)
    <2>1. \A w \in ToSet(x) : w[1] = o => w[2] < v[2]
      BY <1>1, <1>4
    <2>. QED
      BY <1>1, <2>1, InOrderAppend DEF Flow
  <1>6. Before(o, st, y) /\ Before(o, rx, y)
    <2>1. \A w \in ToSet(st) \cup ToSet(rx) : w[1] = o => w[2] < v[2]
      BY <1>1, <1>4
    <2>. QED
      BY <1>2, <2>1 DEF Flow, Before
  <1>7. \A w \in ToSet(st) \cup ToSet(rx) \cup ToSet(y) : w[1] = o => w[2] <= n + 1
    <2>1. \A k \in Nat : k <= n => k <= n + 1
      OBVIOUS
    <2>2. \A w \in ToSet(st) \cup ToSet(rx) \cup ToSet(x) : w[1] = o => w[2] <= n + 1
      BY <1>4, <2>1
    <2>3. v[2] <= n + 1
      BY <1>1
    <2>. QED
      BY <1>2, <2>2, <2>3
  <1>8. \A k \in 1..(n + 1) : <<o, k>> \in ToSet(st) \cup ToSet(rx) \cup ToSet(y)
    <2>1. \A k \in 1..(n + 1) : k \in 1..n \/ k = n + 1
      OBVIOUS
    <2>2. \A k \in 1..n : <<o, k>> \in ToSet(st) \cup ToSet(rx) \cup ToSet(x)
      BY DEF Flow
    <2>. QED
      BY <1>2, <2>1, <2>2
  <1>. QED
    BY <1>5, <1>6, <1>7, <1>8 DEF Flow

\* ... something else is queued behind it ...
LEMMA FlowQueueOther ==
    ASSUME NEW o \in {"sender", "update"}, NEW st \in Seq(Value), NEW rx \in Seq(Value),
           NEW x \in Seq(Value), NEW n \in Nat, Flow(o, st, rx, x, n),
           NEW v \in Value, v[1] # o
    PROVE  Flow(o, st, rx, Append(x, v), n)
  <1>1. ToSet(Append(x, v)) = ToSet(x) \cup {v}
    BY ElementsOf
  <1>2. InOrder(o, Append(x, v))
    BY InOrderAppend DEF Flow
  <1>. QED
    BY <1>1, <1>2 DEF Flow, Before

\* ... or leaves the queue ...
LEMMA FlowUnqueueOther ==
    ASSUME NEW o \in {"sender", "update"}, NEW st \in Seq(Value), NEW rx \in Seq(Value),
           NEW x \in Seq(Value), NEW n \in Nat, Flow(o, st, rx, x, n),
           x # <<>>, Head(x)[1] # o
    PROVE  Flow(o, st, rx, Tail(x), n)
  <1>1. ToSet(x) = {Head(x)} \cup ToSet(Tail(x))
    BY ElementsOf
  <1>2. InOrder(o, Tail(x))
    BY InOrderTail DEF Flow
  <1>3. \A k : <<o, k>> # Head(x)
    OBVIOUS
  <1>. QED
    BY <1>1, <1>2, <1>3 DEF Flow, Before

\* ... the first value moves on to the channel of the next cycle ...
LEMMA FlowForward ==
    ASSUME NEW o \in {"sender", "update"}, NEW st \in Seq(Value), NEW rx \in Seq(Value),
           NEW x \in Seq(Value), NEW n \in Nat, Flow(o, st, rx, x, n), x # <<>>
    PROVE  Flow(o, st, Append(rx, Head(x)), Tail(x), n)
  <1>. DEFINE v == Head(x)
              ry == Append(rx, v)
  <1>1. ToSet(x) = {v} \cup ToSet(Tail(x)) /\ v \in Value
    BY ElementsOf, HeadTailProperties
  <1>2. ToSet(ry) = ToSet(rx) \cup {v}
    BY <1>1, ElementsOf
  <1>3. /\ InOrder(o, Tail(x))
        /\ v[1] = o => \A w \in ToSet(Tail(x)) : w[1] = o => v[2] < w[2]
    BY InOrderTail DEF Flow
  <1>4. InOrder(o, ry)
    <2>1. v[1] = o => \A w \in ToSet(rx) : w[1] = o => w[2] < v[2]
      BY <1>1 DEF Flow, Before
    <2>. QED
      BY <1>1, <2>1, InOrderAppend DEF Flow
  <1>5. Before(o, st, ry) /\ Before(o, st, Tail(x)) /\ Before(o, ry, Tail(x))
    BY <1>1, <1>2, <1>3 DEF Flow, Before
  <1>6. ToSet(ry) \cup ToSet(Tail(x)) = ToSet(rx) \cup ToSet(x)
    BY <1>1, <1>2
  <1>. QED
    BY <1>3, <1>4, <1>5, <1>6 DEF Flow

\* ... where a value of another origin may be put as well ...
LEMMA FlowReceiveOther ==
    ASSUME NEW o \in {"sender", "update"}, NEW st \in Seq(Value), NEW rx \in Seq(Value),
           NEW x \in Seq(Value), NEW n \in Nat, Flow(o, st, rx, x, n),
           NEW v \in Value, v[1] # o
    PROVE  Flow(o, st, Append(rx, v), x, n)
  <1>1. ToSet(Append(rx, v)) = ToSet(rx) \cup {v}
    BY ElementsOf
  <1>2. InOrder(o, Append(rx, v))
    BY InOrderAppend DEF Flow
  <1>. QED
    BY <1>1, <1>2 DEF Flow, Before

\* ... and a cycle writes them all to the store, with other values y after them.
LEMMA FlowCycle ==
    ASSUME NEW o \in {"sender", "update"}, NEW st \in Seq(Value), NEW rx \in Seq(Value),
           NEW x \in Seq(Value), NEW n \in Nat, Flow(o, st, rx, x, n),
           NEW y \in Seq(Value), \A v \in ToSet(y) : v[1] # o
    PROVE  Flow(o, st \o rx \o y, <<>>, x, n)
  <1>1. st \o rx \in Seq(Value)
    BY ConcatProperties
  <1>2. ToSet(st \o rx \o y) = ToSet(st) \cup ToSet(rx) \cup ToSet(y)
    BY <1>1, ElementsOfConcat
  <1>3. InOrder(o, st \o rx \o y)
    <2>1. InOrder(o, st \o rx)
      BY InOrderConcat DEF Flow
    <2>2. InOrder(o, y)
      BY DEF InOrder, ToSet
    <2>3. Before(o, st \o rx, y)
      BY DEF Before
    <2>. QED
      BY <1>1, <2>1, <2>2, <2>3, InOrderConcat
  <1>4. ToSet(<<>>) = {} /\ InOrder(o, <<>>)
    BY DEF ToSet, InOrder
  <1>. QED
    BY <1>2, <1>3, <1>4 DEF Flow, Before

\* An origin's values in the store of its flow are the first ones sent, in order.
LEMMA FlowOrigin ==
    ASSUME NEW o \in {"sender", "update"}, NEW st \in Seq(Value), NEW rx \in Seq(Value),
           NEW x \in Seq(Value), NEW n \in Nat, Flow(o, st, rx, x, n),
           NEW i \in DOMAIN st, st[i][1] = o
    PROVE  /\ \A j \in 1..(i - 1) : st[j][1] = o => st[j][2] < st[i][2]
           /\ \A k \in 1..st[i][2] : <<o, k>> \in ToSet(st)
  <1>1. DOMAIN st = 1..Len(st) /\ Len(st) \in Nat
    BY LenProperties
  <1>2. ASSUME NEW j \in 1..(i - 1), st[j][1] = o
        PROVE  st[j][2] < st[i][2]
    <2>1. j \in DOMAIN st /\ j < i
      BY <1>1
    <2>2. InOrder(o, st)
      BY DEF Flow
    <2>. QED
      BY <1>2, <2>1, <2>2 DEF InOrder
  <1>3. ASSUME NEW k \in 1..st[i][2]
        PROVE  <<o, k>> \in ToSet(st)
    <2>1. st[i] \in ToSet(st) /\ st[i] \in Value
      BY ElementsOf DEF ToSet
    <2>2. st[i][2] \in Nat /\ st[i][2] <= n
      BY <2>1 DEF Flow, Value
    <2>3. <<o, k>> \in ToSet(st) \cup ToSet(rx) \cup ToSet(x)
      BY <2>2 DEF Flow
    <2>4. \A w \in ToSet(rx) \cup ToSet(x) : w[1] = o => st[i][2] < w[2]
      BY <2>1 DEF Flow, Before
    <2>5. <<o, k>> \notin ToSet(rx) \cup ToSet(x)
      BY <2>2, <2>4
    <2>. QED
      BY <2>3, <2>5
  <1>. QED
    BY <1>2, <1>3

\* What a command carries to the channel of the next cycle; "task" stands for nothing.
Carried(cmd) == IF cmd.op = "SourceUpdate" THEN <<"update", cmd.value>> ELSE <<"task", 1>>
Carry(s) == [i \in DOMAIN s |-> Carried(s[i])]

\* What is carried is a value.
LEMMA CarriedType ==
    ASSUME NEW cmd \in Command
    PROVE  Carried(cmd) \in Value
  <1>1. CASE cmd.op = "SourceUpdate"
    BY <1>1, CommandCases DEF Carried, Value
  <1>2. CASE cmd.op # "SourceUpdate"
    BY <1>2 DEF Carried, Value
  <1>. QED
    BY <1>1, <1>2

\* What a sequence of commands carries is a sequence of values, as long.
LEMMA CarryType ==
    ASSUME NEW s \in Seq(Command)
    PROVE  Carry(s) \in Seq(Value) /\ Len(Carry(s)) = Len(s)
  <1>1. DOMAIN s = 1..Len(s) /\ Len(s) \in Nat /\ \A i \in DOMAIN s : s[i] \in Command
    BY LenProperties, ElementOfSeq
  <1>2. \A cmd \in Command : Carried(cmd) \in Value
    BY CarriedType
  <1>3. Carry(s) \in [1..Len(s) -> Value]
    BY <1>1, <1>2 DEF Carry
  <1>. QED
    BY <1>1, <1>3, SeqDef

\* A sent command adds what it carries at their end.
LEMMA CarrySend ==
    ASSUME TypeOK, NEW c \in Command, SendCmd(c), pc # "stopped", batch' = batch
    PROVE  Carry(Pending)' = Append(Carry(Pending), Carried(c))
  <1>1. Pending \in Seq(Command) /\ Pending' = Append(Pending, c) /\ Len(Pending) \in Nat
    BY PendingType, PendingSend
  <1>2. /\ Pending' \in Seq(Command) /\ Len(Pending') = Len(Pending) + 1
        /\ \A i \in 1..Len(Pending) : Pending'[i] = Pending[i]
        /\ Pending'[Len(Pending) + 1] = c
    BY <1>1, AppendProperties
  <1>3. /\ Carry(Pending) \in Seq(Value) /\ Len(Carry(Pending)) = Len(Pending)
        /\ Carry(Pending') \in Seq(Value) /\ Len(Carry(Pending')) = Len(Pending')
        /\ Carried(c) \in Value
    BY <1>1, <1>2, CarryType, CarriedType
  <1>4. /\ Append(Carry(Pending), Carried(c)) \in Seq(Value)
        /\ Len(Append(Carry(Pending), Carried(c))) = Len(Pending) + 1
        /\ \A i \in 1..Len(Pending) : Append(Carry(Pending), Carried(c))[i] = Carry(Pending)[i]
        /\ Append(Carry(Pending), Carried(c))[Len(Pending) + 1] = Carried(c)
    BY <1>3, AppendProperties
  <1>5. /\ \A i \in 1..Len(Pending) : Carry(Pending)[i] = Carried(Pending[i])
        /\ \A i \in 1..Len(Pending') : Carry(Pending')[i] = Carried(Pending'[i])
    BY <1>1, <1>2, LenProperties DEF Carry
  <1>6. \A i \in 1..Len(Pending') :
          Carry(Pending')[i] = Append(Carry(Pending), Carried(c))[i]
    BY <1>1, <1>2, <1>4, <1>5
  <1>. QED
    BY <1>2, <1>3, <1>4, <1>6, SeqEqual DEF Carry

\* A handled command takes what it carries from their front.
LEMMA CarryHandle ==
    ASSUME TypeOK, Handle
    PROVE  /\ Carry(Pending) # <<>>
           /\ Head(Carry(Pending)) = Carried(Head(batch))
           /\ Carry(Pending)' = Tail(Carry(Pending))
  <1>1. /\ Pending \in Seq(Command) /\ Pending' \in Seq(Command) /\ Len(Pending) \in Nat \ {0}
        /\ Len(Pending') = Len(Pending) - 1
        /\ \A i \in 1..Len(Pending') : Pending'[i] = Pending[i + 1]
        /\ Head(batch) = Pending[1]
    BY PendingType, PendingHandle, EmptySeq
  <1>2. /\ Carry(Pending) \in Seq(Value) /\ Len(Carry(Pending)) = Len(Pending)
        /\ Carry(Pending') \in Seq(Value) /\ Len(Carry(Pending')) = Len(Pending')
    BY <1>1, CarryType
  <1>3. /\ \A i \in 1..Len(Pending) : Carry(Pending)[i] = Carried(Pending[i])
        /\ \A i \in 1..Len(Pending') : Carry(Pending')[i] = Carried(Pending'[i])
    BY <1>1, LenProperties DEF Carry
  <1>4. Carry(Pending) # <<>>
    BY <1>1, <1>2, EmptySeq
  <1>5. /\ Tail(Carry(Pending)) \in Seq(Value)
        /\ Len(Tail(Carry(Pending))) = Len(Pending) - 1
        /\ \A i \in 1..(Len(Pending) - 1) : Tail(Carry(Pending))[i] = Carry(Pending)[i + 1]
    BY <1>2, <1>4, HeadTailProperties
  <1>6. ASSUME NEW i \in 1..Len(Pending')
        PROVE  Carry(Pending')[i] = Tail(Carry(Pending))[i]
    <2>1. i \in 1..(Len(Pending) - 1) /\ i + 1 \in 1..Len(Pending)
      BY <1>1
    <2>2. Carry(Pending')[i] = Carried(Pending'[i]) /\ Pending'[i] = Pending[i + 1]
      BY <1>1, <1>3
    <2>3. Tail(Carry(Pending))[i] = Carried(Pending[i + 1])
      BY <1>3, <1>5, <2>1
    <2>. QED
      BY <2>2, <2>3
  <1>7. Carry(Pending') = Tail(Carry(Pending))
    BY <1>1, <1>2, <1>5, <1>6, SeqEqual
  <1>8. Head(Carry(Pending)) = Carried(Head(batch))
    BY <1>1, <1>2, <1>3, <1>4
  <1>. QED
    BY <1>4, <1>7, <1>8 DEF Carry

\* Why OriginOrder holds: while the loop runs the values of both origins flow to the
\* store, from a Sender through the bridge and from update_source through the commands,
\* and nothing else comes the same way.
FlowInv ==
    /\ pc # "stopped" =>
          /\ Flow("sender", store, source_rx, bridge, sent)
          /\ Flow("update", store, source_rx, Carry(Pending), updates)
          /\ \A v \in ToSet(bridge) : v[1] = "sender"
          /\ \A v \in ToSet(result_rx) : v[1] = "task"
    /\ OriginOrder

\* The flows of a running loop put the store in order.
LEMMA FlowsOrder ==
    ASSUME NEW st \in Seq(Value), NEW rx \in Seq(Value),
           NEW x \in Seq(Value), NEW n \in Nat, Flow("sender", st, rx, x, n),
           NEW y \in Seq(Value), NEW m \in Nat, Flow("update", st, rx, y, m),
           NEW i \in DOMAIN st, st[i][1] \in {"sender", "update"}
    PROVE  /\ \A j \in 1..(i - 1) : st[j][1] = st[i][1] => st[j][2] < st[i][2]
           /\ \A k \in 1..st[i][2] : <<st[i][1], k>> \in ToSet(st)
  <1>1. CASE st[i][1] = "sender"
    BY <1>1, FlowOrigin
  <1>2. CASE st[i][1] = "update"
    BY <1>2, FlowOrigin
  <1>. QED
    BY <1>1, <1>2

\* FlowInv is preserved by every step.
LEMMA FlowStep ==
    ASSUME TypeOK, TypeOK', BatchInv, FlowInv, [Next]_vars
    PROVE  FlowInv'
  <1>. USE DEF loop, async
  <1>. DEFINE Sender == Flow("sender", store, source_rx, bridge, sent)
              Update == Flow("update", store, source_rx, Carry(Pending), updates)
              Bridge == \A v \in ToSet(bridge) : v[1] = "sender"
              Result == \A v \in ToSet(result_rx) : v[1] = "task"
  <1>0. /\ store \in Seq(Value) /\ source_rx \in Seq(Value) /\ bridge \in Seq(Value)
        /\ result_rx \in Seq(Value) /\ Carry(Pending) \in Seq(Value)
        /\ sent \in Nat /\ updates \in Nat
    <2>1. Carry(Pending) \in Seq(Value)
      BY PendingType, CarryType
    <2>2. sent \in 0..MaxValues /\ updates \in 0..MaxValues
      BY DEF TypeOK
    <2>3. sent \in Nat /\ updates \in Nat
      BY <2>2, MaxAssumption
    <2>. QED
      BY <2>1, <2>3 DEF TypeOK
  <1>. SUFFICES ASSUME pc # "stopped"
                 PROVE  /\ OriginOrder'
                        /\ pc' # "stopped" => Sender' /\ Update' /\ Bridge' /\ Result'
    <2>1. ASSUME pc = "stopped"
          PROVE  pc' = "stopped" /\ store' = store
      BY <2>1 DEF vars, Next, UpdateSource, CallMerge, MergeFails, DropHandle,
           Shutdown, Leave, SenderSend, BridgeStep, BridgeForward, BridgeNotify, TaskStep,
           TaskDone, TaskNotify, LoopStep, Recv, Handle, EndBatch, Stop, Panic
    <2>. QED
      BY <2>1 DEF FlowInv, OriginOrder
  <1>i. Sender /\ Update /\ Bridge /\ Result /\ OriginOrder
    BY DEF FlowInv
  <1>o. ASSUME store' = store
        PROVE  OriginOrder'
    BY <1>o, <1>i DEF OriginOrder
  <1>1. ASSUME NEW c \in Client, UpdateSource(c)
        PROVE  OriginOrder' /\ Sender' /\ Update' /\ Bridge' /\ Result'
    <2>. DEFINE cmd == [op |-> "SourceUpdate", value |-> updates']
    <2>1. /\ cmd \in Command /\ SendCmd(cmd) /\ updates' = updates + 1
          /\ UNCHANGED <<batch, store, source_rx, bridge, result_rx, sent>>
      BY <1>0, <1>1, CommandType DEF UpdateSource
    <2>2. Carried(cmd) = <<"update", updates + 1>>
      BY <2>1 DEF Carried
    <2>3. Carry(Pending)' = Append(Carry(Pending), <<"update", updates + 1>>)
      <3>. HIDE DEF cmd
      <3>. QED
        BY <2>1, <2>2, CarrySend
    <2>4. Update'
      BY <1>0, <1>i, <2>1, <2>3, FlowSend
    <2>. QED
      BY <1>i, <1>o, <2>1, <2>4
  <1>2. ASSUME NEW cmd \in Command, cmd.op # "SourceUpdate", SendCmd(cmd),
               UNCHANGED <<batch, store, source_rx, bridge, result_rx, sent, updates>>
        PROVE  OriginOrder' /\ Sender' /\ Update' /\ Bridge' /\ Result'
    <2>1. Carried(cmd) = <<"task", 1>> /\ <<"task", 1>> \in Value
      BY <1>2 DEF Carried, Value
    <2>2. Carry(Pending)' = Append(Carry(Pending), <<"task", 1>>)
      BY <1>2, <2>1, CarrySend
    <2>3. <<"task", 1>>[1] # "update"
      OBVIOUS
    <2>4. Update'
      BY <1>0, <1>2, <1>i, <2>1, <2>2, <2>3, FlowQueueOther
    <2>. QED
      BY <1>i, <1>o, <1>2, <2>4
  <1>3. ASSUME NEW c \in Client, CallMerge(c) \/ DropHandle(c) \/ Shutdown(c)
        PROVE  OriginOrder' /\ Sender' /\ Update' /\ Bridge' /\ Result'
    <2>1. PICK cmd \in {[op |-> "Merge", from |-> c], [op |-> "Remove", from |-> c],
                         [op |-> "Shutdown"]} :
            /\ SendCmd(cmd)
            /\ UNCHANGED <<batch, store, source_rx, bridge, result_rx, sent, updates>>
      BY <1>3 DEF CallMerge, DropHandle, Shutdown
    <2>2. cmd \in Command /\ cmd.op # "SourceUpdate"
      <3>1. \A d \in {[op |-> "Merge", from |-> c], [op |-> "Remove", from |-> c],
                       [op |-> "Shutdown"]} : d.op # "SourceUpdate"
        OBVIOUS
      <3>. QED
        BY <2>1, <3>1, CommandType
    <2>. QED
      BY <1>2, <2>1, <2>2
  <1>4. ASSUME BridgeNotify \/ (\E t \in finished : TaskNotify(t))
        PROVE  OriginOrder' /\ Sender' /\ Update' /\ Bridge' /\ Result'
    <2>1. PICK cmd \in {[op |-> "SourceReady"], [op |-> "AsyncComplete"]} :
            /\ SendCmd(cmd)
            /\ UNCHANGED <<batch, store, source_rx, bridge, result_rx, sent, updates>>
      BY <1>4 DEF BridgeNotify, TaskNotify
    <2>2. cmd \in Command /\ cmd.op # "SourceUpdate"
      BY <2>1, CommandType
    <2>. QED
      BY <1>2, <2>1, <2>2
  <1>5. ASSUME \/ \E c \in Client : MergeFails(c) \/ Leave(c)
               \/ Recv \/ UNCHANGED vars
        PROVE  OriginOrder' /\ Sender' /\ Update' /\ Bridge' /\ Result'
    <2>1. UNCHANGED <<store, source_rx, bridge, result_rx, sent, updates>>
      BY <1>5 DEF MergeFails, Leave, Recv, vars
    <2>2. Pending' = Pending
      BY <1>5, PendingRecv DEF MergeFails, Leave, vars, Pending
    <2>. QED
      BY <1>i, <1>o, <2>1, <2>2
  <1>6. ASSUME SenderSend
        PROVE  OriginOrder' /\ Sender' /\ Update' /\ Bridge' /\ Result'
    <2>1. /\ sent' = sent + 1 /\ bridge' = Append(bridge, <<"sender", sent + 1>>)
          /\ UNCHANGED <<batch, cmds, store, source_rx, result_rx, updates>>
      BY <1>6 DEF SenderSend
    <2>2. Sender'
      BY <1>0, <1>i, <2>1, FlowSend
    <2>3. Bridge'
      <3>1. <<"sender", sent + 1>> \in Value
        BY <1>0 DEF Value
      <3>2. ToSet(bridge') = ToSet(bridge) \cup {<<"sender", sent + 1>>}
        BY <1>0, <2>1, <3>1, ElementsOf
      <3>. QED
        BY <1>i, <3>2
    <2>4. Pending' = Pending
      BY <2>1 DEF Pending
    <2>. QED
      BY <1>i, <1>o, <2>1, <2>2, <2>3, <2>4
  <1>7. ASSUME BridgeForward
        PROVE  OriginOrder' /\ Sender' /\ Update' /\ Bridge' /\ Result'
    <2>1. /\ bridge # <<>> /\ bridge' = Tail(bridge)
          /\ source_rx' = Append(source_rx, Head(bridge))
          /\ UNCHANGED <<batch, cmds, store, result_rx, sent, updates>>
      BY <1>7 DEF BridgeForward
    <2>2. /\ Head(bridge) \in Value /\ Head(bridge)[1] = "sender"
          /\ ToSet(bridge') \subseteq ToSet(bridge)
      BY <1>0, <1>i, <2>1, ElementsOf, HeadTailProperties
    <2>3. Sender'
      BY <1>0, <1>i, <2>1, FlowForward
    <2>4. Pending' = Pending
      BY <2>1 DEF Pending
    <2>5. Update'
      BY <1>0, <1>i, <2>1, <2>2, <2>4, FlowReceiveOther
    <2>. QED
      BY <1>i, <1>o, <2>1, <2>2, <2>3, <2>5
  <1>8. ASSUME NEW t \in running, TaskDone(t)
        PROVE  OriginOrder' /\ Sender' /\ Update' /\ Bridge' /\ Result'
    <2>1. /\ result_rx' = Append(result_rx, <<"task", t>>)
          /\ UNCHANGED <<batch, cmds, bridge, store, source_rx, sent, updates>>
      BY <1>8 DEF TaskDone
    <2>2. <<"task", t>> \in Value
      <3>1. t \in 1..MaxTasks
        BY DEF TypeOK
      <3>2. t \in Nat \ {0}
        BY <3>1, MaxAssumption
      <3>. QED
        BY <3>2 DEF Value
    <2>3. ToSet(result_rx') = ToSet(result_rx) \cup {<<"task", t>>}
      BY <1>0, <2>1, <2>2, ElementsOf
    <2>4. Pending' = Pending
      BY <2>1 DEF Pending
    <2>. QED
      BY <1>i, <1>o, <2>1, <2>3, <2>4
  <1>9. ASSUME Handle
        PROVE  OriginOrder' /\ Sender' /\ Update' /\ Bridge' /\ Result'
    <2>. DEFINE cmd == Head(batch)
    <2>1. /\ Carry(Pending) # <<>> /\ Head(Carry(Pending)) = Carried(cmd)
          /\ Carry(Pending)' = Tail(Carry(Pending))
      BY <1>9, CarryHandle
    <2>2. cmd \in Command /\ UNCHANGED <<store, bridge, result_rx, sent, updates>>
      BY <1>9, HeadTailProperties DEF Handle, TypeOK
    <2>3. CASE cmd.op = "SourceUpdate"
      <3>1. Carried(cmd) = <<"update", cmd.value>>
        BY <2>3 DEF Carried
      <3>2. source_rx' = Append(source_rx, <<"update", cmd.value>>)
        BY <1>9, <2>3 DEF Handle
      <3>3. <<"update", cmd.value>> \in Value
        BY <2>2, <2>3, CommandCases DEF Value
      <3>4. Update'
        BY <1>0, <1>i, <2>1, <2>2, <3>1, <3>2, FlowForward
      <3>5. Sender'
        BY <1>0, <1>i, <2>2, <3>2, <3>3, FlowReceiveOther
      <3>. QED
        BY <1>i, <1>o, <2>2, <3>4, <3>5
    <2>4. CASE cmd.op # "SourceUpdate"
      <3>1. Carried(cmd)[1] = "task"
        BY <2>4 DEF Carried
      <3>2. source_rx' = source_rx
        BY <1>9, <2>4 DEF Handle
      <3>3. Update'
        BY <1>0, <1>i, <2>1, <2>2, <3>1, <3>2, FlowUnqueueOther
      <3>. QED
        BY <1>i, <1>o, <2>2, <3>2, <3>3
    <2>. QED
      BY <2>3, <2>4
  <1>10. ASSUME EndBatch \/ Stop, has_updates
         PROVE  /\ OriginOrder'
                /\ EndBatch => Sender' /\ Update' /\ Bridge' /\ Result'
    <2>1. /\ store' = store \o source_rx \o result_rx /\ source_rx' = <<>>
          /\ result_rx' = <<>> /\ UNCHANGED <<batch, bridge, sent, updates>>
      BY <1>10 DEF EndBatch, Stop
    <2>2. /\ \A v \in ToSet(result_rx) : v[1] # "sender"
          /\ \A v \in ToSet(result_rx) : v[1] # "update"
      BY <1>i
    <2>3. /\ Flow("sender", store', <<>>, bridge, sent)
          /\ Flow("update", store', <<>>, Carry(Pending), updates)
      BY <1>0, <1>i, <2>1, <2>2, FlowCycle
    <2>4. OriginOrder'
      <3>1. store' \in Seq(Value) /\ <<>> \in Seq(Value)
        BY EmptySeq DEF TypeOK
      <3>. QED
        BY <1>0, <2>3, <3>1, FlowsOrder DEF OriginOrder
    <2>5. EndBatch => Pending' = Pending
      BY DEF EndBatch, Pending
    <2>6. ToSet(<<>>) = {}
      BY DEF ToSet
    <2>. QED
      BY <1>i, <2>1, <2>3, <2>4, <2>5, <2>6
  <1>11. ASSUME EndBatch, ~has_updates
         PROVE  OriginOrder' /\ Sender' /\ Update' /\ Bridge' /\ Result'
    <2>1. UNCHANGED <<batch, cmds, bridge, store, source_rx, result_rx, sent, updates>>
      BY <1>11 DEF EndBatch
    <2>2. Pending' = Pending
      BY <2>1 DEF Pending
    <2>. QED
      BY <1>i, <1>o, <2>1, <2>2
  <1>12. ASSUME (Stop /\ ~has_updates) \/ Panic
         PROVE  OriginOrder' /\ pc' = "stopped"
    BY <1>12, <1>o DEF Stop, Panic
  <1>13. Stop => pc' = "stopped"
    BY DEF Stop
  <1>. QED
    <2>. HIDE DEF Sender, Update, Bridge, Result
    <2>. QED
      BY <1>1, <1>3, <1>4, <1>5, <1>6, <1>7, <1>8, <1>9, <1>10, <1>11, <1>12, <1>13
         DEF Next, BridgeStep, TaskStep, LoopStep

\* Values from one origin reach the store in the order they were sent, each once and
\* none left out, for any number of values, clients and tasks and however the batches
\* are cut.
THEOREM EventLoopOrder == Spec => []OriginOrder
  <1>1. Init => FlowInv
    <2>. SUFFICES ASSUME Init
                  PROVE  FlowInv
      OBVIOUS
    <2>1. Pending = <<>>
      BY EmptySeq, ConcatEmptySeq DEF Init, Pending
    <2>2. Carry(<<>>) = <<>> /\ ToSet(<<>>) = {}
      BY DEF Carry, ToSet
    <2>. QED
      BY <2>1, <2>2 DEF Init, FlowInv, Flow, InOrder, Before, OriginOrder
  <1>2. TypeOK /\ TypeOK' /\ BatchInv /\ FlowInv /\ [Next]_vars => FlowInv'
    BY FlowStep
  <1>3. FlowInv => OriginOrder
    BY DEF FlowInv
  <1>. QED
    BY <1>1, <1>2, <1>3, EventLoopTypes, BatchEmpty, PTL DEF Spec
=============================================================================
