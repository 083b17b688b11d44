--------------------------- MODULE FxPricingProofs ---------------------------
(***************************************************************************)
(* Proofs about module FxPricing, for any number of trades and currency     *)
(* pairs: each source has one feed thread, none is left when main returns,  *)
(* a trade's own nodes are in the engine as long as it is listed, and the   *)
(* server implements both modules that it is composed of.                   *)
(***************************************************************************)
EXTENDS FxPricing, SequenceTheorems, TLAPS

-----------------------------------------------------------------------------
(* The types                                                                *)

\* The threads of one source.
Threads == Seq([state : {"connecting", "subscribed", "lost"}, shutdown : BOOLEAN])

\* Every thread in g is one of f, perhaps in another state.
Among(g, f) ==
    /\ g \in Threads /\ Len(g) <= Len(f)
    /\ \A i \in DOMAIN g : \E j \in DOMAIN f : g[i].shutdown = f[j].shutdown

\* What the engine's thread and the threads do to the list of a source.
LEMMA ThreadsKept ==
    ASSUME NEW f \in Threads
    PROVE  /\ Among(f, f)
           /\ Append(f, NewFeed) \in Threads
           /\ Told(f) \in Threads /\ Len(Told(f)) = Len(f)
           /\ \A i \in DOMAIN Told(f) : Told(f)[i].shutdown
           /\ \A i \in DOMAIN f : Among(SubSeq(f, 1, i - 1) \o SubSeq(f, i + 1, Len(f)), f)
           /\ \A i \in DOMAIN f, st \in {"connecting", "subscribed", "lost"} :
                 Among([f EXCEPT ![i].state = st], f)
  <1>. DEFINE Thread1 == [state : {"connecting", "subscribed", "lost"}, shutdown : BOOLEAN]
  <1>1. DOMAIN f = 1..Len(f) /\ Len(f) \in Nat
    BY LenProperties DEF Threads
  <1>2. \A i \in 1..Len(f) : f[i] \in Thread1
    BY ElementOfSeq DEF Threads
  <1>3. NewFeed \in Thread1
    BY DEF NewFeed
  <1>4. Append(f, NewFeed) \in Threads
    BY <1>3, AppendProperties DEF Threads
  <1>5. /\ Told(f) \in [1..Len(f) -> Thread1]
        /\ DOMAIN Told(f) = 1..Len(f)
        /\ \A i \in DOMAIN f : Told(f)[i].shutdown
    BY <1>1, <1>2 DEF Told
  <1>6. Told(f) \in Threads /\ Len(Told(f)) = Len(f)
    BY <1>1, <1>5, SeqDef, LenProperties DEF Threads
  <1>7. ASSUME NEW i \in DOMAIN f
        PROVE  Among(SubSeq(f, 1, i - 1) \o SubSeq(f, i + 1, Len(f)), f)
    <2>1. PICK a : a = SubSeq(f, 1, i - 1)
      OBVIOUS
    <2>2. PICK b : b = SubSeq(f, i + 1, Len(f))
      OBVIOUS
    <2>3. a \in Seq(Thread1) /\ Len(a) = i - 1 /\ \A j \in 1..(i - 1) : a[j] = f[j]
      <3>1. \A j \in 1..(i - 1) : f[j] \in Thread1
        BY <1>1, <1>2
      <3>. QED
        BY <1>1, <2>1, <3>1, SubSeqProperties
    <2>4. /\ b \in Seq(Thread1) /\ Len(b) = Len(f) - i
          /\ \A j \in 1..(Len(f) - i) : b[j] = f[i + j]
      <3>1. \A j \in (i + 1)..Len(f) : f[j] \in Thread1
        BY <1>1, <1>2
      <3>. QED
        BY <1>1, <2>2, <3>1, SubSeqProperties
    <2>5. /\ a \o b \in Seq(Thread1) /\ Len(a \o b) = Len(f) - 1
          /\ \A j \in 1..(Len(f) - 1) : (a \o b)[j] = IF j <= i - 1 THEN a[j] ELSE b[j - (i - 1)]
      <3>1. /\ a \o b \in Seq(Thread1) /\ Len(a \o b) = Len(a) + Len(b)
            /\ \A j \in 1..(Len(a) + Len(b)) :
                  (a \o b)[j] = IF j <= Len(a) THEN a[j] ELSE b[j - Len(a)]
        BY <2>3, <2>4, ConcatProperties
      <3>2. i \in Nat /\ Len(a) + Len(b) = Len(f) - 1
        BY <1>1, <2>3, <2>4
      <3>. QED
        BY <2>3, <3>1, <3>2
    <2>6. DOMAIN (a \o b) = 1..(Len(f) - 1)
      BY <2>5, LenProperties
    <2>7. ASSUME NEW j \in 1..(Len(f) - 1)
          PROVE  \E k \in DOMAIN f : (a \o b)[j] = f[k]
      <3>0. i \in 1..Len(f) /\ j \in Nat
        BY <1>1
      <3>1. CASE j <= i - 1
        <4>1. j \in 1..(i - 1) /\ j \in DOMAIN f
          BY <1>1, <3>0, <3>1
        <4>. QED
          BY <2>3, <2>5, <3>1, <4>1
      <3>2. CASE ~(j <= i - 1)
        <4>1. j - (i - 1) \in 1..(Len(f) - i) /\ i + (j - (i - 1)) = j + 1 /\ j + 1 \in DOMAIN f
          BY <1>1, <3>0, <3>2
        <4>2. b[j - (i - 1)] = f[j + 1]
          BY <2>4, <4>1
        <4>. QED
          BY <2>5, <3>2, <4>1, <4>2
      <3>. QED
        BY <3>1, <3>2
    <2>8. Len(f) - 1 <= Len(f)
      BY <1>1
    <2>. QED
      BY <2>1, <2>2, <2>5, <2>6, <2>7, <2>8 DEF Among, Threads
  <1>8. ASSUME NEW i \in DOMAIN f, NEW st \in {"connecting", "subscribed", "lost"}
        PROVE  Among([f EXCEPT ![i].state = st], f)
    <2>1. PICK g : g = [f EXCEPT ![i].state = st]
      OBVIOUS
    <2>2. /\ g \in [1..Len(f) -> Thread1] /\ DOMAIN g = 1..Len(f)
          /\ \A j \in DOMAIN f : g[j].shutdown = f[j].shutdown
      BY <1>1, <1>2, <2>1
    <2>3. g \in Threads /\ Len(g) = Len(f)
      BY <1>1, <2>2, SeqDef, LenProperties DEF Threads
    <2>. QED
      BY <1>1, <2>1, <2>2, <2>3 DEF Among
  <1>9. Among(f, f)
    BY <1>1 DEF Among
  <1>. QED
    BY <1>1, <1>4, <1>5, <1>6, <1>7, <1>8, <1>9

\* The threads of the feeds have their types.
LEMMA FeedsType ==
    TypeOK => \A s \in Source : feeds[s] \in Threads
  BY DEF TypeOK, Threads

-----------------------------------------------------------------------------
(* The steps                                                                *)

\* A step of the clients, of the bridge or of a feed thread leaves the engine and its
\* loop alone, and the channel once the loop has ended.
Outside ==
    /\ UNCHANGED <<engine, pc, batch, registered>>
    /\ pc = "stopped" => cmds' = cmds
    /\ feeds' \in [Source -> Threads] /\ \A s \in Source : Among(feeds'[s], feeds[s])

\* One thread of source s goes on or ends.
LEMMA ThreadStep ==
    ASSUME NEW s \in Source, NEW i \in DOMAIN feeds[s], feeds \in [Source -> Threads],
           \/ \E st \in {"connecting", "subscribed", "lost"} : Thread(s, i, st)
           \/ Ends(s, i)
    PROVE  feeds' \in [Source -> Threads] /\ \A r \in Source : Among(feeds'[r], feeds[r])
  <1>1. CASE \E st \in {"connecting", "subscribed", "lost"} : Thread(s, i, st)
    <2>1. PICK st \in {"connecting", "subscribed", "lost"} : Thread(s, i, st)
      BY <1>1
    <2>2. /\ feeds' = [feeds EXCEPT ![s] = [feeds[s] EXCEPT ![i].state = st]]
          /\ Among([feeds[s] EXCEPT ![i].state = st], feeds[s])
      BY <2>1, ThreadsKept DEF Thread
    <2>3. [feeds[s] EXCEPT ![i].state = st] \in Threads
      BY <2>2 DEF Among
    <2>4. \A r \in Source : Among(feeds[r], feeds[r])
      BY ThreadsKept
    <2>. QED
      BY <2>2, <2>3, <2>4
  <1>2. CASE Ends(s, i)
    <2>1. PICK g : g = SubSeq(feeds[s], 1, i - 1) \o SubSeq(feeds[s], i + 1, Len(feeds[s]))
      OBVIOUS
    <2>2. feeds' = [feeds EXCEPT ![s] = g] /\ Among(g, feeds[s])
      BY <1>2, <2>1, ThreadsKept DEF Ends
    <2>3. g \in Threads
      BY <2>2 DEF Among
    <2>4. \A r \in Source : Among(feeds[r], feeds[r])
      BY ThreadsKept
    <2>. QED
      BY <2>2, <2>3, <2>4
  <1>. QED
    BY <1>1, <1>2

\* The actions of the server.
LEMMA ServerSteps ==
    ASSUME NEW t \in Trade, feeds \in [Source -> Threads],
           \/ create_trade(t) \/ Disconnect(t) \/ remove_trade(t) \/ BlockingMerge(t)
           \/ InsertTrade(t) \/ DropOutput(t) \/ DropRecord(t)
    PROVE  Outside /\ feeds' = feeds
  <1>1. \A s \in Source : Among(feeds[s], feeds[s])
    BY ThreadsKept
  <1>2. /\ UNCHANGED <<engine, feeds, pc, batch, registered>>
        /\ pc = "stopped" => cmds' = cmds
    <2>1. CASE create_trade(t) \/ Disconnect(t) \/ InsertTrade(t)
      BY <2>1 DEF create_trade, Disconnect, InsertTrade, loop
    <2>2. CASE BlockingMerge(t)
      BY <2>2 DEF BlockingMerge, E!CallMerge, E!SendCmd, E!loop
    <2>3. CASE remove_trade(t) \/ DropRecord(t)
      BY <2>3 DEF remove_trade, DropRecord, E!DropHandle, E!SendCmd, E!loop
    <2>4. CASE DropOutput(t)
      BY <2>4 DEF DropOutput, E!DropHandle, E!MergeFails, E!SendCmd, E!loop
    <2>. QED
      BY <2>1, <2>2, <2>3, <2>4
  <1>. QED
    BY <1>1, <1>2 DEF Outside

\* Main and the bridge.
LEMMA MainSteps ==
    ASSUME feeds \in [Source -> Threads],
           ctrl_c \/ ServeReturns \/ Shutdown \/ Join \/ Bridge \/ UNCHANGED vars
    PROVE  Outside /\ feeds' = feeds
  <1>1. \A s \in Source : Among(feeds[s], feeds[s])
    BY ThreadsKept
  <1>2. /\ UNCHANGED <<engine, feeds, pc, batch, registered>>
        /\ pc = "stopped" => cmds' = cmds
    <2>1. CASE ctrl_c \/ ServeReturns \/ Join
      BY <2>1 DEF ctrl_c, ServeReturns, Join, loop
    <2>2. CASE Shutdown
      BY <2>2 DEF Shutdown, E!Shutdown, E!SendCmd, E!loop
    <2>3. CASE Bridge
      BY <2>3 DEF Bridge, E!BridgeStep, E!BridgeForward, E!BridgeNotify, E!SendCmd, E!loop
    <2>4. CASE UNCHANGED vars
      BY <2>4 DEF vars, loop
    <2>. QED
      BY <2>1, <2>2, <2>3, <2>4
  <1>. QED
    BY <1>1, <1>2 DEF Outside

\* The feed threads.
LEMMA FeedSteps ==
    ASSUME feeds \in [Source -> Threads], NEW s \in Source, NEW i \in DOMAIN feeds[s],
           FeedStarts(s, i) \/ FeedEnds(s, i) \/ FeedSends(s, i) \/ FeedLost(s, i)
    PROVE  Outside
  <1>1. CASE FeedSends(s, i)
    <2>1. \A r \in Source : Among(feeds[r], feeds[r])
      BY ThreadsKept
    <2>. QED
      BY <1>1, <2>1 DEF FeedSends, E!SenderSend, E!loop, Outside
  <1>2. CASE FeedStarts(s, i) \/ FeedEnds(s, i) \/ FeedLost(s, i)
    <2>1. \/ \E st \in {"connecting", "subscribed", "lost"} : Thread(s, i, st)
          \/ Ends(s, i)
      BY <1>2 DEF FeedStarts, FeedEnds, FeedLost
    <2>2. UNCHANGED <<engine, loop>>
      BY <1>2 DEF FeedStarts, FeedEnds, FeedLost
    <2>. QED
      BY <2>1, <2>2, ThreadStep DEF Outside, loop
  <1>. QED
    BY <1>1, <1>2

\* Every step is one of the engine's thread or outside of it.
LEMMA StepCases ==
    ASSUME feeds \in [Source -> Threads], [Next]_vars
    PROVE  EngineStep \/ Outside
  BY ServerSteps, MainSteps, FeedSteps
     DEF Next, ServerStep, FeedStep, Terminated

-----------------------------------------------------------------------------
(* When a method runs                                                       *)

\* A method runs for the Merge or the Remove at the head of the batch, and nothing is
\* left in the channel once the loop has ended.
BusyInv ==
    /\ pc \in {"recv", "handle", "stopped"}
    /\ pc # "handle" => batch = <<>>
    /\ pc = "stopped" => cmds = <<>>
    /\ phase \in {"idle", "drain", "body", "activate"}
    /\ phase # "idle" => /\ pc = "handle" /\ batch # <<>>
                         /\ Head(batch).op \in {"Merge", "Remove"}
    /\ phase = "activate" => Head(batch).op = "Merge"

\* The engine's thread, step by step.
LEMMA BusyEngine ==
    ASSUME BusyInv, EngineStep
    PROVE  BusyInv'
  <1>1. CASE Begin
    BY <1>1 DEF Begin, Busy, L!Call, L!DropHandle, loop, BusyInv
  <1>2. CASE Recurse
    BY <1>2 DEF Recurse, L!EndDrain, L!DrainNext, L!CascadeNext, L!EnterNode, L!FinishNode,
                loop, BusyInv
  <1>3. CASE Register
    BY <1>3 DEF Register, Busy, L!Merge, loop, BusyInv
  <1>4. CASE Finish
    BY <1>4 DEF Finish, L!Return, E!Handle, BusyInv
  <1>5. CASE Loop
    <2>1. CASE E!Recv
      BY <1>5, <2>1 DEF Loop, E!Recv, engine, BusyInv
    <2>2. CASE E!EndBatch
      BY <1>5, <2>2 DEF Loop, E!EndBatch, engine, BusyInv
    <2>3. CASE (Busy("SourceReady") \/ Busy("Shutdown")) /\ E!Handle
      BY <1>5, <2>3 DEF Loop, Busy, E!Handle, engine, BusyInv
    <2>. QED
      BY <1>5, <2>1, <2>2, <2>3 DEF Loop
  <1>6. CASE Stop
    BY <1>6 DEF Stop, E!Stop, engine, BusyInv
  <1>. QED
    BY <1>1, <1>2, <1>3, <1>4, <1>5, <1>6 DEF EngineStep

\* A step outside the engine's thread.
LEMMA BusyOutside ==
    ASSUME BusyInv, Outside
    PROVE  BusyInv'
  BY DEF BusyInv, Outside, engine

-----------------------------------------------------------------------------
(* The feed threads                                                         *)

\* What the engine's thread does to the guards and to the feeds.
LEMMA EngineFeeds ==
    ASSUME EngineStep, feeds \in [Source -> Threads]
    PROVE  /\ UNCHANGED <<request, trades, main>>
           /\ \/ UNCHANGED <<guards, feeds>> /\ pc' # "stopped"
              \/ Recurse /\ UNCHANGED pc
              \/ Stop /\ pc' = "stopped" /\ UNCHANGED guards
  <1>1. CASE Begin
    BY <1>1 DEF Begin, Busy, L!Call, L!DropHandle, L!registry, loop, server
  <1>2. CASE Recurse
    BY <1>2 DEF Recurse, loop, server
  <1>3. CASE Register
    BY <1>3 DEF Register, Busy, L!Merge, loop, server
  <1>4. CASE Finish
    BY <1>4 DEF Finish, Busy, L!Return, L!registry, E!Handle, server
  <1>5. CASE Loop
    BY <1>5 DEF Loop, Busy, E!Recv, E!EndBatch, E!Handle, E!loop, engine, server
  <1>6. CASE Stop
    BY <1>6 DEF Stop, E!Stop, engine, server
  <1>. QED
    BY <1>1, <1>2, <1>3, <1>4, <1>5, <1>6 DEF EngineStep

\* The engine's thread keeps the lists well formed.
LEMMA EngineThreads ==
    ASSUME EngineStep, feeds \in [Source -> Threads]
    PROVE  feeds' \in [Source -> Threads]
  <1>1. CASE UNCHANGED feeds
    BY <1>1
  <1>2. CASE Recurse \/ Stop
    <2>1. \A s \in Source : feeds[s] \in Threads /\ Append(feeds[s], NewFeed) \in Threads
                            /\ Told(feeds[s]) \in Threads
      BY ThreadsKept
    <2>2. CASE Recurse
      BY <2>1, <2>2 DEF Recurse, Feed
    <2>3. CASE Stop
      BY <2>1, <2>3 DEF Stop
    <2>. QED
      BY <1>2, <2>2, <2>3
  <1>. QED
    BY <1>1, <1>2, EngineFeeds

\* Each variable of the server keeps its type.
LEMMA TypeStep ==
    ASSUME TypeOK, [Next]_vars
    PROVE  TypeOK'
  <1>1. feeds \in [Source -> Threads]
    BY DEF TypeOK, Threads
  <1>2. feeds' \in [Source -> Threads]
    BY <1>1, StepCases, EngineThreads DEF Outside
  <1>3. ASSUME NEW t \in Trade,
               \/ create_trade(t) \/ Disconnect(t) \/ remove_trade(t) \/ BlockingMerge(t)
               \/ InsertTrade(t) \/ DropOutput(t) \/ DropRecord(t)
        PROVE  /\ request' \in [Trade -> {"new", "rejected", "open", "cancelled", "listed", "ended"}]
               /\ trades' = {u \in Trade : request'[u] = "listed"}
               /\ main' \in {"serving", "draining", "dropping", "joining", "done"}
    <2>1. CASE create_trade(t)
      BY <2>1 DEF create_trade, TypeOK
    <2>2. CASE Disconnect(t)
      BY <2>2 DEF Disconnect, TypeOK
    <2>3. CASE remove_trade(t)
      BY <2>3 DEF remove_trade, TypeOK
    <2>4. CASE BlockingMerge(t)
      BY <2>4 DEF BlockingMerge, server, TypeOK
    <2>5. CASE InsertTrade(t)
      BY <2>5 DEF InsertTrade, TypeOK
    <2>6. CASE DropOutput(t)
      BY <2>6 DEF DropOutput, TypeOK
    <2>7. CASE DropRecord(t)
      BY <2>7 DEF DropRecord, TypeOK
    <2>. QED
      BY <1>3, <2>1, <2>2, <2>3, <2>4, <2>5, <2>6, <2>7
  <1>4. CASE ctrl_c \/ ServeReturns \/ Shutdown \/ Join \/ Bridge \/ UNCHANGED vars
    BY <1>2, <1>4 DEF ctrl_c, ServeReturns, Shutdown, Join, Bridge, vars, server, TypeOK, Threads
  <1>5. CASE EngineStep
    BY <1>1, <1>2, <1>5, EngineFeeds DEF TypeOK, Threads
  <1>6. ASSUME NEW s \in Source, NEW i \in DOMAIN feeds[s],
               FeedStarts(s, i) \/ FeedEnds(s, i) \/ FeedSends(s, i) \/ FeedLost(s, i)
        PROVE  UNCHANGED server
    BY <1>6 DEF FeedStarts, FeedEnds, FeedSends, FeedLost
  <1>7. CASE UNCHANGED server
    BY <1>2, <1>7 DEF server, TypeOK, Threads
  <1>. QED
    BY <1>2, <1>3, <1>4, <1>5, <1>6, <1>7
       DEF Next, ServerStep, FeedStep, Terminated, TypeOK, Threads

\* The types of the server, and the map agrees with the states of the requests (api.rs).
THEOREM FxTypes == Spec => []TypeOK
  <1>1. Init => TypeOK
    BY EmptySeq DEF Init, TypeOK
  <1>2. TypeOK /\ [Next]_vars => TypeOK'
    BY TypeStep
  <1>. QED
    BY <1>1, <1>2, PTL DEF Spec

\* The guards are given up with the engine, and main returns after that only.
EndInv ==
    /\ pc = "stopped" => \A s \in Source : \A i \in DOMAIN feeds[s] : feeds[s][i].shutdown
    /\ main = "done" => pc = "stopped"
    /\ FeedsEnd

FeedsInv == BusyInv /\ OneFeedPerSource /\ EndInv

\* The lists of the feeds through a step of the engine's thread.
LEMMA FeedsEngine ==
    ASSUME TypeOK, FeedsInv, EngineStep
    PROVE  OneFeedPerSource' /\ EndInv'
  <1>1. feeds \in [Source -> Threads] /\ UNCHANGED main
    BY EngineFeeds DEF TypeOK, Threads
  <1>2. CASE UNCHANGED <<guards, feeds>> /\ pc' # "stopped"
    <2>1. pc # "stopped"
      BY BusyInv DEF FeedsInv, BusyInv, EngineStep, Begin, Recurse, Register, Finish, Loop,
                     Stop, Busy, E!Recv, E!EndBatch, E!Stop, L!EndDrain, L!DrainNext,
                     L!CascadeNext, L!EnterNode, L!FinishNode
    <2>. QED
      BY <1>1, <1>2, <2>1 DEF FeedsInv, OneFeedPerSource, EndInv, FeedsEnd
  <1>3. CASE Recurse /\ UNCHANGED pc
    <2>1. pc # "stopped" /\ main # "done"
      BY <1>3 DEF FeedsInv, BusyInv, EndInv, Recurse, L!EndDrain, L!DrainNext,
                  L!CascadeNext, L!EnterNode, L!FinishNode
    <2>2. ASSUME NEW s \in Source
          PROVE  /\ Len(feeds'[s]) <= 1
                 /\ \A i \in DOMAIN feeds'[s] : ~feeds'[s][i].shutdown => s \in guards'
      <3>0. feeds[s] \in Threads /\ \A i \in DOMAIN feeds[s] : ~feeds[s][i].shutdown
        BY <1>1, <1>3 DEF Recurse, Joined
      <3>1. CASE s \in guards' \ guards
        <4>1. feeds[s] = <<>>
          <5>1. DOMAIN feeds[s] = 1..Len(feeds[s]) /\ Len(feeds[s]) \in Nat
            BY <3>0, LenProperties DEF Threads
          <5>2. DOMAIN feeds[s] = {}
            BY <3>0, <3>1 DEF FeedsInv, OneFeedPerSource
          <5>3. Len(feeds[s]) = 0
            BY <5>1, <5>2
          <5>. QED
            BY <3>0, <5>3, EmptySeq DEF Threads
        <4>2. feeds'[s] = Append(feeds[s], NewFeed)
          BY <1>3, <3>1 DEF Recurse, Feed
        <4>3. Len(feeds'[s]) = 1
          BY <4>1, <4>2, AppendProperties, <3>0 DEF NewFeed
        <4>. QED
          BY <3>1, <4>3
      <3>2. CASE s \in guards \ guards'
        <4>1. feeds'[s] = Told(feeds[s])
          BY <1>3, <3>2 DEF Recurse, Feed
        <4>. QED
          BY <3>0, <4>1, ThreadsKept DEF FeedsInv, OneFeedPerSource
      <3>3. CASE s \notin guards \ guards' /\ s \notin guards' \ guards
        <4>1. feeds'[s] = feeds[s]
          BY <1>3, <3>3 DEF Recurse, Feed
        <4>. QED
          BY <3>3, <4>1 DEF FeedsInv, OneFeedPerSource
      <3>. QED
        BY <3>1, <3>2, <3>3
    <2>. QED
      BY <1>1, <1>3, <2>1, <2>2 DEF OneFeedPerSource, EndInv, FeedsEnd
  <1>4. CASE Stop /\ pc' = "stopped" /\ UNCHANGED guards
    <2>1. pc # "stopped" /\ main # "done"
      BY <1>4 DEF FeedsInv, EndInv, Stop, E!Stop
    <2>2. ASSUME NEW s \in Source
          PROVE  Len(feeds'[s]) <= 1 /\ \A i \in DOMAIN feeds'[s] : feeds'[s][i].shutdown
      <3>0. feeds[s] \in Threads /\ \A i \in DOMAIN feeds[s] : ~feeds[s][i].shutdown
        BY <1>1, <1>4 DEF Stop, Joined
      <3>1. CASE s \in guards
        <4>1. feeds'[s] = Told(feeds[s])
          BY <1>4, <3>1 DEF Stop
        <4>. QED
          BY <3>0, <4>1, ThreadsKept DEF FeedsInv, OneFeedPerSource
      <3>2. CASE s \notin guards
        <4>1. feeds'[s] = feeds[s]
          BY <1>4, <3>2 DEF Stop
        <4>. QED
          BY <3>0, <3>2, <4>1 DEF FeedsInv, OneFeedPerSource
      <3>. QED
        BY <3>1, <3>2
    <2>. QED
      BY <1>1, <1>4, <2>1, <2>2 DEF OneFeedPerSource, EndInv, FeedsEnd
  <1>. QED
    BY <1>1, <1>2, <1>3, <1>4, EngineFeeds

\* The same through a step outside of it: only Join lets main return.
LEMMA FeedsOutside ==
    ASSUME TypeOK, FeedsInv, Outside, main' = "done" => main = "done" \/ Join
    PROVE  OneFeedPerSource' /\ EndInv'
  <1>1. \A s \in Source : feeds[s] \in Threads
    BY FeedsType
  <1>2. UNCHANGED <<pc, guards>>
    BY DEF Outside, engine
  <1>3. ASSUME NEW s \in Source
        PROVE  /\ Len(feeds'[s]) <= 1
               /\ \A i \in DOMAIN feeds'[s] : \E j \in DOMAIN feeds[s] :
                     feeds'[s][i].shutdown = feeds[s][j].shutdown
               /\ feeds[s] = <<>> => feeds'[s] = <<>>
    <2>1. Among(feeds'[s], feeds[s])
      BY DEF Outside
    <2>2. Len(feeds[s]) \in Nat /\ Len(feeds'[s]) \in Nat /\ Len(feeds[s]) <= 1
      BY <1>1, <2>1, LenProperties DEF Among, Threads, FeedsInv, OneFeedPerSource
    <2>3. feeds[s] = <<>> => feeds'[s] = <<>>
      BY <2>1, <2>2, EmptySeq DEF Among, Threads
    <2>. QED
      BY <2>1, <2>2, <2>3 DEF Among
  <1>4. Join => \A s \in Source : feeds[s] = <<>>
    <2>. SUFFICES ASSUME Join, NEW s \in Source
                  PROVE  feeds[s] = <<>>
      OBVIOUS
    <2>1. DOMAIN feeds[s] = {}
      BY DEF Join, FeedsInv, EndInv
    <2>2. DOMAIN feeds[s] = 1..Len(feeds[s]) /\ Len(feeds[s]) \in Nat
      BY <1>1, LenProperties DEF Threads
    <2>3. Len(feeds[s]) = 0
      BY <2>1, <2>2
    <2>. QED
      BY <1>1, <2>3, EmptySeq DEF Threads
  <1>5. OneFeedPerSource'
    BY <1>2, <1>3 DEF FeedsInv, OneFeedPerSource
  <1>6. EndInv'
    BY <1>2, <1>3, <1>4 DEF FeedsInv, EndInv, FeedsEnd, Join
  <1>. QED
    BY <1>5, <1>6

\* Only Join makes main return.
LEMMA DoneByJoin ==
    ASSUME [Next]_vars, main' = "done"
    PROVE  main = "done" \/ Join \/ EngineStep
  BY DEF Next, ServerStep, FeedStep, Terminated, create_trade, Disconnect, remove_trade,
         BlockingMerge, InsertTrade, DropOutput, DropRecord, ctrl_c, ServeReturns, Shutdown,
         Bridge, FeedStarts, FeedEnds, FeedSends, FeedLost, vars, server

\* The invariant of the feed threads.
THEOREM FxFeeds == Spec => []FeedsInv
  <1>1. Init => FeedsInv
    BY EmptySeq DEF Init, L!Init, E!Init, FeedsInv, BusyInv, OneFeedPerSource, EndInv, FeedsEnd
  <1>2. ASSUME TypeOK, FeedsInv, [Next]_vars
        PROVE  FeedsInv'
    <2>1. feeds \in [Source -> Threads]
      BY <1>2 DEF TypeOK, Threads
    <2>2. CASE EngineStep
      BY <1>2, <2>2, BusyEngine, FeedsEngine DEF FeedsInv
    <2>3. CASE Outside /\ ~EngineStep
      BY <1>2, <2>3, BusyOutside, FeedsOutside, DoneByJoin DEF FeedsInv
    <2>. QED
      BY <1>2, <2>1, <2>2, <2>3, StepCases
  <1>. QED
    BY <1>1, <1>2, FxTypes, PTL DEF Spec

\* A source never has two feed threads, and one that was not told to end belongs to a
\* source whose guard is held (SpotRate::activate, SpotRateGuard::drop).
THEOREM FxOneFeed == Spec => []OneFeedPerSource
  <1>1. FeedsInv => OneFeedPerSource
    BY DEF FeedsInv
  <1>. QED
    BY <1>1, FxFeeds, PTL

\* No feed thread outlives main.
THEOREM FxFeedsEnd == Spec => []FeedsEnd
  <1>1. FeedsInv => FeedsEnd
    BY DEF FeedsInv, EndInv
  <1>. QED
    BY <1>1, FxFeeds, PTL

-----------------------------------------------------------------------------
(* The commands of a trade                                                  *)

\* The commands of the server: trades whose pair is known are merged and removed.
Cmd == [op : {"Merge", "Remove"}, from : Priced] \cup [op : {"SourceReady", "Shutdown"}]
MergeOf(t) == [op |-> "Merge", from |-> t]
RemoveOf(t) == [op |-> "Remove", from |-> t]

\* The command is on its way, ...
Due(c) == c \in Range(batch) \cup Range(cmds)
\* ... once at the most.
Once(c) ==
    /\ \A i, j \in DOMAIN batch : batch[i] = c /\ batch[j] = c => i = j
    /\ \A i, j \in DOMAIN cmds : cmds[i] = c /\ cmds[j] = c => i = j
    /\ c \in Range(batch) => c \notin Range(cmds)

\* A trade is merged once and then removed once.
ClientInv(t) ==
    /\ request[t] \notin {"new", "rejected"} => t \in Priced
    /\ Once(MergeOf(t)) /\ Once(RemoveOf(t))
    /\ \/ /\ client[t] = "ready"
          /\ request[t] \in {"new", "rejected", "open", "cancelled"}
          /\ ~Due(MergeOf(t)) /\ ~Due(RemoveOf(t)) /\ t \notin registered
       \/ /\ client[t] = "merging"
          /\ request[t] \in {"open", "cancelled"}
          /\ pc # "stopped" => Due(MergeOf(t))
          /\ ~Due(RemoveOf(t)) /\ t \notin registered
       \/ /\ client[t] = "holding"
          /\ request[t] \in {"open", "cancelled", "listed"}
          /\ ~Due(MergeOf(t)) /\ ~Due(RemoveOf(t)) /\ t \in registered
       \/ /\ client[t] = "ready"
          /\ request[t] = "ended"
          /\ ~Due(MergeOf(t))
          /\ pc # "stopped" => (Due(RemoveOf(t)) <=> t \in registered)

CommandInv ==
    /\ batch \in Seq(Cmd) /\ cmds \in Seq(Cmd)
    /\ Trade \subseteq DOMAIN client /\ registered \subseteq Trade
    /\ \A t \in Trade : ClientInv(t)

\* c is on its way afterwards just as it was before.
DueKept(c) == (Due(c)' <=> Due(c)) /\ (Once(c) => Once(c)')

\* A sequence, its first element and the rest.
LEMMA FirstAndRest ==
    ASSUME NEW S, NEW s \in Seq(S), s # <<>>
    PROVE  /\ Head(s) \in S /\ Head(s) = s[1]
           /\ Tail(s) \in Seq(S)
           /\ Len(s) \in Nat \ {0} /\ DOMAIN s = 1..Len(s)
           /\ DOMAIN Tail(s) = 1..(Len(s) - 1)
           /\ \A i \in 1..(Len(s) - 1) : Tail(s)[i] = s[i + 1] /\ i + 1 \in DOMAIN s
           /\ Range(s) = {Head(s)} \cup Range(Tail(s))
  <1>1. /\ Head(s) \in S /\ Tail(s) \in Seq(S) /\ Len(Tail(s)) = Len(s) - 1
        /\ \A i \in 1..Len(Tail(s)) : Tail(s)[i] = s[i + 1]
    BY HeadTailProperties
  <1>2. DOMAIN s = 1..Len(s) /\ Len(s) \in Nat /\ Len(s) # 0
    BY LenProperties, EmptySeq
  <1>3. DOMAIN Tail(s) = 1..(Len(s) - 1)
    BY <1>1, LenProperties
  <1>4. \A i \in 1..(Len(s) - 1) : Tail(s)[i] = s[i + 1] /\ i + 1 \in DOMAIN s
    BY <1>1, <1>2
  <1>5. Head(s) = s[1] /\ 1 \in DOMAIN s
    BY <1>2
  <1>6. \A x \in Range(s) : x \in {Head(s)} \cup Range(Tail(s))
    <2>. SUFFICES ASSUME NEW i \in DOMAIN s
                  PROVE  s[i] \in {Head(s)} \cup Range(Tail(s))
      BY DEF Range
    <2>1. CASE i = 1
      BY <1>5, <2>1
    <2>2. CASE i # 1
      <3>1. i - 1 \in 1..(Len(s) - 1) /\ (i - 1) + 1 = i
        BY <1>2, <2>2
      <3>. QED
        BY <1>3, <1>4, <3>1 DEF Range
    <2>. QED
      BY <2>1, <2>2
  <1>7. \A x \in {Head(s)} \cup Range(Tail(s)) : x \in Range(s)
    BY <1>3, <1>4, <1>5 DEF Range
  <1>. QED
    BY <1>1, <1>2, <1>3, <1>4, <1>5, <1>6, <1>7

\* A sequence with a new last element.
LEMMA LastAdded ==
    ASSUME NEW S, NEW s \in Seq(S), NEW e \in S
    PROVE  /\ Append(s, e) \in Seq(S)
           /\ DOMAIN s = 1..Len(s) /\ Len(s) \in Nat
           /\ DOMAIN Append(s, e) = 1..(Len(s) + 1)
           /\ \A i \in DOMAIN s : Append(s, e)[i] = s[i]
           /\ Append(s, e)[Len(s) + 1] = e
           /\ Range(Append(s, e)) = Range(s) \cup {e}
  <1>1. /\ Append(s, e) \in Seq(S) /\ Len(Append(s, e)) = Len(s) + 1
        /\ \A i \in 1..Len(s) : Append(s, e)[i] = s[i]
        /\ Append(s, e)[Len(s) + 1] = e
    BY AppendProperties
  <1>2. DOMAIN s = 1..Len(s) /\ Len(s) \in Nat /\ DOMAIN Append(s, e) = 1..(Len(s) + 1)
    BY <1>1, LenProperties
  <1>3. \A x \in Range(Append(s, e)) : x \in Range(s) \cup {e}
    BY <1>1, <1>2 DEF Range
  <1>4. \A x \in Range(s) \cup {e} : x \in Range(Append(s, e))
    BY <1>1, <1>2 DEF Range
  <1>. QED
    BY <1>1, <1>2, <1>3, <1>4

\* A command is sent.
LEMMA Sending ==
    ASSUME batch' = batch, cmds \in Seq(Cmd), NEW d \in Cmd, cmds' = Append(cmds, d)
    PROVE  /\ cmds' \in Seq(Cmd)
           /\ \A c : c # d => DueKept(c)
           /\ Due(d)'
           /\ ~Due(d) => Once(d)'
  <1>1. /\ cmds' \in Seq(Cmd)
        /\ DOMAIN cmds = 1..Len(cmds) /\ Len(cmds) \in Nat
        /\ DOMAIN cmds' = 1..(Len(cmds) + 1)
        /\ \A i \in DOMAIN cmds : cmds'[i] = cmds[i]
        /\ cmds'[Len(cmds) + 1] = d
        /\ Range(cmds') = Range(cmds) \cup {d}
    BY LastAdded
  <1>2. ASSUME NEW c, c # d
        PROVE  DueKept(c)
    <2>1. Due(c)' <=> Due(c)
      BY <1>1, <1>2 DEF Due
    <2>2. ASSUME Once(c)
          PROVE  Once(c)'
      <3>1. \A i \in DOMAIN cmds' : cmds'[i] = c => i \in DOMAIN cmds /\ cmds[i] = c
        BY <1>1, <1>2
      <3>. QED
        BY <1>1, <1>2, <2>2, <3>1 DEF Once
    <2>. QED
      BY <2>1, <2>2 DEF DueKept
  <1>3. ASSUME ~Due(d)
        PROVE  Once(d)'
    <2>1. \A i \in DOMAIN cmds : cmds[i] # d
      BY <1>3 DEF Due, Range
    <2>2. \A i \in DOMAIN cmds' : cmds'[i] = d => i = Len(cmds) + 1
      BY <1>1, <2>1
    <2>3. \A i \in DOMAIN batch : batch[i] # d
      BY <1>3 DEF Due, Range
    <2>. QED
      BY <2>2, <2>3 DEF Once, Range
  <1>. QED
    BY <1>1, <1>2, <1>3 DEF Due

\* All commands are taken into the batch.
LEMMA Receiving ==
    ASSUME batch = <<>>, batch' = cmds, cmds' = <<>>
    PROVE  \A c : DueKept(c)
  BY DEF DueKept, Due, Once, Range

\* The next command of the batch is taken.
LEMMA Taking ==
    ASSUME batch \in Seq(Cmd), batch # <<>>, batch' = Tail(batch), cmds' = cmds,
           NEW d, d = Head(batch)
    PROVE  /\ batch' \in Seq(Cmd) /\ d \in Cmd /\ Due(d)
           /\ \A c : c # d => DueKept(c)
           /\ Once(d) => ~Due(d)' /\ Once(d)'
  <1>1. /\ d \in Cmd /\ d = batch[1]
        /\ batch' \in Seq(Cmd)
        /\ Len(batch) \in Nat \ {0} /\ DOMAIN batch = 1..Len(batch)
        /\ DOMAIN batch' = 1..(Len(batch) - 1)
        /\ \A i \in 1..(Len(batch) - 1) : batch'[i] = batch[i + 1] /\ i + 1 \in DOMAIN batch
        /\ Range(batch) = {d} \cup Range(batch')
    BY FirstAndRest
  <1>2. ASSUME NEW c, Once(c)
        PROVE  Once(c)'
    <2>1. ASSUME NEW i \in DOMAIN batch', NEW j \in DOMAIN batch', batch'[i] = c, batch'[j] = c
          PROVE  i = j
      <3>1. i + 1 \in DOMAIN batch /\ j + 1 \in DOMAIN batch /\ batch[i + 1] = c /\ batch[j + 1] = c
        BY <1>1, <2>1
      <3>2. i + 1 = j + 1 /\ i \in Nat /\ j \in Nat
        BY <1>1, <1>2, <3>1 DEF Once
      <3>. QED
        BY <3>2
    <2>. QED
      BY <1>1, <1>2, <2>1 DEF Once
  <1>3. ASSUME NEW c, c # d
        PROVE  DueKept(c)
    BY <1>1, <1>2, <1>3 DEF DueKept, Due
  <1>4. ASSUME Once(d)
        PROVE  ~Due(d)'
    <2>1. \A i \in DOMAIN batch' : batch'[i] # d
      <3>. SUFFICES ASSUME NEW i \in DOMAIN batch', batch'[i] = d
                    PROVE  FALSE
        OBVIOUS
      <3>1. i + 1 \in DOMAIN batch /\ 1 \in DOMAIN batch /\ batch[i + 1] = d /\ i \in Nat /\ i # 0
        BY <1>1
      <3>2. i + 1 = 1
        BY <1>1, <1>4, <3>1 DEF Once
      <3>. QED
        BY <3>1, <3>2
    <2>2. d \notin Range(cmds)
      BY <1>1, <1>4 DEF Once
    <2>3. d \notin Range(batch')
      BY <2>1 DEF Range
    <2>. QED
      BY <2>2, <2>3 DEF Due
  <1>5. Due(d)
    BY <1>1 DEF Due
  <1>. QED
    BY <1>1, <1>2, <1>3, <1>4, <1>5

\* Trades have different commands.
LEMMA CommandsDiffer ==
    /\ \A t \in Priced : MergeOf(t) \in Cmd /\ RemoveOf(t) \in Cmd
    /\ [op |-> "SourceReady"] \in Cmd /\ [op |-> "Shutdown"] \in Cmd
    /\ \A t, u : /\ MergeOf(t) # RemoveOf(u)
                 /\ MergeOf(t) = MergeOf(u) => t = u
                 /\ RemoveOf(t) = RemoveOf(u) => t = u
    /\ \A t, c : c \in {[op |-> "SourceReady"], [op |-> "Shutdown"]} =>
                    c # MergeOf(t) /\ c # RemoveOf(t)
    /\ \A c \in Cmd : /\ c.op \in {"Merge", "Remove", "SourceReady", "Shutdown"}
                      /\ c.op = "Merge" => c.from \in Priced /\ c = MergeOf(c.from)
                      /\ c.op = "Remove" => c.from \in Priced /\ c = RemoveOf(c.from)
                      /\ c.op = "SourceReady" => c = [op |-> "SourceReady"]
                      /\ c.op = "Shutdown" => c = [op |-> "Shutdown"]
  <1>1. \A t, u : MergeOf(t) # RemoveOf(u)
    <2>. SUFFICES ASSUME NEW t, NEW u, MergeOf(t) = RemoveOf(u) PROVE FALSE
      OBVIOUS
    <2>1. MergeOf(t).op = "Merge" /\ RemoveOf(u).op = "Remove"
      BY DEF MergeOf, RemoveOf
    <2>. QED
      BY <2>1
  <1>2. ASSUME NEW t, NEW u
        PROVE  /\ MergeOf(t) = MergeOf(u) => t = u
               /\ RemoveOf(t) = RemoveOf(u) => t = u
    <2>1. /\ MergeOf(t).from = t /\ MergeOf(u).from = u
          /\ RemoveOf(t).from = t /\ RemoveOf(u).from = u
      BY DEF MergeOf, RemoveOf
    <2>. QED
      BY <2>1
  <1>3. ASSUME NEW t, NEW c \in {[op |-> "SourceReady"], [op |-> "Shutdown"]}
        PROVE  c # MergeOf(t) /\ c # RemoveOf(t)
    <2>1. c.op \in {"SourceReady", "Shutdown"} /\ MergeOf(t).op = "Merge" /\ RemoveOf(t).op = "Remove"
      BY DEF MergeOf, RemoveOf
    <2>. QED
      BY <2>1
  <1>4. \A t \in Priced : MergeOf(t) \in Cmd /\ RemoveOf(t) \in Cmd
    BY DEF MergeOf, RemoveOf, Cmd
  <1>5. [op |-> "SourceReady"] \in Cmd /\ [op |-> "Shutdown"] \in Cmd
    BY DEF Cmd
  <1>6. ASSUME NEW c \in Cmd
        PROVE /\ c.op \in {"Merge", "Remove", "SourceReady", "Shutdown"}
              /\ c.op = "Merge" => c.from \in Priced /\ c = MergeOf(c.from)
              /\ c.op = "Remove" => c.from \in Priced /\ c = RemoveOf(c.from)
              /\ c.op = "SourceReady" => c = [op |-> "SourceReady"]
              /\ c.op = "Shutdown" => c = [op |-> "Shutdown"]
    BY DEF Cmd, MergeOf, RemoveOf
  <1>. QED
    BY <1>1, <1>2, <1>3, <1>4, <1>5, <1>6

\* Nothing that concerns trade u happens.
ClientQuiet(u) ==
    /\ request'[u] = request[u] /\ client'[u] = client[u]
    /\ u \in registered' <=> u \in registered
    /\ pc' = "stopped" <=> pc = "stopped"
    /\ DueKept(MergeOf(u)) /\ DueKept(RemoveOf(u))

\* Then the trade and its commands go together as before.
LEMMA ClientStays ==
    ASSUME NEW u, ClientInv(u), ClientQuiet(u)
    PROVE  ClientInv(u)'
  <1>1. Once(MergeOf(u))' /\ Once(RemoveOf(u))'
    BY DEF ClientInv, ClientQuiet, DueKept
  <1>2. (Due(MergeOf(u))' <=> Due(MergeOf(u))) /\ (Due(RemoveOf(u))' <=> Due(RemoveOf(u)))
    BY DEF ClientQuiet, DueKept
  <1>. QED
    BY <1>1, <1>2 DEF ClientInv, ClientQuiet

\* The channel is left alone.
LEMMA ChannelsKept ==
    ASSUME batch' = batch, cmds' = cmds
    PROVE  \A c : DueKept(c)
  BY DEF DueKept, Due, Once

\* A trade's command is sent, unless the loop has ended.
LEMMA TradeSends ==
    ASSUME CommandInv, NEW d \in Cmd, UNCHANGED <<batch, pc>>, E!SendCmd(d)
    PROVE  /\ cmds' \in Seq(Cmd)
           /\ \A c : c # d => DueKept(c)
           /\ pc # "stopped" => Due(d)'
           /\ pc = "stopped" => DueKept(d)
           /\ ~Due(d) => Once(d)'
  <1>1. CASE pc = "stopped"
    <2>1. cmds' = cmds
      BY <1>1 DEF E!SendCmd
    <2>2. \A c : DueKept(c)
      BY <2>1, ChannelsKept
    <2>3. ~Due(d) => Once(d)'
      BY <2>1 DEF Due, Once, Range
    <2>. QED
      BY <1>1, <2>1, <2>2, <2>3 DEF CommandInv
  <1>2. CASE pc # "stopped"
    BY <1>2, Sending DEF E!SendCmd, CommandInv
  <1>. QED
    BY <1>1, <1>2

\* RemoteSubgraphHandle::drop by whoever holds trade t's handle.
LEMMA HandleDropped ==
    ASSUME CommandInv, TypeOK, NEW t \in Trade, client[t] = "holding", E!DropHandle(t),
           request' = [request EXCEPT ![t] = "ended"]
    PROVE  CommandInv'
  <1>1. /\ t \in Priced /\ t \in registered /\ ~Due(MergeOf(t)) /\ ~Due(RemoveOf(t))
        /\ Once(MergeOf(t)) /\ Once(RemoveOf(t))
    BY DEF CommandInv, ClientInv
  <1>2. /\ client' = [client EXCEPT ![t] = "ready"] /\ E!SendCmd(RemoveOf(t))
        /\ UNCHANGED <<batch, pc, registered>>
    BY DEF E!DropHandle, E!loop, RemoveOf
  <1>3. /\ cmds' \in Seq(Cmd)
        /\ \A c : c # RemoveOf(t) => DueKept(c)
        /\ pc # "stopped" => Due(RemoveOf(t))'
        /\ Once(RemoveOf(t))'
    BY <1>1, <1>2, TradeSends, CommandsDiffer
  <1>4. ASSUME NEW u \in Trade, u # t
        PROVE  ClientInv(u)'
    <2>1. ClientQuiet(u)
      BY <1>2, <1>3, <1>4, CommandsDiffer DEF ClientQuiet, TypeOK, CommandInv
    <2>. QED
      BY <2>1, ClientStays DEF CommandInv
  <1>5. ClientInv(t)'
    <2>1. DueKept(MergeOf(t))
      BY <1>3, CommandsDiffer
    <2>2. ~Due(MergeOf(t))' /\ Once(MergeOf(t))'
      BY <1>1, <2>1 DEF DueKept
    <2>3. request'[t] = "ended" /\ client'[t] = "ready"
      BY <1>2 DEF TypeOK, CommandInv
    <2>. QED
      BY <1>1, <1>2, <1>3, <2>2, <2>3 DEF ClientInv
  <1>. QED
    BY <1>2, <1>3, <1>4, <1>5 DEF CommandInv

\* What the requests do with their trades.
LEMMA CommandServer ==
    ASSUME CommandInv, TypeOK, NEW t \in Trade,
           \/ create_trade(t) \/ Disconnect(t) \/ remove_trade(t) \/ BlockingMerge(t)
           \/ InsertTrade(t) \/ DropOutput(t) \/ DropRecord(t)
    PROVE  CommandInv'
  <1>0. /\ t \in DOMAIN request /\ t \in DOMAIN client /\ ClientInv(t)
        /\ t \in trades => request[t] = "listed"
    BY DEF TypeOK, CommandInv
  <1>1. CASE create_trade(t) \/ Disconnect(t) \/ InsertTrade(t)
    <2>1. UNCHANGED loop /\ \A c : DueKept(c)
      BY <1>1, ChannelsKept DEF create_trade, Disconnect, InsertTrade, loop
    <2>2. ASSUME NEW u \in Trade, u # t
          PROVE  ClientQuiet(u)
      BY <1>1, <2>1, <2>2 DEF create_trade, Disconnect, InsertTrade, ClientQuiet, TypeOK, loop
    <2>3. ClientInv(t)'
      <3>1. /\ Once(MergeOf(t))' /\ Once(RemoveOf(t))'
            /\ Due(MergeOf(t))' <=> Due(MergeOf(t))
            /\ Due(RemoveOf(t))' <=> Due(RemoveOf(t))
        BY <1>0, <2>1 DEF DueKept, ClientInv
      <3>2. CASE create_trade(t)
        <4>1. request'[t] \in {"rejected", "open"} /\ request'[t] = "open" => t \in Priced
          BY <1>0, <3>2, PairAssumption DEF create_trade, Priced
        <4>. QED
          BY <1>0, <2>1, <3>1, <3>2, <4>1 DEF create_trade, ClientInv, loop
      <3>3. CASE Disconnect(t)
        BY <1>0, <2>1, <3>1, <3>3 DEF Disconnect, ClientInv, loop
      <3>4. CASE InsertTrade(t)
        BY <1>0, <2>1, <3>1, <3>4 DEF InsertTrade, ClientInv, loop
      <3>. QED
        BY <1>1, <3>2, <3>3, <3>4
    <2>. QED
      BY <2>1, <2>2, <2>3, ClientStays DEF CommandInv, loop
  <1>2. CASE BlockingMerge(t)
    <2>1. /\ client[t] = "ready" /\ request[t] \in {"open", "cancelled"} /\ t \in Priced
          /\ client' = [client EXCEPT ![t] = "merging"] /\ E!SendCmd(MergeOf(t))
          /\ UNCHANGED <<batch, pc, registered, request>>
          /\ ~Due(MergeOf(t)) /\ ~Due(RemoveOf(t)) /\ t \notin registered
          /\ Once(RemoveOf(t))
      BY <1>0, <1>2 DEF BlockingMerge, E!CallMerge, E!loop, server, ClientInv, MergeOf
    <2>2. /\ cmds' \in Seq(Cmd)
          /\ \A c : c # MergeOf(t) => DueKept(c)
          /\ pc # "stopped" => Due(MergeOf(t))'
          /\ Once(MergeOf(t))'
      BY <2>1, TradeSends, CommandsDiffer
    <2>3. ASSUME NEW u \in Trade, u # t
          PROVE  ClientQuiet(u)
      BY <2>1, <2>2, <2>3, CommandsDiffer DEF ClientQuiet, CommandInv
    <2>4. ClientInv(t)'
      <3>1. ~Due(RemoveOf(t))' /\ Once(RemoveOf(t))'
        BY <2>1, <2>2, CommandsDiffer DEF DueKept
      <3>. QED
        BY <1>0, <2>1, <2>2, <3>1 DEF ClientInv
    <2>. QED
      BY <2>1, <2>2, <2>3, <2>4, ClientStays DEF CommandInv
  <1>3. CASE remove_trade(t) \/ DropRecord(t)
    <2>1. E!DropHandle(t) /\ request' = [request EXCEPT ![t] = "ended"] /\ client[t] = "holding"
      BY <1>3 DEF remove_trade, DropRecord, E!DropHandle
    <2>. QED
      BY <2>1, HandleDropped
  <1>4. CASE DropOutput(t)
    <2>1. request' = [request EXCEPT ![t] = "ended"] /\ request[t] = "cancelled"
      BY <1>4 DEF DropOutput
    <2>2. CASE E!DropHandle(t)
      BY <2>1, <2>2, HandleDropped DEF E!DropHandle
    <2>3. CASE E!MergeFails(t)
      <3>1. /\ client[t] = "merging" /\ client' = [client EXCEPT ![t] = "ready"]
            /\ UNCHANGED <<cmds, batch, pc, registered>>
            /\ ~Due(MergeOf(t))
        BY <2>3 DEF E!MergeFails, E!loop, E!ToSet, Due, Range, MergeOf
      <3>2. \A c : DueKept(c)
        BY <3>1, ChannelsKept
      <3>3. ASSUME NEW u \in Trade, u # t
            PROVE  ClientQuiet(u)
        BY <2>1, <3>1, <3>2, <3>3 DEF ClientQuiet, CommandInv, TypeOK
      <3>4. ClientInv(t)'
        <4>1. /\ Once(MergeOf(t))' /\ Once(RemoveOf(t))' /\ ~Due(MergeOf(t))'
          BY <1>0, <3>1, <3>2 DEF DueKept, ClientInv
        <4>2. pc = "stopped" /\ t \in Priced
          BY <1>0, <2>1, <3>1 DEF ClientInv
        <4>. QED
          BY <1>0, <2>1, <3>1, <4>1, <4>2 DEF ClientInv
      <3>. QED
        BY <3>1, <3>3, <3>4, ClientStays DEF CommandInv
    <2>. QED
      BY <1>4, <2>2, <2>3 DEF DropOutput
  <1>. QED
    BY <1>1, <1>2, <1>3, <1>4

\* Main, the bridge and the feed threads send commands of no trade.
LEMMA CommandOthers ==
    ASSUME CommandInv, UNCHANGED <<request, batch, pc, registered>>,
           \A u \in Trade : client'[u] = client[u], DOMAIN client' = DOMAIN client,
           \/ cmds' = cmds
           \/ E!SendCmd([op |-> "SourceReady"]) \/ E!SendCmd([op |-> "Shutdown"])
    PROVE  CommandInv'
  <1>1. /\ cmds' \in Seq(Cmd)
        /\ \A u : DueKept(MergeOf(u)) /\ DueKept(RemoveOf(u))
    <2>1. CASE cmds' = cmds
      BY <2>1, ChannelsKept DEF CommandInv
    <2>2. ASSUME NEW d \in {[op |-> "SourceReady"], [op |-> "Shutdown"]}, E!SendCmd(d)
          PROVE  /\ cmds' \in Seq(Cmd)
                 /\ \A u : DueKept(MergeOf(u)) /\ DueKept(RemoveOf(u))
      <3>1. d \in Cmd
        BY CommandsDiffer
      <3>2. cmds' \in Seq(Cmd) /\ \A c : c # d => DueKept(c)
        BY <2>2, <3>1, TradeSends
      <3>. QED
        BY <3>2, CommandsDiffer
    <2>. QED
      BY <2>1, <2>2
  <1>2. \A u \in Trade : ClientQuiet(u)
    BY <1>1 DEF ClientQuiet
  <1>. QED
    BY <1>1, <1>2, ClientStays DEF CommandInv

\* These steps.
LEMMA CommandMain ==
    ASSUME CommandInv, TypeOK,
           \/ ctrl_c \/ ServeReturns \/ Shutdown \/ Join \/ Bridge \/ UNCHANGED vars
           \/ \E s \in Source : \E i \in DOMAIN feeds[s] :
                 FeedStarts(s, i) \/ FeedEnds(s, i) \/ FeedSends(s, i) \/ FeedLost(s, i)
    PROVE  CommandInv'
  <1>1. CASE ctrl_c \/ ServeReturns \/ Join \/ UNCHANGED vars
    BY <1>1, CommandOthers DEF ctrl_c, ServeReturns, Join, vars, server, loop
  <1>2. CASE Shutdown
    <2>1. \A u \in Trade : client'[u] = client[u]
      BY <1>2, PairAssumption DEF Shutdown, E!Shutdown
    <2>. QED
      BY <1>2, <2>1, CommandOthers DEF Shutdown, E!Shutdown, E!loop
  <1>3. CASE Bridge
    BY <1>3, CommandOthers
       DEF Bridge, E!BridgeStep, E!BridgeForward, E!BridgeNotify, E!loop, server
  <1>4. ASSUME NEW s \in Source, NEW i \in DOMAIN feeds[s],
               FeedStarts(s, i) \/ FeedEnds(s, i) \/ FeedSends(s, i) \/ FeedLost(s, i)
        PROVE  CommandInv'
    BY <1>4, CommandOthers
       DEF FeedStarts, FeedEnds, FeedSends, FeedLost, E!SenderSend, E!loop, server, loop
  <1>. QED
    BY <1>1, <1>2, <1>3, <1>4

\* The engine's thread takes commands and handles them.
LEMMA CommandEngine ==
    ASSUME CommandInv, BusyInv, EngineStep
    PROVE  CommandInv'
  <1>1. CASE Begin \/ Recurse \/ Register
    <2>1. UNCHANGED <<request, batch, pc, registered, client, cmds>>
      BY <1>1 DEF Begin, Recurse, Register, loop, server
    <2>. QED
      BY <2>1, CommandOthers
  <1>2. CASE Finish
    <2>1. PICK d : d = Head(batch)
      OBVIOUS
    <2>2. /\ batch \in Seq(Cmd) /\ batch # <<>> /\ batch' = Tail(batch) /\ cmds' = cmds
          /\ UNCHANGED <<request, pc>> /\ pc = "handle"
      BY <1>2 DEF Finish, Busy, E!Handle, server, CommandInv
    <2>3. /\ batch' \in Seq(Cmd) /\ d \in Cmd /\ Due(d)
          /\ \A c : c # d => DueKept(c)
          /\ Once(d) => ~Due(d)' /\ Once(d)'
      BY <2>1, <2>2, Taking
    <2>4. CASE d.op = "Merge"
      <3>1. d.from \in Priced /\ d = MergeOf(d.from)
        BY <2>3, <2>4, CommandsDiffer
      <3>2. PICK t \in Trade : t = d.from /\ d = MergeOf(t)
        BY <3>1 DEF Priced
      <3>3. registered' = registered \cup {t} /\ client' = [client EXCEPT ![t] = "holding"]
        BY <1>2, <2>1, <2>4, <3>2 DEF Finish, E!Handle
      <3>4. ClientInv(t) /\ t \in DOMAIN client
        BY DEF CommandInv
      <3>5. ASSUME NEW u \in Trade, u # t
            PROVE  ClientQuiet(u)
        BY <2>2, <2>3, <3>2, <3>3, <3>5, CommandsDiffer DEF ClientQuiet
      <3>6. ClientInv(t)'
        <4>1. client[t] = "merging"
          BY <2>3, <3>2, <3>4 DEF ClientInv
        <4>2. ~Due(MergeOf(t))' /\ Once(MergeOf(t))'
          BY <2>3, <3>2, <3>4 DEF ClientInv
        <4>3. ~Due(RemoveOf(t))' /\ Once(RemoveOf(t))'
          BY <2>3, <3>2, <3>4, <4>1, CommandsDiffer DEF ClientInv, DueKept
        <4>. QED
          BY <2>2, <3>3, <3>4, <4>1, <4>2, <4>3 DEF ClientInv
      <3>. QED
        BY <2>2, <2>3, <3>3, <3>5, <3>6, ClientStays DEF CommandInv
    <2>5. CASE d.op = "Remove"
      <3>1. d.from \in Priced /\ d = RemoveOf(d.from)
        BY <2>3, <2>5, CommandsDiffer
      <3>2. PICK t \in Trade : t = d.from /\ d = RemoveOf(t)
        BY <3>1 DEF Priced
      <3>3. registered' = registered \ {t} /\ client' = client
        BY <1>2, <2>1, <2>5, <3>2 DEF Finish, E!Handle
      <3>4. ClientInv(t)
        BY DEF CommandInv
      <3>5. ASSUME NEW u \in Trade, u # t
            PROVE  ClientQuiet(u)
        BY <2>2, <2>3, <3>2, <3>3, <3>5, CommandsDiffer DEF ClientQuiet
      <3>6. ClientInv(t)'
        <4>1. client[t] = "ready" /\ request[t] = "ended" /\ ~Due(MergeOf(t))
          BY <2>3, <3>2, <3>4 DEF ClientInv
        <4>2. ~Due(MergeOf(t))' /\ Once(MergeOf(t))'
          BY <2>3, <3>2, <3>4, <4>1, CommandsDiffer DEF ClientInv, DueKept
        <4>3. ~Due(RemoveOf(t))' /\ Once(RemoveOf(t))'
          BY <2>3, <3>2, <3>4 DEF ClientInv
        <4>. QED
          BY <2>2, <3>3, <3>4, <4>1, <4>2, <4>3 DEF ClientInv
      <3>. QED
        BY <2>2, <2>3, <3>3, <3>5, <3>6, ClientStays DEF CommandInv
    <2>. QED
      BY <1>2, <2>1, <2>4, <2>5 DEF Finish, Busy
  <1>3. CASE Loop
    <2>1. CASE E!Recv
      <3>1. \A c : DueKept(c)
        BY <2>1, Receiving DEF E!Recv, BusyInv
      <3>2. UNCHANGED <<request, registered, client>> /\ pc # "stopped" /\ pc' # "stopped"
        BY <1>3, <2>1 DEF Loop, E!Recv, server
      <3>3. \A u \in Trade : ClientQuiet(u)
        BY <3>1, <3>2 DEF ClientQuiet
      <3>4. batch' \in Seq(Cmd) /\ cmds' \in Seq(Cmd)
        BY <2>1, EmptySeq DEF E!Recv, CommandInv
      <3>. QED
        BY <3>2, <3>3, <3>4, ClientStays DEF CommandInv
    <2>2. CASE E!EndBatch
      <3>1. UNCHANGED <<request, registered, client, batch, cmds>> /\ pc # "stopped" /\ pc' # "stopped"
        BY <1>3, <2>2 DEF Loop, E!EndBatch, server
      <3>2. \A u \in Trade : ClientQuiet(u)
        BY <3>1, ChannelsKept DEF ClientQuiet
      <3>. QED
        BY <3>1, <3>2, ClientStays DEF CommandInv
    <2>3. CASE (Busy("SourceReady") \/ Busy("Shutdown")) /\ E!Handle
      <3>1. PICK d : d = Head(batch)
        OBVIOUS
      <3>2. /\ batch \in Seq(Cmd) /\ batch # <<>> /\ batch' = Tail(batch) /\ cmds' = cmds
            /\ UNCHANGED <<request, pc, registered, client>> /\ d.op \in {"SourceReady", "Shutdown"}
        BY <1>3, <2>3, <3>1 DEF Loop, Busy, E!Handle, server, CommandInv
      <3>3. batch' \in Seq(Cmd) /\ d \in Cmd /\ \A c : c # d => DueKept(c)
        BY <3>1, <3>2, Taking
      <3>4. \A u \in Trade : ClientQuiet(u)
        BY <3>2, <3>3, CommandsDiffer DEF ClientQuiet
      <3>. QED
        BY <3>2, <3>3, <3>4, ClientStays DEF CommandInv
    <2>. QED
      BY <1>3, <2>1, <2>2, <2>3 DEF Loop
  <1>4. CASE Stop
    <2>1. /\ batch' = <<>> /\ cmds' = <<>> /\ pc' = "stopped"
          /\ UNCHANGED <<request, registered, client>>
      BY <1>4 DEF Stop, E!Stop, server
    <2>2. \A c : ~Due(c)' /\ Once(c)'
      BY <2>1 DEF Due, Once, Range
    <2>3. ASSUME NEW u \in Trade
          PROVE  ClientInv(u)'
      BY <2>1, <2>2 DEF CommandInv, ClientInv
    <2>. QED
      BY <2>1, <2>3, EmptySeq DEF CommandInv
  <1>. QED
    BY <1>1, <1>2, <1>3, <1>4 DEF EngineStep

\* Trades are merged once and removed once, and the map holds registered ones.
THEOREM FxCommands == Spec => []CommandInv
  <1>1. Init => CommandInv
    <2>. SUFFICES ASSUME Init PROVE CommandInv
      OBVIOUS
    <2>1. batch = <<>> /\ cmds = <<>>
      BY DEF Init, E!Init
    <2>2. \A c : ~Due(c) /\ Once(c)
      BY <2>1 DEF Due, Once, Range
    <2>. QED
      BY <2>1, <2>2, EmptySeq DEF Init, E!Init, CommandInv, ClientInv
  <1>2. ASSUME TypeOK, FeedsInv, CommandInv, [Next]_vars
        PROVE  CommandInv'
    <2>1. BusyInv
      BY <1>2 DEF FeedsInv
    <2>. QED
      BY <1>2, <2>1, CommandServer, CommandMain, CommandEngine
         DEF Next, ServerStep, FeedStep, Terminated
  <1>. QED
    BY <1>1, <1>2, FxTypes, FxFeeds, PTL DEF Spec

-----------------------------------------------------------------------------
(* The nodes of a trade                                                     *)

\* The nodes that trades share, and those that belong to one.
Common == Source \cup ({"mid"} \X CurrencyPair)
OwnNodes == UNION {Own(t) : t \in Trade}
Spread(t) == <<"spread", t>>
Publisher(t) == <<"publisher", t>>

Ids(t) == L!node_ids(build_trade_subgraph(t))
Descriptors(t) == L!descriptors(build_trade_subgraph(t))

\* Different nodes.
LEMMA NodesDiffer ==
    /\ NodeId = Common \cup OwnNodes
    /\ \A t : Own(t) = {Spread(t), Publisher(t)}
    /\ \A t, u : /\ Spread(t) # Publisher(u)
                 /\ Spread(t) = Spread(u) => t = u
                 /\ Publisher(t) = Publisher(u) => t = u
                 /\ t # u => Own(t) \cap Own(u) = {}
    /\ \A t : Spread(t) \notin Common /\ Publisher(t) \notin Common
    /\ Common \cap OwnNodes = {}
    /\ \A t \in Trade : /\ Kind[Publisher(t)] = "Sink" /\ Kind[Spread(t)] # "Sink"
                        /\ Spread(t) \in NodeId /\ Publisher(t) \in NodeId
  <1>1. NodeId = Common \cup OwnNodes
    BY DEF NodeId, Common, OwnNodes
  <1>2. \A t : Own(t) = {Spread(t), Publisher(t)}
    BY DEF Own, Spread, Publisher
  <1>3. ASSUME NEW t, NEW u
        PROVE  /\ Spread(t) # Publisher(u)
               /\ Spread(t) = Spread(u) => t = u
               /\ Publisher(t) = Publisher(u) => t = u
    BY DEF Spread, Publisher
  <1>4. \A t, u : t # u => Own(t) \cap Own(u) = {}
    BY <1>2, <1>3
  <1>5. \A n \in Common : n[1] \in {"bid", "ask", "mid"}
    BY DEF Common, Source
  <1>6. \A t : Spread(t)[1] = "spread" /\ Publisher(t)[1] = "publisher"
    BY DEF Spread, Publisher
  <1>7. \A t : Spread(t) \notin Common /\ Publisher(t) \notin Common
    BY <1>5, <1>6
  <1>8. Common \cap OwnNodes = {}
    BY <1>2, <1>7 DEF OwnNodes
  <1>9. ASSUME NEW t \in Trade
        PROVE  /\ Kind[Publisher(t)] = "Sink" /\ Kind[Spread(t)] # "Sink"
               /\ Spread(t) \in NodeId /\ Publisher(t) \in NodeId
    <2>1. Spread(t) \in NodeId /\ Publisher(t) \in NodeId
      BY <1>1, <1>2 DEF OwnNodes
    <2>. QED
      BY <1>6, <2>1 DEF Kind
  <1>. QED
    BY <1>1, <1>2, <1>3, <1>4, <1>7, <1>8, <1>9

\* What build_trade_subgraph registers.
LEMMA PlanIs ==
    ASSUME NEW t \in Priced
    PROVE  /\ t \in Trade
           /\ Ids(t) \in Seq(NodeId) /\ Ids(t) # <<>>
           /\ DOMAIN Ids(t) = 1..5 /\ Len(Ids(t)) = 5
           /\ Len(build_trade_subgraph(t)) = 5
           /\ \A i \in 1..3 : Ids(t)[i] \in Common
           /\ Ids(t)[4] = Spread(t) /\ Ids(t)[5] = Publisher(t)
           /\ DOMAIN Descriptors(t) = Range(Ids(t))
           /\ Descriptors(t)[Publisher(t)] = <<Spread(t)>>
           /\ \A n \in DOMAIN Descriptors(t) :
                 /\ Descriptors(t)[n] \in Seq(NodeId)
                 /\ n # Publisher(t) => Range(Descriptors(t)[n]) \subseteq Common
  <1>. DEFINE p == PairOf[t]
              plan == build_trade_subgraph(t)
  <1>1. t \in Trade /\ p \in CurrencyPair
    BY DEF Priced
  <1>2. /\ DOMAIN plan = 1..5 /\ Len(plan) = 5
        /\ plan[1] = [id |-> <<"bid", p>>, deps |-> <<>>]
        /\ plan[2] = [id |-> <<"ask", p>>, deps |-> <<>>]
        /\ plan[3] = [id |-> <<"mid", p>>, deps |-> <<<<"bid", p>>, <<"ask", p>>>>]
        /\ plan[4] = [id |-> Spread(t), deps |-> <<<<"mid", p>>>>]
        /\ plan[5] = [id |-> Publisher(t), deps |-> <<Spread(t)>>]
    BY DEF build_trade_subgraph, Spread, Publisher
  <1>3. <<"bid", p>> \in Common /\ <<"ask", p>> \in Common /\ <<"mid", p>> \in Common
    BY <1>1 DEF Common, Source
  <1>4. \A i \in 1..5 : i = 1 \/ i = 2 \/ i = 3 \/ i = 4 \/ i = 5
    OBVIOUS
  <1>5. Spread(t) \in NodeId /\ Publisher(t) \in NodeId /\ Common \subseteq NodeId
    BY <1>1, NodesDiffer
  <1>6. \A i \in 1..5 : plan[i].id \in NodeId
    BY <1>2, <1>3, <1>4, <1>5
  <1>7. /\ Ids(t) = [i \in 1..5 |-> plan[i].id]
        /\ Ids(t) \in [1..5 -> NodeId]
    BY <1>2, <1>6 DEF Ids, L!node_ids
  <1>8. Ids(t) \in Seq(NodeId) /\ DOMAIN Ids(t) = 1..5 /\ Len(Ids(t)) = 5
    BY <1>7, SeqDef, LenProperties
  <1>9. \A i, j \in 1..5 : plan[i].id = plan[j].id => i = j
    <2>1. /\ plan[1].id[1] = "bid" /\ plan[2].id[1] = "ask" /\ plan[3].id[1] = "mid"
          /\ plan[4].id[1] = "spread" /\ plan[5].id[1] = "publisher"
      BY <1>2 DEF Spread, Publisher
    <2>. QED
      BY <1>4, <2>1
  <1>10. ASSUME NEW i \in 1..5
         PROVE  plan[i].id \in DOMAIN Descriptors(t) /\ Descriptors(t)[plan[i].id] = plan[i].deps
    <2>1. PICK n : n = plan[i].id
      OBVIOUS
    <2>2. PICK f : f = CHOOSE k \in DOMAIN plan :
                          plan[k].id = n /\ \A j \in 1..(k - 1) : plan[j].id # n
      OBVIOUS
    <2>3. \A j \in 1..(i - 1) : j \in 1..5 /\ j # i
      OBVIOUS
    <2>4. \A j \in 1..(i - 1) : plan[j].id # n
      BY <1>9, <2>1, <2>3
    <2>5. f \in 1..5 /\ plan[f].id = n
      BY <1>2, <2>1, <2>2, <2>4
    <2>6. f = i
      BY <1>9, <2>1, <2>5
    <2>7. n \in DOMAIN Descriptors(t) /\ Descriptors(t)[n] = plan[f].deps
      BY <1>2, <2>1, <2>2 DEF Descriptors, L!descriptors
    <2>. QED
      BY <2>1, <2>6, <2>7
  <1>11. DOMAIN Descriptors(t) = {plan[i].id : i \in 1..5}
    BY <1>2 DEF Descriptors, L!descriptors
  <1>12. DOMAIN Descriptors(t) = Range(Ids(t))
    BY <1>7, <1>8, <1>11 DEF Range
  <1>13. \A i \in 1..5 : plan[i].deps \in Seq(NodeId) /\ (i # 5 => Range(plan[i].deps) \subseteq Common)
    <2>1. <<>> \in Seq(NodeId) /\ Range(<<>>) = {}
      BY EmptySeq DEF Range
    <2>2. /\ <<<<"bid", p>>, <<"ask", p>>>> \in Seq(NodeId)
          /\ Range(<<<<"bid", p>>, <<"ask", p>>>>) \subseteq Common
      BY <1>3, <1>5 DEF Range
    <2>3. <<<<"mid", p>>>> \in Seq(NodeId) /\ Range(<<<<"mid", p>>>>) \subseteq Common
      BY <1>3, <1>5 DEF Range
    <2>4. <<Spread(t)>> \in Seq(NodeId)
      BY <1>5
    <2>5. /\ plan[1].deps = <<>> /\ plan[2].deps = <<>>
          /\ plan[3].deps = <<<<"bid", p>>, <<"ask", p>>>>
          /\ plan[4].deps = <<<<"mid", p>>>> /\ plan[5].deps = <<Spread(t)>>
      BY <1>2
    <2>. HIDE DEF plan
    <2>6. ASSUME NEW i \in 1..5
          PROVE  plan[i].deps \in Seq(NodeId) /\ (i # 5 => Range(plan[i].deps) \subseteq Common)
      <3>1. CASE i = 1 \/ i = 2
        BY <2>1, <2>5, <3>1
      <3>2. CASE i = 3
        BY <2>2, <2>5, <3>2
      <3>3. CASE i = 4
        BY <2>3, <2>5, <3>3
      <3>4. CASE i = 5
        BY <2>4, <2>5, <3>4
      <3>. QED
        BY <1>4, <3>1, <3>2, <3>3, <3>4
    <2>. QED
      BY <2>6
  <1>14. ASSUME NEW n \in DOMAIN Descriptors(t)
         PROVE  /\ Descriptors(t)[n] \in Seq(NodeId)
                /\ n # Publisher(t) => Range(Descriptors(t)[n]) \subseteq Common
    <2>1. PICK i \in 1..5 : n = plan[i].id
      BY <1>11
    <2>2. Descriptors(t)[n] = plan[i].deps
      BY <1>10, <2>1
    <2>3. i = 5 => n = Publisher(t)
      BY <1>2, <2>1
    <2>. QED
      BY <1>13, <2>2, <2>3
  <1>15. Ids(t) # <<>>
    BY <1>8
  <1>16. \A i \in 1..3 : Ids(t)[i] \in Common
    <2>1. \A i \in 1..3 : i \in 1..5 /\ (i = 1 \/ i = 2 \/ i = 3)
      OBVIOUS
    <2>. QED
      BY <1>2, <1>3, <1>7, <2>1
  <1>17. Ids(t)[4] = Spread(t) /\ Ids(t)[5] = Publisher(t)
    BY <1>2, <1>7
  <1>18. Descriptors(t)[Publisher(t)] = <<Spread(t)>>
    BY <1>2, <1>10
  <1>. QED
    BY <1>1, <1>2, <1>8, <1>12, <1>14, <1>15, <1>16, <1>17, <1>18

-----------------------------------------------------------------------------
(* The trades in the engine                                                 *)

\* Only a publisher reads from a node of its trade, and a trade's nodes are referred to
\* once.
EntriesInv ==
    /\ active \subseteq DOMAIN entries
    /\ \A n \in DOMAIN entries :
          n \in NodeId /\ entries[n] \in [deps : Seq(NodeId), ref_count : Nat]
    /\ \A n \in DOMAIN entries \cap OwnNodes : entries[n].ref_count = 1
    /\ \A t \in Trade : Publisher(t) \in DOMAIN entries =>
                            entries[Publisher(t)].deps = <<Spread(t)>>
    /\ \A n \in DOMAIN entries :
          (\A t \in Trade : n # Publisher(t)) => Range(entries[n].deps) \subseteq Common

\* The engine's thread works on the command c.
Now(c) == pc = "handle" /\ batch # <<>> /\ Head(batch) = c

HandleOf(t, state, left) == handles[t] = [state |-> state, node_ids |-> Ids(t), left |-> left]

\* The engine has no node and no handle of the trade, ...
Out(t) == handles[t] = L!NoHandle /\ Own(t) \cap DOMAIN entries = {}
\* ... it has both, ...
In(t) == t \in Priced /\ HandleOf(t, "live", 5) /\ Own(t) \subseteq DOMAIN entries
\* ... or the handle is being drained: the publisher goes first and takes the spread
\* with it.
Going(t) ==
    /\ t \in Priced
    /\ \E left \in 1..5 :
        /\ HandleOf(t, "queued", left)
        /\ left = 5 => work = <<>> /\ Own(t) \subseteq active
        /\ left # 5 => Publisher(t) \notin DOMAIN entries
        /\ Spread(t) \in DOMAIN entries /\ left # 5 =>
              left = 4 /\ work = L!Frames("deactivate", <<Spread(t)>>)

\* The publisher and the spread are active, or about to be entered.
Activating(t) ==
    /\ \/ Publisher(t) \in active
       \/ [op |-> "sink", id |-> Publisher(t)] \in Range(work)
    /\ \/ Publisher(t) \notin active
       \/ Spread(t) \in active
       \/ [op |-> "enter", id |-> Spread(t)] \in Range(work)

Settled(t) == IF t \in registered THEN In(t) /\ Own(t) \subseteq active ELSE Out(t)

\* The engine has what the loop takes for registered, up to the command in hand.
TradeInv(t) ==
    /\ ~Now(MergeOf(t)) /\ ~Now(RemoveOf(t)) => Settled(t)
    /\ Now(MergeOf(t)) => IF phase = "activate" THEN In(t) /\ Activating(t) ELSE Out(t)
    /\ Now(RemoveOf(t)) =>
          \/ phase = "idle" /\ In(t) /\ Own(t) \subseteq active /\ pending_removals = <<>>
          \/ phase \in {"idle", "drain"} /\ Going(t) /\ pending_removals = <<t>>
          \/ phase \in {"drain", "body"} /\ Out(t) /\ pending_removals = <<>>

\* Only the handle in hand is queued, and its drain comes to shared nodes or to the
\* spread whose publisher it has removed.
DrainInv ==
    /\ DOMAIN handles = Trade
    /\ work \in Seq(L!Frame)
    /\ phase \in {"idle", "body"} => work = <<>>
    /\ phase = "drain" =>
          \/ \A f \in Range(work) : f.id \in Common
          \/ \E t \in Trade : Now(RemoveOf(t)) /\ handles[t].left = 4 /\
                              work = L!Frames("deactivate", <<Spread(t)>>)
    /\ pending_removals # <<>> => \E t \in Trade : Now(RemoveOf(t)) /\ pending_removals = <<t>>

LifeInv == EntriesInv /\ DrainInv /\ \A t \in Trade : TradeInv(t)

\* Steps outside of the engine's thread.
LEMMA LifeOutside ==
    ASSUME LifeInv, UNCHANGED <<engine, pc, batch, registered>>
    PROVE  LifeInv'
  <1>1. EntriesInv'
    BY DEF LifeInv, EntriesInv, engine
  <1>2. \A c : Now(c)' <=> Now(c)
    BY DEF Now
  <1>3. DrainInv'
    BY <1>2 DEF LifeInv, DrainInv, engine
  <1>4. ASSUME NEW t \in Trade
        PROVE  TradeInv(t)'
    BY <1>2 DEF LifeInv, TradeInv, Settled, Activating, Going, In, Out, HandleOf, engine
  <1>. QED
    BY <1>1, <1>3, <1>4 DEF LifeInv

\* The command in hand is on its way, and of a trade that can be priced.
LEMMA NowIsDue ==
    ASSUME CommandInv
    PROVE  /\ \A c : Now(c) => Due(c) /\ c \in Cmd
           /\ \A t : Now(MergeOf(t)) \/ Now(RemoveOf(t)) => t \in Priced
  <1>1. ASSUME NEW c, Now(c)
        PROVE  Due(c) /\ c \in Cmd
    BY <1>1, FirstAndRest DEF Now, Due, CommandInv
  <1>2. ASSUME NEW t, MergeOf(t) \in Cmd \/ RemoveOf(t) \in Cmd
        PROVE  t \in Priced
    BY <1>2, CommandsDiffer DEF MergeOf, RemoveOf
  <1>. QED
    BY <1>1, <1>2

\* A method runs for the command in hand.
LEMMA NowRuns ==
    ASSUME CommandInv, pc = "handle", batch # <<>>
    PROVE  /\ Head(batch).op = "Merge" => \E t \in Priced : t = Head(batch).from /\ Now(MergeOf(t))
           /\ Head(batch).op = "Remove" => \E t \in Priced : t = Head(batch).from /\ Now(RemoveOf(t))
  <1>1. Head(batch) \in Cmd
    BY FirstAndRest DEF CommandInv
  <1>. QED
    BY <1>1, CommandsDiffer DEF Now

\* One command at a time.
LEMMA NowOnce ==
    ASSUME NEW t, NEW u
    PROVE  /\ Now(MergeOf(t)) => ~Now(RemoveOf(u)) /\ (Now(MergeOf(u)) => u = t)
           /\ Now(RemoveOf(t)) => ~Now(MergeOf(u)) /\ (Now(RemoveOf(u)) => u = t)
  BY CommandsDiffer DEF Now

\* Between two commands all trades are settled, and so the next one can be handled.
LEMMA LifeSettled ==
    ASSUME LifeInv, CommandInv', UNCHANGED <<entries, active, handles>>,
           work' = <<>>, phase' = "idle", pending_removals' = <<>>,
           \A u \in Trade : Settled(u)'
    PROVE  LifeInv'
  <1>1. EntriesInv'
    BY DEF LifeInv, EntriesInv
  <1>2. DrainInv'
    BY EmptySeq DEF LifeInv, DrainInv
  <1>3. ASSUME NEW u \in Trade
        PROVE  TradeInv(u)'
    <2>1. Now(MergeOf(u))' => u \notin registered'
      <3>. SUFFICES ASSUME Now(MergeOf(u))' PROVE u \notin registered'
        OBVIOUS
      <3>1. Due(MergeOf(u))'
        <4>1. batch' \in Seq(Cmd) /\ batch' # <<>> /\ Head(batch') = MergeOf(u)
          BY DEF Now, CommandInv
        <4>. QED
          BY <4>1, FirstAndRest DEF Due
      <3>. QED
        BY <3>1 DEF CommandInv, ClientInv
    <2>2. Now(RemoveOf(u))' => u \in registered'
      <3>. SUFFICES ASSUME Now(RemoveOf(u))' PROVE u \in registered'
        OBVIOUS
      <3>1. Due(RemoveOf(u))' /\ pc' # "stopped"
        <4>1. batch' \in Seq(Cmd) /\ batch' # <<>> /\ Head(batch') = RemoveOf(u) /\ pc' = "handle"
          BY DEF Now, CommandInv
        <4>. QED
          BY <4>1, FirstAndRest DEF Due
      <3>. QED
        BY <3>1 DEF CommandInv, ClientInv
    <2>3. Settled(u)'
      OBVIOUS
    <2>. QED
      BY <2>1, <2>2, <2>3 DEF TradeInv, Settled
  <1>. QED
    BY <1>1, <1>2, <1>3 DEF LifeInv

\* Nothing happens to the nodes of trade u.
OwnKept(u) ==
    \A n \in Own(u) : (n \in DOMAIN entries' <=> n \in DOMAIN entries) /\ (n \in active => n \in active')

\* While the engine works on another trade, u stays as it is.
LEMMA OtherStays ==
    ASSUME NEW u, TradeInv(u), ~Now(MergeOf(u)), ~Now(RemoveOf(u)), OwnKept(u),
           UNCHANGED <<pc, batch, registered>>, handles'[u] = handles[u]
    PROVE  TradeInv(u)'
  <1>1. ~Now(MergeOf(u))' /\ ~Now(RemoveOf(u))'
    BY DEF Now
  <1>2. Settled(u)
    BY DEF TradeInv
  <1>3. Settled(u)'
    BY <1>2 DEF Settled, In, Out, HandleOf, OwnKept
  <1>. QED
    BY <1>1, <1>3 DEF TradeInv

\* Frames of calls for ids.
LEMMA FramesAre ==
    ASSUME NEW op \in {"deactivate", "sink", "enter", "finish"}, NEW ids \in Seq(NodeId)
    PROVE  /\ L!Frames(op, ids) \in Seq(L!Frame)
           /\ \A f : f \in Range(L!Frames(op, ids)) <=> \E n \in Range(ids) : f = [op |-> op, id |-> n]
  <1>1. DOMAIN ids = 1..Len(ids) /\ Len(ids) \in Nat /\ \A i \in 1..Len(ids) : ids[i] \in NodeId
    BY LenProperties, ElementOfSeq
  <1>2. L!Frames(op, ids) = [i \in 1..Len(ids) |-> [op |-> op, id |-> ids[i]]]
    BY <1>1 DEF L!Frames
  <1>3. L!Frames(op, ids) \in [1..Len(ids) -> L!Frame]
    BY <1>1, <1>2 DEF L!Frame
  <1>4. L!Frames(op, ids) \in Seq(L!Frame)
    BY <1>1, <1>3, SeqDef
  <1>5. \A f : f \in Range(L!Frames(op, ids)) <=> \E n \in Range(ids) : f = [op |-> op, id |-> n]
    BY <1>1, <1>2 DEF Range
  <1>. QED
    BY <1>4, <1>5

\* Frames on top of others.
LEMMA StackOn ==
    ASSUME NEW S, NEW a \in Seq(S), NEW b \in Seq(S)
    PROVE  a \o b \in Seq(S) /\ Range(a \o b) = Range(a) \cup Range(b)
  <1>1. /\ a \o b \in Seq(S) /\ Len(a \o b) = Len(a) + Len(b)
        /\ \A i \in 1..(Len(a) + Len(b)) : (a \o b)[i] = IF i <= Len(a) THEN a[i] ELSE b[i - Len(a)]
    BY ConcatProperties
  <1>2. /\ DOMAIN a = 1..Len(a) /\ DOMAIN b = 1..Len(b) /\ Len(a) \in Nat /\ Len(b) \in Nat
        /\ DOMAIN (a \o b) = 1..(Len(a) + Len(b))
    BY <1>1, LenProperties
  <1>3. ASSUME NEW i \in DOMAIN (a \o b)
        PROVE  (a \o b)[i] \in Range(a) \cup Range(b)
    <2>1. CASE i <= Len(a)
      BY <1>1, <1>2, <2>1 DEF Range
    <2>2. CASE ~(i <= Len(a))
      <3>1. i - Len(a) \in DOMAIN b
        BY <1>2, <2>2
      <3>. QED
        BY <1>1, <1>2, <2>2, <3>1 DEF Range
    <2>. QED
      BY <2>1, <2>2
  <1>4. ASSUME NEW i \in DOMAIN a
        PROVE  a[i] \in Range(a \o b)
    <2>1. i \in DOMAIN (a \o b) /\ i <= Len(a)
      BY <1>2
    <2>. QED
      BY <1>1, <1>2, <2>1 DEF Range
  <1>5. ASSUME NEW i \in DOMAIN b
        PROVE  b[i] \in Range(a \o b)
    <2>1. i + Len(a) \in DOMAIN (a \o b) /\ ~(i + Len(a) <= Len(a)) /\ (i + Len(a)) - Len(a) = i
      BY <1>2
    <2>2. (a \o b)[i + Len(a)] = b[i]
      BY <1>1, <1>2, <2>1
    <2>. QED
      BY <2>1, <2>2 DEF Range
  <1>. QED
    BY <1>1, <1>3, <1>4, <1>5 DEF Range

\* deactivate_node of any node.
LEMMA Deactivation ==
    ASSUME EntriesInv, NEW id \in NodeId, NEW rest, L!deactivate_node(id, rest)
    PROVE  /\ EntriesInv'
           /\ \A n \in NodeId \ {id} : /\ n \in DOMAIN entries' <=> n \in DOMAIN entries
                                       /\ n \in active' <=> n \in active
           /\ id \in OwnNodes => id \notin DOMAIN entries'
           /\ \/ work' = rest /\ ~(id \in OwnNodes /\ id \in DOMAIN entries)
              \/ id \in DOMAIN entries /\ work' = L!Frames("deactivate", entries[id].deps) \o rest
  <1>1. CASE id \notin DOMAIN entries /\ work' = rest /\ UNCHANGED L!registry
    BY <1>1 DEF L!registry, EntriesInv
  <1>2. CASE /\ id \in DOMAIN entries /\ L!Shared(id)
             /\ entries' = [entries EXCEPT ![id].ref_count = @ - 1]
             /\ work' = rest /\ active' = active
    <2>1. entries[id] \in [deps : Seq(NodeId), ref_count : Nat] /\ entries[id].ref_count > 1
      BY <1>2 DEF EntriesInv, L!Shared
    <2>2. id \notin OwnNodes
      BY <1>2, <2>1 DEF EntriesInv
    <2>3. /\ DOMAIN entries' = DOMAIN entries
          /\ \A n \in DOMAIN entries \ {id} : entries'[n] = entries[n]
          /\ entries'[id] \in [deps : Seq(NodeId), ref_count : Nat]
          /\ entries'[id].deps = entries[id].deps
      BY <1>2, <2>1
    <2>4. \A t \in Trade : id # Publisher(t) /\ id # Spread(t)
      BY <2>2, NodesDiffer DEF OwnNodes
    <2>5. EntriesInv'
      <3>1. \A n \in DOMAIN entries' : n \in NodeId /\ entries'[n] \in [deps : Seq(NodeId), ref_count : Nat]
        BY <2>3 DEF EntriesInv
      <3>2. \A n \in DOMAIN entries' \cap OwnNodes : entries'[n].ref_count = 1
        BY <2>2, <2>3 DEF EntriesInv
      <3>3. \A n \in DOMAIN entries' : entries'[n].deps = entries[n].deps
        BY <2>3
      <3>. QED
        BY <1>2, <2>3, <3>1, <3>2, <3>3 DEF EntriesInv
    <2>. QED
      BY <1>2, <2>2, <2>3, <2>5
  <1>3. CASE /\ id \in DOMAIN entries
             /\ entries' = [n \in DOMAIN entries \ {id} |-> entries[n]]
             /\ active' = active \ {id}
             /\ work' = L!Frames("deactivate", entries[id].deps) \o rest
    <2>1. DOMAIN entries' = DOMAIN entries \ {id} /\ \A n \in DOMAIN entries' : entries'[n] = entries[n]
      BY <1>3
    <2>2. EntriesInv'
      BY <1>3, <2>1 DEF EntriesInv
    <2>. QED
      BY <1>3, <2>1, <2>2
  <1>. QED
    BY <1>1, <1>2, <1>3 DEF L!deactivate_node

\* deactivate_node of a shared node spares the nodes of all trades, and goes on with
\* shared nodes.
LEMMA CommonGoes ==
    ASSUME EntriesInv, NEW id \in Common, NEW rest \in Seq(L!Frame), L!deactivate_node(id, rest)
    PROVE  /\ EntriesInv'
           /\ \A n \in OwnNodes : /\ n \in DOMAIN entries' <=> n \in DOMAIN entries
                                  /\ n \in active' <=> n \in active
           /\ work' \in Seq(L!Frame)
           /\ \A f \in Range(work') : f \in Range(rest) \/ f.id \in Common
  <1>1. id \in NodeId /\ id \notin OwnNodes /\ OwnNodes \subseteq NodeId \ {id}
    BY NodesDiffer
  <1>2. CASE work' = rest
    BY <1>1, <1>2, Deactivation
  <1>3. CASE id \in DOMAIN entries /\ work' = L!Frames("deactivate", entries[id].deps) \o rest
    <2>1. entries[id].deps \in Seq(NodeId)
      BY <1>3 DEF EntriesInv
    <2>2. Range(entries[id].deps) \subseteq Common
      BY <1>1, <1>3, NodesDiffer DEF EntriesInv
    <2>3. /\ L!Frames("deactivate", entries[id].deps) \in Seq(L!Frame)
          /\ \A f \in Range(L!Frames("deactivate", entries[id].deps)) : f.id \in Common
      BY <2>1, <2>2, FramesAre
    <2>4. work' \in Seq(L!Frame) /\ \A f \in Range(work') : f \in Range(rest) \/ f.id \in Common
      BY <1>3, <2>3, StackOn
    <2>. QED
      BY <1>1, <2>4, Deactivation
  <1>. QED
    BY <1>1, <1>2, <1>3, Deactivation

\* What the drain leaves alone: the command in hand, and the trades that it is not for.
DrainStep(t) ==
    /\ UNCHANGED <<pc, batch, registered, phase>>
    /\ phase = "drain" /\ Now(RemoveOf(t)) /\ t \in Priced
    /\ DOMAIN handles' = Trade
    /\ \A u \in Trade \ {t} : handles'[u] = handles[u]
    /\ \A n \in OwnNodes \ Own(t) : /\ n \in DOMAIN entries' <=> n \in DOMAIN entries
                                    /\ n \in active => n \in active'

\* The trades that the removal in hand is not for stay as they are.
LEMMA DrainKeepsOthers ==
    ASSUME NEW t \in Trade, DrainStep(t), LifeInv
    PROVE  \A u \in Trade \ {t} : TradeInv(u)'
  <1>. SUFFICES ASSUME NEW u \in Trade \ {t}
                PROVE  TradeInv(u)'
    OBVIOUS
  <1>1. Own(u) \subseteq OwnNodes \ Own(t)
    BY NodesDiffer DEF OwnNodes
  <1>2. OwnKept(u)
    BY <1>1 DEF DrainStep, OwnKept
  <1>. QED
    BY <1>2, NowOnce, OtherStays DEF DrainStep, LifeInv

\* The drain takes the next id of the handle in hand.
LEMMA LifeDrain ==
    ASSUME LifeInv, CommandInv, L!DrainNext, UNCHANGED <<pc, batch, registered>>
    PROVE  LifeInv'
  <1>1. PICK t \in Trade : Now(RemoveOf(t)) /\ pending_removals = <<t>>
    BY DEF LifeInv, DrainInv, L!DrainNext
  <1>2. phase = "drain" /\ work = <<>> /\ phase' = "drain" /\ t \in Priced
    BY <1>1, NowIsDue DEF L!DrainNext
  <1>3. TradeInv(t) /\ EntriesInv /\ DOMAIN handles = Trade
    BY DEF LifeInv, DrainInv
  <1>4. Going(t)
    BY <1>1, <1>2, <1>3 DEF TradeInv
  <1>5. PICK left \in 1..5 :
          /\ HandleOf(t, "queued", left)
          /\ left = 5 => Own(t) \subseteq active
          /\ left # 5 => Publisher(t) \notin DOMAIN entries
          /\ Spread(t) \in DOMAIN entries /\ left # 5 =>
                left = 4 /\ work = L!Frames("deactivate", <<Spread(t)>>)
    BY <1>4 DEF Going
  <1>6. Head(pending_removals) = t /\ Tail(pending_removals) = <<>>
    BY <1>1
  <1>7. /\ L!deactivate_node(Ids(t)[left], <<>>)
        /\ \/ left > 1 /\ handles' = [handles EXCEPT ![t].left = left - 1]
              /\ pending_removals' = <<t>>
           \/ left = 1 /\ handles' = [handles EXCEPT ![t] = L!NoHandle]
              /\ pending_removals' = <<>>
    BY <1>1, <1>5, <1>6 DEF L!DrainNext, HandleOf
  <1>8. /\ DOMAIN handles' = Trade /\ \A u \in Trade \ {t} : handles'[u] = handles[u]
        /\ \/ left > 1 /\ HandleOf(t, "queued", left - 1)' /\ pending_removals' = <<t>>
           \/ left = 1 /\ handles'[t] = L!NoHandle /\ pending_removals' = <<>>
    BY <1>3, <1>5, <1>7 DEF HandleOf
  <1>9. Now(RemoveOf(t))' /\ ~Now(MergeOf(t))'
    BY <1>1, NowOnce DEF Now
  <1>10. /\ Own(t) = {Spread(t), Publisher(t)} /\ Own(t) \subseteq OwnNodes
         /\ Spread(t) # Publisher(t) /\ Own(t) \subseteq NodeId
         /\ OwnNodes \subseteq NodeId
    BY NodesDiffer DEF OwnNodes
  <1>11. ASSUME DrainStep(t), EntriesInv', work' \in Seq(L!Frame),
                \/ \A f \in Range(work') : f.id \in Common
                \/ handles'[t].left = 4 /\ work' = L!Frames("deactivate", <<Spread(t)>>),
                TradeInv(t)'
         PROVE  LifeInv'
    <2>1. DrainInv'
      BY <1>2, <1>8, <1>9, <1>11 DEF DrainInv
    <2>2. \A u \in Trade : TradeInv(u)'
      BY <1>11, DrainKeepsOthers
    <2>. QED
      BY <1>11, <2>1, <2>2 DEF LifeInv
  <1>12. CASE left = 5
    <2>1. Ids(t)[left] = Publisher(t) /\ Publisher(t) \in DOMAIN entries /\ Own(t) \subseteq active
      BY <1>2, <1>3, <1>5, <1>10, <1>12, PlanIs DEF EntriesInv
    <2>2. /\ EntriesInv'
          /\ \A n \in NodeId \ {Publisher(t)} : /\ n \in DOMAIN entries' <=> n \in DOMAIN entries
                                                /\ n \in active' <=> n \in active
          /\ Publisher(t) \notin DOMAIN entries'
          /\ work' = L!Frames("deactivate", entries[Publisher(t)].deps) \o <<>>
      <3>1. L!deactivate_node(Publisher(t), <<>>)
        BY <1>7, <2>1
      <3>2. Publisher(t) \in NodeId /\ Publisher(t) \in OwnNodes
        BY <1>10
      <3>. QED
        BY <1>3, <2>1, <3>1, <3>2, Deactivation
    <2>3. <<Spread(t)>> \in Seq(NodeId) /\ entries[Publisher(t)].deps = <<Spread(t)>>
      BY <1>3, <1>10, <2>1 DEF EntriesInv
    <2>4. L!Frames("deactivate", <<Spread(t)>>) \in Seq(L!Frame)
      BY <2>3, FramesAre
    <2>5. work' = L!Frames("deactivate", <<Spread(t)>>)
      BY <2>2, <2>3, <2>4, ConcatEmptySeq
    <2>6. HandleOf(t, "queued", 4)' /\ pending_removals' = <<t>> /\ handles'[t].left = 4
      BY <1>8, <1>12 DEF HandleOf
    <2>7. TradeInv(t)'
      BY <1>2, <1>9, <2>2, <2>5, <2>6 DEF TradeInv, Going
    <2>8. DrainStep(t)
      BY <1>1, <1>2, <1>8, <1>10, <2>2 DEF DrainStep
    <2>. QED
      BY <1>11, <2>2, <2>4, <2>5, <2>6, <2>7, <2>8
  <1>13. CASE left = 4
    <2>1. Ids(t)[left] = Spread(t)
      BY <1>2, <1>13, PlanIs
    <2>2. Spread(t) \notin DOMAIN entries
      <3>1. L!Frames("deactivate", <<Spread(t)>>) # <<>>
        BY DEF L!Frames
      <3>. QED
        BY <1>2, <1>5, <1>13, <3>1
    <2>3. /\ EntriesInv'
          /\ \A n \in NodeId \ {Spread(t)} : /\ n \in DOMAIN entries' <=> n \in DOMAIN entries
                                             /\ n \in active' <=> n \in active
          /\ Spread(t) \notin DOMAIN entries'
          /\ work' = <<>>
      BY <1>3, <1>7, <1>10, <2>1, <2>2, Deactivation
    <2>4. HandleOf(t, "queued", 3)' /\ pending_removals' = <<t>>
      BY <1>8, <1>13
    <2>5. Publisher(t) \notin DOMAIN entries'
      BY <1>5, <1>10, <1>13, <2>3
    <2>6. TradeInv(t)'
      BY <1>2, <1>9, <2>3, <2>4, <2>5 DEF TradeInv, Going
    <2>7. DrainStep(t)
      BY <1>1, <1>2, <1>8, <1>10, <2>3 DEF DrainStep
    <2>8. work' \in Seq(L!Frame) /\ Range(work') = {}
      BY <2>3, EmptySeq DEF Range
    <2>. QED
      BY <1>11, <2>3, <2>6, <2>7, <2>8
  <1>14. CASE left \in 1..3
    <2>1. Ids(t)[left] \in Common /\ <<>> \in Seq(L!Frame) /\ Range(<<>>) = {}
      <3>1. \A i \in 1..3 : Ids(t)[i] \in Common
        BY <1>2, PlanIs
      <3>. QED
        BY <1>14, <3>1, EmptySeq DEF Range
    <2>2. /\ EntriesInv'
          /\ \A n \in OwnNodes : /\ n \in DOMAIN entries' <=> n \in DOMAIN entries
                                 /\ n \in active' <=> n \in active
          /\ work' \in Seq(L!Frame)
          /\ \A f \in Range(work') : f.id \in Common
      BY <1>3, <1>7, <2>1, CommonGoes
    <2>3. Publisher(t) \notin DOMAIN entries' /\ Spread(t) \notin DOMAIN entries'
      BY <1>5, <1>10, <1>14, <2>2
    <2>4. TradeInv(t)'
      <3>1. CASE left = 1
        BY <1>2, <1>8, <1>9, <1>10, <2>3, <3>1 DEF TradeInv, Out
      <3>2. CASE left \in {2, 3}
        <4>1. left - 1 \in 1..5 /\ left - 1 # 5 /\ left > 1
          BY <3>2
        <4>2. HandleOf(t, "queued", left - 1)' /\ pending_removals' = <<t>>
          BY <1>8, <4>1
        <4>. QED
          BY <1>2, <1>9, <2>3, <4>1, <4>2 DEF TradeInv, Going
      <3>. QED
        BY <1>14, <3>1, <3>2
    <2>5. DrainStep(t)
      BY <1>1, <1>2, <1>8, <1>10, <2>2 DEF DrainStep
    <2>. QED
      BY <1>11, <2>2, <2>4, <2>5
  <1>. QED
    BY <1>12, <1>13, <1>14

\* A step that leaves the nodes of all trades alone, for the command in hand.
LEMMA OwnSpared ==
    ASSUME LifeInv, EntriesInv', UNCHANGED <<pc, batch, registered, handles, pending_removals>>,
           phase = "drain", phase' = "drain",
           \A n \in OwnNodes : /\ n \in DOMAIN entries' <=> n \in DOMAIN entries
                               /\ n \in active' <=> n \in active,
           \A t \in Trade : Now(RemoveOf(t)) /\ Going(t) => Going(t)'
    PROVE  \A t \in Trade : TradeInv(t)'
  <1>. SUFFICES ASSUME NEW t \in Trade
                PROVE  TradeInv(t)'
    OBVIOUS
  <1>1. Own(t) \subseteq OwnNodes /\ \A c : Now(c)' <=> Now(c)
    BY DEF OwnNodes, Now
  <1>2. TradeInv(t)
    BY DEF LifeInv
  <1>3. CASE ~Now(MergeOf(t)) /\ ~Now(RemoveOf(t))
    BY <1>1, <1>2, <1>3, OtherStays DEF OwnKept
  <1>4. CASE Now(MergeOf(t))
    BY <1>1, <1>2, <1>4, NowOnce DEF TradeInv, Out
  <1>5. CASE Now(RemoveOf(t))
    BY <1>1, <1>2, <1>5, NowOnce DEF TradeInv, Out
  <1>. QED
    BY <1>3, <1>4, <1>5

\* The next call of the cascade.
LEMMA LifeCascade ==
    ASSUME LifeInv, CommandInv, L!CascadeNext, UNCHANGED <<pc, batch, registered>>
    PROVE  LifeInv'
  <1>1. /\ phase = "drain" /\ phase' = "drain" /\ work # <<>>
        /\ UNCHANGED <<handles, pending_removals>>
        /\ L!deactivate_node(Head(work).id, Tail(work))
    BY DEF L!CascadeNext
  <1>2. /\ EntriesInv /\ DOMAIN handles = Trade /\ work \in Seq(L!Frame)
        /\ \A c : Now(c)' <=> Now(c)
    BY DEF LifeInv, DrainInv, Now
  <1>3. /\ Head(work) \in Range(work) /\ Tail(work) \in Seq(L!Frame)
        /\ \A f \in Range(Tail(work)) : f \in Range(work)
    BY <1>1, <1>2, FirstAndRest
  <1>4. CASE \A f \in Range(work) : f.id \in Common
    <2>1. /\ EntriesInv'
          /\ \A n \in OwnNodes : /\ n \in DOMAIN entries' <=> n \in DOMAIN entries
                                 /\ n \in active' <=> n \in active
          /\ work' \in Seq(L!Frame)
          /\ \A f \in Range(work') : f.id \in Common
      <3>1. Head(work).id \in Common
        BY <1>3, <1>4
      <3>2. /\ EntriesInv'
            /\ \A n \in OwnNodes : /\ n \in DOMAIN entries' <=> n \in DOMAIN entries
                                   /\ n \in active' <=> n \in active
            /\ work' \in Seq(L!Frame)
            /\ \A f \in Range(work') : f \in Range(Tail(work)) \/ f.id \in Common
        BY <1>1, <1>2, <1>3, <3>1, CommonGoes
      <3>. QED
        BY <1>3, <1>4, <3>2
    <2>2. DrainInv'
      BY <1>1, <1>2, <2>1 DEF LifeInv, DrainInv
    <2>3. ASSUME NEW t \in Trade, Going(t)
          PROVE  Going(t)'
      <3>1. PICK left \in 1..5 :
              /\ HandleOf(t, "queued", left)
              /\ left = 5 => work = <<>> /\ Own(t) \subseteq active
              /\ left # 5 => Publisher(t) \notin DOMAIN entries
              /\ Spread(t) \in DOMAIN entries /\ left # 5 =>
                    left = 4 /\ work = L!Frames("deactivate", <<Spread(t)>>)
        BY <2>3 DEF Going
      <3>2. left # 5
        BY <1>1, <3>1
      <3>3. work # L!Frames("deactivate", <<Spread(t)>>)
        <4>. SUFFICES ASSUME work = L!Frames("deactivate", <<Spread(t)>>) PROVE FALSE
          OBVIOUS
        <4>1. Spread(t) \in NodeId /\ Spread(t) \notin Common
          BY NodesDiffer
        <4>2. <<Spread(t)>> \in Seq(NodeId) /\ Spread(t) \in Range(<<Spread(t)>>)
          BY <4>1 DEF Range
        <4>3. [op |-> "deactivate", id |-> Spread(t)] \in Range(work)
          BY <4>2, FramesAre
        <4>. QED
          BY <1>4, <4>1, <4>3
      <3>4. Publisher(t) \notin DOMAIN entries' /\ Spread(t) \notin DOMAIN entries'
        BY <2>1, <3>1, <3>2, <3>3, NodesDiffer DEF OwnNodes
      <3>5. HandleOf(t, "queued", left)' /\ t \in Priced
        BY <1>1, <2>3, <3>1 DEF HandleOf, Going
      <3>. QED
        BY <3>2, <3>4, <3>5 DEF Going
    <2>4. \A t \in Trade : TradeInv(t)'
      BY <1>1, <2>1, <2>3, OwnSpared
    <2>. QED
      BY <2>1, <2>2, <2>4 DEF LifeInv
  <1>5. ASSUME NEW t \in Trade, Now(RemoveOf(t)), handles[t].left = 4,
               work = L!Frames("deactivate", <<Spread(t)>>)
        PROVE  LifeInv'
    <2>1. /\ Own(t) = {Spread(t), Publisher(t)} /\ Own(t) \subseteq OwnNodes
          /\ Spread(t) # Publisher(t) /\ Own(t) \subseteq NodeId /\ OwnNodes \subseteq NodeId
      BY NodesDiffer DEF OwnNodes
    <2>2. Head(work).id = Spread(t) /\ Tail(work) = <<>>
      <3>1. work = <<[op |-> "deactivate", id |-> Spread(t)]>>
        BY <1>5 DEF L!Frames
      <3>. QED
        BY <3>1
    <2>3. L!deactivate_node(Spread(t), <<>>) /\ Spread(t) \in NodeId /\ Spread(t) \in OwnNodes
      BY <1>1, <2>1, <2>2
    <2>4. /\ EntriesInv'
          /\ \A n \in NodeId \ {Spread(t)} : /\ n \in DOMAIN entries' <=> n \in DOMAIN entries
                                             /\ n \in active' <=> n \in active
          /\ Spread(t) \notin DOMAIN entries'
          /\ \/ work' = <<>>
             \/ /\ Spread(t) \in DOMAIN entries
                /\ work' = L!Frames("deactivate", entries[Spread(t)].deps) \o <<>>
      BY <1>2, <2>3, Deactivation
    <2>5. work' \in Seq(L!Frame) /\ \A f \in Range(work') : f.id \in Common
      <3>1. CASE work' = <<>>
        BY <3>1, EmptySeq DEF Range
      <3>2. CASE /\ Spread(t) \in DOMAIN entries
                 /\ work' = L!Frames("deactivate", entries[Spread(t)].deps) \o <<>>
        <4>1. entries[Spread(t)].deps \in Seq(NodeId)
          BY <1>2, <3>2 DEF EntriesInv
        <4>2. Range(entries[Spread(t)].deps) \subseteq Common
          BY <1>2, <3>2, NodesDiffer DEF EntriesInv
        <4>3. L!Frames("deactivate", entries[Spread(t)].deps) \in Seq(L!Frame)
          BY <4>1, FramesAre
        <4>4. work' = L!Frames("deactivate", entries[Spread(t)].deps)
          BY <3>2, <4>3, ConcatEmptySeq
        <4>. QED
          BY <4>1, <4>2, <4>3, <4>4, FramesAre
      <3>. QED
        BY <2>4, <3>1, <3>2
    <2>6. t \in Priced /\ TradeInv(t)
      BY <1>5, NowIsDue DEF LifeInv
    <2>7. HandleOf(t, "queued", 4) /\ Publisher(t) \notin DOMAIN entries /\ pending_removals = <<t>>
      <3>1. ~Out(t)
        BY <1>5 DEF Out, L!NoHandle
      <3>2. Going(t) /\ pending_removals = <<t>>
        BY <1>1, <1>5, <2>6, <3>1 DEF TradeInv
      <3>. QED
        BY <1>5, <3>2 DEF Going, HandleOf
    <2>8. TradeInv(t)'
      <3>1. HandleOf(t, "queued", 4)' /\ Publisher(t) \notin DOMAIN entries' /\ pending_removals' = <<t>>
        BY <1>1, <2>1, <2>4, <2>7 DEF HandleOf
      <3>2. Going(t)'
        BY <2>4, <2>6, <3>1 DEF Going
      <3>. QED
        BY <1>1, <1>2, <1>5, <3>1, <3>2, NowOnce DEF TradeInv
    <2>9. DrainStep(t)
      BY <1>1, <1>2, <1>5, <2>1, <2>4, <2>6 DEF DrainStep
    <2>10. DrainInv'
      BY <1>1, <1>2, <2>5 DEF LifeInv, DrainInv
    <2>. QED
      BY <2>4, <2>8, <2>9, <2>10, DrainKeepsOthers DEF LifeInv
  <1>. QED
    BY <1>1, <1>4, <1>5 DEF LifeInv, DrainInv

\* The drain ends when the handle in hand is gone.
LEMMA LifeEndDrain ==
    ASSUME LifeInv, L!EndDrain, UNCHANGED <<pc, batch, registered>>
    PROVE  LifeInv'
  <1>1. /\ phase = "drain" /\ work = <<>> /\ pending_removals = <<>> /\ phase' = "body"
        /\ UNCHANGED <<entries, active, handles, pending_removals, work>>
        /\ \A c : Now(c)' <=> Now(c)
    BY DEF L!EndDrain, L!registry, Now
  <1>2. EntriesInv' /\ DrainInv'
    BY <1>1 DEF LifeInv, EntriesInv, DrainInv
  <1>3. ASSUME NEW t \in Trade
        PROVE  TradeInv(t)'
    <2>1. TradeInv(t)
      BY DEF LifeInv
    <2>2. Settled(t) <=> Settled(t)'
      BY <1>1 DEF Settled, In, Out, HandleOf
    <2>3. Out(t) <=> Out(t)'
      BY <1>1 DEF Out
    <2>. QED
      BY <1>1, <2>1, <2>2, <2>3 DEF TradeInv
  <1>. QED
    BY <1>2, <1>3 DEF LifeInv

\* The first step of a command: a merge drains nothing, a removal queues its handle.
LEMMA LifeBegin ==
    ASSUME LifeInv, CommandInv, Begin
    PROVE  LifeInv'
  <1>1. /\ phase = "idle" /\ pc = "handle" /\ batch # <<>>
        /\ UNCHANGED <<pc, batch, registered, entries, active, work>>
        /\ \A c : Now(c)' <=> Now(c)
    BY DEF Begin, Busy, L!Call, L!DropHandle, L!registry, loop, Now
  <1>2. work = <<>> /\ DOMAIN handles = Trade
    BY <1>1 DEF LifeInv, DrainInv
  <1>3. EntriesInv'
    BY <1>1 DEF LifeInv, EntriesInv
  <1>4. \A f \in Range(work') : f.id \in Common
    BY <1>1, <1>2 DEF Range
  <1>5. \A u \in Trade : OwnKept(u)
    BY <1>1 DEF OwnKept
  <1>6. ASSUME NEW t \in Priced, Now(MergeOf(t)), L!Call
        PROVE  LifeInv'
    <2>1. phase' = "drain" /\ UNCHANGED <<handles, pending_removals>>
      BY <1>6 DEF L!Call
    <2>2. DrainInv'
      BY <1>1, <1>2, <1>4, <2>1 DEF LifeInv, DrainInv
    <2>3. \A u \in Trade : TradeInv(u)'
      <3>. SUFFICES ASSUME NEW u \in Trade PROVE TradeInv(u)'
        OBVIOUS
      <3>1. CASE u = t
        BY <1>1, <1>6, <2>1, <3>1, NowOnce DEF LifeInv, TradeInv, Out
      <3>2. CASE u # t
        BY <1>1, <1>5, <1>6, <2>1, <3>2, NowOnce, OtherStays DEF LifeInv
      <3>. QED
        BY <3>1, <3>2
    <2>. QED
      BY <1>3, <2>2, <2>3 DEF LifeInv
  <1>7. ASSUME NEW t \in Priced, Now(RemoveOf(t)), L!DropHandle(t)
        PROVE  LifeInv'
    <2>0. t \in Trade /\ TradeInv(t)
      BY DEF Priced, LifeInv
    <2>1. handles[t].state = "live" /\ phase' = "idle"
      BY <1>1, <1>7 DEF L!DropHandle
    <2>2. In(t) /\ Own(t) \subseteq active /\ pending_removals = <<>>
      BY <1>1, <1>7, <2>0, <2>1 DEF TradeInv, Going, HandleOf
    <2>3. handles[t].node_ids # <<>>
      BY <2>2, PlanIs DEF In, HandleOf
    <2>4. pending_removals' = <<t>> /\ handles' = [handles EXCEPT ![t].state = "queued"]
      BY <1>7, <2>2, <2>3 DEF L!DropHandle
    <2>5. HandleOf(t, "queued", 5)' /\ DOMAIN handles' = Trade
          /\ \A u \in Trade \ {t} : handles'[u] = handles[u]
      BY <1>2, <2>0, <2>2, <2>4 DEF In, HandleOf
    <2>6. Going(t)'
      BY <1>1, <1>2, <2>2, <2>5 DEF Going
    <2>7. DrainInv'
      BY <1>1, <1>2, <1>7, <2>0, <2>1, <2>4, <2>5 DEF LifeInv, DrainInv
    <2>8. TradeInv(t)'
      BY <1>1, <1>7, <2>1, <2>4, <2>6, NowOnce DEF TradeInv
    <2>9. \A u \in Trade \ {t} : TradeInv(u)'
      BY <1>1, <1>5, <1>7, <2>5, NowOnce, OtherStays DEF LifeInv
    <2>. QED
      BY <1>3, <2>7, <2>8, <2>9 DEF LifeInv
  <1>8. ASSUME NEW t \in Priced, Now(RemoveOf(t)), handles[t].state = "queued", L!Call
        PROVE  LifeInv'
    <2>0. t \in Trade /\ TradeInv(t)
      BY DEF Priced, LifeInv
    <2>1. phase' = "drain" /\ UNCHANGED <<handles, pending_removals>>
      BY <1>8 DEF L!Call
    <2>2. Going(t) /\ pending_removals = <<t>>
      BY <1>1, <1>8, <2>0 DEF TradeInv, In, HandleOf
    <2>3. Going(t)'
      BY <1>1, <2>1, <2>2 DEF Going, HandleOf
    <2>4. DrainInv'
      BY <1>1, <1>2, <1>4, <2>1 DEF LifeInv, DrainInv
    <2>5. TradeInv(t)'
      BY <1>1, <1>8, <2>1, <2>2, <2>3, NowOnce DEF TradeInv
    <2>6. \A u \in Trade \ {t} : TradeInv(u)'
      BY <1>1, <1>5, <1>8, <2>1, NowOnce, OtherStays DEF LifeInv
    <2>. QED
      BY <1>3, <2>4, <2>5, <2>6 DEF LifeInv
  <1>. QED
    BY <1>1, <1>6, <1>7, <1>8, NowRuns DEF Begin, Busy

\* While the nodes of trade t are being activated.
LEMMA LifeActivates ==
    ASSUME LifeInv, NEW t \in Trade, Now(MergeOf(t)), phase = "activate", phase' = "activate",
           UNCHANGED <<pc, batch, registered, entries, handles, pending_removals>>,
           active \subseteq active', active' \subseteq DOMAIN entries, work' \in Seq(L!Frame),
           Activating(t)'
    PROVE  LifeInv'
  <1>1. \A c : Now(c)' <=> Now(c)
    BY DEF Now
  <1>2. EntriesInv'
    BY DEF LifeInv, EntriesInv
  <1>3. DrainInv'
    BY <1>1 DEF LifeInv, DrainInv
  <1>4. TradeInv(t)'
    <2>1. In(t)
      BY DEF LifeInv, TradeInv
    <2>2. In(t)'
      BY <2>1 DEF In, HandleOf
    <2>. QED
      BY <1>1, <2>2, NowOnce DEF TradeInv
  <1>5. ASSUME NEW u \in Trade \ {t}
        PROVE  TradeInv(u)'
    <2>1. OwnKept(u)
      BY DEF OwnKept
    <2>. QED
      BY <1>5, <2>1, NowOnce, OtherStays DEF LifeInv
  <1>. QED
    BY <1>2, <1>3, <1>4, <1>5 DEF LifeInv

\* activate_node of the next node.
LEMMA LifeEnter ==
    ASSUME LifeInv, CommandInv, BusyInv, L!EnterNode, UNCHANGED <<pc, batch, registered>>
    PROVE  LifeInv'
  <1>1. /\ phase = "activate" /\ phase' = "activate" /\ work # <<>>
        /\ UNCHANGED <<handles, pending_removals, entries>>
    BY DEF L!EnterNode, L!registry
  <1>2. PICK t \in Priced : Now(MergeOf(t))
    BY <1>1, NowRuns DEF BusyInv
  <1>3. t \in Trade /\ In(t) /\ Activating(t) /\ EntriesInv
    BY <1>1, <1>2 DEF Priced, LifeInv, TradeInv
  <1>4. /\ Head(work) \in L!Frame /\ Tail(work) \in Seq(L!Frame)
        /\ Range(work) = {Head(work)} \cup Range(Tail(work))
    BY <1>1, FirstAndRest DEF LifeInv, DrainInv
  <1>5. /\ Own(t) = {Spread(t), Publisher(t)} /\ Kind[Publisher(t)] = "Sink"
        /\ Spread(t) # Publisher(t) /\ Spread(t) \in NodeId
    BY <1>3, NodesDiffer
  <1>6. Own(t) \subseteq DOMAIN entries
    BY <1>3 DEF In
  <1>7. CASE /\ \/ Head(work).id \in active \/ Head(work).id \notin DOMAIN entries
                \/ Head(work).op = "sink" /\ Kind[Head(work).id] # "Sink"
             /\ work' = Tail(work) /\ active' = active
    <2>1. Activating(t)'
      <3>1. Publisher(t) \in active' \/ [op |-> "sink", id |-> Publisher(t)] \in Range(work')
        <4>. SUFFICES ASSUME Publisher(t) \notin active
                      PROVE  [op |-> "sink", id |-> Publisher(t)] \in Range(work')
          BY <1>7
        <4>1. [op |-> "sink", id |-> Publisher(t)] \in Range(work)
          BY <1>3 DEF Activating
        <4>2. Head(work) # [op |-> "sink", id |-> Publisher(t)]
          <5>. SUFFICES ASSUME Head(work) = [op |-> "sink", id |-> Publisher(t)] PROVE FALSE
            OBVIOUS
          <5>1. Head(work).id = Publisher(t)
            OBVIOUS
          <5>. QED
            BY <1>5, <1>6, <1>7, <5>1
        <4>. QED
          BY <1>4, <1>7, <4>1, <4>2
      <3>2. \/ Publisher(t) \notin active' \/ Spread(t) \in active'
            \/ [op |-> "enter", id |-> Spread(t)] \in Range(work')
        <4>. SUFFICES ASSUME Publisher(t) \in active, Spread(t) \notin active
                      PROVE  [op |-> "enter", id |-> Spread(t)] \in Range(work')
          BY <1>7
        <4>1. [op |-> "enter", id |-> Spread(t)] \in Range(work)
          BY <1>3 DEF Activating
        <4>2. Head(work) # [op |-> "enter", id |-> Spread(t)]
          <5>. SUFFICES ASSUME Head(work) = [op |-> "enter", id |-> Spread(t)] PROVE FALSE
            OBVIOUS
          <5>1. Head(work).id = Spread(t) /\ Head(work).op = "enter"
            OBVIOUS
          <5>. QED
            BY <1>5, <1>6, <1>7, <5>1
        <4>. QED
          BY <1>4, <1>7, <4>1, <4>2
      <3>. QED
        BY <3>1, <3>2 DEF Activating
    <2>2. active' \subseteq DOMAIN entries
      BY <1>3, <1>7 DEF EntriesInv
    <2>. QED
      BY <1>1, <1>2, <1>3, <1>4, <1>7, <2>1, <2>2, LifeActivates
  <1>8. CASE /\ Head(work).id \in DOMAIN entries
             /\ active' = active \cup {Head(work).id}
             /\ work' = L!Frames("enter", entries[Head(work).id].deps)
                          \o L!Frames("finish", <<Head(work).id>>) \o Tail(work)
    <2>1. PICK id : id = Head(work).id
      OBVIOUS
    <2>2. id \in NodeId /\ entries[id].deps \in Seq(NodeId) /\ <<id>> \in Seq(NodeId)
      BY <1>3, <1>8, <2>1 DEF EntriesInv
    <2>3. /\ L!Frames("enter", entries[id].deps) \in Seq(L!Frame)
          /\ L!Frames("finish", <<id>>) \in Seq(L!Frame)
      BY <2>2, FramesAre
    <2>4. /\ work' \in Seq(L!Frame)
          /\ Range(work') = (Range(L!Frames("enter", entries[id].deps))
                               \cup Range(L!Frames("finish", <<id>>))) \cup Range(Tail(work))
      <3>1. PICK a : a = L!Frames("enter", entries[id].deps) \o L!Frames("finish", <<id>>)
        OBVIOUS
      <3>2. /\ a \in Seq(L!Frame)
            /\ Range(a) = Range(L!Frames("enter", entries[id].deps))
                            \cup Range(L!Frames("finish", <<id>>))
        BY <2>3, <3>1, StackOn
      <3>3. work' = a \o Tail(work)
        BY <1>8, <2>1, <3>1
      <3>4. /\ a \o Tail(work) \in Seq(L!Frame)
            /\ Range(a \o Tail(work)) = Range(a) \cup Range(Tail(work))
        <4>1. PICK b \in Seq(L!Frame) : b = Tail(work)
          BY <1>4
        <4>2. a \in Seq(L!Frame)
          BY <3>2
        <4>3. a \o b \in Seq(L!Frame) /\ Range(a \o b) = Range(a) \cup Range(b)
          BY <4>2, StackOn
        <4>. QED
          BY <4>1, <4>3
      <3>. QED
        BY <3>2, <3>3, <3>4
    <2>5. Activating(t)'
      <3>1. Publisher(t) \in active' \/ [op |-> "sink", id |-> Publisher(t)] \in Range(work')
        <4>. SUFFICES ASSUME Publisher(t) \notin active, id # Publisher(t)
                      PROVE  [op |-> "sink", id |-> Publisher(t)] \in Range(work')
          BY <1>8, <2>1
        <4>1. [op |-> "sink", id |-> Publisher(t)] \in Range(work)
          BY <1>3 DEF Activating
        <4>2. Head(work) # [op |-> "sink", id |-> Publisher(t)]
          BY <2>1
        <4>. QED
          BY <1>4, <2>4, <4>1, <4>2
      <3>2. \/ Publisher(t) \notin active' \/ Spread(t) \in active'
            \/ [op |-> "enter", id |-> Spread(t)] \in Range(work')
        <4>1. CASE id = Spread(t)
          BY <1>8, <2>1, <4>1
        <4>2. CASE id = Publisher(t)
          <5>1. entries[id].deps = <<Spread(t)>>
            BY <1>3, <1>8, <2>1, <4>2 DEF EntriesInv
          <5>2. Spread(t) \in Range(entries[id].deps)
            BY <5>1 DEF Range
          <5>3. [op |-> "enter", id |-> Spread(t)] \in Range(L!Frames("enter", entries[id].deps))
            BY <2>2, <5>2, FramesAre
          <5>. QED
            BY <2>4, <5>3
        <4>3. CASE id # Spread(t) /\ id # Publisher(t)
          <5>. SUFFICES ASSUME Publisher(t) \in active, Spread(t) \notin active
                        PROVE  [op |-> "enter", id |-> Spread(t)] \in Range(work')
            BY <1>8, <2>1, <4>3
          <5>1. [op |-> "enter", id |-> Spread(t)] \in Range(work)
            BY <1>3 DEF Activating
          <5>2. Head(work) # [op |-> "enter", id |-> Spread(t)]
            BY <2>1, <4>3
          <5>. QED
            BY <1>4, <2>4, <5>1, <5>2
        <4>. QED
          BY <4>1, <4>2, <4>3
      <3>. QED
        BY <3>1, <3>2 DEF Activating
    <2>6. active \subseteq active' /\ active' \subseteq DOMAIN entries
      BY <1>3, <1>8 DEF EntriesInv
    <2>. QED
      BY <1>1, <1>2, <1>3, <2>4, <2>5, <2>6, LifeActivates
  <1>. QED
    BY <1>7, <1>8 DEF L!EnterNode, L!registry

\* What follows the recursive calls concerns the guards only.
LEMMA LifeFinishNode ==
    ASSUME LifeInv, CommandInv, BusyInv, L!FinishNode, UNCHANGED <<pc, batch, registered>>
    PROVE  LifeInv'
  <1>1. /\ phase = "activate" /\ phase' = "activate" /\ work # <<>>
        /\ UNCHANGED <<handles, pending_removals, entries, active>>
        /\ work' = Tail(work) /\ Head(work).op = "finish"
    BY DEF L!FinishNode
  <1>2. PICK t \in Priced : Now(MergeOf(t))
    BY <1>1, NowRuns DEF BusyInv
  <1>3. t \in Trade /\ Activating(t) /\ active \subseteq DOMAIN entries
    BY <1>1, <1>2 DEF Priced, LifeInv, TradeInv, EntriesInv
  <1>4. Tail(work) \in Seq(L!Frame) /\ Range(work) = {Head(work)} \cup Range(Tail(work))
    BY <1>1, FirstAndRest DEF LifeInv, DrainInv
  <1>5. \A n : Head(work) # [op |-> "sink", id |-> n] /\ Head(work) # [op |-> "enter", id |-> n]
    <2>1. \A n : [op |-> "sink", id |-> n].op = "sink" /\ [op |-> "enter", id |-> n].op = "enter"
      OBVIOUS
    <2>. QED
      BY <1>1, <2>1
  <1>6. Activating(t)'
    BY <1>1, <1>3, <1>4, <1>5 DEF Activating
  <1>. QED
    BY <1>1, <1>2, <1>3, <1>4, <1>6, LifeActivates

\* Engine::merge registers the trade's nodes.
LEMMA LifeRegister ==
    ASSUME LifeInv, CommandInv, Register
    PROVE  LifeInv'
  <1>1. /\ pc = "handle" /\ batch # <<>> /\ Head(batch).op = "Merge"
        /\ UNCHANGED <<pc, batch, registered>>
        /\ \A c : Now(c)' <=> Now(c)
    BY DEF Register, Busy, loop, Now
  <1>2. PICK t \in Priced : t = Head(batch).from /\ Now(MergeOf(t))
    BY <1>1, NowRuns
  <1>3. /\ phase = "body" /\ phase' = "activate"
        /\ entries' = L!register_node(Descriptors(t))
        /\ handles' = [handles EXCEPT ![t] = [state |-> "live", node_ids |-> Ids(t), left |-> 5]]
        /\ work' = L!Frames("sink", Ids(t))
        /\ UNCHANGED <<active, pending_removals>>
    BY <1>2, PlanIs DEF Register, L!Merge, Ids, Descriptors
  <1>4. /\ t \in Trade /\ Ids(t) \in Seq(NodeId)
        /\ DOMAIN Descriptors(t) = Range(Ids(t))
        /\ DOMAIN Ids(t) = 1..5
        /\ Descriptors(t)[Publisher(t)] = <<Spread(t)>>
        /\ \A n \in DOMAIN Descriptors(t) :
              /\ Descriptors(t)[n] \in Seq(NodeId)
              /\ n # Publisher(t) => Range(Descriptors(t)[n]) \subseteq Common
    BY PlanIs
  <1>5. Out(t) /\ EntriesInv /\ DOMAIN handles = Trade
    BY <1>2, <1>3, <1>4 DEF LifeInv, TradeInv, DrainInv
  <1>6. /\ Own(t) = {Spread(t), Publisher(t)} /\ Spread(t) # Publisher(t)
        /\ Own(t) \subseteq OwnNodes /\ Common \cap OwnNodes = {}
        /\ \A u : Publisher(u) = Publisher(t) => u = t
        /\ \A u \in Trade \ {t} : Own(u) \cap Own(t) = {} /\ Own(u) \subseteq OwnNodes
    BY <1>4, NodesDiffer DEF OwnNodes
  <1>7. /\ Own(t) \subseteq Range(Ids(t)) /\ Range(Ids(t)) \subseteq Common \cup Own(t)
        /\ Range(Ids(t)) \subseteq NodeId
    <2>1. /\ \A i \in 1..3 : Ids(t)[i] \in Common
          /\ Ids(t)[4] = Spread(t) /\ Ids(t)[5] = Publisher(t)
      BY PlanIs
    <2>2. \A i \in 1..5 : i \in 1..3 \/ i = 4 \/ i = 5
      OBVIOUS
    <2>3. \A i \in 1..5 : Ids(t)[i] \in Common \cup Own(t) /\ Ids(t)[i] \in NodeId
      <3>1. Common \subseteq NodeId /\ Own(t) \subseteq NodeId
        BY <1>6, NodesDiffer
      <3>. QED
        BY <1>6, <2>1, <2>2, <3>1
    <2>4. Spread(t) \in Range(Ids(t)) /\ Publisher(t) \in Range(Ids(t))
      BY <1>4, <2>1 DEF Range
    <2>. QED
      BY <1>4, <1>6, <2>3, <2>4 DEF Range
  <1>8. /\ DOMAIN entries' = DOMAIN entries \cup Range(Ids(t))
        /\ \A n \in DOMAIN entries \ Range(Ids(t)) : entries'[n] = entries[n]
        /\ \A n \in Range(Ids(t)) \ DOMAIN entries :
              entries'[n] = [deps |-> Descriptors(t)[n], ref_count |-> 1]
        /\ \A n \in DOMAIN entries \cap Range(Ids(t)) :
              entries'[n] = [entries[n] EXCEPT !.ref_count = @ + 1]
    BY <1>3, <1>4 DEF L!register_node
  <1>9. EntriesInv'
    <2>1. active' \subseteq DOMAIN entries'
      BY <1>3, <1>5, <1>8 DEF EntriesInv
    <2>2. ASSUME NEW n \in DOMAIN entries'
          PROVE  /\ n \in NodeId /\ entries'[n] \in [deps : Seq(NodeId), ref_count : Nat]
                 /\ n \in OwnNodes => entries'[n].ref_count = 1
                 /\ n \in DOMAIN entries => entries'[n].deps = entries[n].deps
                 /\ n \notin DOMAIN entries => n \in DOMAIN Descriptors(t)
                                               /\ entries'[n].deps = Descriptors(t)[n]
      <3>1. CASE n \in DOMAIN entries \ Range(Ids(t))
        BY <1>5, <1>8, <3>1 DEF EntriesInv
      <3>2. CASE n \in Range(Ids(t)) \ DOMAIN entries
        BY <1>4, <1>7, <1>8, <3>2
      <3>3. CASE n \in DOMAIN entries \cap Range(Ids(t))
        <4>1. entries[n] \in [deps : Seq(NodeId), ref_count : Nat] /\ n \in NodeId
          BY <1>5, <3>3 DEF EntriesInv
        <4>2. n \notin OwnNodes
          BY <1>5, <1>6, <1>7, <3>3 DEF Out
        <4>. QED
          BY <1>8, <3>3, <4>1, <4>2
      <3>. QED
        BY <1>8, <2>2, <3>1, <3>2, <3>3
    <2>3. ASSUME NEW u \in Trade, Publisher(u) \in DOMAIN entries'
          PROVE  entries'[Publisher(u)].deps = <<Spread(u)>>
      <3>1. CASE Publisher(u) \in DOMAIN entries
        BY <1>5, <2>2, <2>3, <3>1 DEF EntriesInv
      <3>2. CASE Publisher(u) \notin DOMAIN entries
        <4>1. Publisher(u) \in Common \cup Own(t)
          BY <1>4, <1>7, <2>2, <2>3, <3>2
        <4>2. u = t
          BY <1>6, <4>1, NodesDiffer
        <4>. QED
          BY <1>4, <2>2, <2>3, <3>2, <4>2
      <3>. QED
        BY <3>1, <3>2
    <2>4. ASSUME NEW n \in DOMAIN entries', \A u \in Trade : n # Publisher(u)
          PROVE  Range(entries'[n].deps) \subseteq Common
      BY <1>4, <1>5, <2>2, <2>4 DEF EntriesInv
    <2>. QED
      BY <2>1, <2>2, <2>3, <2>4 DEF EntriesInv
  <1>10. /\ work' \in Seq(L!Frame)
         /\ [op |-> "sink", id |-> Publisher(t)] \in Range(work')
    BY <1>3, <1>4, <1>6, <1>7, FramesAre
  <1>11. DOMAIN handles' = Trade /\ HandleOf(t, "live", 5)'
         /\ \A u \in Trade \ {t} : handles'[u] = handles[u]
    BY <1>3, <1>4, <1>5 DEF HandleOf
  <1>12. DrainInv'
    BY <1>1, <1>3, <1>10, <1>11 DEF LifeInv, DrainInv
  <1>13. TradeInv(t)'
    <2>1. In(t)'
      BY <1>7, <1>8, <1>11 DEF In
    <2>2. Publisher(t) \notin active'
      BY <1>3, <1>5, <1>6 DEF EntriesInv, Out
    <2>3. Activating(t)'
      BY <1>10, <2>2 DEF Activating
    <2>. QED
      BY <1>1, <1>2, <1>3, <2>1, <2>3, NowOnce DEF TradeInv
  <1>14. ASSUME NEW u \in Trade \ {t}
         PROVE  TradeInv(u)'
    <2>1. OwnKept(u)
      BY <1>3, <1>6, <1>7, <1>8 DEF OwnKept
    <2>. QED
      BY <1>1, <1>2, <1>11, <2>1, NowOnce, OtherStays DEF LifeInv
  <1>. QED
    BY <1>9, <1>12, <1>13, <1>14 DEF LifeInv

\* When no trade is worked on, all of them are settled.
LEMMA LifeIdle ==
    ASSUME LifeInv, BusyInv,
           pc = "handle" /\ batch # <<>> => Head(batch).op \notin {"Merge", "Remove"}
    PROVE  /\ phase = "idle" /\ work = <<>> /\ pending_removals = <<>>
           /\ \A u \in Trade : Settled(u)
  <1>1. \A u : MergeOf(u).op = "Merge" /\ RemoveOf(u).op = "Remove"
    BY DEF MergeOf, RemoveOf
  <1>2. \A u : ~Now(MergeOf(u)) /\ ~Now(RemoveOf(u))
    BY <1>1 DEF Now
  <1>3. phase = "idle"
    BY DEF BusyInv
  <1>. QED
    BY <1>2, <1>3 DEF LifeInv, DrainInv, TradeInv

\* The command is done: the engine has the trade of a merge and not that of a removal.
LEMMA LifeFinish ==
    ASSUME LifeInv, CommandInv, CommandInv', Finish
    PROVE  LifeInv'
  <1>1. /\ pc = "handle" /\ batch # <<>> /\ phase' = "idle"
        /\ UNCHANGED <<entries, active, handles, work, pending_removals>>
    BY DEF Finish, Busy, L!Return, L!registry
  <1>2. \A u : Settled(u)' <=> IF u \in registered' THEN In(u) /\ Own(u) \subseteq active ELSE Out(u)
    BY <1>1 DEF Settled, In, Out, HandleOf
  <1>3. ASSUME NEW t \in Trade, Now(MergeOf(t)) \/ Now(RemoveOf(t)),
               NEW u \in Trade, u # t, u \in registered' <=> u \in registered
        PROVE  Settled(u)'
    <2>1. Settled(u)
      BY <1>3, NowOnce DEF LifeInv, TradeInv
    <2>. QED
      BY <1>2, <1>3, <2>1 DEF Settled
  <1>4. ASSUME Head(batch).op = "Merge", phase = "activate", work = <<>>
        PROVE  LifeInv'
    <2>1. PICK t \in Priced : t = Head(batch).from /\ Now(MergeOf(t))
      BY <1>1, <1>4, NowRuns
    <2>2. t \in Trade /\ In(t) /\ Activating(t)
      BY <1>4, <2>1 DEF Priced, LifeInv, TradeInv
    <2>3. registered' = registered \cup {t}
      BY <1>4, <2>1 DEF Finish, E!Handle
    <2>4. Own(t) \subseteq active
      <3>1. Range(work) = {}
        BY <1>4 DEF Range
      <3>2. Publisher(t) \in active /\ Spread(t) \in active
        BY <2>2, <3>1 DEF Activating
      <3>. QED
        BY <2>2, <3>2, NodesDiffer
    <2>5. pending_removals = <<>>
      BY <2>1, NowOnce DEF LifeInv, DrainInv
    <2>6. \A u \in Trade : Settled(u)'
      BY <1>2, <1>3, <2>1, <2>2, <2>3, <2>4
    <2>. QED
      BY <1>1, <1>4, <2>5, <2>6, LifeSettled
  <1>5. ASSUME Head(batch).op = "Remove", phase = "body"
        PROVE  LifeInv'
    <2>1. PICK t \in Priced : t = Head(batch).from /\ Now(RemoveOf(t))
      BY <1>1, <1>5, NowRuns
    <2>2. t \in Trade /\ Out(t) /\ pending_removals = <<>> /\ work = <<>>
      BY <1>5, <2>1 DEF Priced, LifeInv, TradeInv, DrainInv
    <2>3. registered' = registered \ {t}
      BY <1>5, <2>1 DEF Finish, E!Handle
    <2>4. \A u \in Trade : Settled(u)'
      BY <1>2, <1>3, <2>1, <2>2, <2>3
    <2>. QED
      BY <1>1, <2>2, <2>4, LifeSettled
  <1>. QED
    BY <1>4, <1>5 DEF Finish, Busy, L!Return

\* The loop and its end leave the registry alone.
LEMMA LifeLoop ==
    ASSUME LifeInv, BusyInv, CommandInv', Loop \/ Stop
    PROVE  LifeInv'
  <1>1. UNCHANGED <<entries, active, handles, work, phase, pending_removals, registered>>
    BY DEF Loop, Stop, Busy, E!Recv, E!EndBatch, E!Handle, E!Stop, engine
  <1>2. pc = "handle" /\ batch # <<>> => Head(batch).op \notin {"Merge", "Remove"}
    BY DEF Loop, Stop, Busy, E!Recv, E!EndBatch, E!Stop
  <1>3. /\ phase = "idle" /\ work = <<>> /\ pending_removals = <<>>
        /\ \A u \in Trade : Settled(u)
    BY <1>2, LifeIdle
  <1>4. \A u \in Trade : Settled(u)'
    BY <1>1, <1>3 DEF Settled, In, Out, HandleOf
  <1>. QED
    BY <1>1, <1>3, <1>4, LifeSettled

\* The engine's thread, step by step.
LEMMA LifeEngine ==
    ASSUME LifeInv, CommandInv, CommandInv', BusyInv, EngineStep
    PROVE  LifeInv'
  <1>1. CASE Recurse
    <2>1. UNCHANGED <<pc, batch, registered>>
      BY <1>1 DEF Recurse, loop
    <2>. QED
      BY <1>1, <2>1, LifeEndDrain, LifeDrain, LifeCascade, LifeEnter, LifeFinishNode DEF Recurse
  <1>. QED
    BY <1>1, LifeBegin, LifeRegister, LifeFinish, LifeLoop DEF EngineStep

\* What the engine has of each trade is what the event loop takes for registered.
THEOREM FxLife == Spec => []LifeInv
  <1>1. Init => LifeInv
    <2>. SUFFICES ASSUME Init PROVE LifeInv
      OBVIOUS
    <2>1. /\ DOMAIN entries = {} /\ active = {} /\ work = <<>> /\ phase = "idle"
          /\ pending_removals = <<>> /\ registered = {} /\ pc = "recv"
          /\ DOMAIN handles = Trade /\ \A t \in Trade : handles[t] = L!NoHandle
      BY DEF Init, L!Init, E!Init
    <2>2. EntriesInv /\ DrainInv
      BY <2>1, EmptySeq DEF EntriesInv, DrainInv
    <2>3. \A t \in Trade : TradeInv(t)
      BY <2>1 DEF TradeInv, Settled, Out, Now
    <2>. QED
      BY <2>2, <2>3 DEF LifeInv
  <1>2. ASSUME TypeOK, FeedsInv, CommandInv, CommandInv', LifeInv, [Next]_vars
        PROVE  LifeInv'
    <2>1. BusyInv /\ feeds \in [Source -> Threads]
      BY <1>2 DEF FeedsInv, TypeOK, Threads
    <2>2. CASE EngineStep
      BY <1>2, <2>1, <2>2, LifeEngine
    <2>3. CASE Outside
      BY <1>2, <2>3, LifeOutside DEF Outside
    <2>. QED
      BY <1>2, <2>1, <2>2, <2>3, StepCases
  <1>. QED
    BY <1>1, <1>2, FxTypes, FxFeeds, FxCommands, PTL DEF Spec

\* A listed trade is registered, and between two batches the engine has exactly the
\* registered trades' own nodes, active: neither what other trades share with it nor
\* requests that are cancelled touch them (create_trade, remove_trade, Engine::merge,
\* deactivate_node).
THEOREM FxTradeKept == Spec => []TradeKept
  <1>1. ASSUME TypeOK, FeedsInv, CommandInv, LifeInv
        PROVE  TradeKept
    <2>1. ASSUME NEW t \in trades
          PROVE  t \in registered
      <3>1. t \in Trade /\ request[t] = "listed"
        BY <1>1 DEF TypeOK
      <3>. QED
        BY <1>1, <3>1 DEF CommandInv, ClientInv
    <2>2. ASSUME phase = "idle", batch = <<>>
          PROVE  registered = {t \in Trade : Own(t) \subseteq active}
      <3>1. \A u \in Trade : Settled(u)
        BY <1>1, <2>2, LifeIdle DEF FeedsInv
      <3>2. registered \subseteq Trade /\ active \subseteq DOMAIN entries
        BY <1>1 DEF CommandInv, LifeInv, EntriesInv
      <3>3. ASSUME NEW u \in Trade, Own(u) \subseteq active
            PROVE  ~Out(u)
        BY <3>2, <3>3, NodesDiffer DEF Out
      <3>. QED
        BY <3>1, <3>2, <3>3 DEF Settled
    <2>. QED
      BY <2>1, <2>2 DEF TradeKept
  <1>. QED
    BY <1>1, FxTypes, FxFeeds, FxCommands, FxLife, PTL

-----------------------------------------------------------------------------
(* The layers                                                               *)

\* A step of the engine's thread is one of the registry's or leaves it alone, ...
LEMMA RegistryStep ==
    ASSUME CommandInv, EngineStep
    PROVE  [L!Next]_engine
  <1>1. CASE Begin
    <2>1. ASSUME Busy("Remove")
          PROVE  Head(batch).from \in Trade
      <3>1. batch # <<>> /\ batch \in Seq(Cmd) /\ Head(batch).op = "Remove"
        BY <2>1 DEF Busy, CommandInv
      <3>2. Head(batch) \in Cmd
        BY <3>1, HeadTailProperties
      <3>. QED
        BY <3>1, <3>2 DEF Cmd, Priced
    <2>2. CASE L!Call
      BY <2>2 DEF L!Next
    <2>3. CASE Busy("Remove") /\ L!DropHandle(Head(batch).from)
      <3>1. PICK t \in Trade : L!DropHandle(t)
        BY <2>1, <2>3
      <3>. QED
        BY <3>1 DEF L!Next
    <2>. QED
      BY <1>1, <2>2, <2>3 DEF Begin
  <1>2. CASE Recurse
    BY <1>2 DEF Recurse, L!Next, L!Step
  <1>3. CASE Register
    <2>1. batch # <<>> /\ batch \in Seq(Cmd) /\ Head(batch).op = "Merge"
      BY <1>3 DEF Register, Busy, CommandInv
    <2>2. Head(batch) \in Cmd
      BY <2>1, HeadTailProperties
    <2>3. Head(batch).from \in Priced
      BY <2>1, <2>2 DEF Cmd
    <2>4. \E t \in Priced : L!Merge(t, build_trade_subgraph(t))
      BY <1>3, <2>3 DEF Register
    <2>. QED
      BY <2>4 DEF L!Next, Priced
  <1>4. CASE Finish
    BY <1>4 DEF Finish, L!Next, L!Step
  <1>5. CASE Loop \/ Stop
    BY <1>5 DEF Loop, Stop
  <1>. QED
    BY <1>1, <1>2, <1>3, <1>4, <1>5 DEF EngineStep

\* ... and one of the event loop or leaves that alone.
LEMMA LoopEngineStep ==
    ASSUME EngineStep
    PROVE  [E!Next]_loop
  <1>1. CASE Begin \/ Recurse \/ Register
    BY <1>1 DEF Begin, Recurse, Register
  <1>2. CASE Finish \/ Loop
    BY <1>2 DEF Finish, Loop, E!Next, E!LoopStep
  <1>3. CASE Stop
    BY <1>3 DEF Stop, E!Next, E!LoopStep
  <1>. QED
    BY <1>1, <1>2, <1>3 DEF EngineStep

\* Handlers and feed threads do not touch the registry, and the event loop only through
\* its channels.
LEMMA OutsideStep ==
    ASSUME [Next]_vars, ~EngineStep
    PROVE  UNCHANGED engine /\ [E!Next]_loop
  <1>1. CASE \E t \in Trade : create_trade(t) \/ Disconnect(t) \/ InsertTrade(t)
    BY <1>1 DEF create_trade, Disconnect, InsertTrade
  <1>2. ASSUME NEW t \in Trade, BlockingMerge(t) \/ remove_trade(t) \/ DropRecord(t) \/ DropOutput(t)
        PROVE  UNCHANGED engine /\ [E!Next]_loop
    <2>1. UNCHANGED engine /\ (E!CallMerge(t) \/ E!DropHandle(t) \/ E!MergeFails(t))
      BY <1>2 DEF BlockingMerge, remove_trade, DropRecord, DropOutput
    <2>2. t \in Trade \cup {Main}
      OBVIOUS
    <2>. QED
      BY <2>1, <2>2 DEF E!Next
  <1>3. CASE ctrl_c \/ ServeReturns \/ Join \/ Terminated
    BY <1>3 DEF ctrl_c, ServeReturns, Join, Terminated, vars
  <1>4. CASE Shutdown
    <2>1. UNCHANGED engine /\ E!Shutdown(Main) /\ Main \in Trade \cup {Main}
      BY <1>4 DEF Shutdown
    <2>. QED
      BY <2>1 DEF E!Next
  <1>5. CASE \E s \in Source : \E i \in DOMAIN feeds[s] :
                FeedStarts(s, i) \/ FeedEnds(s, i) \/ FeedLost(s, i)
    BY <1>5 DEF FeedStarts, FeedEnds, FeedLost
  <1>6. CASE \E s \in Source : \E i \in DOMAIN feeds[s] : FeedSends(s, i)
    BY <1>6 DEF FeedSends, E!Next
  <1>7. CASE Bridge
    BY <1>7 DEF Bridge, E!Next
  <1>8. CASE UNCHANGED vars
    BY <1>8 DEF vars
  <1>. QED
    BY <1>1, <1>2, <1>3, <1>4, <1>5, <1>6, <1>7, <1>8 DEF Next, ServerStep, FeedStep

\* The server is an instance of both layers: whatever its handlers and feed threads do, its
\* engine only goes through the lifecycle of Lifecycle, with the subgraphs of known pairs,
\* and its threads only through the protocol of EventLoop, so what is proved of the two
\* holds of the server, too (build_trade_subgraph, create_trade, run_event_loop).
THEOREM FxLayers == Spec => Layers
  <1>1. Init => L!Init /\ E!Init
    BY DEF Init
  <1>2. ASSUME CommandInv, [Next]_vars
        PROVE  [L!Next]_(L!vars) /\ [E!Next]_(E!vars)
    <2>1. [L!Next]_engine /\ [E!Next]_loop
      BY <1>2, RegistryStep, LoopEngineStep, OutsideStep
    <2>. QED
      BY <2>1 DEF engine, loop, L!vars, L!registry, E!vars, E!async, E!loop
  <1>. QED
    BY <1>1, <1>2, FxCommands, PTL DEF Spec, Layers, L!Spec, E!Spec
=============================================================================
