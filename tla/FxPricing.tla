------------------------------ MODULE FxPricing ------------------------------
(***************************************************************************)
(* The pricing server of examples/fx_pricing: the HTTP handlers and the     *)
(* main function (api.rs, main.rs), the trade subgraphs and the feed thread *)
(* behind each SpotRate source (nodes.rs), on top of the engine's thread.   *)
(*                                                                          *)
(* It composes the two modules below it.  EventLoop carries the commands;   *)
(* the Merge or Remove at the head of its batch is carried out, step by     *)
(* step, on the registry of Lifecycle, and is taken off the batch when that *)
(* is done.  A guard of Lifecycle is a SpotRateGuard: dropping it makes the *)
(* engine's thread wait for the feed thread.                                *)
(***************************************************************************)
EXTENDS Naturals, Sequences, FiniteSets, Functions

CONSTANTS
    Trade,          \* requests to create a trade, each with a uuid of its own
    CurrencyPair,
    PairOf,         \* what the pair in the text of a request is parsed to
    Unknown,        \* the result of from_str for any other text
    Main,           \* the main function's EngineHandle
    MaxSends        \* bound on the rates received

ASSUME PairAssumption ==
    /\ PairOf \in [Trade -> CurrencyPair \cup {Unknown}]
    /\ Unknown \notin CurrencyPair /\ Main \notin Trade
ASSUME MaxSendsAssumption == MaxSends \in Nat

VARIABLES
    entries, deps, dependents, active, guards,          \* of Lifecycle
    handles, pending_removals, work, phase, direct,
    cmds, bridge, owed, source_rx, running, finished,   \* of EventLoop
    result_rx, pc, batch, has_updates, should_shutdown,
    registered, store, client, sent, updates, tasks,
    request,    \* trade -> "new", "rejected", "open" (create_trade awaits the merge),
                \* "cancelled" (its future was dropped), "listed", "ended"
    trades,     \* AppState::trades
    feeds,      \* source -> its threads that run, oldest first: [state, shutdown]
    main        \* "serving", "draining", "dropping", "joining", "done"

-----------------------------------------------------------------------------
(* build_trade_subgraph                                                     *)

Source == {"bid", "ask"} \X CurrencyPair
Own(t) == {<<"spread", t>>, <<"publisher", t>>}
NodeId == Source \cup ({"mid"} \X CurrencyPair) \cup UNION {Own(t) : t \in Trade}

Kind == [n \in NodeId |-> CASE n[1] \in {"bid", "ask"}    -> "Source"
                            [] n[1] \in {"mid", "spread"} -> "Compute"
                            [] n[1] = "publisher"         -> "Sink"]

build_trade_subgraph(t) ==
    LET p         == PairOf[t]
        node(n, ds) == [id |-> n, deps |-> ds]
    IN  <<node(<<"bid", p>>, <<>>), node(<<"ask", p>>, <<>>),
          node(<<"mid", p>>, <<<<"bid", p>>, <<"ask", p>>>>),
          node(<<"spread", t>>, <<<<"mid", p>>>>),
          node(<<"publisher", t>>, <<<<"spread", t>>>>)>>

Priced == {t \in Trade : PairOf[t] \in CurrencyPair}

L == INSTANCE Lifecycle WITH
        Handle <- Trade, Guarded <- Source, Direct <- {}, MaxDirect <- 0,
        Script <- {build_trade_subgraph(t) : t \in Priced}

E == INSTANCE EventLoop WITH
        Client <- Trade \cup {Main}, MaxValues <- MaxSends, MaxTasks <- 0

engine == <<entries, deps, dependents, active, guards, handles, pending_removals, work,
            phase, direct>>
loop == <<cmds, bridge, owed, source_rx, running, finished, result_rx, pc, batch,
          has_updates, should_shutdown, registered, store, client, sent, updates, tasks>>
server == <<request, trades, main>>
vars == <<engine, loop, server, feeds>>

Init ==
    /\ L!Init /\ E!Init
    /\ request = [t \in Trade |-> "new"]
    /\ trades = {}
    /\ feeds = [s \in Source |-> <<>>]
    /\ main = "serving"

-----------------------------------------------------------------------------
(* The handlers, api.rs                                                     *)

\* Mutant: a pair that is not known is not rejected.
create_trade_unparsed(t) ==
    /\ main = "serving" /\ request[t] = "new"
    /\ request' = [request EXCEPT ![t] = "open"]
    /\ UNCHANGED <<engine, loop, trades, feeds, main>>

\* create_trade up to the await of spawn_blocking.
create_trade(t) ==
    /\ main = "serving" /\ request[t] = "new"
    /\ request' = [request EXCEPT ![t] = IF PairOf[t] = Unknown THEN "rejected" ELSE "open"]
    /\ UNCHANGED <<engine, loop, trades, feeds, main>>

\* The closure of spawn_blocking, which also runs when nobody awaits it any more.
BlockingMerge(t) ==
    /\ request[t] \in {"open", "cancelled"}
    /\ E!CallMerge(t)
    /\ UNCHANGED <<engine, server, feeds>>

\* Mutant: the handle is dropped at the end of create_trade.
InsertInfo(t) ==
    /\ request[t] = "open" /\ client[t] = "holding"
    /\ trades' = trades \cup {t}
    /\ request' = [request EXCEPT ![t] = "listed"]
    /\ E!DropHandle(t)
    /\ UNCHANGED <<engine, feeds, main>>

\* The rest of create_trade: the record owns the handle.
InsertTrade(t) ==
    /\ request[t] = "open" /\ client[t] = "holding"
    /\ trades' = trades \cup {t}
    /\ request' = [request EXCEPT ![t] = "listed"]
    /\ UNCHANGED <<engine, loop, feeds, main>>

\* The connection is closed and the handler's future dropped at its await.
Disconnect(t) ==
    /\ request[t] = "open"
    /\ request' = [request EXCEPT ![t] = "cancelled"]
    /\ UNCHANGED <<engine, loop, trades, feeds, main>>

\* The output of a task that nobody awaits is dropped: a RemoteSubgraphHandle with
\* ids, or without when the engine was gone before the merge.
DropOutput(t) ==
    /\ request[t] = "cancelled"
    /\ \/ E!DropHandle(t)
       \/ E!MergeFails(t)
    /\ request' = [request EXCEPT ![t] = "ended"]
    /\ UNCHANGED <<engine, trades, feeds, main>>

\* Mutant: the record is looked up and stays.
remove_trade_gets(t) ==
    /\ main \in {"serving", "draining"} /\ t \in trades
    /\ request' = [request EXCEPT ![t] = "ended"]
    /\ UNCHANGED <<engine, loop, trades, feeds, main>>

\* Mutant: the record is removed, its handle forgotten.
remove_trade_forgets(t) ==
    /\ main \in {"serving", "draining"} /\ t \in trades
    /\ trades' = trades \ {t}
    /\ request' = [request EXCEPT ![t] = "ended"]
    /\ UNCHANGED <<engine, loop, feeds, main>>

\* remove_trade: the record is dropped, and its handle with it.
remove_trade(t) ==
    /\ main \in {"serving", "draining"} /\ t \in trades
    /\ trades' = trades \ {t}
    /\ request' = [request EXCEPT ![t] = "ended"]
    /\ E!DropHandle(t)
    /\ UNCHANGED <<engine, feeds, main>>

-----------------------------------------------------------------------------
(* main                                                                     *)

ctrl_c ==
    /\ main = "serving"
    /\ main' = "draining"
    /\ UNCHANGED <<engine, loop, request, trades, feeds>>

\* The graceful shutdown lets the open requests finish; then AppState is dropped ...
ServeReturns ==
    /\ main = "draining" /\ \A t \in Trade : request[t] # "open"
    /\ main' = "dropping"
    /\ UNCHANGED <<engine, loop, request, trades, feeds>>

\* ... and each record of its map.
DropRecord(t) ==
    /\ main = "dropping" /\ t \in trades
    /\ trades' = trades \ {t}
    /\ request' = [request EXCEPT ![t] = "ended"]
    /\ E!DropHandle(t)
    /\ UNCHANGED <<engine, feeds, main>>

Shutdown ==
    /\ main = "dropping" /\ trades = {}
    /\ main' = "joining"
    /\ E!Shutdown(Main)
    /\ UNCHANGED <<engine, request, trades, feeds>>

\* Mutant: a feed thread is told to end, but not waited for.
JoinSkipped == TRUE

\* SpotRateGuard::drop: whoever drops a guard waits until the thread has ended.
Joined == \A s \in Source : \A i \in DOMAIN feeds[s] : ~feeds[s][i].shutdown

\* The engine's thread is joined, which drops its guards before it ends, and the
\* runtime waits for the blocking tasks.
Join ==
    /\ main = "joining" /\ pc = "stopped"
    /\ \A s \in Source : \A i \in DOMAIN feeds[s] : ~feeds[s][i].shutdown
    /\ \A t \in Trade : client[t] # "merging"
    /\ main' = "done"
    /\ UNCHANGED <<engine, loop, request, trades, feeds>>

-----------------------------------------------------------------------------
(* The engine's thread                                                      *)

NewFeed == [state |-> "connecting", shutdown |-> FALSE]
Told(threads) == [i \in DOMAIN threads |-> [threads[i] EXCEPT !.shutdown = TRUE]]

\* SpotRate::activate for the guards taken, SpotRateGuard::drop for those given up.
Feed ==
    feeds' = [s \in Source |-> CASE s \in guards' \ guards -> Append(feeds[s], NewFeed)
                                 [] s \in guards \ guards' -> Told(feeds[s])
                                 [] OTHER                  -> feeds[s]]

Busy(op) == Joined /\ pc = "handle" /\ batch # <<>> /\ Head(batch).op = op

\* The command's own first step on the registry: a merge drains an empty queue, a
\* removal hands over the ids of the handle.
Begin ==
    /\ phase = "idle"
    /\ \/ Busy("Merge") /\ L!Call
       \/ /\ Busy("Remove")
          /\ \/ L!DropHandle(Head(batch).from)
             \/ handles[Head(batch).from].state = "queued" /\ L!Call
    /\ UNCHANGED <<loop, server, feeds>>

\* The recursive activation and deactivation, one call at a time.
Recurse ==
    /\ Joined
    /\ \/ L!EndDrain \/ L!DrainNext \/ L!CascadeNext \/ L!EnterNode \/ L!FinishNode
    /\ Feed
    /\ UNCHANGED <<loop, server>>

Register ==
    /\ Busy("Merge")
    /\ LET t == Head(batch).from IN L!Merge(t, build_trade_subgraph(t))
    /\ UNCHANGED <<loop, server, feeds>>

\* The command is done: a merge replies, and the loop takes the next one.
Finish ==
    /\ \/ Busy("Merge") /\ phase = "activate"
       \/ Busy("Remove") /\ phase = "body"
    /\ L!Return /\ E!Handle
    /\ UNCHANGED <<server, feeds>>

\* Everything else in the loop leaves the registry alone.
Loop ==
    /\ Joined
    /\ \/ E!Recv \/ E!EndBatch
       \/ Busy("SourceReady") /\ E!Handle
       \/ Busy("Shutdown") /\ E!Handle
    /\ UNCHANGED <<engine, server, feeds>>

\* Mutant: the guards are leaked with the engine.
StopLeaks ==
    /\ Joined /\ E!Stop
    /\ UNCHANGED <<engine, server, feeds>>

\* The loop ends and drops the engine, with the guards that are left.
Stop ==
    /\ Joined /\ E!Stop
    /\ feeds' = [s \in Source |-> IF s \in guards THEN Told(feeds[s]) ELSE feeds[s]]
    /\ UNCHANGED <<engine, server>>

-----------------------------------------------------------------------------
(* The feed threads of nodes.rs, the i-th of source s                       *)

Thread(s, i, next) == feeds' = [feeds EXCEPT ![s][i].state = next]
Ends(s, i) == feeds' = [feeds EXCEPT ![s] = SubSeq(@, 1, i - 1) \o SubSeq(@, i + 1, Len(@))]

\* Connecting and subscribing succeeds, or the thread returns.
FeedStarts(s, i) ==
    /\ feeds[s][i].state = "connecting"
    /\ Thread(s, i, "subscribed") \/ Ends(s, i)
    /\ UNCHANGED <<engine, loop, server>>

\* get_message returns a rate: the flag is only looked at before it.
FeedSends(s, i) ==
    /\ feeds[s][i].state = "subscribed"
    /\ E!SenderSend
    /\ UNCHANGED <<engine, server, feeds>>

\* The connection is lost: every get_message fails from now on, like a timeout.
FeedLost(s, i) ==
    /\ feeds[s][i].state = "subscribed"
    /\ Thread(s, i, "lost")
    /\ UNCHANGED <<engine, loop, server>>

\* Mutant: the flag is only looked at after a message.
FeedEndsLate(s, i) ==
    /\ feeds[s][i].state = "subscribed" /\ feeds[s][i].shutdown
    /\ Ends(s, i)
    /\ UNCHANGED <<engine, loop, server>>

\* The flag is set: at the latest after the read timeout, the loop sees it.
FeedEnds(s, i) ==
    /\ feeds[s][i].state \in {"subscribed", "lost"} /\ feeds[s][i].shutdown
    /\ Ends(s, i)
    /\ UNCHANGED <<engine, loop, server>>

Bridge == E!BridgeStep /\ UNCHANGED <<engine, server, feeds>>

-----------------------------------------------------------------------------
EngineStep == Begin \/ Recurse \/ Register \/ Finish \/ Loop \/ Stop

ServerStep ==
    \/ \E t \in Trade : BlockingMerge(t) \/ InsertTrade(t) \/ DropOutput(t) \/ DropRecord(t)
    \/ ServeReturns \/ Shutdown \/ Join

FeedStep == \E s \in Source : \E i \in DOMAIN feeds[s] : FeedStarts(s, i) \/ FeedEnds(s, i)

\* The process has ended.
Terminated == main = "done" /\ UNCHANGED vars

Next ==
    \/ \E t \in Trade : create_trade(t) \/ Disconnect(t) \/ remove_trade(t)
    \/ ctrl_c
    \/ EngineStep \/ ServerStep \/ FeedStep \/ Bridge
    \/ \E s \in Source : \E i \in DOMAIN feeds[s] : FeedSends(s, i) \/ FeedLost(s, i)
    \/ Terminated

Spec == Init /\ [][Next]_vars

\* The threads keep running and an attempt to connect comes back; requests, rates,
\* lost connections and the signal need not come.
FairSpec ==
    /\ Spec
    /\ WF_vars(EngineStep) /\ WF_vars(ServerStep) /\ WF_vars(FeedStep) /\ WF_vars(Bridge)

-----------------------------------------------------------------------------
(* Properties                                                               *)

\* Every variable of the server and of its feeds has its type, and the map holds
\* exactly the trades that were created and not removed.
TypeOK ==
    /\ request \in [Trade -> {"new", "rejected", "open", "cancelled", "listed", "ended"}]
    /\ trades = {t \in Trade : request[t] = "listed"}
    /\ feeds \in [Source -> Seq([state    : {"connecting", "subscribed", "lost"},
                                 shutdown : BOOLEAN])]
    /\ main \in {"serving", "draining", "dropping", "joining", "done"}

\* However trades that share a pair come and go, a source never has two feed
\* threads, which would publish every rate twice, and a thread that was not told to
\* end belongs to a source that is active.
OneFeedPerSource ==
    \A s \in Source :
        /\ Len(feeds[s]) <= 1
        /\ \A i \in DOMAIN feeds[s] : ~feeds[s][i].shutdown => s \in guards

\* A trade in the map has its own nodes, the spread and the publisher, in the
\* engine's registry and active, whatever becomes of the nodes it shares, of
\* requests that are cancelled and of other trades; and what the event loop takes
\* for registered is exactly what has its own nodes there.
TradeKept ==
    /\ trades \subseteq registered
    /\ phase = "idle" /\ batch = <<>> => registered = {t \in Trade : Own(t) \subseteq active}

\* When main returns, no feed thread is left, also those of trades whose requests
\* were cancelled and whose Remove came too late for the engine.
FeedsEnd == main = "done" => \A s \in Source : feeds[s] = <<>>

\* Handlers, cancelled requests, feed threads and the shutdown drive the engine only
\* through its lifecycle, with the subgraphs of known pairs, and its thread only
\* through the protocol of the event loop.
Layers == L!Spec /\ E!Spec

\* A trade that is deleted, or whose request is cancelled before it is in the map,
\* disappears from the engine, or the engine ends.
DeletedGoes ==
    \A t \in Trade : request[t] \in {"cancelled", "ended"} ~>
                        Own(t) \cap DOMAIN entries = {} \/ pc = "stopped"

\* A rate that a feed thread hands to its Sender is written to the store in a cycle,
\* also while the engine's thread waits for that very thread to end, or the engine
\* ends.
RatesApplied ==
    \A k \in 1..MaxSends : sent >= k ~> <<"sender", k>> \in Range(store) \/ pc = "stopped"

\* After the signal the server always comes to its end: no request, merge, removal,
\* feed thread or join waits for another one for ever.
ShutdownCompletes == main = "draining" ~> main = "done"
=============================================================================
