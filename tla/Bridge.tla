------------------------------- MODULE Bridge -------------------------------
(***************************************************************************)
(* Nodes joined by NngBus (src/src/bus/nng_bus.rs) or RedisBus             *)
(* (src/src/bus/redis_bus.rs): what crosses the transport is handed to the *)
(* local router of every node.  NNG does not echo, so a publisher also     *)
(* routes locally; Redis sends a publisher its own message back.           *)
(*                                                                         *)
(* A node's local router is LocalRouter at the grain of its dispatches:    *)
(* one subscriber, one bounded stream, full means dropped.  The transports *)
(* are external: Bus0 is a lossy line per pair of nodes, Redis one line    *)
(* from the server to each subscribed connection.                          *)
(***************************************************************************)
EXTENDS Naturals, Sequences

CONSTANTS Nodes, Publishers,
          Home(_),             \* the node of a publisher
          Server,              \* the Redis server
          Backends,            \* subset of {"nng", "redis"}
          BridgeBuffer,        \* capacity of the NNG bridge channel
          SubscriptionBuffer,  \* capacity of a subscriber's stream
          MaxMessages,         \* bound: messages per publisher
          NoFrame

ASSUME NodesAssumption == Server \notin Nodes /\ \A p \in Publishers : Home(p) \in Nodes
ASSUME BuffersAssumption == {BridgeBuffer, SubscriptionBuffer} \subseteq Nat \ {0}

ASSUME BoundAssumption == MaxMessages \in Nat

Message == [by : Publishers, n : 1..MaxMessages]
ASSUME NoFrameAssumption == NoFrame \notin Message

VARIABLES
  backend,     \* the transport all nodes use
  publisher,   \* publisher[p]: "idle", or "sent" and not returned yet
  published,   \* published[p]: messages p has published
  wire,        \* wire[n][k]: frames from k that n's socket has not handed over
  listening,   \* listening[n]: n's receive loop runs
  reader,      \* reader[n]: the frame n's NNG reader thread holds, or NoFrame
  bridge,      \* bridge[n]: channel between the reader thread and the task
  unread,      \* unread[n]: messages in the stream of n's subscriber
  delivered    \* history: delivered[n], what was routed to it, in order

transportVars == <<wire, listening>>
loopVars == <<reader, bridge>>
localVars == <<unread, delivered>>
vars == <<backend, publisher, published, transportVars, loopVars, localVars>>

\* A bus is returned once its receive loop runs: subscribed, over Redis.
Connected == [n \in Nodes |-> TRUE]

Init == /\ backend \in Backends
        /\ publisher = [p \in Publishers |-> "idle"]
        /\ published = [p \in Publishers |-> 0]
        /\ wire = [n \in Nodes |-> [k \in Nodes \union {Server} |-> <<>>]]
        /\ listening = Connected
        /\ reader = [n \in Nodes |-> NoFrame]
        /\ bridge = [n \in Nodes |-> <<>>]
        /\ unread = [n \in Nodes |-> 0]
        /\ delivered = [n \in Nodes |-> <<>>]

-----------------------------------------------------------------------------
(* The local router *)

\* Mutant of Ready: the receive loop waits until the subscriber has room.
ReadyWhenRoom(n) == unread[n] < SubscriptionBuffer
Ready(n) == TRUE

HasRoom(n) == unread[n] < SubscriptionBuffer

\* dispatch_local: a full stream refuses the message.
DispatchLocal(n, m) ==
  /\ Ready(n)
  /\ IF HasRoom(n)
     THEN /\ unread' = [unread EXCEPT ![n] = @ + 1]
          /\ delivered' = [delivered EXCEPT ![n] = Append(@, m)]
     ELSE UNCHANGED localVars

\* No loop ever waits for a subscriber to read.
Read(n) == /\ unread[n] > 0
           /\ unread' = [unread EXCEPT ![n] = @ - 1]
           /\ UNCHANGED <<backend, publisher, published, transportVars, loopVars, delivered>>

-----------------------------------------------------------------------------
(* Publishing *)

Current(p) == [by |-> p, n |-> published[p]]

\* The message reaches the lines from k to nodes.
Transmit(p, k, nodes) ==
  /\ publisher[p] = "idle" /\ published[p] < MaxMessages
  /\ publisher' = [publisher EXCEPT ![p] = "sent"]
  /\ published' = [published EXCEPT ![p] = @ + 1]
  /\ wire' = [n \in Nodes |->
                IF n \in nodes THEN [wire[n] EXCEPT ![k] = Append(@, Current(p)')] ELSE wire[n]]
  /\ UNCHANGED <<backend, listening, loopVars, localVars>>

\* Mutant of Peers: the publisher's node hears itself.
PeersAndSelf(p) == Nodes
Peers(p) == Nodes \ {Home(p)}

\* The socket takes the frame; Bus0 drops it where a line is full.  A send that
\* fails ends the call and changes nothing.
NngSends(p) == /\ backend = "nng"
               /\ \E nodes \in SUBSET Peers(p) : Transmit(p, Home(p), nodes)

\* The server passes the message to every subscribed connection, the
\* publisher's own included.  The reply may be an error all the same.
RedisPublishes(p) == /\ backend = "redis"
                     /\ Transmit(p, Server, {n \in Nodes : listening[n]})

\* Mutant of RoutesLocally: every backend does as NNG.
RoutesAlways == TRUE
RoutesLocally == backend = "nng"

\* After the transport the publisher's own node, whose refusal is returned.
Returns(p) ==
  /\ publisher[p] = "sent"
  /\ publisher' = [publisher EXCEPT ![p] = "idle"]
  /\ IF RoutesLocally THEN DispatchLocal(Home(p), Current(p)) ELSE UNCHANGED localVars
  /\ UNCHANGED <<backend, published, transportVars, loopVars>>

-----------------------------------------------------------------------------
(* Receiving: start_receive_loop *)

\* The NNG reader thread takes a frame from any line.
ReaderTakes(n) ==
  /\ backend = "nng" /\ reader[n] = NoFrame
  /\ \E k \in Nodes : /\ wire[n][k] # <<>>
                      /\ reader' = [reader EXCEPT ![n] = Head(wire[n][k])]
                      /\ wire' = [wire EXCEPT ![n][k] = Tail(@)]
  /\ UNCHANGED <<backend, publisher, published, listening, bridge, localVars>>

\* blocking_send: the thread waits for room in the bridge.
ReaderSends(n) ==
  /\ reader[n] # NoFrame
  /\ Len(bridge[n]) < BridgeBuffer
  /\ bridge' = [bridge EXCEPT ![n] = Append(@, reader[n])]
  /\ reader' = [reader EXCEPT ![n] = NoFrame]
  /\ UNCHANGED <<backend, publisher, published, transportVars, localVars>>

\* The refusal of the local router is ignored: the message is lost here.
NngDispatches(n) ==
  /\ bridge[n] # <<>>
  /\ bridge' = [bridge EXCEPT ![n] = Tail(@)]
  /\ DispatchLocal(n, Head(bridge[n]))
  /\ UNCHANGED <<backend, publisher, published, transportVars, reader>>

RedisDispatches(n) ==
  /\ listening[n] /\ wire[n][Server] # <<>>
  /\ wire' = [wire EXCEPT ![n][Server] = Tail(@)]
  /\ DispatchLocal(n, Head(wire[n][Server]))
  /\ UNCHANGED <<backend, publisher, published, listening, loopVars>>

\* The subscribed connection ends, and with it the loop: nobody subscribes
\* again, though the node can still publish.
RedisLoopEnds(n) ==
  /\ backend = "redis" /\ listening[n]
  /\ listening' = [listening EXCEPT ![n] = FALSE]
  /\ wire' = [wire EXCEPT ![n][Server] = <<>>]
  /\ UNCHANGED <<backend, publisher, published, loopVars, localVars>>

-----------------------------------------------------------------------------
LoopNext(n) == ReaderTakes(n) \/ ReaderSends(n) \/ NngDispatches(n) \/ RedisDispatches(n)

Next == \/ \E p \in Publishers : NngSends(p) \/ RedisPublishes(p) \/ Returns(p)
        \/ \E n \in Nodes : LoopNext(n) \/ Read(n) \/ RedisLoopEnds(n)

\* Threads and tasks of a node run; subscribers may never read.
Spec == Init /\ [][Next]_vars /\ \A n \in Nodes : WF_vars(LoopNext(n))

-----------------------------------------------------------------------------
(* Correctness *)

TypeOK ==
  /\ backend \in Backends
  /\ publisher \in [Publishers -> {"idle", "sent"}]
  /\ published \in [Publishers -> 0..MaxMessages]
  /\ wire \in [Nodes -> [Nodes \union {Server} -> Seq(Message)]]
  /\ listening \in [Nodes -> BOOLEAN]
  /\ reader \in [Nodes -> Message \union {NoFrame}]
  /\ bridge \in [Nodes -> Seq(Message)] /\ \A n \in Nodes : Len(bridge[n]) <= BridgeBuffer
  /\ unread \in [Nodes -> 0..SubscriptionBuffer]
  /\ delivered \in [Nodes -> Seq(Message)]

\* No node routes a message twice, and a publisher's messages keep their order
\* through socket, thread, bridge and task: nng_bus.rs:163, "route locally
\* because Bus0 does not echo".
InOrderOnce ==
  \A n \in Nodes : \A i, h \in DOMAIN delivered[n] :
    i < h /\ delivered[n][i].by = delivered[n][h].by => delivered[n][i].n < delivered[n][h].n

\* Over Redis all nodes see the messages they get in one order, the server's:
\* publishers take no shortcut to their own node.
SameOrder ==
  backend = "redis" => \A n, k \in Nodes :
    \A i, h \in DOMAIN delivered[n], a, b \in DOMAIN delivered[k] :
      delivered[n][i] = delivered[k][a] /\ delivered[n][h] = delivered[k][b] /\ i < h => a < b

InFlight(n) == \/ \E k \in DOMAIN wire[n] : wire[n][k] # <<>>
               \/ reader[n] # NoFrame
               \/ bridge[n] # <<>>

\* What has reached a node is routed or dropped, though nobody reads: one slow
\* subscriber stops neither the thread nor the task.
FramesDrain == \A n \in Nodes : InFlight(n) ~> ~InFlight(n)
=============================================================================
