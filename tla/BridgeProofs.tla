---------------------------- MODULE BridgeProofs ----------------------------
(***************************************************************************)
(* Proofs about Bridge for any nodes, publishers and buffer sizes: what a  *)
(* message overtakes on its way from a publisher to a node's subscriber.   *)
(***************************************************************************)
EXTENDS Bridge, QueueFacts

USE NodesAssumption, BuffersAssumption, BoundAssumption, NoFrameAssumption

-----------------------------------------------------------------------------
(* The inductive invariant                                                   *)

Lines == Nodes \union {Server}

OnWire(n, x) == \E k \in Lines : x \in ToSet(wire[n][k])

\* x has been sent to n and was not dropped on the way.
Seen(n, x) == \/ x \in ToSet(delivered[n])
              \/ x \in ToSet(bridge[n])
              \/ x = reader[n]
              \/ OnWire(n, x)

\* x is ahead of y on the way to n: delivered comes before the bridge, the
\* bridge before the reader thread's hand, that before the lines.
Ahead(n, x, y) ==
  \/ Precedes(delivered[n], x, y)
  \/ x \in ToSet(delivered[n]) /\ (y \in ToSet(bridge[n]) \/ y = reader[n] \/ OnWire(n, y))
  \/ Precedes(bridge[n], x, y)
  \/ x \in ToSet(bridge[n]) /\ (y = reader[n] \/ OnWire(n, y))
  \/ x = reader[n] /\ OnWire(n, y)
  \/ \E k \in Lines : Precedes(wire[n][k], x, y)

\* Over NNG a line carries its own node's messages to the others; over Redis
\* only the server's lines carry anything, and no thread is in between.
RouteInv ==
  /\ backend = "nng" => \A n \in Nodes, x \in Message :
       /\ \A k \in Lines : x \in ToSet(wire[n][k]) => Home(x.by) = k /\ k # n
       /\ x \in ToSet(bridge[n]) \/ x = reader[n] => Home(x.by) # n
  /\ backend # "nng" => \A n \in Nodes :
       /\ reader[n] = NoFrame
       /\ bridge[n] = <<>>
       /\ \A k \in Nodes : wire[n][k] = <<>>

\* Nothing is seen before it is published; over NNG a publisher's own node
\* sees its message only when publish returns.
NumberInv == \A n \in Nodes, x \in Message : Seen(n, x) =>
  /\ x.n <= published[x.by]
  /\ backend = "nng" /\ Home(x.by) = n /\ publisher[x.by] = "sent" => x.n < published[x.by]

\* Messages of one publisher do not overtake each other.
OrderInv == \A n \in Nodes, x, y \in Message :
  Ahead(n, x, y) /\ x.by = y.by => x.n < y.n

\* Without shortcuts no two nodes disagree about an order.
AgreeInv == backend # "nng" =>
  \A n, k \in Nodes, x, y \in Message : Ahead(n, x, y) => ~Ahead(k, y, x)

SentInv == \A p \in Publishers : publisher[p] = "sent" => published[p] # 0

BridgeInv == TypeOK /\ SentInv /\ RouteInv /\ NumberInv /\ OrderInv /\ AgreeInv

-----------------------------------------------------------------------------
(* Initial states *)

LEMMA InitBridge == Init => BridgeInv
<1> SUFFICES ASSUME Init PROVE BridgeInv
  OBVIOUS
<1>1. TypeOK
  BY EmptyQueue DEF Init, TypeOK, Connected
<1>2. ASSUME NEW n \in Nodes
      PROVE  /\ delivered[n] = <<>> /\ bridge[n] = <<>> /\ reader[n] = NoFrame
             /\ \A k \in Lines : wire[n][k] = <<>>
  BY DEF Init, Lines
<1>3. ASSUME NEW n \in Nodes, NEW x \in Message PROVE ~Seen(n, x)
  BY <1>2, EmptyQueue DEF Seen, OnWire
<1>4. ASSUME NEW n \in Nodes, NEW x \in Message, NEW y \in Message PROVE ~Ahead(n, x, y)
  BY <1>2, EmptyQueue, NothingPrecedes DEF Ahead, OnWire
<1>5. RouteInv
  BY <1>2, EmptyQueue DEF RouteInv, Lines
<1>6. SentInv
  BY DEF Init, SentInv
<1> QED
  BY <1>1, <1>3, <1>4, <1>5, <1>6 DEF BridgeInv, NumberInv, OrderInv, AgreeInv

-----------------------------------------------------------------------------
(* Type correctness *)

LEMMA DispatchType ==
  ASSUME TypeOK, NEW n \in Nodes, NEW m \in Message, DispatchLocal(n, m)
  PROVE  /\ unread' \in [Nodes -> 0..SubscriptionBuffer]
         /\ delivered' \in [Nodes -> Seq(Message)]
         /\ \A k \in Nodes : k # n => delivered'[k] = delivered[k]
         /\ delivered'[n] \in {delivered[n], Append(delivered[n], m)}
<1>1. CASE HasRoom(n)
  <2>1. /\ unread' = [unread EXCEPT ![n] = unread[n] + 1]
        /\ delivered' = [delivered EXCEPT ![n] = Append(delivered[n], m)]
    BY <1>1 DEF DispatchLocal
  <2>2. unread[n] + 1 \in 0..SubscriptionBuffer
    BY <1>1 DEF HasRoom, TypeOK
  <2> QED
    BY <2>1, <2>2, Appended DEF TypeOK
<1>2. CASE ~HasRoom(n)
  BY <1>2 DEF DispatchLocal, TypeOK, localVars
<1> QED
  BY <1>1, <1>2

LEMMA TransmitType ==
  ASSUME TypeOK, NEW p \in Publishers, NEW k \in Lines, NEW nodes \in SUBSET Nodes,
         Transmit(p, k, nodes)
  PROVE  /\ TypeOK'
         /\ Current(p)' \in Message
         /\ Current(p)'.by = p
         /\ Current(p)'.n = published[p] + 1
         /\ \A n \in Nodes, l \in Lines :
              wire'[n][l] = IF n \in nodes /\ l = k THEN Append(wire[n][l], Current(p)')
                                                    ELSE wire[n][l]
<1> DEFINE m == [by |-> p, n |-> published[p] + 1]
<1>1. /\ publisher[p] = "idle" /\ published[p] < MaxMessages
      /\ publisher' = [publisher EXCEPT ![p] = "sent"]
      /\ published' = [published EXCEPT ![p] = published[p] + 1]
      /\ UNCHANGED <<backend, listening, reader, bridge, unread, delivered>>
  BY DEF Transmit, loopVars, localVars
<1>2. published[p] \in 0..MaxMessages
  BY DEF TypeOK
<1>3. Current(p)' = m
  BY <1>1, <1>2 DEF Current, TypeOK
<1>4. m \in Message
  BY <1>1, <1>2 DEF Message
<1>5. wire' = [n \in Nodes |->
                 IF n \in nodes THEN [wire[n] EXCEPT ![k] = Append(wire[n][k], m)] ELSE wire[n]]
  BY <1>3 DEF Transmit
<1>6. \A n \in Nodes : wire[n] \in [Lines -> Seq(Message)]
  BY DEF TypeOK, Lines
<1> HIDE DEF m
<1>7. \A n \in Nodes : Append(wire[n][k], m) \in Seq(Message)
  BY <1>4, <1>6, Appended
<1>8. wire' \in [Nodes -> [Lines -> Seq(Message)]]
  BY <1>5, <1>6, <1>7
<1>9. publisher' \in [Publishers -> {"idle", "sent"}] /\ published' \in [Publishers -> 0..MaxMessages]
  BY <1>1, <1>2 DEF TypeOK
<1>10. TypeOK'
  BY <1>1, <1>8, <1>9 DEF TypeOK, Lines
<1>11. m.by = p /\ m.n = published[p] + 1
  BY DEF m
<1>12. \A n \in Nodes, l \in Lines :
         wire'[n][l] = IF n \in nodes /\ l = k THEN Append(wire[n][l], m) ELSE wire[n][l]
  BY <1>5, <1>6
<1> QED
  BY <1>3, <1>4, <1>10, <1>11, <1>12

\* The head of a line is taken.
TakesLine(n, k) == wire' = [wire EXCEPT ![n][k] = Tail(@)]

LEMMA LineTaken ==
  ASSUME TypeOK, NEW n \in Nodes, NEW k \in Lines, wire[n][k] # <<>>, TakesLine(n, k)
  PROVE  /\ wire' \in [Nodes -> [Lines -> Seq(Message)]]
         /\ Head(wire[n][k]) \in Message
         /\ \A a \in Nodes, l \in Lines :
              wire'[a][l] = IF a = n /\ l = k THEN Tail(wire[a][l]) ELSE wire[a][l]
<1>1. wire \in [Nodes -> [Lines -> Seq(Message)]]
  BY DEF TypeOK, Lines
<1>2. Head(wire[n][k]) \in Message /\ Tail(wire[n][k]) \in Seq(Message)
  BY <1>1, Taken
<1>3. wire' = [wire EXCEPT ![n] = [wire[n] EXCEPT ![k] = Tail(wire[n][k])]]
  BY DEF TakesLine
<1> QED
  BY <1>1, <1>2, <1>3

-----------------------------------------------------------------------------
(* A step that only moves messages on, or drops them *)

\* Over NNG what matters is the order within one publisher.
LEMMA Moved ==
  ASSUME BridgeInv, TypeOK', RouteInv', UNCHANGED <<backend, publisher, published>>,
         \A n \in Nodes, x \in Message : Seen(n, x)' => Seen(n, x),
         \A n \in Nodes, x, y \in Message :
           Ahead(n, x, y)' /\ (x.by = y.by \/ backend # "nng") => Ahead(n, x, y)
  PROVE  BridgeInv'
<1>1. NumberInv'
  BY DEF BridgeInv, NumberInv
<1>2. OrderInv'
  BY DEF BridgeInv, OrderInv
<1>3. AgreeInv'
  BY DEF BridgeInv, AgreeInv
<1>4. SentInv'
  BY DEF BridgeInv, SentInv
<1> QED
  BY <1>1, <1>2, <1>3, <1>4 DEF BridgeInv

LEMMA ReadStep ==
  ASSUME BridgeInv, NEW n \in Nodes, Read(n)
  PROVE  BridgeInv'
<1>1. UNCHANGED <<backend, publisher, published, wire, listening, reader, bridge, delivered>>
  BY DEF Read, transportVars, loopVars
<1>2. unread' \in [Nodes -> 0..SubscriptionBuffer]
  BY DEF Read, BridgeInv, TypeOK
<1>3. TypeOK'
  BY <1>1, <1>2 DEF BridgeInv, TypeOK
<1>4. RouteInv'
  BY <1>1 DEF BridgeInv, RouteInv
<1>5. \A k \in Nodes, x, y \in Message : Seen(k, x)' = Seen(k, x) /\ Ahead(k, x, y)' = Ahead(k, x, y)
  BY <1>1 DEF Seen, Ahead, OnWire
<1> QED
  BY <1>1, <1>3, <1>4, <1>5, Moved

LEMMA LoopEndsStep ==
  ASSUME BridgeInv, NEW n \in Nodes, RedisLoopEnds(n)
  PROVE  BridgeInv'
<1>1. /\ UNCHANGED <<backend, publisher, published, reader, bridge, unread, delivered>>
      /\ backend # "nng"
  BY DEF RedisLoopEnds, loopVars, localVars
<1>2. /\ wire' \in [Nodes -> [Lines -> Seq(Message)]]
      /\ \A a \in Nodes, l \in Lines :
           wire'[a][l] = IF a = n /\ l = Server THEN <<>> ELSE wire[a][l]
  <2>1. wire \in [Nodes -> [Lines -> Seq(Message)]] /\ Server \in Lines
    BY DEF BridgeInv, TypeOK, Lines
  <2>2. wire' = [wire EXCEPT ![n] = [wire[n] EXCEPT ![Server] = <<>>]]
    BY DEF RedisLoopEnds
  <2>3. <<>> \in Seq(Message)
    BY EmptyQueue
  <2> QED
    BY <2>1, <2>2, <2>3
<1>3. TypeOK'
  BY <1>1, <1>2 DEF BridgeInv, TypeOK, Lines, RedisLoopEnds
<1>4. RouteInv'
  <2>1. \A a \in Nodes : /\ reader[a] = NoFrame
                         /\ bridge[a] = <<>>
                         /\ \A k \in Nodes : wire[a][k] = <<>>
    BY <1>1 DEF BridgeInv, RouteInv
  <2>2. ASSUME NEW a \in Nodes, NEW k \in Nodes PROVE wire'[a][k] = <<>>
    <3>1. k \in Lines /\ wire[a][k] = <<>>
      BY <2>1 DEF Lines
    <3> QED
      BY <1>2, <3>1
  <2> QED
    BY <1>1, <2>1, <2>2 DEF RouteInv
<1>5. \A x, y : x \notin ToSet(<<>>) /\ ~Precedes(<<>>, x, y)
  BY EmptyQueue, NothingPrecedes
<1>6. \A a \in Nodes, x \in Message : OnWire(a, x)' => OnWire(a, x)
  BY <1>2, <1>5 DEF OnWire
<1>7. \A a \in Nodes, x \in Message : Seen(a, x)' => Seen(a, x)
  BY <1>1, <1>6 DEF Seen
<1>8. \A a \in Nodes, x, y \in Message : Ahead(a, x, y)' => Ahead(a, x, y)
  BY <1>1, <1>2, <1>5, <1>6 DEF Ahead
<1> QED
  BY <1>1, <1>3, <1>4, <1>7, <1>8, Moved

LEMMA ReaderTakesStep ==
  ASSUME BridgeInv, NEW n \in Nodes, ReaderTakes(n)
  PROVE  BridgeInv'
<1>0. TypeOK /\ RouteInv
  BY DEF BridgeInv
<1>1. PICK k \in Nodes : /\ wire[n][k] # <<>>
                         /\ reader' = [reader EXCEPT ![n] = Head(wire[n][k])]
                         /\ TakesLine(n, k)
  BY DEF ReaderTakes, TakesLine
<1> DEFINE h == Head(wire[n][k])
<1>2. /\ UNCHANGED <<backend, publisher, published, listening, bridge, unread, delivered>>
      /\ backend = "nng" /\ reader[n] = NoFrame
      /\ k \in Lines
  BY <1>1 DEF ReaderTakes, localVars, Lines
<1>3. /\ wire' \in [Nodes -> [Lines -> Seq(Message)]]
      /\ h \in Message
      /\ \A a \in Nodes, l \in Lines :
           wire'[a][l] = IF a = n /\ l = k THEN Tail(wire[a][l]) ELSE wire[a][l]
  BY <1>0, <1>1, <1>2, LineTaken
<1>4. \A a \in Nodes : reader'[a] = IF a = n THEN h ELSE reader[a]
  BY <1>0, <1>1 DEF TypeOK
<1>5. TypeOK'
  BY <1>0, <1>1, <1>2, <1>3 DEF TypeOK, Lines
<1>6. /\ wire[n][k] \in Seq(Message)
      /\ ToSet(wire[n][k]) = ToSet(Tail(wire[n][k])) \union {h}
      /\ \A x, y : /\ Precedes(Tail(wire[n][k]), x, y) => Precedes(wire[n][k], x, y)
                   /\ y \in ToSet(Tail(wire[n][k])) => Precedes(wire[n][k], h, y)
  <2>1. wire[n][k] \in Seq(Message)
    BY <1>0, <1>2 DEF TypeOK, Lines
  <2> QED
    BY <1>1, <2>1, Taken, PrecedesTaken
<1> HIDE DEF h
<1>7. \A a \in Nodes, x \in Message : OnWire(a, x)' => OnWire(a, x)
  BY <1>3, <1>6 DEF OnWire
<1>8. OnWire(n, h)
  BY <1>2, <1>6 DEF OnWire
<1>9. RouteInv'
  <2> SUFFICES ASSUME NEW a \in Nodes, NEW x \in Message
               PROVE  /\ \A l \in Lines : x \in ToSet(wire'[a][l]) => Home(x.by) = l /\ l # a
                      /\ x \in ToSet(bridge'[a]) \/ x = reader'[a] => Home(x.by) # a
    BY <1>2 DEF RouteInv
  <2>1. /\ \A l \in Lines : x \in ToSet(wire[a][l]) => Home(x.by) = l /\ l # a
        /\ x \in ToSet(bridge[a]) \/ x = reader[a] => Home(x.by) # a
    BY <1>0, <1>2 DEF RouteInv
  <2>2. \A l \in Lines : x \in ToSet(wire'[a][l]) => x \in ToSet(wire[a][l])
    BY <1>3, <1>6
  <2>3. x = reader'[a] => x = reader[a] \/ x \in ToSet(wire[a][k])
    BY <1>4, <1>6
  <2> QED
    BY <1>2, <2>1, <2>2, <2>3
<1>10. \A a \in Nodes, x \in Message : Seen(a, x)' => Seen(a, x)
  BY <1>2, <1>4, <1>7, <1>8 DEF Seen
<1>11. ASSUME NEW a \in Nodes, NEW x \in Message, NEW y \in Message,
              Ahead(a, x, y)', x.by = y.by
       PROVE  Ahead(a, x, y)
  <2>1. CASE a # n
    <3>1. /\ \A l \in Lines : wire'[a][l] = wire[a][l]
          /\ reader'[a] = reader[a]
      BY <1>3, <1>4, <2>1
    <3> QED
      BY <1>2, <1>11, <3>1 DEF Ahead, OnWire
  <2>2. CASE a = n /\ x = h /\ OnWire(n, y)'
    <3>1. PICK l \in Lines : y \in ToSet(wire'[n][l])
      BY <2>2 DEF OnWire
    <3>2. y \in ToSet(wire[n][l]) /\ x \in ToSet(wire[n][k])
      BY <1>3, <1>6, <2>2, <3>1
    <3>3. Home(y.by) = l /\ Home(x.by) = k
      BY <1>0, <1>2, <3>2 DEF RouteInv
    <3>4. l = k
      BY <1>11, <3>3
    <3> QED
      BY <1>2, <1>3, <1>6, <2>2, <3>1, <3>4 DEF Ahead
  <2>3. CASE a = n /\ \E l \in Lines : Precedes(wire'[n][l], x, y)
    BY <1>3, <1>6, <2>3 DEF Ahead
  <2> QED
    BY <1>2, <1>4, <1>7, <1>8, <1>11, <2>1, <2>2, <2>3 DEF Ahead
<1> QED
  BY <1>2, <1>5, <1>9, <1>10, <1>11, Moved

LEMMA ReaderSendsStep ==
  ASSUME BridgeInv, NEW n \in Nodes, ReaderSends(n)
  PROVE  BridgeInv'
<1>0. TypeOK /\ RouteInv
  BY DEF BridgeInv
<1> DEFINE f == reader[n]
<1>1. /\ UNCHANGED <<backend, publisher, published, wire, listening, unread, delivered>>
      /\ f # NoFrame
      /\ Len(bridge[n]) < BridgeBuffer
      /\ bridge' = [bridge EXCEPT ![n] = Append(bridge[n], f)]
      /\ reader' = [reader EXCEPT ![n] = NoFrame]
  BY DEF ReaderSends, transportVars, localVars
<1>2. f \in Message /\ bridge[n] \in Seq(Message)
  BY <1>0, <1>1 DEF TypeOK
<1>3. /\ Append(bridge[n], f) \in Seq(Message)
      /\ Len(Append(bridge[n], f)) = Len(bridge[n]) + 1
      /\ ToSet(Append(bridge[n], f)) = ToSet(bridge[n]) \union {f}
      /\ \A x, y : Precedes(Append(bridge[n], f), x, y) =>
                     Precedes(bridge[n], x, y) \/ (y = f /\ x \in ToSet(bridge[n]))
  BY <1>2, Appended, PrecedesAppended
<1>4. \A a \in Nodes : /\ bridge'[a] = IF a = n THEN Append(bridge[n], f) ELSE bridge[a]
                       /\ reader'[a] = IF a = n THEN NoFrame ELSE reader[a]
  BY <1>0, <1>1 DEF TypeOK
<1>5. TypeOK'
  <2>1. Len(bridge[n]) \in Nat
    BY <1>2, LenProperties
  <2>2. Len(Append(bridge[n], f)) <= BridgeBuffer
    BY <1>1, <1>3, <2>1
  <2>3. bridge' \in [Nodes -> Seq(Message)] /\ reader' \in [Nodes -> Message \union {NoFrame}]
    BY <1>0, <1>1, <1>3 DEF TypeOK
  <2>4. \A a \in Nodes : Len(bridge'[a]) <= BridgeBuffer
    BY <1>0, <1>4, <2>2 DEF TypeOK
  <2> QED
    BY <1>0, <1>1, <2>3, <2>4 DEF TypeOK
<1> HIDE DEF f
<1>6. f = reader[n]
  BY DEF f
<1>7. RouteInv'
  BY <1>0, <1>1, <1>2, <1>3, <1>4, <1>6 DEF RouteInv
<1>8. \A a \in Nodes, x \in Message : Seen(a, x)' => Seen(a, x)
  BY <1>1, <1>3, <1>4, <1>6 DEF Seen, OnWire
<1>9. \A a \in Nodes, x, y \in Message : Ahead(a, x, y)' => Ahead(a, x, y)
  <2> SUFFICES ASSUME NEW a \in Nodes, NEW x \in Message, NEW y \in Message, Ahead(a, x, y)'
               PROVE  Ahead(a, x, y)
    OBVIOUS
  <2>1. OnWire(a, y)' = OnWire(a, y)
    BY <1>1 DEF OnWire
  <2> QED
    BY <1>1, <1>3, <1>4, <1>6, <2>1, NoFrameAssumption DEF Ahead
<1> QED
  BY <1>1, <1>5, <1>7, <1>8, <1>9, Moved

\* A message taken from q is dispatched to n, or dropped.
LEMMA Dispatched ==
  ASSUME BridgeInv, NEW n \in Nodes, NEW m \in Message, DispatchLocal(n, m)
  PROVE  /\ \A a \in Nodes, x \in Message :
              x \in ToSet(delivered'[a]) => x \in ToSet(delivered[a]) \/ (a = n /\ x = m)
         /\ \A a \in Nodes, x, y \in Message :
              Precedes(delivered'[a], x, y) =>
                Precedes(delivered[a], x, y) \/ (a = n /\ y = m /\ x \in ToSet(delivered[a]))
<1>1. /\ delivered \in [Nodes -> Seq(Message)]
      /\ \A k \in Nodes : k # n => delivered'[k] = delivered[k]
      /\ delivered'[n] \in {delivered[n], Append(delivered[n], m)}
  BY DispatchType DEF BridgeInv, TypeOK
<1>2. /\ ToSet(Append(delivered[n], m)) = ToSet(delivered[n]) \union {m}
      /\ \A x, y : Precedes(Append(delivered[n], m), x, y) =>
                     Precedes(delivered[n], x, y) \/ (y = m /\ x \in ToSet(delivered[n]))
  BY <1>1, Appended, PrecedesAppended
<1> QED
  BY <1>1, <1>2

LEMMA NngDispatchesStep ==
  ASSUME BridgeInv, NEW n \in Nodes, NngDispatches(n)
  PROVE  BridgeInv'
<1> DEFINE h == Head(bridge[n])
<1>0. TypeOK /\ RouteInv
  BY DEF BridgeInv
<1>1. /\ UNCHANGED <<backend, publisher, published, wire, listening, reader>>
      /\ bridge[n] # <<>> /\ bridge[n] \in Seq(Message)
      /\ bridge' = [bridge EXCEPT ![n] = Tail(bridge[n])]
      /\ DispatchLocal(n, h)
  BY <1>0 DEF NngDispatches, transportVars, TypeOK
<1>2. /\ h \in Message /\ Tail(bridge[n]) \in Seq(Message)
      /\ Len(Tail(bridge[n])) = Len(bridge[n]) - 1
      /\ ToSet(bridge[n]) = ToSet(Tail(bridge[n])) \union {h}
      /\ \A x, y : /\ Precedes(Tail(bridge[n]), x, y) => Precedes(bridge[n], x, y)
                   /\ y \in ToSet(Tail(bridge[n])) => Precedes(bridge[n], h, y)
  BY <1>1, Taken, PrecedesTaken
<1> HIDE DEF h
<1>3. \A a \in Nodes : bridge'[a] = IF a = n THEN Tail(bridge[n]) ELSE bridge[a]
  BY <1>0, <1>1 DEF TypeOK
<1>4. TypeOK'
  <2>1. unread' \in [Nodes -> 0..SubscriptionBuffer] /\ delivered' \in [Nodes -> Seq(Message)]
    BY <1>0, <1>1, <1>2, DispatchType
  <2>2. Len(bridge[n]) \in Nat /\ Len(bridge[n]) <= BridgeBuffer
    BY <1>0, <1>1, LenProperties DEF TypeOK
  <2>3. bridge' \in [Nodes -> Seq(Message)] /\ \A a \in Nodes : Len(bridge'[a]) <= BridgeBuffer
    BY <1>0, <1>1, <1>2, <1>3, <2>2 DEF TypeOK
  <2> QED
    BY <1>0, <1>1, <2>1, <2>3 DEF TypeOK
<1>5. RouteInv'
  <2>1. backend = "nng"
    BY <1>0, <1>1 DEF RouteInv
  <2>2. \A a \in Nodes, x \in Message : x \in ToSet(bridge'[a]) => x \in ToSet(bridge[a])
    BY <1>2, <1>3
  <2> QED
    BY <1>0, <1>1, <2>1, <2>2 DEF RouteInv
<1>6. /\ \A a \in Nodes, x \in Message :
           x \in ToSet(delivered'[a]) => x \in ToSet(delivered[a]) \/ (a = n /\ x = h)
      /\ \A a \in Nodes, x, y \in Message :
           Precedes(delivered'[a], x, y) =>
             Precedes(delivered[a], x, y) \/ (a = n /\ y = h /\ x \in ToSet(delivered[a]))
  BY <1>1, <1>2, Dispatched
<1>7. \A a \in Nodes, x \in Message : Seen(a, x)' => Seen(a, x)
  BY <1>1, <1>2, <1>3, <1>6 DEF Seen, OnWire
<1>8. \A a \in Nodes, x, y \in Message : Ahead(a, x, y)' => Ahead(a, x, y)
  <2> SUFFICES ASSUME NEW a \in Nodes, NEW x \in Message, NEW y \in Message, Ahead(a, x, y)'
               PROVE  Ahead(a, x, y)
    OBVIOUS
  <2>1. OnWire(a, y)' = OnWire(a, y)
    BY <1>1 DEF OnWire
  <2> QED
    BY <1>1, <1>2, <1>3, <1>6, <2>1 DEF Ahead
<1> QED
  BY <1>1, <1>4, <1>5, <1>7, <1>8, Moved

LEMMA RedisDispatchesStep ==
  ASSUME BridgeInv, NEW n \in Nodes, RedisDispatches(n)
  PROVE  BridgeInv'
<1> DEFINE h == Head(wire[n][Server])
<1>0. TypeOK /\ RouteInv /\ Server \in Lines
  BY DEF BridgeInv, Lines
<1>1. /\ UNCHANGED <<backend, publisher, published, listening, reader, bridge>>
      /\ wire[n][Server] # <<>> /\ wire[n][Server] \in Seq(Message)
      /\ TakesLine(n, Server)
      /\ DispatchLocal(n, h)
  BY <1>0 DEF RedisDispatches, TakesLine, loopVars, TypeOK
<1>2. /\ wire' \in [Nodes -> [Lines -> Seq(Message)]]
      /\ h \in Message
      /\ \A a \in Nodes, l \in Lines :
           wire'[a][l] = IF a = n /\ l = Server THEN Tail(wire[a][l]) ELSE wire[a][l]
  BY <1>0, <1>1, LineTaken
<1>3. /\ ToSet(wire[n][Server]) = ToSet(Tail(wire[n][Server])) \union {h}
      /\ \A x, y : /\ Precedes(Tail(wire[n][Server]), x, y) => Precedes(wire[n][Server], x, y)
                   /\ y \in ToSet(Tail(wire[n][Server])) => Precedes(wire[n][Server], h, y)
  BY <1>1, Taken, PrecedesTaken
<1> HIDE DEF h
<1>4. TypeOK'
  <2>1. unread' \in [Nodes -> 0..SubscriptionBuffer] /\ delivered' \in [Nodes -> Seq(Message)]
    BY <1>0, <1>1, <1>2, DispatchType
  <2> QED
    BY <1>0, <1>1, <1>2, <2>1 DEF TypeOK, Lines
\* Over NNG the server's line would carry the messages of the server's node.
<1>5. backend # "nng"
  <2>1. h \in ToSet(wire[n][Server]) /\ h.by \in Publishers
    BY <1>2, <1>3 DEF Message
  <2>2. Home(h.by) # Server
    BY <2>1, NodesAssumption
  <2> QED
    BY <1>0, <1>2, <2>1, <2>2 DEF RouteInv
<1>6. \A a \in Nodes : /\ reader[a] = NoFrame
                       /\ bridge[a] = <<>>
                       /\ \A k \in Nodes : wire[a][k] = <<>>
  BY <1>0, <1>5 DEF RouteInv
<1>7. RouteInv'
  <2>1. ASSUME NEW a \in Nodes, NEW k \in Nodes PROVE wire'[a][k] = <<>>
    <3>1. k \in Lines /\ k # Server /\ wire[a][k] = <<>>
      BY <1>6, NodesAssumption DEF Lines
    <3> QED
      BY <1>2, <3>1
  <2> QED
    BY <1>1, <1>5, <1>6, <2>1 DEF RouteInv
<1>8. /\ \A a \in Nodes, x \in Message :
           x \in ToSet(delivered'[a]) => x \in ToSet(delivered[a]) \/ (a = n /\ x = h)
      /\ \A a \in Nodes, x, y \in Message :
           Precedes(delivered'[a], x, y) =>
             Precedes(delivered[a], x, y) \/ (a = n /\ y = h /\ x \in ToSet(delivered[a]))
  BY <1>1, <1>2, Dispatched
<1>9. /\ \A a \in Nodes, x \in Message : OnWire(a, x)' => OnWire(a, x)
      /\ OnWire(n, h)
  BY <1>0, <1>2, <1>3 DEF OnWire
<1>10. \A a \in Nodes, x \in Message : Seen(a, x)' => Seen(a, x)
  BY <1>1, <1>8, <1>9 DEF Seen
<1>11. \A a \in Nodes, x, y \in Message : Ahead(a, x, y)' => Ahead(a, x, y)
  <2> SUFFICES ASSUME NEW a \in Nodes, NEW x \in Message, NEW y \in Message, Ahead(a, x, y)'
               PROVE  Ahead(a, x, y)
    OBVIOUS
  <2>1. /\ reader[a] # y /\ reader[a] # x
        /\ x \notin ToSet(bridge[a]) /\ y \notin ToSet(bridge[a])
        /\ ~Precedes(bridge[a], x, y)
    BY <1>6, NoFrameAssumption, EmptyQueue, NothingPrecedes
  <2>2. CASE a = n /\ x = h /\ OnWire(n, y)'
    <3>1. PICK l \in Lines : y \in ToSet(wire'[n][l])
      BY <2>2 DEF OnWire
    <3>2. l = Server
      BY <1>2, <1>6, <3>1, EmptyQueue DEF Lines
    <3> QED
      BY <1>0, <1>2, <1>3, <2>2, <3>1, <3>2 DEF Ahead
  <2>3. CASE \E l \in Lines : Precedes(wire'[a][l], x, y)
    BY <1>2, <1>3, <2>3 DEF Ahead
  <2>4. CASE Precedes(delivered'[a], x, y)
    BY <1>8, <1>9, <2>4 DEF Ahead
  <2>5. CASE x \in ToSet(delivered'[a]) /\ OnWire(a, y)' /\ ~(a = n /\ x = h)
    BY <1>8, <1>9, <2>5 DEF Ahead
  <2> QED
    BY <1>1, <2>1, <2>2, <2>3, <2>4, <2>5 DEF Ahead
<1> QED
  BY <1>1, <1>4, <1>7, <1>10, <1>11, Moved

-----------------------------------------------------------------------------
(* Publishing *)

LEMMA TransmitStep ==
  ASSUME BridgeInv, NEW p \in Publishers, NEW k \in Lines, NEW nodes \in SUBSET Nodes,
         Transmit(p, k, nodes),
         backend = "nng" => k = Home(p) /\ k \notin nodes,
         backend # "nng" => k = Server
  PROVE  BridgeInv'
<1>0. TypeOK /\ RouteInv /\ NumberInv /\ OrderInv /\ AgreeInv
  BY DEF BridgeInv
<1>1. PICK m : m = Current(p)'
  OBVIOUS
<1>2. /\ TypeOK'
      /\ m \in Message /\ m.by = p /\ m.n = published[p] + 1
      /\ \A n \in Nodes, l \in Lines :
           wire'[n][l] = IF n \in nodes /\ l = k THEN Append(wire[n][l], m) ELSE wire[n][l]
  BY <1>0, <1>1, TransmitType
<1>3. /\ UNCHANGED <<backend, reader, bridge, delivered>>
      /\ \A q \in Publishers : published'[q] = IF q = p THEN published[q] + 1 ELSE published[q]
      /\ published[p] \in Nat
      /\ \A q \in Publishers : published[q] \in Nat
  BY <1>0 DEF Transmit, loopVars, localVars, TypeOK
<1>4. \A n \in Nodes : /\ wire[n][k] \in Seq(Message)
                       /\ ToSet(Append(wire[n][k], m)) = ToSet(wire[n][k]) \union {m}
                       /\ \A x, y : Precedes(Append(wire[n][k], m), x, y) =>
                            Precedes(wire[n][k], x, y) \/ (y = m /\ x \in ToSet(wire[n][k]))
  <2> TAKE n \in Nodes
  <2>1. wire[n][k] \in Seq(Message)
    BY <1>0 DEF TypeOK, Lines
  <2> QED
    BY <1>2, <2>1, Appended, PrecedesAppended
<1>5. \A n \in Nodes, x \in Message, l \in Lines :
        x \in ToSet(wire'[n][l]) => x \in ToSet(wire[n][l]) \/ (x = m /\ n \in nodes /\ l = k)
  BY <1>2, <1>4
<1>6. \A n \in Nodes, x \in Message : OnWire(n, x)' => OnWire(n, x) \/ (x = m /\ n \in nodes)
  BY <1>5 DEF OnWire
<1>7. \A n \in Nodes, x \in Message : Seen(n, x)' => Seen(n, x) \/ (x = m /\ n \in nodes)
  BY <1>3, <1>6 DEF Seen
\* m is new: nobody has seen it before.
<1>8. \A n \in Nodes : ~Seen(n, m)
  BY <1>0, <1>2, <1>3 DEF NumberInv
<1>9. ASSUME NEW n \in Nodes, NEW x \in Message, NEW y \in Message, Ahead(n, x, y)'
      PROVE  Ahead(n, x, y) \/ (y = m /\ Seen(n, x))
  <2>1. \A l \in Lines : Precedes(wire'[n][l], x, y) =>
          Precedes(wire[n][l], x, y) \/ (y = m /\ x \in ToSet(wire[n][l]))
    BY <1>2, <1>4
  <2> QED
    BY <1>3, <1>6, <1>9, <2>1 DEF Ahead, Seen, OnWire
<1>10. \A n \in Nodes, x, y \in Message : Ahead(n, x, y) => Seen(n, x) /\ Seen(n, y)
  BY PrecedesIn DEF Ahead, Seen, OnWire
<1>11. RouteInv'
  <2>1. CASE backend = "nng"
    <3>1. \A n \in Nodes, x \in Message :
            /\ \A l \in Lines : x \in ToSet(wire[n][l]) => Home(x.by) = l /\ l # n
            /\ x \in ToSet(bridge[n]) \/ x = reader[n] => Home(x.by) # n
      BY <1>0, <2>1 DEF RouteInv
    <3>2. \A n \in nodes : Home(m.by) = k /\ k # n
      BY <1>2, <2>1
    <3>3. \A n \in Nodes, x \in Message, l \in Lines :
            x \in ToSet(wire'[n][l]) => Home(x.by) = l /\ l # n
      BY <1>5, <3>1, <3>2
    <3> QED
      BY <1>3, <2>1, <3>1, <3>3 DEF RouteInv
  <2>2. CASE backend # "nng"
    <3>1. ASSUME NEW n \in Nodes, NEW l \in Nodes PROVE wire'[n][l] = <<>>
      <4>1. l \in Lines /\ l # k /\ wire[n][l] = <<>>
        BY <1>0, <2>2, NodesAssumption DEF RouteInv, Lines
      <4> QED
        BY <1>2, <4>1
    <3> QED
      BY <1>0, <1>3, <2>2, <3>1 DEF RouteInv
  <2> QED
    BY <2>1, <2>2
<1>12. NumberInv'
  <2> SUFFICES ASSUME NEW n \in Nodes, NEW x \in Message, Seen(n, x)'
               PROVE  /\ x.n <= published'[x.by]
                      /\ backend = "nng" /\ Home(x.by) = n /\ publisher'[x.by] = "sent"
                           => x.n < published'[x.by]
    BY <1>3 DEF NumberInv
  <2>1. x.n \in Nat /\ x.by \in Publishers
    BY DEF Message
  <2>2. CASE x = m /\ n \in nodes
    <3>1. x.n = published'[x.by]
      BY <1>2, <1>3, <2>2
    <3>2. ~(backend = "nng" /\ Home(x.by) = n)
      BY <1>2, <2>2
    <3> QED
      BY <2>1, <3>1, <3>2
  <2>3. CASE Seen(n, x)
    <3>1. /\ x.n <= published[x.by]
          /\ backend = "nng" /\ Home(x.by) = n /\ publisher[x.by] = "sent"
               => x.n < published[x.by]
      BY <1>0, <2>3 DEF NumberInv
    <3>2. CASE x.by = p
      BY <1>3, <2>1, <3>1, <3>2
    <3>3. CASE x.by # p
      <4>1. publisher'[x.by] = publisher[x.by]
        BY <1>0, <2>1, <3>3 DEF Transmit, TypeOK
      <4> QED
        BY <1>3, <2>1, <3>1, <3>3, <4>1
    <3> QED
      BY <3>2, <3>3
  <2> QED
    BY <1>7, <2>2, <2>3
<1>13. OrderInv'
  <2> SUFFICES ASSUME NEW n \in Nodes, NEW x \in Message, NEW y \in Message,
                      Ahead(n, x, y)', x.by = y.by
               PROVE  x.n < y.n
    BY DEF OrderInv
  <2>1. CASE Ahead(n, x, y)
    BY <1>0, <2>1 DEF OrderInv
  <2>2. CASE y = m /\ Seen(n, x)
    <3>1. x.n <= published[p] /\ x.n \in Nat
      BY <1>0, <1>2, <2>2 DEF NumberInv, Message
    <3> QED
      BY <1>2, <1>3, <2>2, <3>1
  <2> QED
    BY <1>9, <2>1, <2>2
<1>14. AgreeInv'
  <2> SUFFICES ASSUME backend # "nng", NEW n \in Nodes, NEW l \in Nodes,
                      NEW x \in Message, NEW y \in Message, Ahead(n, x, y)', Ahead(l, y, x)'
               PROVE  FALSE
    BY <1>3 DEF AgreeInv
  <2>1. Ahead(n, x, y) \/ (y = m /\ Seen(n, x))
    BY <1>9
  <2>2. Ahead(l, y, x) \/ (x = m /\ Seen(l, y))
    BY <1>9
  <2> QED
    BY <1>0, <1>8, <1>10, <2>1, <2>2 DEF AgreeInv
<1>15. SentInv'
  <2>1. \A q \in Publishers : q # p => publisher'[q] = publisher[q]
    BY <1>0 DEF Transmit, TypeOK
  <2> QED
    BY <1>3, <2>1 DEF BridgeInv, SentInv
<1> QED
  BY <1>2, <1>11, <1>12, <1>13, <1>14, <1>15 DEF BridgeInv

LEMMA PublishStep ==
  ASSUME BridgeInv, NEW p \in Publishers, NngSends(p) \/ RedisPublishes(p)
  PROVE  BridgeInv'
<1>1. Home(p) \in Lines /\ Server \in Lines
  BY NodesAssumption DEF Lines
<1>2. CASE NngSends(p)
  <2>1. PICK nodes \in SUBSET Peers(p) : backend = "nng" /\ Transmit(p, Home(p), nodes)
    BY <1>2 DEF NngSends
  <2>2. nodes \in SUBSET Nodes /\ Home(p) \notin nodes
    BY DEF Peers
  <2> QED
    BY <1>1, <2>1, <2>2, TransmitStep
<1>3. CASE RedisPublishes(p)
  <2>1. PICK nodes : nodes = {n \in Nodes : listening[n]}
    OBVIOUS
  <2>2. nodes \in SUBSET Nodes /\ backend = "redis" /\ Transmit(p, Server, nodes)
    BY <1>3, <2>1 DEF RedisPublishes
  <2> QED
    BY <1>1, <2>2, TransmitStep
<1> QED
  BY <1>2, <1>3

\* Over NNG nothing of the publisher's is on the way to its own node, so the
\* dispatch that publish makes itself comes in its place.
LEMMA ReturnsStep ==
  ASSUME BridgeInv, NEW p \in Publishers, Returns(p)
  PROVE  BridgeInv'
<1>0. TypeOK /\ RouteInv /\ NumberInv /\ OrderInv /\ AgreeInv
  BY DEF BridgeInv
<1>1. /\ UNCHANGED <<backend, published, wire, listening, reader, bridge>>
      /\ publisher[p] = "sent"
      /\ publisher' = [publisher EXCEPT ![p] = "idle"]
      /\ publisher' \in [Publishers -> {"idle", "sent"}]
      /\ \A q \in Publishers : publisher'[q] = IF q = p THEN "idle" ELSE publisher[q]
  BY <1>0 DEF Returns, transportVars, loopVars, TypeOK
<1>2. RouteInv' /\ SentInv'
  BY <1>0, <1>1 DEF RouteInv, BridgeInv, SentInv
<1>3. \A n \in Nodes, x \in Message : OnWire(n, x)' = OnWire(n, x)
  BY <1>1 DEF OnWire
<1>4. CASE backend # "nng"
  <2>1. UNCHANGED <<unread, delivered>>
    BY <1>4 DEF Returns, RoutesLocally, localVars
  <2>2. TypeOK'
    BY <1>0, <1>1, <2>1 DEF TypeOK
  <2>3. \A n \in Nodes, x \in Message : Seen(n, x)' = Seen(n, x)
    BY <1>1, <1>3, <2>1 DEF Seen
  <2>4. \A n \in Nodes, x, y \in Message : Ahead(n, x, y)' = Ahead(n, x, y)
    BY <1>1, <1>3, <2>1 DEF Ahead
  <2> QED
    BY <1>0, <1>1, <1>2, <1>4, <2>2, <2>3, <2>4 DEF BridgeInv, NumberInv, OrderInv, AgreeInv
<1>5. CASE backend = "nng"
  <2>1. PICK m : m = Current(p)
    OBVIOUS
  <2>2. PICK n \in Nodes : n = Home(p)
    BY NodesAssumption
  <2>3. m \in Message
    <3>1. published[p] \in 1..MaxMessages
      BY <1>0, <1>1 DEF TypeOK, BridgeInv, SentInv
    <3> QED
      BY <2>1, <3>1 DEF Current, Message
  <2>4. DispatchLocal(n, m)
    BY <1>5, <2>1, <2>2 DEF Returns, RoutesLocally
  <2>5. m.by = p /\ m.n = published[p]
    BY <2>1 DEF Current
  <2>6. /\ \A a \in Nodes, x \in Message :
             x \in ToSet(delivered'[a]) => x \in ToSet(delivered[a]) \/ (a = n /\ x = m)
        /\ \A a \in Nodes, x, y \in Message :
             Precedes(delivered'[a], x, y) =>
               Precedes(delivered[a], x, y) \/ (a = n /\ y = m /\ x \in ToSet(delivered[a]))
    BY <2>3, <2>4, Dispatched
  <2>7. TypeOK'
    BY <1>0, <1>1, <2>3, <2>4, DispatchType DEF TypeOK
  <2>8. NumberInv'
    <3> SUFFICES ASSUME NEW a \in Nodes, NEW x \in Message, Seen(a, x)'
                 PROVE  /\ x.n <= published[x.by]
                        /\ Home(x.by) = a /\ publisher'[x.by] = "sent" => x.n < published[x.by]
      BY <1>1 DEF NumberInv
    <3>1. x.n \in Nat /\ x.by \in Publishers
      BY DEF Message
    <3>2. CASE a = n /\ x = m
      BY <1>1, <2>5, <3>1, <3>2
    <3>3. CASE Seen(a, x)
      BY <1>0, <1>1, <1>5, <3>1, <3>3 DEF NumberInv
    <3> QED
      BY <1>1, <1>3, <2>6, <3>2, <3>3 DEF Seen
  <2>9. OrderInv'
    <3> SUFFICES ASSUME NEW a \in Nodes, NEW x \in Message, NEW y \in Message,
                        Ahead(a, x, y)', x.by = y.by
                 PROVE  x.n < y.n
      BY DEF OrderInv
    <3>1. CASE Ahead(a, x, y)
      BY <1>0, <3>1 DEF OrderInv
    <3>2. CASE a = n /\ y = m /\ x \in ToSet(delivered[a])
      <4>1. Seen(a, x)
        BY <3>2 DEF Seen
      <4> QED
        BY <1>0, <1>1, <1>5, <2>2, <2>5, <3>2, <4>1 DEF NumberInv
    <3>3. CASE a = n /\ x = m /\ (y \in ToSet(bridge[a]) \/ y = reader[a] \/ OnWire(a, y))
      <4>1. Home(y.by) # a
        BY <1>0, <1>5, <3>3 DEF RouteInv, OnWire
      <4> QED
        BY <2>2, <2>5, <3>3, <4>1
    <3> QED
      BY <1>1, <1>3, <2>6, <3>1, <3>2, <3>3 DEF Ahead
  <2>10. AgreeInv'
    BY <1>1, <1>5 DEF AgreeInv
  <2> QED
    BY <1>2, <2>7, <2>8, <2>9, <2>10 DEF BridgeInv
<1> QED
  BY <1>4, <1>5

-----------------------------------------------------------------------------
(* Theorems *)

LEMMA BridgeStutters == ASSUME BridgeInv, UNCHANGED vars PROVE BridgeInv'
<1>1. UNCHANGED <<backend, publisher, published, wire, listening, reader, bridge, unread, delivered>>
  BY DEF vars, transportVars, loopVars, localVars
<1>2. \A n \in Nodes, x, y \in Message : Seen(n, x)' = Seen(n, x) /\ Ahead(n, x, y)' = Ahead(n, x, y)
  BY <1>1 DEF Seen, Ahead, OnWire
<1>3. TypeOK' /\ RouteInv'
  BY <1>1 DEF BridgeInv, TypeOK, RouteInv
<1> QED
  BY <1>1, <1>2, <1>3, Moved

\* Where every message is on its way to every node, over either transport
\* (nng_bus.rs:96-175, redis_bus.rs:63-144).
THEOREM BridgeInvariance == Spec => []BridgeInv
<1>1. BridgeInv /\ [Next]_vars => BridgeInv'
  BY PublishStep, ReturnsStep, ReadStep, LoopEndsStep, ReaderTakesStep, ReaderSendsStep,
     NngDispatchesStep, RedisDispatchesStep, BridgeStutters
  DEF Next, LoopNext
<1> QED
  BY <1>1, InitBridge, PTL DEF Spec

\* Whatever is lost or dropped on the way, no node routes a message twice, or
\* after a later one of its publisher (nng_bus.rs:163, redis_bus.rs:107-115).
THEOREM PublishersStayInOrder == Spec => []InOrderOnce
<1>1. ASSUME BridgeInv PROVE InOrderOnce
  <2> SUFFICES ASSUME NEW n \in Nodes, NEW i \in DOMAIN delivered[n], NEW h \in DOMAIN delivered[n],
                      i < h, delivered[n][i].by = delivered[n][h].by
               PROVE  delivered[n][i].n < delivered[n][h].n
    BY DEF InOrderOnce
  <2>1. delivered[n][i] \in Message /\ delivered[n][h] \in Message
    BY <1>1 DEF BridgeInv, TypeOK
  <2>2. Ahead(n, delivered[n][i], delivered[n][h])
    BY DEF Ahead, Precedes
  <2> QED
    BY <1>1, <2>1, <2>2 DEF BridgeInv, OrderInv
<1> QED
  BY <1>1, BridgeInvariance, PTL

\* Over Redis any two nodes agree on the order of the messages both get, even
\* when connections end and full subscribers miss some.
THEOREM NodesAgree == Spec => []SameOrder
<1>1. ASSUME BridgeInv PROVE SameOrder
  <2> SUFFICES ASSUME backend = "redis", NEW n \in Nodes, NEW k \in Nodes,
                      NEW i \in DOMAIN delivered[n], NEW h \in DOMAIN delivered[n],
                      NEW a \in DOMAIN delivered[k], NEW b \in DOMAIN delivered[k],
                      delivered[n][i] = delivered[k][a], delivered[n][h] = delivered[k][b], i < h
               PROVE  a < b
    BY DEF SameOrder
  <2> DEFINE x == delivered[n][i]
             y == delivered[n][h]
  <2>1. x \in Message /\ y \in Message
    BY <1>1 DEF BridgeInv, TypeOK
  <2>2. a \in Int /\ b \in Int
    BY <1>1 DEF BridgeInv, TypeOK
  <2>3. Ahead(n, x, y)
    BY DEF Ahead, Precedes
  <2>4. ~Ahead(k, y, x) /\ ~Ahead(n, y, x)
    BY <1>1, <2>1, <2>3 DEF BridgeInv, AgreeInv
  <2>5. ~(b < a)
    BY <2>4 DEF Ahead, Precedes
  <2>6. a # b
    BY <2>3, <2>4
  <2> QED
    BY <2>2, <2>5, <2>6
<1> QED
  BY <1>1, BridgeInvariance, PTL
=============================================================================
