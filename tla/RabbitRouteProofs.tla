-------------------------- MODULE RabbitRouteProofs --------------------------
(***************************************************************************)
(* Proofs about RabbitRoute, for any messages, route configurations and    *)
(* bounds: what a message that left the broker went through, and who has   *)
(* one that did not.                                                       *)
(***************************************************************************)
EXTENDS RabbitRoute, QueueFacts

USE RouteAssumption, BoundAssumption

-----------------------------------------------------------------------------
(* The inductive invariant *)

Decision == {"Ack", "Retry", "Reject"}
Command == {Register(d) : d \in Ids} \union {Settle(d, e) : d \in Ids, e \in Decision}
Pushes == [message : Messages, redelivered : BOOLEAN]
Phase == {"none", "received", "handling", "delivering", "failing", "reported", "settling", "over"}

\* messageOf of a delivery that was not taken yet does not matter.
RabbitTypeOK ==
  /\ config \in Routes
  /\ place \in [Messages -> {"ready", "unacked", "gone"}]
  /\ redelivered \in [Messages -> BOOLEAN] /\ connected \in BOOLEAN
  /\ buffer \in Seq(Pushes)
  /\ nextId \in 1..(MaxDeliveries + 1)
  /\ messageOf \in [Ids -> Messages \union {CHOOSE m \in Messages : TRUE}]
  /\ attempts \in [Ids -> {0, 1}]
  /\ route \in {"running", "ended"}
  /\ phase \in [Ids -> Phase]
  /\ commands \in Seq(Command)
  /\ ackers \in SUBSET Ids
  /\ actor \in [pc : {"idle", "settling"}, id : Ids \union {0}, decision : Decision \union {"none"}]
  /\ verdict \in [Messages -> SUBSET {"routed", "refused"}]
  /\ reported \in SUBSET Messages
  /\ panics \in Nat

\* A message is in one place of the process: one entry of the buffer, or one
\* delivery of the route.
OneCarrier ==
  /\ IsInjective(buffer)
  /\ \A a, b \in ToSet(buffer) : a.message = b.message => a = b
  /\ \A d \in InRoute : /\ messageOf[d] \in Messages
                        /\ \A b \in ToSet(buffer) : messageOf[d] # b.message
                        /\ \A e \in InRoute : messageOf[d] = messageOf[e] => d = e

\* The broker counts what the process has as unacknowledged; once it has lost
\* the process, as redelivered.
CarrierInv ==
  /\ \A b \in ToSet(buffer) : IF connected THEN place[b.message] = "unacked" ELSE redelivered[b.message]
  /\ \A d \in InRoute : IF connected THEN place[messageOf[d]] = "unacked" ELSE redelivered[messageOf[d]]

\* Whatever is still to be handled and not flagged was never routed.
FlagInv ==
  /\ \A m \in Messages : place[m] = "ready" /\ ~redelivered[m] => "routed" \notin verdict[m]
  /\ \A b \in ToSet(buffer) : ~b.redelivered => "routed" \notin verdict[b.message]
  /\ DuplicateIsFlagged

\* Delivery numbers are given out in order, and known to the actor since.
KnownInv ==
  /\ \A d \in Ids : phase[d] = "none" <=> d >= nextId
  /\ \A d \in ackers : phase[d] # "none"
  /\ \A d \in Ids : phase[d] \notin {"none", "settling", "over"} =>
       d \in ackers \/ Register(d) \in ToSet(commands)
  /\ panics = 0 => \A d \in Ids : phase[d] = "over" => d \notin ackers /\ Register(d) \notin ToSet(commands)

\* A decision other than Retry is taken about a message with a verdict.
Justified(m, decision) ==
  decision # "Retry" => \/ "routed" \in verdict[m]
                        \/ "refused" \in verdict[m] /\ (HasErrorTarget => m \in reported)

\* A command is in the mailbox once; a delivery is registered there before it
\* is settled.
CommandInv ==
  /\ IsInjective(commands)
  /\ \A d \in Ids : Register(d) \in ToSet(commands) => d \notin ackers /\ phase[d] # "none"
  /\ \A d \in Ids, e \in Decision : Settle(d, e) \in ToSet(commands) =>
       /\ phase[d] = "settling"
       /\ d \in ackers \/ Before(commands, Register(d), Settle(d, e))
       /\ Justified(messageOf[d], e)
       /\ \A f \in Decision : Settle(d, f) \in ToSet(commands) => f = e

\* The actor settles a delivery it has forgotten and nobody settles again.
ActorInv ==
  actor.pc = "settling" =>
    /\ actor.id \in Ids /\ phase[actor.id] = "settling" /\ actor.id \notin ackers
    /\ Register(actor.id) \notin ToSet(commands)
    /\ \A e \in Decision : Settle(actor.id, e) \notin ToSet(commands)
    /\ Justified(messageOf[actor.id], actor.decision)

VerdictInv ==
  /\ GoneOnlyAfterVerdict
  /\ \A d \in Ids : phase[d] = "reported" /\ HasErrorTarget => messageOf[d] \in reported

RabbitInv == /\ RabbitTypeOK /\ OneCarrier /\ CarrierInv /\ FlagInv /\ KnownInv /\ CommandInv
             /\ ActorInv /\ VerdictInv /\ UnackedIsInHand

LEMMA CommandKinds ==
  ASSUME NEW d \in Ids, NEW f \in Ids, NEW e \in Decision, NEW g \in Decision
  PROVE  /\ Register(d) \in Command /\ Settle(d, e) \in Command
         /\ Register(d) # Settle(f, e)
         /\ Register(d) = Register(f) <=> d = f
         /\ Settle(d, e) = Settle(f, g) <=> d = f /\ e = g
BY DEF Command, Register, Settle

LEMMA ConfigValues ==
  ASSUME config \in Routes
  PROVE  /\ FailureDecision \in Decision /\ Partitioned \in BOOLEAN
         /\ HasTarget \in BOOLEAN /\ HasErrorTarget \in BOOLEAN
BY DEF FailureDecision, Partitioned, HasTarget, HasErrorTarget, Decision

LEMMA RabbitInvInit == Init => RabbitInv
<1> SUFFICES ASSUME Init PROVE RabbitInv
  OBVIOUS
<1>1. /\ buffer \in Seq(Pushes) /\ ToSet(buffer) = {} /\ IsInjective(buffer)
      /\ commands \in Seq(Command) /\ ToSet(commands) = {} /\ IsInjective(commands)
  BY EmptyQueue DEF Init
<1>2. RabbitTypeOK
  BY <1>1 DEF Init, RabbitTypeOK, Idle, Phase, Ids
<1>3. OneCarrier /\ CarrierInv
  BY <1>1 DEF Init, OneCarrier, CarrierInv, InRoute
<1>4. FlagInv /\ VerdictInv
  BY <1>1 DEF Init, FlagInv, DuplicateIsFlagged, VerdictInv, GoneOnlyAfterVerdict
<1>5. KnownInv /\ CommandInv /\ ActorInv
  BY <1>1 DEF Init, KnownInv, CommandInv, ActorInv, Idle, Ids
<1>6. UnackedIsInHand
  BY <1>1 DEF Init, UnackedIsInHand
<1> QED
  BY <1>2, <1>3, <1>4, <1>5, <1>6 DEF RabbitInv

\* The second half of UnackedIsInHand is part of KnownInv; the first one in
\* terms of what is in the buffer.
LEMMA InHandOf ==
  ASSUME NEW m
  PROVE  InHand(m) <=> \/ \E b \in ToSet(buffer) : b.message = m
                       \/ \E d \in InRoute : messageOf[d] = m
BY DEF InHand, ToSet

\* A verdict on a delivery of the route is about no message waiting elsewhere.
LEMMA VerdictGrows ==
  ASSUME RabbitInv, NEW d \in InRoute,
         verdict' \in {verdict, [verdict EXCEPT ![messageOf[d]] = @ \union {"routed"}],
                       [verdict EXCEPT ![messageOf[d]] = @ \union {"refused"}]}
  PROVE  /\ verdict' \in [Messages -> SUBSET {"routed", "refused"}]
         /\ \A m \in Messages : verdict[m] \subseteq verdict'[m]
         /\ \A m \in Messages : m # messageOf[d] => verdict'[m] = verdict[m]
         /\ \A m \in Messages : place[m] = "ready" /\ ~redelivered[m] => "routed" \notin verdict'[m]
         /\ \A b \in ToSet(buffer) : ~b.redelivered => "routed" \notin verdict'[b.message]
<1>1. d \in Ids /\ messageOf[d] \in Messages /\ verdict \in [Messages -> SUBSET {"routed", "refused"}]
  BY DEF RabbitInv, OneCarrier, InRoute, RabbitTypeOK
<1>2. /\ verdict' \in [Messages -> SUBSET {"routed", "refused"}]
      /\ \A m \in Messages : verdict[m] \subseteq verdict'[m]
      /\ \A m \in Messages : m # messageOf[d] => verdict'[m] = verdict[m]
  BY <1>1
<1>3. place[messageOf[d]] = "ready" => redelivered[messageOf[d]]
  BY DEF RabbitInv, CarrierInv
<1>4. \A b \in ToSet(buffer) : b.message \in Messages /\ b.message # messageOf[d]
  <2>1. ToSet(buffer) \subseteq Pushes
    BY DEF RabbitInv, RabbitTypeOK, ToSet
  <2> QED
    BY <2>1 DEF RabbitInv, OneCarrier, Pushes
<1> QED
  BY <1>2, <1>3, <1>4 DEF RabbitInv, FlagInv

-----------------------------------------------------------------------------
(* The route *)

\* A step of the route that keeps the delivery in its hands.
LEMMA RouteMoves ==
  ASSUME RabbitInv, NEW d \in Ids, NEW to \in {"handling", "delivering", "failing", "reported"},
         phase[d] \in {"received", "handling", "delivering", "failing"},
         phase' = [phase EXCEPT ![d] = to],
         verdict' \in {verdict, [verdict EXCEPT ![messageOf[d]] = @ \union {"routed"}]},
         to = "handling" => phase[d] = "received" /\ UNCHANGED verdict,
         reported \subseteq reported', reported' \subseteq Messages,
         to = "reported" => (HasErrorTarget => messageOf[d] \in reported'),
         UNCHANGED <<config, brokerVars, streamVars, actorVars, panics>>,
         route' \in {"running", "ended"}
  PROVE  RabbitInv'
<1>1. \A f \in Ids : phase'[f] = IF f = d THEN to ELSE phase[f]
  BY DEF RabbitInv, RabbitTypeOK
<1>2. d \in InRoute /\ InRoute' = InRoute
  BY <1>1 DEF InRoute
<1>3. /\ verdict' \in [Messages -> SUBSET {"routed", "refused"}]
      /\ \A m \in Messages : verdict[m] \subseteq verdict'[m]
      /\ \A m \in Messages : m # messageOf[d] => verdict'[m] = verdict[m]
      /\ \A m \in Messages : place[m] = "ready" /\ ~redelivered[m] => "routed" \notin verdict'[m]
      /\ \A b \in ToSet(buffer) : ~b.redelivered => "routed" \notin verdict'[b.message]
  BY <1>2, VerdictGrows
<1>4. UNCHANGED <<config, place, redelivered, connected, buffer, nextId, messageOf, attempts,
                  commands, ackers, actor, panics>>
  BY DEF brokerVars, streamVars, actorVars
<1>5. RabbitTypeOK'
  BY <1>3, <1>4 DEF RabbitInv, RabbitTypeOK, Phase
<1>6. OneCarrier' /\ CarrierInv'
  BY <1>2, <1>4 DEF RabbitInv, OneCarrier, CarrierInv
<1>7. FlagInv'
  <2>1. DuplicateIsFlagged'
    BY <1>1, <1>2, <1>3, <1>4 DEF RabbitInv, FlagInv, DuplicateIsFlagged, OneCarrier, InRoute
  <2> QED
    BY <1>3, <1>4, <2>1 DEF FlagInv
<1>8. KnownInv'
  BY <1>1, <1>4 DEF RabbitInv, KnownInv, Register
<1>9. \A m \in Messages, e \in Decision : Justified(m, e) => Justified(m, e)'
  BY <1>3, <1>4 DEF Justified, HasErrorTarget
<1>10. \A f \in Ids : phase[f] = "settling" => f \in InRoute /\ f # d /\ messageOf[f] \in Messages
  BY DEF RabbitInv, OneCarrier, InRoute
<1>11. CommandInv'
  BY <1>1, <1>4, <1>9, <1>10 DEF RabbitInv, CommandInv, Register, Settle, Before
<1>12. ActorInv'
  BY <1>1, <1>3, <1>4, <1>10 DEF RabbitInv, ActorInv, Register, Settle, Justified, HasErrorTarget
<1>13. VerdictInv'
  BY <1>1, <1>3, <1>4 DEF RabbitInv, VerdictInv, GoneOnlyAfterVerdict, HasErrorTarget
<1>14. UnackedIsInHand'
  BY <1>1, <1>2, <1>4 DEF RabbitInv, UnackedIsInHand, InHand
<1> QED
  BY <1>5, <1>6, <1>7, <1>8, <1>11, <1>12, <1>13, <1>14 DEF RabbitInv

\* The route decides: the settlement follows the registration.
LEMMA RouteSettles ==
  ASSUME RabbitInv, NEW d \in Ids, NEW e \in Decision,
         phase[d] \in {"handling", "delivering", "reported"},
         SendSettle(d, e),
         verdict' \in {verdict, [verdict EXCEPT ![messageOf[d]] = @ \union {"routed"}],
                       [verdict EXCEPT ![messageOf[d]] = @ \union {"refused"}]},
         Justified(messageOf[d], e)',
         UNCHANGED <<config, brokerVars, streamVars, route, ackers, actor, reported, panics>>
  PROVE  RabbitInv'
<1>1. /\ phase' = [phase EXCEPT ![d] = "settling"]
      /\ commands' = Append(commands, Settle(d, e))
      /\ \A f \in Ids : phase'[f] = IF f = d THEN "settling" ELSE phase[f]
  BY DEF SendSettle, RabbitInv, RabbitTypeOK
<1>2. d \in InRoute /\ InRoute' = InRoute
  BY <1>1 DEF InRoute
<1>3. /\ verdict' \in [Messages -> SUBSET {"routed", "refused"}]
      /\ \A m \in Messages : verdict[m] \subseteq verdict'[m]
      /\ \A m \in Messages : m # messageOf[d] => verdict'[m] = verdict[m]
      /\ \A m \in Messages : place[m] = "ready" /\ ~redelivered[m] => "routed" \notin verdict'[m]
      /\ \A b \in ToSet(buffer) : ~b.redelivered => "routed" \notin verdict'[b.message]
  BY <1>2, VerdictGrows
<1>4. UNCHANGED <<config, place, redelivered, connected, buffer, nextId, messageOf, attempts,
                  route, ackers, actor, reported, panics>>
  BY DEF brokerVars, streamVars
<1>5. /\ commands \in Seq(Command) /\ Settle(d, e) \in Command /\ Register(d) \in Command
      /\ Settle(d, e) \notin ToSet(commands)
      /\ \A g \in Decision : Settle(d, g) \notin ToSet(commands)
  BY CommandKinds DEF RabbitInv, RabbitTypeOK, CommandInv
<1>6. /\ commands' \in Seq(Command) /\ IsInjective(commands')
      /\ ToSet(commands') = ToSet(commands) \union {Settle(d, e)}
  BY <1>1, <1>5, Appended, AppendedNew DEF RabbitInv, CommandInv
<1>7. \A f \in Ids, g \in Decision :
        /\ Register(f) \in ToSet(commands') <=> Register(f) \in ToSet(commands)
        /\ Settle(f, g) \in ToSet(commands') <=> Settle(f, g) \in ToSet(commands) \/ (f = d /\ g = e)
  <2> SUFFICES ASSUME NEW f \in Ids, NEW g \in Decision
               PROVE  /\ Register(f) \in ToSet(commands') <=> Register(f) \in ToSet(commands)
                      /\ Settle(f, g) \in ToSet(commands') <=>
                           Settle(f, g) \in ToSet(commands) \/ (f = d /\ g = e)
    OBVIOUS
  <2>1. Register(f) # Settle(d, e) /\ (Settle(f, g) = Settle(d, e) <=> f = d /\ g = e)
    BY CommandKinds
  <2> QED
    BY <1>6, <2>1
<1>8. RabbitTypeOK'
  BY <1>1, <1>3, <1>4, <1>6 DEF RabbitInv, RabbitTypeOK, Phase
<1>9. OneCarrier' /\ CarrierInv'
  BY <1>2, <1>4 DEF RabbitInv, OneCarrier, CarrierInv
<1>10. FlagInv'
  <2>1. DuplicateIsFlagged'
    BY <1>1, <1>2, <1>3, <1>4 DEF RabbitInv, FlagInv, DuplicateIsFlagged, OneCarrier, InRoute
  <2> QED
    BY <1>3, <1>4, <2>1 DEF FlagInv
<1>11. KnownInv'
  <2>1. \A f \in Ids : Register(f)' = Register(f)
    BY DEF Register
  <2> QED
    BY <1>1, <1>4, <1>7, <2>1, RouteAssumption DEF RabbitInv, KnownInv, Decision
<1>13. CommandInv'
  <2>1. \A f \in Ids, g \in Decision : /\ Register(f)' = Register(f) /\ Settle(f, g)' = Settle(f, g)
    BY DEF Register, Settle
  <2>2. ASSUME NEW f \in Ids, Register(f) \in ToSet(commands')
        PROVE  f \notin ackers' /\ phase'[f] # "none"
    BY <1>1, <1>4, <1>7, <2>2 DEF RabbitInv, CommandInv, Decision
  <2>3. ASSUME NEW f \in Ids, NEW g \in Decision, Settle(f, g) \in ToSet(commands')
        PROVE  /\ phase'[f] = "settling"
               /\ f \in ackers' \/ Before(commands', Register(f), Settle(f, g))
               /\ Justified(messageOf[f], g)'
               /\ \A h \in Decision : Settle(f, h) \in ToSet(commands') => h = g
    <3>1. CASE f = d
      <4>1. g = e /\ \A h \in Decision : Settle(f, h) \in ToSet(commands') => h = e
        BY <1>5, <1>7, <2>3, <3>1
      <4>2. d \in ackers \/ Register(d) \in ToSet(commands)
        BY DEF RabbitInv, KnownInv
      <4>3. d \in ackers \/ Before(commands', Register(d), Settle(d, e))
        BY <1>1, <1>5, <4>2, BeforeAppended
      <4>4. Justified(messageOf[f], g)'
        BY <3>1, <4>1
      <4>5. phase'[f] = "settling"
        BY <1>1, <3>1
      <4>6. f \in ackers' \/ Before(commands', Register(f), Settle(f, g))
        BY <1>4, <3>1, <4>1, <4>3
      <4> QED
        BY <4>1, <4>4, <4>5, <4>6
    <3>2. CASE f # d
      <4>1. /\ Settle(f, g) \in ToSet(commands) /\ Settle(f, g) \in Command /\ Register(f) \in Command
            /\ Settle(f, g) # Settle(d, e)
        BY <1>7, <2>3, <3>2, CommandKinds
      <4>2. f \in ackers \/ Before(commands, Register(f), Settle(f, g))
        BY <4>1 DEF RabbitInv, CommandInv
      <4>3. f \in ackers \/ Before(commands', Register(f), Settle(f, g))
        BY <1>1, <1>5, <4>1, <4>2, BeforeAppended
      <4>4. /\ phase[f] = "settling" /\ Justified(messageOf[f], g)
            /\ \A h \in Decision : Settle(f, h) \in ToSet(commands) => h = g
        BY <4>1 DEF RabbitInv, CommandInv
      <4>5. messageOf[f] \in Messages
        BY <4>4 DEF RabbitInv, OneCarrier, InRoute
      <4>6. Justified(messageOf[f], g)'
        BY <1>3, <1>4, <4>4, <4>5 DEF Justified, HasErrorTarget
      <4>7. \A h \in Decision : Settle(f, h) \in ToSet(commands') => h = g
        BY <1>7, <3>2, <4>4
      <4> QED
        BY <1>1, <1>4, <3>2, <4>3, <4>4, <4>6, <4>7
    <3> QED
      BY <3>1, <3>2
  <2>4. \A f \in Ids, g \in Decision : Settle(f, g) \in ToSet(commands') =>
          /\ phase'[f] = "settling"
          /\ f \in ackers' \/ Before(commands', Register(f), Settle(f, g))
          /\ Justified(messageOf[f], g)'
          /\ \A h \in Decision : Settle(f, h) \in ToSet(commands') => h = g
    BY <2>3
  <2>5. \A f \in Ids : Register(f) \in ToSet(commands') => f \notin ackers' /\ phase'[f] # "none"
    BY <2>2
  <2> QED
    BY <1>6, <2>1, <2>4, <2>5 DEF CommandInv
<1>14. ActorInv'
  <2> SUFFICES ASSUME actor.pc = "settling"
               PROVE  ActorInv'
    BY <1>4 DEF ActorInv
  <2>1. /\ actor.id \in Ids /\ phase[actor.id] = "settling" /\ actor.id \notin ackers
        /\ Register(actor.id) \notin ToSet(commands) /\ actor.id # d
        /\ \A g \in Decision : Settle(actor.id, g) \notin ToSet(commands)
        /\ Justified(messageOf[actor.id], actor.decision)
    BY DEF RabbitInv, ActorInv
  <2>2. messageOf[actor.id] \in Messages
    BY <2>1 DEF RabbitInv, OneCarrier, InRoute
  <2>3. Justified(messageOf[actor.id], actor.decision)'
    BY <1>3, <1>4, <2>1, <2>2 DEF Justified, HasErrorTarget
  <2>4. /\ Register(actor.id)' = Register(actor.id)
        /\ \A g \in Decision : Settle(actor.id, g)' = Settle(actor.id, g)
    BY <1>4 DEF Register, Settle
  <2> QED
    BY <1>1, <1>4, <1>7, <2>1, <2>3, <2>4 DEF ActorInv
<1>15. VerdictInv'
  BY <1>1, <1>3, <1>4 DEF RabbitInv, VerdictInv, GoneOnlyAfterVerdict, HasErrorTarget
<1>16. UnackedIsInHand'
  BY <1>1, <1>2, <1>4 DEF RabbitInv, UnackedIsInHand, InHand
<1> QED
  BY <1>8, <1>9, <1>10, <1>11, <1>13, <1>14, <1>15, <1>16 DEF RabbitInv

LEMMA PanicsKeeps ==
  ASSUME RabbitInv, NEW d \in Ids, Panics(d)
  PROVE  RabbitInv'
<1>1. /\ phase[d] = "handling" /\ phase' = [phase EXCEPT ![d] = "over"]
      /\ panics' = panics + 1 /\ panics \in Nat /\ route' \in {"running", "ended"}
      /\ UNCHANGED <<config, brokerVars, streamVars, actorVars, historyVars>>
  BY DEF Panics, Steps, RabbitInv, RabbitTypeOK
<1>2. \A f \in Ids : phase'[f] = IF f = d THEN "over" ELSE phase[f]
  BY <1>1 DEF RabbitInv, RabbitTypeOK
<1>3. InRoute' = InRoute \ {d} /\ d \in InRoute
  BY <1>1, <1>2 DEF InRoute
<1>4. UNCHANGED <<config, place, redelivered, connected, buffer, nextId, messageOf, attempts,
                  commands, ackers, actor, verdict, reported>>
  BY <1>1 DEF brokerVars, streamVars, actorVars, historyVars
<1>5. RabbitTypeOK'
  BY <1>1, <1>4 DEF RabbitInv, RabbitTypeOK, Phase
<1>6. OneCarrier' /\ CarrierInv'
  BY <1>3, <1>4 DEF RabbitInv, OneCarrier, CarrierInv
<1>7. FlagInv'
  BY <1>2, <1>4 DEF RabbitInv, FlagInv, DuplicateIsFlagged
<1>8. KnownInv'
  BY <1>1, <1>2, <1>4 DEF RabbitInv, KnownInv, Register
<1>9. CommandInv'
  BY <1>1, <1>2, <1>4 DEF RabbitInv, CommandInv, Register, Settle, Before, Justified, HasErrorTarget
<1>10. ActorInv'
  BY <1>1, <1>2, <1>4 DEF RabbitInv, ActorInv, Register, Settle, Justified, HasErrorTarget
<1>11. VerdictInv'
  BY <1>2, <1>4 DEF RabbitInv, VerdictInv, GoneOnlyAfterVerdict, HasErrorTarget
<1>12. UnackedIsInHand'
  BY <1>1 DEF UnackedIsInHand
<1> QED
  BY <1>5, <1>6, <1>7, <1>8, <1>9, <1>10, <1>11, <1>12 DEF RabbitInv

LEMMA RouteKeeps ==
  ASSUME RabbitInv, NEW d \in Ids, RouteNext(d)
  PROVE  RabbitInv'
<1>1. /\ FailureDecision \in Decision /\ messageOf[d] \in Messages /\ reported \subseteq Messages
      /\ route \in {"running", "ended"} /\ verdict \in [Messages -> SUBSET {"routed", "refused"}]
  <2>1. d \in InRoute
    BY DEF RouteNext, Accepted, Refused, HandlerSucceeds, HandlerFails, DeliverySucceeds, DeliveryFails,
           ReportFailure, SettleFailure, Panics, Steps, InRoute
  <2> QED
    BY <2>1, ConfigValues DEF RabbitInv, RabbitTypeOK, OneCarrier
<1>2. CASE Accepted(d)
  BY <1>1, <1>2, RouteMoves DEF Accepted, Steps, historyVars, countVars
<1>3. CASE Refused(d)
  BY <1>1, <1>3, RouteMoves DEF Refused, Steps, historyVars, countVars
<1>4. CASE HandlerSucceeds(d)
  <2>1. CASE HasTarget
    BY <1>1, <1>4, <2>1, RouteMoves DEF HandlerSucceeds, Steps, historyVars, countVars, actorVars
  <2>2. CASE ~HasTarget
    <3>1. Justified(messageOf[d], "Ack")'
      BY <1>1, <1>4, <2>2 DEF HandlerSucceeds, Routed, Justified, streamVars
    <3> QED
      BY <1>1, <1>4, <2>2, <3>1, RouteSettles DEF HandlerSucceeds, Routed, Decision, countVars
  <2> QED
    BY <2>1, <2>2
<1>5. CASE HandlerFails(d)
  BY <1>1, <1>5, RouteMoves DEF HandlerFails, Steps, historyVars, countVars
<1>6. CASE DeliverySucceeds(d)
  <2>1. Justified(messageOf[d], "Ack")'
    BY <1>1, <1>6 DEF DeliverySucceeds, Routed, Justified, streamVars
  <2> QED
    BY <1>1, <1>6, <2>1, RouteSettles DEF DeliverySucceeds, Routed, Decision, countVars
<1>7. CASE DeliveryFails(d)
  BY <1>1, <1>7, RouteMoves DEF DeliveryFails, Steps, countVars
<1>8. CASE ReportFailure(d)
  <2>1. reported' = IF HasErrorTarget THEN reported \union {messageOf[d]} ELSE reported
    BY <1>8 DEF ReportFailure, Reported
  <2> QED
    BY <1>1, <1>8, <2>1, RouteMoves DEF ReportFailure, Steps, countVars
<1>9. CASE SettleFailure(d)
  <2>1. /\ phase[d] = "reported" /\ SendSettle(d, FailureDecision)
        /\ verdict' = IF FailureDecision = "Retry" THEN verdict
                      ELSE [verdict EXCEPT ![messageOf[d]] = @ \union {"refused"}]
        /\ UNCHANGED <<config, brokerVars, streamVars, route, ackers, actor, reported, panics>>
    BY <1>9 DEF SettleFailure, SettlesFailure, countVars
  <2>2. HasErrorTarget => messageOf[d] \in reported
    BY <2>1 DEF RabbitInv, VerdictInv
  <2>3. Justified(messageOf[d], FailureDecision)'
    BY <1>1, <2>1, <2>2 DEF Justified, streamVars, HasErrorTarget, FailureDecision
  <2>4. UNCHANGED FailureDecision
    BY <2>1 DEF FailureDecision
  <2> QED
    BY <1>1, <2>1, <2>3, <2>4, RouteSettles
<1>10. CASE Panics(d)
  BY <1>10, PanicsKeeps
<1> QED
  BY <1>2, <1>3, <1>4, <1>5, <1>6, <1>7, <1>8, <1>9, <1>10 DEF RouteNext

-----------------------------------------------------------------------------
(* The broker and the stream *)

\* Nobody in the process has a message that is ready, so the push is its only one.
LEMMA PushKeeps ==
  ASSUME RabbitInv, NEW m \in Messages, Push(m)
  PROVE  RabbitInv'
<1> DEFINE p == [message |-> m, redelivered |-> redelivered[m]]
<1>1. /\ connected /\ place[m] = "ready" /\ place' = [place EXCEPT ![m] = "unacked"]
      /\ buffer' = Append(buffer, p)
      /\ UNCHANGED <<config, redelivered, connected, nextId, messageOf, attempts, route, phase,
                     commands, ackers, actor, verdict, reported, panics>>
  BY DEF Push, Pushed, actorVars, historyVars, countVars
<1>2. p \in Pushes /\ p.message = m /\ p.redelivered = redelivered[m]
  BY DEF RabbitInv, RabbitTypeOK, Pushes
<1> HIDE DEF p
<1>3. /\ \A b \in ToSet(buffer) : b.message # m
      /\ \A d \in InRoute : messageOf[d] # m
  BY <1>1 DEF RabbitInv, CarrierInv
<1>4. /\ buffer' \in Seq(Pushes) /\ ToSet(buffer') = ToSet(buffer) \union {p}
      /\ IsInjective(buffer')
  <2>1. buffer \in Seq(Pushes) /\ IsInjective(buffer) /\ p \notin ToSet(buffer)
    BY <1>2, <1>3 DEF RabbitInv, RabbitTypeOK, OneCarrier
  <2> QED
    BY <1>1, <1>2, <2>1, Appended, AppendedNew
<1>5. InRoute' = InRoute
  BY <1>1 DEF InRoute
<1>6. \A n \in Messages : place'[n] = IF n = m THEN "unacked" ELSE place[n]
  BY <1>1 DEF RabbitInv, RabbitTypeOK
<1>7. \A b \in ToSet(buffer) : b.message \in Messages
  <2>1. ToSet(buffer) \subseteq Pushes
    BY DEF RabbitInv, RabbitTypeOK, ToSet
  <2> QED
    BY <2>1 DEF Pushes
<1>8. RabbitTypeOK'
  BY <1>1, <1>4 DEF RabbitInv, RabbitTypeOK
<1>9. OneCarrier'
  BY <1>1, <1>2, <1>3, <1>4, <1>5 DEF RabbitInv, OneCarrier
<1>10. CarrierInv'
  BY <1>1, <1>2, <1>3, <1>4, <1>5, <1>6, <1>7 DEF RabbitInv, CarrierInv, OneCarrier
<1>11. FlagInv'
  <2>1. ~redelivered[m] => "routed" \notin verdict[m]
    BY <1>1 DEF RabbitInv, FlagInv
  <2>2. DuplicateIsFlagged'
    BY <1>1 DEF RabbitInv, FlagInv, DuplicateIsFlagged
  <2> QED
    BY <1>1, <1>2, <1>4, <1>6, <2>1, <2>2 DEF RabbitInv, FlagInv
<1>12. KnownInv'
  BY <1>1 DEF RabbitInv, KnownInv, Register
<1>13. CommandInv' /\ ActorInv'
  BY <1>1 DEF RabbitInv, CommandInv, ActorInv, Register, Settle, Before, Justified, HasErrorTarget
<1>14. VerdictInv'
  BY <1>1, <1>6 DEF RabbitInv, VerdictInv, GoneOnlyAfterVerdict, HasErrorTarget
<1>15. UnackedIsInHand'
  <2>1. \A n \in Messages : InHand(n) => InHand(n)'
    <3>1. \A n \in Messages : (\E b \in ToSet(buffer) : b.message = n) => (\E b \in ToSet(buffer') : b.message = n)
      BY <1>4
    <3> QED
      BY <1>1, <1>5, <3>1 DEF InHand, ToSet
  <2>2. InHand(m)'
    <3>1. \E b \in ToSet(buffer') : b.message = m
      BY <1>2, <1>4
    <3> QED
      BY <3>1 DEF InHand, ToSet
  <2> QED
    BY <1>1, <1>6, <2>1, <2>2 DEF RabbitInv, UnackedIsInHand
<1> QED
  BY <1>8, <1>9, <1>10, <1>11, <1>12, <1>13, <1>14, <1>15 DEF RabbitInv

\* The message goes from the buffer to a delivery nobody has heard of.
LEMMA TakeKeeps ==
  ASSUME RabbitInv, Take
  PROVE  RabbitInv'
<1> DEFINE p == Head(buffer)
           n == nextId
<1>1. /\ buffer # <<>> /\ n <= MaxDeliveries
      /\ buffer' = Tail(buffer)
      /\ nextId' = n + 1
      /\ messageOf' = [messageOf EXCEPT ![n] = p.message]
      /\ attempts' = [attempts EXCEPT ![n] = IF p.redelivered THEN 1 ELSE 0]
      /\ phase' = [phase EXCEPT ![n] = "received"]
      /\ commands' = Append(commands, Register(n))
      /\ UNCHANGED <<config, place, redelivered, connected, route, ackers, actor, verdict, reported, panics>>
  BY DEF Take, AttemptsOf, Registers, brokerVars, historyVars, countVars
<1>2. n \in Ids
  BY <1>1 DEF RabbitInv, RabbitTypeOK, Ids
<1>3. /\ p \in Pushes /\ p \in ToSet(buffer)
      /\ buffer' \in Seq(Pushes) /\ IsInjective(buffer')
      /\ ToSet(buffer') = ToSet(buffer) \ {p}
  BY <1>1, Taken, TakenOnce DEF RabbitInv, RabbitTypeOK, OneCarrier
<1> HIDE DEF p, n
<1>4. /\ p.message \in Messages /\ p.redelivered \in BOOLEAN
      /\ \A b \in ToSet(buffer') : b \in ToSet(buffer) /\ b.message # p.message
      /\ \A d \in InRoute : messageOf[d] # p.message
  BY <1>3 DEF RabbitInv, OneCarrier, Pushes
<1>5. /\ phase[n] = "none" /\ n \notin ackers
      /\ \A e \in Decision : Settle(n, e) \notin ToSet(commands)
      /\ Register(n) \notin ToSet(commands) /\ Register(n) \in Command
  <2>1. phase[n] = "none"
    BY <1>2 DEF RabbitInv, KnownInv, RabbitTypeOK, n
  <2> QED
    BY <1>2, <2>1, CommandKinds DEF RabbitInv, KnownInv, CommandInv, Decision
<1>6. /\ \A d \in Ids : /\ phase'[d] = IF d = n THEN "received" ELSE phase[d]
                        /\ messageOf'[d] = IF d = n THEN p.message ELSE messageOf[d]
                        /\ attempts'[d] = IF d = n THEN (IF p.redelivered THEN 1 ELSE 0) ELSE attempts[d]
  BY <1>1, <1>2 DEF RabbitInv, RabbitTypeOK
<1>7. InRoute' = InRoute \union {n} /\ n \notin InRoute
  BY <1>2, <1>5, <1>6 DEF InRoute
<1>8. /\ commands' \in Seq(Command) /\ IsInjective(commands')
      /\ ToSet(commands') = ToSet(commands) \union {Register(n)}
  BY <1>1, <1>5, Appended, AppendedNew DEF RabbitInv, RabbitTypeOK, CommandInv
<1>9. \A d \in Ids, e \in Decision :
        /\ Register(d) \in ToSet(commands') <=> Register(d) \in ToSet(commands) \/ d = n
        /\ Settle(d, e) \in ToSet(commands') <=> Settle(d, e) \in ToSet(commands)
  <2> SUFFICES ASSUME NEW d \in Ids, NEW e \in Decision
               PROVE  /\ Register(d) \in ToSet(commands') <=> Register(d) \in ToSet(commands) \/ d = n
                      /\ Settle(d, e) \in ToSet(commands') <=> Settle(d, e) \in ToSet(commands)
    OBVIOUS
  <2>1. Register(n) # Settle(d, e) /\ (Register(d) = Register(n) <=> d = n)
    BY <1>2, CommandKinds
  <2> QED
    BY <1>8, <2>1
<1>10. RabbitTypeOK'
  <2>1. nextId' \in 1..(MaxDeliveries + 1)
    BY <1>1 DEF RabbitInv, RabbitTypeOK, n
  <2> QED
    BY <1>1, <1>2, <1>3, <1>4, <1>8, <2>1 DEF RabbitInv, RabbitTypeOK, Phase
<1>11. OneCarrier'
  BY <1>2, <1>3, <1>4, <1>6, <1>7 DEF RabbitInv, OneCarrier, InRoute
<1>12. CarrierInv'
  BY <1>1, <1>2, <1>3, <1>4, <1>6, <1>7 DEF RabbitInv, CarrierInv, InRoute
<1>13. FlagInv'
  <2>1. ~p.redelivered => "routed" \notin verdict[p.message]
    BY <1>3 DEF RabbitInv, FlagInv
  <2>2. DuplicateIsFlagged'
    BY <1>1, <1>4, <1>6, <2>1 DEF RabbitInv, FlagInv, DuplicateIsFlagged
  <2> QED
    BY <1>1, <1>4, <2>2 DEF RabbitInv, FlagInv
<1>14. KnownInv'
  <2>1. \A d \in Ids : Register(d)' = Register(d)
    BY DEF Register
  <2>2. \A d \in Ids : phase'[d] = "none" <=> d >= nextId'
    BY <1>1, <1>2, <1>6 DEF RabbitInv, RabbitTypeOK, KnownInv, Ids, n
  <2>3. \A d \in Ids : phase'[d] \notin {"none", "settling", "over"} =>
          d \in ackers \/ Register(d) \in ToSet(commands')
    BY <1>6, <1>9 DEF RabbitInv, KnownInv, Decision
  <2>4. panics = 0 => \A d \in Ids : phase'[d] = "over" => d \notin ackers /\ Register(d) \notin ToSet(commands')
    BY <1>6, <1>9 DEF RabbitInv, KnownInv, Decision
  <2>5. \A d \in ackers : phase'[d] # "none"
    BY <1>5, <1>6 DEF RabbitInv, RabbitTypeOK, KnownInv
  <2> QED
    BY <1>1, <2>1, <2>2, <2>3, <2>4, <2>5 DEF KnownInv
<1>15. CommandInv'
  <2>1. \A d \in Ids, e \in Decision : Register(d)' = Register(d) /\ Settle(d, e)' = Settle(d, e)
    BY DEF Register, Settle
  <2>2. \A d \in Ids : Register(d) \in ToSet(commands') => d \notin ackers' /\ phase'[d] # "none"
    BY <1>1, <1>5, <1>6, <1>9 DEF RabbitInv, CommandInv, Decision
  <2>3. ASSUME NEW d \in Ids, NEW e \in Decision, Settle(d, e) \in ToSet(commands')
        PROVE  /\ phase'[d] = "settling"
               /\ d \in ackers' \/ Before(commands', Register(d), Settle(d, e))
               /\ Justified(messageOf[d], e)'
               /\ \A f \in Decision : Settle(d, f) \in ToSet(commands') => f = e
    <3>1. Settle(d, e) \in ToSet(commands) /\ d # n
      BY <1>5, <1>9, <2>3
    <3>2. d \in ackers \/ Before(commands, Register(d), Settle(d, e))
      BY <3>1 DEF RabbitInv, CommandInv
    <3>3. /\ Register(d) \in Command /\ Settle(d, e) \in Command /\ Register(n) # Settle(d, e)
      BY <1>2, CommandKinds
    <3>4. d \in ackers \/ Before(commands', Register(d), Settle(d, e))
      BY <1>1, <1>5, <3>2, <3>3, BeforeAppended DEF RabbitInv, RabbitTypeOK
    <3>5. phase[d] = "settling" /\ Justified(messageOf[d], e)
          /\ \A f \in Decision : Settle(d, f) \in ToSet(commands) => f = e
      BY <3>1 DEF RabbitInv, CommandInv
    <3>6. Justified(messageOf[d], e)'
      BY <1>1, <1>6, <3>1, <3>5 DEF Justified, HasErrorTarget
    <3> QED
      BY <1>1, <1>6, <1>9, <3>1, <3>4, <3>5, <3>6
  <2>4. \A d \in Ids, e \in Decision : Settle(d, e) \in ToSet(commands') =>
          /\ phase'[d] = "settling"
          /\ d \in ackers' \/ Before(commands', Register(d), Settle(d, e))
          /\ Justified(messageOf[d], e)'
          /\ \A f \in Decision : Settle(d, f) \in ToSet(commands') => f = e
    BY <2>3
  <2> QED
    BY <1>8, <2>1, <2>2, <2>4 DEF CommandInv
<1>16. ActorInv'
  <2> SUFFICES ASSUME actor.pc = "settling"
               PROVE  ActorInv'
    BY <1>1 DEF ActorInv
  <2>1. /\ actor.id \in Ids /\ phase[actor.id] = "settling" /\ actor.id \notin ackers
        /\ Register(actor.id) \notin ToSet(commands) /\ actor.id # n
        /\ \A g \in Decision : Settle(actor.id, g) \notin ToSet(commands)
        /\ Justified(messageOf[actor.id], actor.decision)
    BY <1>5 DEF RabbitInv, ActorInv
  <2>2. Justified(messageOf[actor.id], actor.decision)'
    BY <1>1, <1>6, <2>1 DEF Justified, HasErrorTarget
  <2>3. /\ Register(actor.id)' = Register(actor.id)
        /\ \A g \in Decision : Settle(actor.id, g)' = Settle(actor.id, g)
    BY <1>1 DEF Register, Settle
  <2>4. Register(actor.id) \notin ToSet(commands') /\ \A g \in Decision : Settle(actor.id, g) \notin ToSet(commands')
    BY <1>9, <2>1 DEF Decision
  <2> QED
    BY <1>1, <1>6, <2>1, <2>2, <2>3, <2>4 DEF ActorInv
<1>17. VerdictInv'
  BY <1>1, <1>6 DEF RabbitInv, VerdictInv, GoneOnlyAfterVerdict, HasErrorTarget
<1>18. UnackedIsInHand'
  <2>1. ASSUME NEW m \in Messages, InHand(m)
        PROVE  InHand(m)'
    <3>1. CASE \E b \in ToSet(buffer) : b.message = m
      <4>1. \/ \E b \in ToSet(buffer') : b.message = m
            \/ m = p.message
        BY <1>3, <3>1
      <4>2. \/ \E b \in ToSet(buffer') : b.message = m
            \/ \E d \in InRoute' : messageOf'[d] = m
        BY <1>2, <1>6, <1>7, <4>1
      <4> QED
        BY <4>2 DEF InHand, ToSet
    <3>2. CASE \E d \in InRoute : messageOf[d] = m
      <4>1. \E d \in InRoute' : messageOf'[d] = m
        BY <1>6, <1>7, <3>2 DEF InRoute
      <4> QED
        BY <4>1 DEF InHand
    <3> QED
      BY <2>1, <3>1, <3>2, InHandOf
  <2>2. panics = 0 => \A d \in ackers : phase'[d] # "over"
    BY <1>6 DEF RabbitInv, RabbitTypeOK, UnackedIsInHand
  <2> QED
    BY <1>1, <2>1, <2>2 DEF RabbitInv, UnackedIsInHand
<1> QED
  BY <1>10, <1>11, <1>12, <1>13, <1>14, <1>15, <1>16, <1>17, <1>18 DEF RabbitInv

LEMMA StreamEndsKeeps ==
  ASSUME RabbitInv, UNCHANGED <<config, brokerVars, streamVars, phase, actorVars, historyVars, panics>>,
         route' \in {"running", "ended"}
  PROVE  RabbitInv'
<1>1. UNCHANGED <<config, place, redelivered, connected, buffer, nextId, messageOf, attempts, phase,
                  commands, ackers, actor, verdict, reported, panics>>
  BY DEF brokerVars, streamVars, actorVars, historyVars
<1>2. RabbitTypeOK' /\ OneCarrier' /\ CarrierInv' /\ FlagInv'
  BY <1>1 DEF RabbitInv, RabbitTypeOK, OneCarrier, CarrierInv, FlagInv, DuplicateIsFlagged, InRoute
<1>3. KnownInv' /\ CommandInv' /\ ActorInv'
  BY <1>1 DEF RabbitInv, KnownInv, CommandInv, ActorInv, Register, Settle, Before, Justified, HasErrorTarget
<1>4. VerdictInv' /\ UnackedIsInHand'
  BY <1>1 DEF RabbitInv, VerdictInv, GoneOnlyAfterVerdict, HasErrorTarget, UnackedIsInHand, InHand, InRoute
<1> QED
  BY <1>2, <1>3, <1>4 DEF RabbitInv

-----------------------------------------------------------------------------
(* The settlement actor *)

LEMMA ServeRegisterKeeps ==
  ASSUME RabbitInv, NEW d \in Ids, ServeRegister(d)
  PROVE  RabbitInv'
<1>1. /\ actor.pc = "idle" /\ commands # <<>> /\ Head(commands) = Register(d)
      /\ commands' = Tail(commands)
      /\ ackers' = ackers \union {d}
      /\ UNCHANGED <<config, place, redelivered, connected, buffer, nextId, messageOf, attempts, route,
                     phase, actor, verdict, reported, panics>>
  BY DEF ServeRegister, Received, brokerVars, streamVars, historyVars, countVars
<1>2. /\ commands' \in Seq(Command) /\ IsInjective(commands')
      /\ Register(d) \in ToSet(commands)
      /\ ToSet(commands') = ToSet(commands) \ {Register(d)}
  BY <1>1, Taken, TakenOnce DEF RabbitInv, RabbitTypeOK, CommandInv
<1>3. \A f \in Ids, e \in Decision :
        /\ Register(f) \in ToSet(commands') <=> Register(f) \in ToSet(commands) /\ f # d
        /\ Settle(f, e) \in ToSet(commands') <=> Settle(f, e) \in ToSet(commands)
  <2> SUFFICES ASSUME NEW f \in Ids, NEW e \in Decision
               PROVE  /\ Register(f) \in ToSet(commands') <=> Register(f) \in ToSet(commands) /\ f # d
                      /\ Settle(f, e) \in ToSet(commands') <=> Settle(f, e) \in ToSet(commands)
    OBVIOUS
  <2>1. Register(d) # Settle(f, e) /\ (Register(f) = Register(d) <=> f = d)
    BY CommandKinds
  <2> QED
    BY <1>2, <2>1
<1>4. InRoute' = InRoute
  BY <1>1 DEF InRoute
<1>5. RabbitTypeOK' /\ OneCarrier' /\ CarrierInv' /\ FlagInv'
  BY <1>1, <1>2, <1>4 DEF RabbitInv, RabbitTypeOK, OneCarrier, CarrierInv, FlagInv, DuplicateIsFlagged
<1>6. phase[d] # "none" /\ (panics = 0 => phase[d] # "over")
  BY <1>2 DEF RabbitInv, CommandInv, KnownInv
<1>7. KnownInv'
  <2>1. \A f \in Ids : Register(f)' = Register(f)
    BY DEF Register
  <2>2. \A f \in Ids : phase'[f] \notin {"none", "settling", "over"} =>
          f \in ackers' \/ Register(f) \in ToSet(commands')
    BY <1>1, <1>3 DEF RabbitInv, KnownInv, Decision
  <2>3. panics = 0 => \A f \in Ids : phase'[f] = "over" => f \notin ackers' /\ Register(f) \notin ToSet(commands')
    BY <1>1, <1>3, <1>6 DEF RabbitInv, KnownInv, Decision
  <2> QED
    BY <1>1, <1>6, <2>1, <2>2, <2>3 DEF RabbitInv, KnownInv
<1>8. CommandInv'
  <2>1. \A f \in Ids, e \in Decision : Register(f)' = Register(f) /\ Settle(f, e)' = Settle(f, e)
    BY DEF Register, Settle
  <2>2. \A f \in Ids : Register(f) \in ToSet(commands') => f \notin ackers' /\ phase'[f] # "none"
    BY <1>1, <1>3 DEF RabbitInv, CommandInv, Decision
  <2>3. ASSUME NEW f \in Ids, NEW e \in Decision, Settle(f, e) \in ToSet(commands')
        PROVE  /\ phase'[f] = "settling"
               /\ f \in ackers' \/ Before(commands', Register(f), Settle(f, e))
               /\ Justified(messageOf[f], e)'
               /\ \A g \in Decision : Settle(f, g) \in ToSet(commands') => g = e
    <3>1. Settle(f, e) \in ToSet(commands)
      BY <1>3, <2>3
    <3>2. f \in ackers \/ Before(commands, Register(f), Settle(f, e))
      BY <3>1 DEF RabbitInv, CommandInv
    <3>3. f # d => Register(f) # Register(d)
      BY CommandKinds DEF Decision
    <3>4. f \in ackers' \/ Before(commands', Register(f), Settle(f, e))
      BY <1>1, <3>2, <3>3, BeforeTaken DEF RabbitInv, RabbitTypeOK
    <3>5. phase[f] = "settling" /\ Justified(messageOf[f], e)
          /\ \A g \in Decision : Settle(f, g) \in ToSet(commands) => g = e
      BY <3>1 DEF RabbitInv, CommandInv
    <3>6. Justified(messageOf[f], e)'
      BY <1>1, <3>5 DEF Justified, HasErrorTarget
    <3> QED
      BY <1>1, <1>3, <3>4, <3>5, <3>6
  <2>4. \A f \in Ids, e \in Decision : Settle(f, e) \in ToSet(commands') =>
          /\ phase'[f] = "settling"
          /\ f \in ackers' \/ Before(commands', Register(f), Settle(f, e))
          /\ Justified(messageOf[f], e)'
          /\ \A g \in Decision : Settle(f, g) \in ToSet(commands') => g = e
    BY <2>3
  <2> QED
    BY <1>2, <2>1, <2>2, <2>4 DEF CommandInv
<1>9. ActorInv'
  BY <1>1 DEF ActorInv
<1>10. VerdictInv'
  BY <1>1 DEF RabbitInv, VerdictInv, GoneOnlyAfterVerdict, HasErrorTarget
<1>11. UnackedIsInHand'
  BY <1>1, <1>4, <1>6 DEF RabbitInv, UnackedIsInHand, InHand
<1> QED
  BY <1>5, <1>7, <1>8, <1>9, <1>10, <1>11 DEF RabbitInv

\* The acker is there, and forgotten: the answer "unknown delivery" is never given.
LEMMA ServeSettleKeeps ==
  ASSUME RabbitInv, NEW d \in Ids, NEW e \in Decision, ServeSettle(d, e)
  PROVE  RabbitInv'
<1>1. /\ actor.pc = "idle" /\ commands # <<>> /\ Head(commands) = Settle(d, e)
      /\ commands' = Tail(commands)
      /\ ackers' = ackers \ {d}
      /\ UNCHANGED <<config, place, redelivered, connected, buffer, nextId, messageOf, attempts, route,
                     verdict, reported, panics>>
  BY DEF ServeSettle, Received, Forget, brokerVars, streamVars, historyVars, countVars
<1>2. /\ commands' \in Seq(Command) /\ IsInjective(commands')
      /\ Settle(d, e) \in ToSet(commands)
      /\ ToSet(commands') = ToSet(commands) \ {Settle(d, e)}
  BY <1>1, Taken, TakenOnce DEF RabbitInv, RabbitTypeOK, CommandInv
<1>3. \A f \in Ids, g \in Decision :
        /\ Register(f) \in ToSet(commands') <=> Register(f) \in ToSet(commands)
        /\ Settle(f, g) \in ToSet(commands') => Settle(f, g) \in ToSet(commands) /\ f # d
  <2> SUFFICES ASSUME NEW f \in Ids, NEW g \in Decision
               PROVE  /\ Register(f) \in ToSet(commands') <=> Register(f) \in ToSet(commands)
                      /\ Settle(f, g) \in ToSet(commands') => Settle(f, g) \in ToSet(commands) /\ f # d
    OBVIOUS
  <2>1. Register(f) # Settle(d, e)
    BY CommandKinds
  <2>2. Settle(d, g) \in ToSet(commands) => g = e
    BY <1>2 DEF RabbitInv, CommandInv
  <2> QED
    BY <1>2, <2>1, <2>2
<1>4. /\ d \in ackers /\ phase[d] = "settling" /\ Justified(messageOf[d], e)
      /\ Register(d) \notin ToSet(commands)
  <2>1. ~Before(commands, Register(d), Settle(d, e))
    BY <1>1, BeforeTaken DEF RabbitInv, RabbitTypeOK
  <2>2. d \in ackers /\ phase[d] = "settling" /\ Justified(messageOf[d], e)
    BY <1>2, <2>1 DEF RabbitInv, CommandInv
  <2> QED
    BY <2>2 DEF RabbitInv, CommandInv
<1>5. /\ actor' = [pc |-> "settling", id |-> d, decision |-> e]
      /\ phase' = phase /\ InRoute' = InRoute
  BY <1>4 DEF ServeSettle, InRoute
<1>6. RabbitTypeOK' /\ OneCarrier' /\ CarrierInv' /\ FlagInv'
  BY <1>1, <1>2, <1>5 DEF RabbitInv, RabbitTypeOK, OneCarrier, CarrierInv, FlagInv, DuplicateIsFlagged
<1>7. KnownInv'
  <2>1. \A f \in Ids : Register(f)' = Register(f)
    BY DEF Register
  <2> QED
    BY <1>1, <1>3, <1>4, <1>5, <2>1, RouteAssumption DEF RabbitInv, KnownInv, Decision
<1>8. CommandInv'
  <2>1. \A f \in Ids, g \in Decision : Register(f)' = Register(f) /\ Settle(f, g)' = Settle(f, g)
    BY DEF Register, Settle
  <2>2. \A f \in Ids : Register(f) \in ToSet(commands') => f \notin ackers' /\ phase'[f] # "none"
    BY <1>1, <1>3, <1>5 DEF RabbitInv, CommandInv, Decision
  <2>3. ASSUME NEW f \in Ids, NEW g \in Decision, Settle(f, g) \in ToSet(commands')
        PROVE  /\ phase'[f] = "settling"
               /\ f \in ackers' \/ Before(commands', Register(f), Settle(f, g))
               /\ Justified(messageOf[f], g)'
               /\ \A h \in Decision : Settle(f, h) \in ToSet(commands') => h = g
    <3>1. Settle(f, g) \in ToSet(commands) /\ f # d
      BY <1>3, <2>3
    <3>2. f \in ackers \/ Before(commands, Register(f), Settle(f, g))
      BY <3>1 DEF RabbitInv, CommandInv
    <3>3. Register(f) # Settle(d, e)
      BY CommandKinds
    <3>4. f \in ackers' \/ Before(commands', Register(f), Settle(f, g))
      BY <1>1, <3>1, <3>2, <3>3, BeforeTaken DEF RabbitInv, RabbitTypeOK
    <3>5. phase[f] = "settling" /\ Justified(messageOf[f], g)
          /\ \A h \in Decision : Settle(f, h) \in ToSet(commands) => h = g
      BY <3>1 DEF RabbitInv, CommandInv
    <3>6. Justified(messageOf[f], g)'
      BY <1>1, <3>5 DEF Justified, HasErrorTarget
    <3> QED
      BY <1>3, <1>5, <3>4, <3>5, <3>6
  <2>4. \A f \in Ids, g \in Decision : Settle(f, g) \in ToSet(commands') =>
          /\ phase'[f] = "settling"
          /\ f \in ackers' \/ Before(commands', Register(f), Settle(f, g))
          /\ Justified(messageOf[f], g)'
          /\ \A h \in Decision : Settle(f, h) \in ToSet(commands') => h = g
    BY <2>3
  <2> QED
    BY <1>2, <2>1, <2>2, <2>4 DEF CommandInv
<1>9. ActorInv'
  <2>1. /\ actor'.pc = "settling" /\ actor'.id = d /\ actor'.decision = e
        /\ Register(d) \notin ToSet(commands')
        /\ \A g \in Decision : Settle(d, g) \notin ToSet(commands')
    BY <1>3, <1>4, <1>5
  <2>2. Justified(messageOf[d], e)'
    BY <1>1, <1>4 DEF Justified, HasErrorTarget
  <2> QED
    BY <1>1, <1>4, <1>5, <2>1, <2>2 DEF ActorInv, Justified, Register, Settle, HasErrorTarget
<1>10. VerdictInv'
  BY <1>1, <1>5 DEF RabbitInv, VerdictInv, GoneOnlyAfterVerdict, HasErrorTarget
<1>11. UnackedIsInHand'
  BY <1>1, <1>5 DEF RabbitInv, UnackedIsInHand, InHand
<1> QED
  BY <1>6, <1>7, <1>8, <1>9, <1>10, <1>11 DEF RabbitInv

\* The delivery was the only one in the process with its message.
LEMMA SettlementEnds ==
  ASSUME RabbitInv, SettleApplied \/ SettleFails
  PROVE  RabbitInv'
<1> DEFINE d == actor.id
           m == messageOf[d]
<1>1. /\ actor.pc = "settling" /\ actor' = Idle /\ phase' = [phase EXCEPT ![d] = "over"]
      /\ UNCHANGED <<config, connected, buffer, nextId, messageOf, attempts, route, commands, ackers,
                     verdict, reported, panics>>
  BY DEF SettleApplied, SettleFails, Replies, Steps, brokerVars, streamVars, historyVars, countVars
<1>2. \/ ~connected /\ UNCHANGED <<place, redelivered>>
      \/ /\ connected
         /\ place' = [place EXCEPT ![m] = IF actor.decision = "Retry" THEN "ready" ELSE "gone"]
         /\ redelivered' = [redelivered EXCEPT ![m] = @ \/ actor.decision = "Retry"]
  BY DEF SettleApplied, SettleFails, Requeues, brokerVars
<1>3. /\ d \in Ids /\ phase[d] = "settling" /\ d \notin ackers
      /\ Register(d) \notin ToSet(commands)
      /\ \A e \in Decision : Settle(d, e) \notin ToSet(commands)
      /\ Justified(m, actor.decision)
  BY <1>1 DEF RabbitInv, ActorInv
<1>4. d \in InRoute /\ m \in Messages
  BY <1>3 DEF RabbitInv, OneCarrier, InRoute
<1>5. /\ \A b \in ToSet(buffer) : b.message \in Messages /\ b.message # m
      /\ \A f \in InRoute : f # d => messageOf[f] # m
  <2>1. ToSet(buffer) \subseteq Pushes
    BY DEF RabbitInv, RabbitTypeOK, ToSet
  <2> QED
    BY <1>4, <2>1 DEF RabbitInv, OneCarrier, Pushes
<1> HIDE DEF d, m
<1>6. \A f \in Ids : phase'[f] = IF f = d THEN "over" ELSE phase[f]
  BY <1>1 DEF RabbitInv, RabbitTypeOK
<1>7. InRoute' = InRoute \ {d}
  BY <1>6 DEF InRoute
<1>8. /\ place' \in [Messages -> {"ready", "unacked", "gone"}] /\ redelivered' \in [Messages -> BOOLEAN]
      /\ \A n \in Messages : n # m => place'[n] = place[n] /\ redelivered'[n] = redelivered[n]
      /\ \/ ~connected /\ place'[m] = place[m] /\ redelivered'[m] = redelivered[m]
         \/ connected /\ actor.decision = "Retry" /\ place'[m] = "ready" /\ redelivered'[m]
         \/ connected /\ actor.decision # "Retry" /\ place'[m] = "gone"
  <2>1. place \in [Messages -> {"ready", "unacked", "gone"}] /\ redelivered \in [Messages -> BOOLEAN]
    BY DEF RabbitInv, RabbitTypeOK
  <2>2. CASE ~connected /\ UNCHANGED <<place, redelivered>>
    BY <2>1, <2>2
  <2>3. CASE connected /\ actor.decision = "Retry"
             /\ place' = [place EXCEPT ![m] = "ready"] /\ redelivered' = [redelivered EXCEPT ![m] = TRUE]
    BY <1>4, <2>1, <2>3
  <2>4. CASE connected /\ actor.decision # "Retry"
             /\ place' = [place EXCEPT ![m] = "gone"] /\ redelivered' = [redelivered EXCEPT ![m] = @]
    BY <1>4, <2>1, <2>4
  <2> QED
    BY <1>2, <1>4, <2>1, <2>2, <2>3, <2>4
<1>9. RabbitTypeOK'
  BY <1>1, <1>8 DEF RabbitInv, RabbitTypeOK, Idle, Phase
<1>10. OneCarrier' /\ CarrierInv'
  <2>1. OneCarrier'
    BY <1>1, <1>7 DEF RabbitInv, OneCarrier
  <2>2. \A f \in InRoute' : f # d /\ messageOf[f] \in Messages /\ messageOf[f] # m
    BY <1>5, <1>7 DEF RabbitInv, OneCarrier
  <2> QED
    BY <1>1, <1>5, <1>7, <1>8, <2>1, <2>2 DEF RabbitInv, CarrierInv
<1>11. FlagInv'
  <2>1. place[m] = "unacked" \/ redelivered[m]
    BY <1>4 DEF RabbitInv, CarrierInv, m
  <2>2. DuplicateIsFlagged'
    BY <1>1, <1>6 DEF RabbitInv, FlagInv, DuplicateIsFlagged
  <2>3. \A n \in Messages : place'[n] = "ready" /\ ~redelivered'[n] => "routed" \notin verdict'[n]
    BY <1>1, <1>8, <2>1 DEF RabbitInv, FlagInv
  <2> QED
    BY <1>1, <2>2, <2>3 DEF RabbitInv, FlagInv
<1>12. KnownInv'
  BY <1>1, <1>3, <1>6 DEF RabbitInv, KnownInv, Register
<1>13. CommandInv' /\ ActorInv'
  <2>1. CommandInv'
    BY <1>1, <1>3, <1>6 DEF RabbitInv, CommandInv, Register, Settle, Before, Justified, HasErrorTarget
  <2> QED
    BY <1>1, <2>1 DEF ActorInv, Idle
<1>14. VerdictInv'
  <2>1. ASSUME actor.decision # "Retry"
        PROVE  \/ "routed" \in verdict[m]
               \/ "refused" \in verdict[m] /\ (HasErrorTarget => m \in reported)
    BY <1>3, <2>1 DEF Justified
  <2>2. GoneOnlyAfterVerdict'
    BY <1>1, <1>8, <2>1 DEF RabbitInv, VerdictInv, GoneOnlyAfterVerdict, HasErrorTarget
  <2> QED
    BY <1>1, <1>6, <2>2 DEF RabbitInv, VerdictInv, HasErrorTarget
<1>15. UnackedIsInHand'
  <2>1. connected => place'[m] # "unacked"
    BY <1>8
  <2>2. \A n \in Messages : n # m /\ InHand(n) => InHand(n)'
    <3>1. \A n \in Messages : n # m /\ (\E f \in InRoute : messageOf[f] = n) => \E f \in InRoute' : messageOf[f] = n
      BY <1>7 DEF m
    <3> QED
      BY <1>1, <3>1 DEF InHand
  <2>3. panics = 0 => \A f \in ackers : phase'[f] # "over"
    BY <1>3, <1>6 DEF RabbitInv, RabbitTypeOK, UnackedIsInHand
  <2> QED
    BY <1>1, <1>8, <2>1, <2>2, <2>3 DEF RabbitInv, UnackedIsInHand
<1> QED
  BY <1>9, <1>10, <1>11, <1>12, <1>13, <1>14, <1>15 DEF RabbitInv

LEMMA ActorKeeps ==
  ASSUME RabbitInv, ActorNext
  PROVE  RabbitInv'
<1>1. "Ack" \in Decision /\ FailureDecision \in Decision
  BY ConfigValues DEF Decision, RabbitInv, RabbitTypeOK
<1> QED
  BY <1>1, ServeRegisterKeeps, ServeSettleKeeps, SettlementEnds DEF ActorNext

-----------------------------------------------------------------------------
(* Failures *)

\* The broker puts back what the process left, flagged.
LEMMA Requeued ==
  ASSUME RabbitInv, Requeue
  PROVE  /\ place' \in [Messages -> {"ready", "unacked", "gone"}]
         /\ redelivered' \in [Messages -> BOOLEAN]
         /\ \A m \in Messages : /\ place'[m] # "unacked"
                                /\ place'[m] = "gone" => place[m] = "gone"
                                /\ redelivered[m] \/ place[m] = "unacked" => redelivered'[m]
                                /\ place'[m] = "ready" /\ ~redelivered'[m] =>
                                     place[m] = "ready" /\ ~redelivered[m]
BY DEF RabbitInv, RabbitTypeOK, Requeue

LEMMA ConnectionLostKeeps ==
  ASSUME RabbitInv, ConnectionLost
  PROVE  RabbitInv'
<1>1. /\ connected /\ connected' = FALSE /\ Requeue /\ buffer' \in {<<>>, buffer}
      /\ UNCHANGED <<config, nextId, messageOf, attempts, route, phase, commands, ackers, actor,
                     verdict, reported, panics>>
  BY DEF ConnectionLost, actorVars, historyVars
<1>2. /\ buffer' \in Seq(Pushes) /\ IsInjective(buffer') /\ ToSet(buffer') \subseteq ToSet(buffer)
  <2>1. CASE buffer' = <<>>
    BY <2>1, EmptyQueue
  <2>2. CASE buffer' = buffer
    BY <2>2 DEF RabbitInv, RabbitTypeOK, OneCarrier
  <2> QED
    BY <1>1, <2>1, <2>2
<1>3. InRoute' = InRoute
  BY <1>1 DEF InRoute
<1>4. \A b \in ToSet(buffer) : b.message \in Messages
  <2>1. ToSet(buffer) \subseteq Pushes
    BY DEF RabbitInv, RabbitTypeOK, ToSet
  <2> QED
    BY <2>1 DEF Pushes
<1>5. RabbitTypeOK'
  BY <1>1, <1>2, Requeued DEF RabbitInv, RabbitTypeOK
<1>6. OneCarrier'
  BY <1>1, <1>2, <1>3 DEF RabbitInv, OneCarrier
<1>7. CarrierInv'
  BY <1>1, <1>2, <1>3, <1>4, Requeued DEF RabbitInv, CarrierInv, OneCarrier
<1>8. FlagInv'
  BY <1>1, <1>2, Requeued DEF RabbitInv, FlagInv, DuplicateIsFlagged
<1>9. KnownInv' /\ CommandInv' /\ ActorInv'
  BY <1>1 DEF RabbitInv, KnownInv, CommandInv, ActorInv, Register, Settle, Before, Justified, HasErrorTarget
<1>10. VerdictInv'
  BY <1>1, Requeued DEF RabbitInv, VerdictInv, GoneOnlyAfterVerdict, HasErrorTarget
<1>11. UnackedIsInHand'
  BY <1>1 DEF RabbitInv, UnackedIsInHand
<1> QED
  BY <1>5, <1>6, <1>7, <1>8, <1>9, <1>10, <1>11 DEF RabbitInv

LEMMA FreshProcessKeeps ==
  ASSUME RabbitInv, Requeue, FreshProcess,
         UNCHANGED <<config, messageOf, attempts, historyVars, panics>>
  PROVE  RabbitInv'
<1>1. /\ connected' = TRUE /\ buffer' = <<>> /\ nextId' = 1
      /\ route' = "running" /\ phase' = [d \in Ids |-> "none"]
      /\ commands' = <<>> /\ ackers' = {} /\ actor' = Idle
      /\ UNCHANGED <<config, messageOf, attempts, verdict, reported, panics>>
  BY DEF FreshProcess, historyVars
<1>2. /\ buffer' \in Seq(Pushes) /\ ToSet(buffer') = {} /\ IsInjective(buffer')
      /\ commands' \in Seq(Command) /\ ToSet(commands') = {} /\ IsInjective(commands')
  BY <1>1, EmptyQueue
<1>3. \A d \in Ids : phase'[d] = "none"
  BY <1>1
<1>4. InRoute' = {}
  BY <1>3 DEF InRoute
<1>5. RabbitTypeOK'
  BY <1>1, <1>2, Requeued DEF RabbitInv, RabbitTypeOK, Idle, Phase, Ids
<1>6. OneCarrier' /\ CarrierInv'
  BY <1>2, <1>4 DEF OneCarrier, CarrierInv
<1>7. FlagInv'
  BY <1>1, <1>2, <1>3, Requeued DEF RabbitInv, FlagInv, DuplicateIsFlagged
<1>8. KnownInv' /\ CommandInv' /\ ActorInv'
  BY <1>1, <1>2, <1>3 DEF KnownInv, CommandInv, ActorInv, Idle, Ids
<1>9. VerdictInv'
  BY <1>1, <1>3, Requeued DEF RabbitInv, VerdictInv, GoneOnlyAfterVerdict, HasErrorTarget
<1>10. UnackedIsInHand'
  BY <1>1, Requeued DEF UnackedIsInHand
<1> QED
  BY <1>5, <1>6, <1>7, <1>8, <1>9, <1>10 DEF RabbitInv

-----------------------------------------------------------------------------
(* The theorems *)

LEMMA RabbitInvStep == RabbitInv /\ [Next]_vars => RabbitInv'
<1> SUFFICES ASSUME RabbitInv, [Next]_vars PROVE RabbitInv'
  OBVIOUS
<1>1. CASE StreamEnds
  BY <1>1, StreamEndsKeeps DEF StreamEnds, countVars
<1>2. CASE UNCHANGED vars
  <2>1. route \in {"running", "ended"}
    BY DEF RabbitInv, RabbitTypeOK
  <2> QED
    BY <1>2, <2>1, StreamEndsKeeps DEF vars, countVars
<1>3. CASE Crash \/ Restart
  BY <1>3, FreshProcessKeeps DEF Crash, Restart, countVars
<1> QED
  BY <1>1, <1>2, <1>3, PushKeeps, TakeKeeps, RouteKeeps, ActorKeeps, ConnectionLostKeeps
  DEF Next, BrokerNext

THEOREM RabbitInvariance == Spec => []RabbitInv
BY RabbitInvInit, RabbitInvStep, PTL DEF Spec

\* README.md, "acknowledge a source message only after the handler and success
\* target complete": what left the broker was routed, or refused by a decision
\* other than Retry after its failure was offered to the error target.
THEOREM GoneMessagesHaveVerdicts == Spec => []GoneOnlyAfterVerdict
<1>1. RabbitInv => GoneOnlyAfterVerdict
  BY DEF RabbitInv, VerdictInv
<1> QED
  BY <1>1, RabbitInvariance, PTL

\* README.md, "`1` for a redelivery": a handler that sees a message some handler
\* has routed before sees attempts at 1 (RabbitMqStream::poll_next).
THEOREM DuplicatesAreFlagged == Spec => []DuplicateIsFlagged
<1>1. RabbitInv => DuplicateIsFlagged
  BY DEF RabbitInv, FlagInv
<1> QED
  BY <1>1, RabbitInvariance, PTL

\* Registration is not awaited, and still comes before the settlement; a
\* delivery is settled once.
THEOREM SettlementsFindAckers == Spec => []SettlementFindsAcker
<1>1. ASSUME RabbitInv
      PROVE  SettlementFindsAcker
  <2> SUFFICES ASSUME NEW i \in DOMAIN commands, commands[i].type = "Settle"
               PROVE  /\ \/ commands[i].id \in ackers
                         \/ \E h \in 1..(i - 1) : commands[h] = Register(commands[i].id)
                      /\ \A h \in 1..(i - 1) : ~(commands[h].type = "Settle" /\ commands[h].id = commands[i].id)
    BY DEF SettlementFindsAcker
  <2>1. commands \in Seq(Command) /\ IsInjective(commands)
    BY <1>1 DEF RabbitInv, RabbitTypeOK, CommandInv
  <2>2. DOMAIN commands = 1..Len(commands) /\ Len(commands) \in Nat
    BY <2>1, LenProperties
  <2>3. \A h \in DOMAIN commands : commands[h] \in Command /\ commands[h] \in ToSet(commands)
    BY <2>1 DEF ToSet
  <2>4. \A h \in DOMAIN commands : commands[h].type = "Settle" =>
          \E d \in Ids, e \in Decision : commands[h] = Settle(d, e) /\ commands[h].id = d
    BY <2>3 DEF Command, Register, Settle
  <2>5. PICK d \in Ids, e \in Decision : commands[i] = Settle(d, e) /\ commands[i].id = d
    BY <2>4
  <2>6. d \in ackers \/ Before(commands, Register(d), Settle(d, e))
    BY <1>1, <2>3, <2>5 DEF RabbitInv, CommandInv
  <2>7. d \in ackers \/ \E h \in 1..(i - 1) : commands[h] = Register(d)
    BY <2>5, <2>6 DEF Before
  <2>8. ASSUME NEW h \in 1..(i - 1), commands[h].type = "Settle", commands[h].id = d
        PROVE  FALSE
    <3>1. h \in DOMAIN commands /\ h # i
      BY <2>2
    <3>2. PICK f \in Decision : commands[h] = Settle(d, f)
      BY <2>4, <2>8, <3>1
    <3>3. f = e
      BY <1>1, <2>3, <2>5, <3>1, <3>2 DEF RabbitInv, CommandInv
    <3> QED
      BY <2>1, <2>5, <3>1, <3>2, <3>3 DEF IsInjective
  <2> QED
    BY <2>5, <2>7, <2>8
<1> QED
  BY <1>1, RabbitInvariance, PTL

\* Only a panic leaves a message with nobody to settle it, or an acker nobody
\* will ask for.
THEOREM UnackedMessagesAreInHand == Spec => []UnackedIsInHand
<1>1. RabbitInv => UnackedIsInHand
  BY DEF RabbitInv
<1> QED
  BY <1>1, RabbitInvariance, PTL
=============================================================================
