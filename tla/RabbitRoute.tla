----------------------------- MODULE RabbitRoute -----------------------------
(***************************************************************************)
(* One route fed by RabbitMQ: RabbitMqStream and its settlement actor      *)
(* (src/src/bus/rabbitmq_bus.rs) and the route that handles, delivers,     *)
(* reports failures and settles (src/src/router/core.rs).                  *)
(*                                                                         *)
(* The broker is external: it pushes without limit (the code sets no QoS), *)
(* keeps a message until it is acknowledged and requeues what a lost       *)
(* connection leaves unacknowledged, flagged as redelivered.  The key      *)
(* order of partition workers is Partitioner's; here any two deliveries of *)
(* a partitioned route may overlap.                                        *)
(***************************************************************************)
EXTENDS Naturals, Sequences

CONSTANTS Messages,
          MaxDeliveries,    \* bound: deliveries of one process
          Routes,           \* route configurations to start from
          MaxPanics,        \* bound: handler panics
          MaxRestarts       \* bound: processes, or connections, lost

ASSUME RouteAssumption ==
  Routes \subseteq [partitioned : BOOLEAN, target : BOOLEAN, errorTarget : BOOLEAN,
                   onFailure : {"Ack", "Retry", "Reject"}]
ASSUME BoundAssumption == MaxDeliveries \in Nat

VARIABLES
  config,       \* how the route was built; never changes
  place,        \* place[m]: with the broker "ready" or "unacked", or "gone"
  redelivered,  \* redelivered[m]: the broker's flag
  connected,    \* the connection is up
  buffer,       \* messages pushed to the consumer and not polled yet
  nextId,       \* next_msg_id
  messageOf,    \* messageOf[d]: the message of delivery d
  attempts,     \* attempts[d]: Envelope.attempts
  route,        \* "running", or "ended": stream exhausted or handler panicked
  phase,        \* phase[d]: where the route is with delivery d
  commands,     \* the settlement actor's mailbox
  ackers,       \* deliveries the actor can settle
  actor,        \* [pc, id, decision]
  verdict,      \* history: verdict[m], "routed" or "refused"
  reported,     \* history: messages whose failure went to the error target
  panics, restarts

brokerVars == <<place, redelivered, connected>>
streamVars == <<buffer, nextId, messageOf, attempts>>
actorVars == <<commands, ackers, actor>>
historyVars == <<verdict, reported>>
countVars == <<panics, restarts>>
vars == <<config, brokerVars, streamVars, route, phase, actorVars, historyVars, countVars>>

Partitioned == config.partitioned          \* partition_by
HasTarget == config.target                 \* to(target), else consume()
HasErrorTarget == config.errorTarget       \* errors_to
FailureDecision == config.onFailure        \* on_failure

Ids == 1..MaxDeliveries
Idle == [pc |-> "idle", id |-> 0, decision |-> "none"]
Register(d) == [type |-> "Register", id |-> d, decision |-> "none"]
Settle(d, decision) == [type |-> "Settle", id |-> d, decision |-> decision]

\* connect, subscribe_group and install.
FreshProcess == /\ connected' = TRUE /\ buffer' = <<>> /\ nextId' = 1
                /\ route' = "running" /\ phase' = [d \in Ids |-> "none"]
                /\ commands' = <<>> /\ ackers' = {} /\ actor' = Idle

Init == /\ config \in Routes
        /\ place = [m \in Messages |-> "ready"]
        /\ redelivered = [m \in Messages |-> FALSE]
        /\ connected = TRUE /\ buffer = <<>> /\ nextId = 1
        /\ messageOf = [d \in Ids |-> CHOOSE m \in Messages : TRUE]
        /\ attempts = [d \in Ids |-> 0]
        /\ route = "running" /\ phase = [d \in Ids |-> "none"]
        /\ commands = <<>> /\ ackers = {} /\ actor = Idle
        /\ verdict = [m \in Messages |-> {}]
        /\ reported = {}
        /\ panics = 0 /\ restarts = 0

-----------------------------------------------------------------------------
(* The broker and the stream *)

\* The queue is consumed with acknowledgements.
Pushed(m) == "unacked"

Push(m) == /\ connected /\ route = "running"
           /\ place[m] = "ready"
           /\ place' = [place EXCEPT ![m] = Pushed(m)]
           /\ buffer' = Append(buffer, [message |-> m, redelivered |-> redelivered[m]])
           /\ UNCHANGED <<config, redelivered, connected, nextId, messageOf, attempts, route, phase,
                          actorVars, historyVars, countVars>>

InRoute == {d \in Ids : phase[d] \notin {"none", "over"}}

\* Mutant of Registers: nobody tells the actor before the message is yielded.
RegistersNever(d) == UNCHANGED commands
Registers(d) == commands' = Append(commands, Register(d))

\* Mutant of AttemptsOf: every delivery looks like the first.
AttemptsOfFirst(pushed) == 0
AttemptsOf(pushed) == IF pushed.redelivered THEN 1 ELSE 0

\* poll_next: the route takes messages one at a time unless it is partitioned.
Take ==
  /\ route = "running"
  /\ Partitioned \/ InRoute = {}
  /\ buffer # <<>> /\ nextId <= MaxDeliveries
  /\ buffer' = Tail(buffer)
  /\ nextId' = nextId + 1
  /\ messageOf' = [messageOf EXCEPT ![nextId] = Head(buffer).message]
  /\ attempts' = [attempts EXCEPT ![nextId] = AttemptsOf(Head(buffer))]
  /\ phase' = [phase EXCEPT ![nextId] = "received"]
  /\ Registers(nextId)
  /\ UNCHANGED <<config, brokerVars, route, ackers, actor, historyVars, countVars>>

\* The consumer fails with its connection: the stream, then the route, ends.
StreamEnds ==
  /\ route = "running" /\ ~connected
  /\ buffer = <<>> /\ InRoute = {}
  /\ route' = "ended"
  /\ UNCHANGED <<config, brokerVars, streamVars, phase, actorVars, historyVars, countVars>>

-----------------------------------------------------------------------------
(* process_route_message *)

Steps(d, from, to) == /\ phase[d] = from
                      /\ phase' = [phase EXCEPT ![d] = to]

SendSettle(d, decision) ==
  /\ phase' = [phase EXCEPT ![d] = "settling"]
  /\ commands' = Append(commands, Settle(d, decision))

\* The message has a key and the target takes it.
Accepted(d) == /\ Steps(d, "received", "handling")
               /\ UNCHANGED <<config, brokerVars, streamVars, route, actorVars, historyVars, countVars>>

\* partition resolver failed, or target.accepts said no.
Refused(d) == /\ Partitioned \/ HasTarget
              /\ Steps(d, "received", "failing")
              /\ UNCHANGED <<config, brokerVars, streamVars, route, actorVars, historyVars, countVars>>

Routed(d) == verdict' = [verdict EXCEPT ![messageOf[d]] = @ \union {"routed"}]

\* Handler and, for consume(), the whole route succeeded.
HandlerSucceeds(d) ==
  /\ IF HasTarget
     THEN Steps(d, "handling", "delivering") /\ UNCHANGED <<commands, verdict>>
     ELSE phase[d] = "handling" /\ SendSettle(d, "Ack") /\ Routed(d)
  /\ UNCHANGED <<config, brokerVars, streamVars, route, ackers, actor, reported, countVars>>

HandlerFails(d) ==
  /\ Steps(d, "handling", "failing")
  /\ UNCHANGED <<config, brokerVars, streamVars, route, actorVars, historyVars, countVars>>

DeliverySucceeds(d) ==
  /\ phase[d] = "delivering"
  /\ SendSettle(d, "Ack")
  /\ Routed(d)
  /\ UNCHANGED <<config, brokerVars, streamVars, route, ackers, actor, reported, countVars>>

\* The target may have got the message all the same.
DeliveryFails(d) ==
  /\ Steps(d, "delivering", "failing")
  /\ verdict' \in {verdict, [verdict EXCEPT ![messageOf[d]] = @ \union {"routed"}]}
  /\ UNCHANGED <<config, brokerVars, streamVars, route, actorVars, reported, countVars>>

\* Mutant of Reported: a failure is settled without a word to the error target.
ReportedNothing(d) == reported
Reported(d) == IF HasErrorTarget THEN reported \union {messageOf[d]} ELSE reported

\* Mutant of SettlesFailure: what the error target was told of is over.
SettlesFailureUnlessReported(d) ==
  IF HasErrorTarget THEN Steps(d, "reported", "over") /\ UNCHANGED commands
  ELSE SendSettle(d, FailureDecision)
SettlesFailure(d) == SendSettle(d, FailureDecision)

\* deliver_failure, whatever becomes of it.
ReportFailure(d) ==
  /\ Steps(d, "failing", "reported")
  /\ reported' = Reported(d)
  /\ UNCHANGED <<config, brokerVars, streamVars, route, actorVars, verdict, countVars>>

\* The failure is settled by the route's failure decision.
SettleFailure(d) ==
  /\ phase[d] = "reported"
  /\ verdict' = IF FailureDecision = "Retry" THEN verdict
                ELSE [verdict EXCEPT ![messageOf[d]] = @ \union {"refused"}]
  /\ SettlesFailure(d)
  /\ UNCHANGED <<config, brokerVars, streamVars, route, ackers, actor, reported, countVars>>

\* A panic ends the task of an unpartitioned route; a partition worker goes on.
\* Either way nobody settles the delivery.
Panics(d) ==
  /\ panics < MaxPanics
  /\ panics' = panics + 1
  /\ Steps(d, "handling", "over")
  /\ route' = IF Partitioned THEN route ELSE "ended"
  /\ UNCHANGED <<config, brokerVars, streamVars, actorVars, historyVars, restarts>>

-----------------------------------------------------------------------------
(* The settlement actor *)

Received(command) == actor.pc = "idle" /\ commands # <<>> /\ Head(commands) = command

ServeRegister(d) ==
  /\ Received(Register(d))
  /\ commands' = Tail(commands)
  /\ ackers' = ackers \union {d}
  /\ UNCHANGED <<config, brokerVars, streamVars, route, phase, actor, historyVars, countVars>>

\* Mutant of Forget: the acker is looked up and stays.
ForgetNot(d) == ackers
Forget(d) == ackers \ {d}

ServeSettle(d, decision) ==
  /\ Received(Settle(d, decision))
  /\ commands' = Tail(commands)
  /\ ackers' = Forget(d)
  /\ IF d \in ackers
     THEN actor' = [pc |-> "settling", id |-> d, decision |-> decision] /\ UNCHANGED phase
     ELSE Steps(d, "settling", "over") /\ UNCHANGED actor
  /\ UNCHANGED <<config, brokerVars, streamVars, route, historyVars, countVars>>

Replies == /\ actor' = Idle
           /\ Steps(actor.id, "settling", "over")
           /\ UNCHANGED <<config, streamVars, route, commands, ackers, historyVars, countVars>>

Requeues(decision) == decision = "Retry"

\* ack, or nack with or without requeue.
SettleApplied ==
  /\ actor.pc = "settling" /\ connected
  /\ place' = [place EXCEPT ![messageOf[actor.id]] =
                 IF Requeues(actor.decision) THEN "ready" ELSE "gone"]
  /\ redelivered' = [redelivered EXCEPT ![messageOf[actor.id]] =
                       @ \/ Requeues(actor.decision)]
  /\ UNCHANGED connected
  /\ Replies

\* The acker of a lost connection: the route logs the error.
SettleFails ==
  /\ actor.pc = "settling" /\ ~connected
  /\ UNCHANGED brokerVars
  /\ Replies

-----------------------------------------------------------------------------
(* Failures *)

Requeue == /\ place' = [m \in Messages |-> IF place[m] = "unacked" THEN "ready" ELSE place[m]]
           /\ redelivered' = [m \in Messages |-> redelivered[m] \/ place[m] = "unacked"]

\* Nothing reconnects: the process keeps what it has in hand, and may still
\* poll what the consumer had buffered.
ConnectionLost ==
  /\ connected /\ restarts < MaxRestarts
  /\ restarts' = restarts + 1
  /\ connected' = FALSE
  /\ buffer' \in {<<>>, buffer}
  /\ Requeue
  /\ UNCHANGED <<config, nextId, messageOf, attempts, route, phase, actorVars, historyVars, panics>>

Crash ==
  /\ restarts < MaxRestarts
  /\ restarts' = restarts + 1
  /\ Requeue
  /\ FreshProcess
  /\ UNCHANGED <<config, messageOf, attempts, historyVars, panics>>

\* The operator starts a process whose route has ended anew.
Restart ==
  /\ route = "ended"
  /\ Requeue
  /\ FreshProcess
  /\ UNCHANGED <<config, messageOf, attempts, historyVars, countVars>>

-----------------------------------------------------------------------------
RouteNext(d) == \/ Accepted(d) \/ Refused(d) \/ HandlerSucceeds(d) \/ HandlerFails(d)
                \/ DeliverySucceeds(d) \/ DeliveryFails(d) \/ ReportFailure(d) \/ SettleFailure(d)
                \/ Panics(d)

ActorNext == \/ \E d \in Ids : \/ ServeRegister(d)
                               \/ \E decision \in {"Ack", FailureDecision} : ServeSettle(d, decision)
             \/ SettleApplied \/ SettleFails

BrokerNext == \E m \in Messages : Push(m)

Next == \/ BrokerNext \/ Take \/ StreamEnds
        \/ \E d \in Ids : RouteNext(d)
        \/ ActorNext
        \/ ConnectionLost \/ Crash \/ Restart

\* The broker pushes, tasks are polled, handlers and targets end, and an ended
\* process is started again.
Fairness == /\ WF_vars(BrokerNext) /\ WF_vars(Take) /\ WF_vars(StreamEnds)
            /\ \A d \in Ids : WF_vars(RouteNext(d))
            /\ WF_vars(ActorNext) /\ WF_vars(Restart)

Spec == Init /\ [][Next]_vars /\ Fairness

-----------------------------------------------------------------------------
(* Correctness *)

TypeOK ==
  /\ place \in [Messages -> {"ready", "unacked", "gone"}]
  /\ redelivered \in [Messages -> BOOLEAN] /\ connected \in BOOLEAN
  /\ connected => \A i \in DOMAIN buffer : place[buffer[i].message] = "unacked"
  /\ nextId \in 1..(MaxDeliveries + 1)
  /\ messageOf \in [Ids -> Messages] /\ attempts \in [Ids -> {0, 1}]
  /\ route \in {"running", "ended"}
  /\ phase \in [Ids -> {"none", "received", "handling", "delivering", "failing", "reported",
                      "settling", "over"}]
  /\ ackers \subseteq Ids /\ actor.pc \in {"idle", "settling"}

\* README.md, "acknowledge a source message only after the handler and success
\* target complete": a message leaves the broker only when it was routed, or
\* refused by a decision other than Retry, and in that case the error target, if
\* there is one, was offered it before.
GoneOnlyAfterVerdict ==
  \A m \in Messages : place[m] = "gone" =>
    \/ "routed" \in verdict[m]
    \/ "refused" \in verdict[m] /\ (HasErrorTarget => m \in reported)

\* The stream registers a delivery without waiting for the actor; a settlement
\* still finds its acker, and finds it once.
SettlementFindsAcker ==
  \A i \in DOMAIN commands :
    commands[i].type = "Settle" =>
      /\ \/ commands[i].id \in ackers
         \/ \E h \in 1..(i - 1) : commands[h] = Register(commands[i].id)
      /\ \A h \in 1..(i - 1) : ~(commands[h].type = "Settle" /\ commands[h].id = commands[i].id)

\* README.md, "`1` for a redelivery": a handler that sees a message some
\* handler has already routed sees it flagged.
DuplicateIsFlagged ==
  \A d \in Ids : phase[d] \in {"received", "handling"} /\ "routed" \in verdict[messageOf[d]]
                 => attempts[d] = 1

InHand(m) == \/ \E i \in DOMAIN buffer : buffer[i].message = m
             \/ \E d \in InRoute : messageOf[d] = m

\* A panicked handler's message, which nobody settles.
Stuck(m) == panics > 0 /\ place[m] = "unacked" /\ ~InHand(m)

\* While the connection is up, an unacknowledged message is in the buffer or
\* with the route, and the actor holds an acker only for a delivery that is not
\* over: only a panic leaves a message stuck, or makes the map grow.
UnackedIsInHand ==
  panics = 0 => /\ connected => \A m \in Messages : place[m] = "unacked" => InHand(m)
                /\ \A d \in ackers : phase[d] # "over"

\* Unless a panic leaves it stuck, every message leaves the broker, across lost
\* connections and crashes, when failures are not retried.
EveryMessageGone ==
  FailureDecision # "Retry" => \A m \in Messages : <>(place[m] = "gone" \/ Stuck(m))
=============================================================================
