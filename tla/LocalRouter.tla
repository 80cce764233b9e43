---------------------------- MODULE LocalRouter ----------------------------
(***************************************************************************)
(* The in-process bus: RouterHandle and router_actor of                    *)
(* src/src/bus/internal_router.rs, which InMemoryBus, LocalRouter, the     *)
(* Redis bus and the NNG bus put behind their publish and subscribe.       *)
(*                                                                         *)
(* One actor owns the routing table and serves a bounded mailbox.  Each    *)
(* subscription is a bounded channel; a dispatch reserves room in every    *)
(* target before it sends to any.  The actor does not await inside a       *)
(* command, so one action serves one command: a receiver that drops or     *)
(* reads meanwhile does so before or after it, with the same results.      *)
(***************************************************************************)
EXTENDS SubjectRouter

CONSTANTS Publishers,
          Subscribers,         \* each takes one subscription in its life
          Subscriptions,       \* the [pattern, queue] pairs it may ask for
          Subjects,
          SubscriptionBuffer,  \* SUBSCRIPTION_BUFFER
          CommandBuffer,       \* ROUTER_COMMAND_BUFFER
          MaxMessages          \* bound: messages per publisher

ASSUME BufferAssumption == SubscriptionBuffer \in Nat \ {0} /\ CommandBuffer \in Nat \ {0}
ASSUME MessagesAssumption == MaxMessages \in Nat

Message == [by : Publishers, n : 1..MaxMessages, subject : Subjects]

VARIABLES
  commands,    \* the actor's bounded mailbox
  actor,       \* "running" or "stopped"
  bindings,    \* the SubjectRouter's bindings
  senders,     \* consumers whose channel sender the actor holds
  stream,      \* stream[s]: messages queued for s
  reader,      \* reader[s]: where s is with its subscription
  publisher,   \* publisher[p]: "idle", "waiting" for a result, or "closed"
  published,   \* published[p]: messages p has dispatched
  outcome      \* outcome[p][n]: result of p's n-th dispatch

vars == <<commands, actor, bindings, senders, stream, reader, publisher, published, outcome>>

SubscribeCommand(s, request) == [type |-> "Subscribe", by |-> s, request |-> request]
DispatchCommand(m) == [type |-> "Dispatch", msg |-> m]

Init == /\ commands = <<>>
        /\ actor = "running"
        /\ bindings = <<>>
        /\ senders = {}
        /\ stream = [s \in Subscribers |-> <<>>]
        /\ reader = [s \in Subscribers |-> "new"]
        /\ publisher = [p \in Publishers |-> "idle"]
        /\ published = [p \in Publishers |-> 0]
        /\ outcome = [p \in Publishers |-> [n \in 1..MaxMessages |-> "none"]]

-----------------------------------------------------------------------------
(* Callers *)

SendCommand(c) == /\ Len(commands) < CommandBuffer
                  /\ commands' = Append(commands, c)

Publish(p, subject) ==
  /\ publisher[p] = "idle"
  /\ published[p] < MaxMessages
  /\ SendCommand(DispatchCommand([by |-> p, n |-> published[p] + 1, subject |-> subject]))
  /\ published' = [published EXCEPT ![p] = @ + 1]
  /\ publisher' = [publisher EXCEPT ![p] = "waiting"]
  /\ UNCHANGED <<actor, bindings, senders, stream, reader, outcome>>

\* The dispatch future is dropped; its command stays in the mailbox.
GiveUp(p) ==
  /\ publisher[p] = "waiting"
  /\ publisher' = [publisher EXCEPT ![p] = "idle"]
  /\ UNCHANGED <<commands, actor, bindings, senders, stream, reader, published, outcome>>

\* The publisher's clone of the bus goes away.
Close(p) ==
  /\ publisher[p] = "idle"
  /\ publisher' = [publisher EXCEPT ![p] = "closed"]
  /\ UNCHANGED <<commands, actor, bindings, senders, stream, reader, published, outcome>>

Subscribe(s, request) ==
  /\ reader[s] = "new"
  /\ SendCommand(SubscribeCommand(s, request))
  /\ reader' = [reader EXCEPT ![s] = "asking"]
  /\ UNCHANGED <<actor, bindings, senders, stream, publisher, published, outcome>>

Receive(s) ==
  /\ reader[s] = "open"
  /\ stream[s] # <<>>
  /\ stream' = [stream EXCEPT ![s] = Tail(@)]
  /\ UNCHANGED <<commands, actor, bindings, senders, reader, publisher, published, outcome>>

\* The stream, or the future that was to yield it, is dropped with its content.
Leave(s) ==
  /\ reader[s] \in {"new", "asking", "open"}
  /\ reader' = [reader EXCEPT ![s] = "gone"]
  /\ stream' = [stream EXCEPT ![s] = <<>>]
  /\ UNCHANGED <<commands, actor, bindings, senders, publisher, published, outcome>>

\* The stream yields None: drained, and the actor dropped its sender.
StreamEnds(s) ==
  /\ reader[s] = "open"
  /\ stream[s] = <<>>
  /\ s \notin senders
  /\ reader' = [reader EXCEPT ![s] = "ended"]
  /\ UNCHANGED <<commands, actor, bindings, senders, stream, publisher, published, outcome>>

-----------------------------------------------------------------------------
(* The actor *)

Received(c) == actor = "running" /\ commands # <<>> /\ Head(commands) = c

Answer(s, answer) == [reader EXCEPT ![s] = IF @ = "asking" THEN answer ELSE @]

\* A consumer whose caller has left is registered all the same: only a
\* dispatch finds out that its channel is closed.
ServeSubscribe(s, request) ==
  /\ Received(SubscribeCommand(s, request))
  /\ commands' = Tail(commands)
  /\ IF request.queue # NoQueue /\ BoundElsewhere(bindings, request.pattern, request.queue)
     THEN /\ reader' = Answer(s, "refused")
          /\ UNCHANGED <<bindings, senders>>
     ELSE /\ reader' = Answer(s, "open")
          /\ senders' = senders \union {s}
          /\ bindings' = Join(bindings, request.pattern, request.queue, s)
  /\ UNCHANGED <<actor, stream, publisher, published, outcome>>

Closed(s) == reader[s] = "gone"
Full(s) == ~Closed(s) /\ Len(stream[s]) >= SubscriptionBuffer

\* Reservation runs over the targets in order and stops at the first full one.
FirstFull(targets) == SelectInSeq(targets, Full)
Examined(targets) == IF FirstFull(targets) = 0 THEN targets
                     ELSE SubSeq(targets, 1, FirstFull(targets) - 1)

\* Mutant of Dead: a full subscriber is removed like a closed one.
DeadOrFull(targets) == {s \in ToSet(targets) : Closed(s) \/ Full(s)}
Dead(targets) == {s \in ToSet(Examined(targets)) : Closed(s)}

\* Mutant of Reached: each target is sent to as soon as it is found ready.
ReachedEagerly(targets) == ToSet(Examined(targets)) \ Dead(targets)
\* The consumers that get the message: all open targets, or none.
Reached(targets) == IF FirstFull(targets) = 0 THEN ToSet(targets) \ Dead(targets) ELSE {}

Dispatch(m) ==
  LET targets == Without(Route(bindings, m.subject), Subscribers \ senders)
  IN /\ Received(DispatchCommand(m))
     /\ commands' = Tail(commands)
     /\ bindings' = RemoveConsumers(Advanced(bindings, m.subject), Dead(targets))
     /\ senders' = senders \ Dead(targets)
     /\ stream' = [s \in Subscribers |-> IF s \in Reached(targets)
                                         THEN Append(stream[s], m) ELSE stream[s]]
     /\ outcome' = [outcome EXCEPT ![m.by][m.n] =
                      IF FirstFull(targets) = 0 THEN "ok" ELSE "backpressure"]
     /\ publisher' = [publisher EXCEPT ![m.by] =
                        IF @ = "waiting" /\ published[m.by] = m.n THEN "idle" ELSE @]
     /\ UNCHANGED <<actor, reader, published>>

\* Callers hold the bus, streams do not.
HandleHeld == \/ \E p \in Publishers : publisher[p] # "closed"
              \/ \E s \in Subscribers : reader[s] \in {"new", "asking"}

\* The last handle is gone: recv() yields None and every sender is dropped.
ActorStops ==
  /\ actor = "running"
  /\ ~HandleHeld
  /\ commands = <<>>
  /\ actor' = "stopped"
  /\ bindings' = <<>>
  /\ senders' = {}
  /\ UNCHANGED <<commands, stream, reader, publisher, published, outcome>>

-----------------------------------------------------------------------------
CallerNext == \/ \E p \in Publishers :
                   \/ \E subject \in Subjects : Publish(p, subject)
                   \/ GiveUp(p)
                   \/ Close(p)
              \/ \E s \in Subscribers :
                   \/ \E request \in Subscriptions : Subscribe(s, request)
                   \/ Receive(s)
                   \/ Leave(s)
                   \/ StreamEnds(s)

ActorNext == \/ \E s \in Subscribers, request \in Subscriptions : ServeSubscribe(s, request)
             \/ \E m \in Message : Dispatch(m)
             \/ ActorStops

Next == CallerNext \/ ActorNext

\* Only the actor task is scheduled fairly: readers may never read.
Spec == Init /\ [][Next]_vars /\ WF_vars(ActorNext)

-----------------------------------------------------------------------------
(* Correctness *)

TypeOK ==
  /\ \A i \in DOMAIN commands :
       \/ \E m \in Message : commands[i] = DispatchCommand(m)
       \/ \E s \in Subscribers, request \in Subscriptions :
            commands[i] = SubscribeCommand(s, request)
  /\ actor \in {"running", "stopped"}
  /\ \A i \in DOMAIN bindings :
       /\ bindings[i].pattern \in {r.pattern : r \in Subscriptions}
       /\ bindings[i].queue \in {r.queue : r \in Subscriptions}
       /\ ToSet(bindings[i].consumers) \subseteq Subscribers
       /\ bindings[i].rr \in Nat
  /\ senders \subseteq Subscribers
  /\ \A s \in Subscribers : /\ ToSet(stream[s]) \subseteq Message
                            /\ Len(stream[s]) <= SubscriptionBuffer
  /\ reader \in [Subscribers -> {"new", "asking", "open", "gone", "ended", "refused"}]
  /\ publisher \in [Publishers -> {"idle", "waiting", "closed"}]
  /\ published \in [Publishers -> 0..MaxMessages]
  /\ outcome \in [Publishers -> [1..MaxMessages -> {"none", "ok", "backpressure"}]]

\* The table and the senders are two collections kept in step by hand: every
\* consumer has exactly one place in the bindings and exactly one sender, so no
\* target is ever skipped for want of a sender (internal_router.rs:145-147).
TableMatchesSenders ==
  /\ Consumers(bindings) = senders
  /\ \A i, h \in DOMAIN bindings :
       \A a \in DOMAIN bindings[i].consumers, b \in DOMAIN bindings[h].consumers :
         bindings[i].consumers[a] = bindings[h].consumers[b] => i = h /\ a = b

\* A queue group has one binding, so a message matching it goes to at most one
\* of its consumers, whatever patterns the group was asked for.
OneBindingPerQueue ==
  \A i, h \in DOMAIN bindings :
    bindings[i].queue # NoQueue /\ bindings[i].queue = bindings[h].queue => i = h

\* While the actor runs, a stream that is open stays subscribed: backpressure
\* and the removal of closed consumers never cost another subscriber its place.
OpenStreamsStaySubscribed ==
  actor = "running" => \A s \in Subscribers : reader[s] = "open" => s \in senders

\* The dispatch that this step answered.
Answered(result) ==
  \E p \in Publishers, n \in 1..MaxMessages : outcome[p][n] = "none" /\ outcome'[p][n] = result

MatchingFanout(s, subject) ==
  \E i \in DOMAIN bindings : /\ bindings[i].queue = NoQueue
                             /\ s \in ToSet(bindings[i].consumers)
                             /\ WildcardMatch(bindings[i].pattern, subject)

\* "fanout_is_not_partially_delivered_when_one_subscriber_is_full": a refused
\* dispatch reaches nobody; an accepted one reaches every open fanout
\* subscriber of a matching pattern.
AllOrNothing ==
  [][/\ Answered("backpressure") => stream' = stream
     /\ Answered("ok") =>
          LET m == Head(commands).msg
          IN \A s \in Subscribers :
               reader[s] = "open" /\ MatchingFanout(s, m.subject)
               => stream'[s] = Append(stream[s], m)]_vars

\* README.md, "Use `subscribe_group` when one consumer in a group should
\* receive each matching message": an accepted message reaches exactly one
\* consumer of every matching group that has an open one.
GroupReceives ==
  [][Answered("ok") =>
       LET m == Head(commands).msg
           Got(s) == stream'[s] = Append(stream[s], m)
       IN \A i \in DOMAIN bindings :
            LET members == ToSet(bindings[i].consumers)
            IN /\ bindings[i].queue # NoQueue
               /\ WildcardMatch(bindings[i].pattern, m.subject)
               /\ \E s \in members : reader[s] = "open"
               => Cardinality({s \in members : Got(s)}) = 1]_vars
=============================================================================
