------------------------------- MODULE Outbox -------------------------------
(***************************************************************************)
(* LeasedOutboxSource of src/src/outbox.rs, several consumers on one       *)
(* store, each feeding a route (src/src/router/core.rs): the claim loop    *)
(* behind the stream, the settlement actor with its pending leases, one    *)
(* renewal task per delivery, the route that handles and settles.          *)
(*                                                                         *)
(* The store is external: it excludes active leases and rejects stale      *)
(* tokens, as the OutboxStore contract asks; any call may fail, before or  *)
(* after it took effect.  A delivery is named by its lease token, which is *)
(* fresh for every claim.  Time is a choice: leases age and expire, timers *)
(* fire, at any moment the clock allows.                                   *)
(***************************************************************************)
EXTENDS Integers, Sequences, FiniteSets

CONSTANTS Records, Consumers,
          Deployments,       \* where a run starts: [records, consumers, renewal]
          Tokens,            \* bound: lease tokens in circulation
          NoToken,
          Partitioned,       \* the route has a partition_by
          FailureDecisions,  \* on_failure: what a failed route may settle with
          MaxBatch,          \* records a store returns for a claim of limit 1
          MaxEarly,          \* bound: leases that expire while their delivery is in hand
          MaxStops           \* bound: process crashes and handler panics

ASSUME DeploymentAssumption ==
  /\ Deployments \subseteq [records : SUBSET Records, consumers : SUBSET Consumers, renewal : BOOLEAN]
  /\ Partitioned \in BOOLEAN
ASSUME NoTokenAssumption == NoToken \notin Tokens
ASSUME DecisionsAssumption == FailureDecisions \subseteq {"Ack", "Retry", "Reject"}

VARIABLES
  renewing,    \* with_lease_renewal was called
  store,       \* store[r]: [state, token, fresh], the provider's table
  recordOf,    \* recordOf[t]: the record of delivery t
  ownerOf,     \* ownerOf[t]: the consumer that claimed it
  phase,       \* phase[t]: where delivery t is in its owner's process
  renewal,     \* renewal[t]: where its renewal task is
  claimer,     \* claimer[c]: where claim_next of c is
  mailbox,     \* mailbox[c]: commands of c's settlement actor
  pending,     \* pending[c]: deliveries the actor knows
  actor,       \* actor[c]: [pc, token, decision]
  verdict,     \* history: records some route delivered or gave up
  stops, early

sourceVars == <<recordOf, ownerOf, phase, claimer>>
actorVars == <<mailbox, pending, actor>>
countVars == <<verdict, stops, early>>
vars == <<renewing, store, sourceVars, renewal, actorVars, countVars>>

Idle == [pc |-> "idle", token |-> NoToken, decision |-> "none"]
Register(t) == [type |-> "Register", token |-> t, decision |-> "none"]
Settle(t, d) == [type |-> "Settle", token |-> t, decision |-> d]

\* What an unused token is said to belong to.
AnyRecord == CHOOSE r \in Records : TRUE
AnyConsumer == CHOOSE c \in Consumers : TRUE

Init == /\ \E d \in Deployments :
             /\ renewing = d.renewal
             /\ store = [r \in Records |-> [state |-> IF r \in d.records THEN "available" ELSE "absent",
                                            token |-> NoToken, fresh |-> FALSE]]
             /\ claimer = [c \in Consumers |-> IF c \in d.consumers THEN "polling" ELSE "absent"]
        /\ recordOf = [t \in Tokens |-> AnyRecord]
        /\ ownerOf = [t \in Tokens |-> AnyConsumer]
        /\ phase = [t \in Tokens |-> "none"]
        /\ renewal = [t \in Tokens |-> "off"]
        /\ mailbox = [c \in Consumers |-> <<>>]
        /\ pending = [c \in Consumers |-> {}]
        /\ actor = [c \in Consumers |-> Idle]
        /\ verdict = {}
        /\ stops = 0
        /\ early = 0

-----------------------------------------------------------------------------
(* The store *)

\* A token nobody can present any more.
Unused(t) == /\ phase[t] = "none"
             /\ \A r \in Records : store[r].token # t
             /\ \A c \in Consumers : t \notin pending[c] /\ actor[c].token # t

Mine(c) == {t \in Tokens : ownerOf[t] = c /\ phase[t] # "none"}

Leased(t) == [state |-> "leased", token |-> t, fresh |-> TRUE]

\* The token is the one of the record's last lease.  An expired lease nobody
\* claimed since may still be honoured; the store decides.
Current(t) == store[recordOf[t]].token = t

\* What release and acknowledge leave behind.
Settled(d) == [state |-> IF d = "Retry" THEN "delayed" ELSE "done",
               token |-> NoToken, fresh |-> FALSE]

Age(r) == /\ store[r].state = "leased" /\ store[r].fresh
          /\ store' = [store EXCEPT ![r].fresh = FALSE]
          /\ UNCHANGED <<renewing, sourceVars, renewal, actorVars, countVars>>

InHand(t) == phase[t] # "none"

Expire(r) == /\ store[r].state = "leased" /\ ~store[r].fresh
             /\ store' = [store EXCEPT ![r].state = "available"]
             /\ IF InHand(store[r].token) THEN early < MaxEarly /\ early' = early + 1
                                          ELSE UNCHANGED early
             /\ UNCHANGED <<renewing, sourceVars, renewal, actorVars, verdict, stops>>

RetryDue(r) == /\ store[r].state = "delayed"
               /\ store' = [store EXCEPT ![r].state = "available"]
               /\ UNCHANGED <<renewing, sourceVars, renewal, actorVars, countVars>>

-----------------------------------------------------------------------------
(* The claim loop: claim_next *)

\* The stream is polled when the route wants a message: one at a time, unless
\* it is partitioned and only hands messages to its workers.
MayClaim(c) == /\ claimer[c] = "polling"
               /\ Partitioned \/ Mine(c) = {}

\* The store leases the records of batch to c under the tokens of lease.
\* Tokens are interchangeable: the first unused ones are taken.
Claims(c, batch, lease) ==
  /\ batch # {} /\ Cardinality(batch) <= MaxBatch
  /\ \A r \in batch : store[r].state = "available"
  /\ lease \in [batch -> {t \in Tokens : Unused(t)}]
  /\ \A r, q \in batch : r # q => lease[r] # lease[q]
  /\ \A t \in Tokens, r \in batch : Unused(t) /\ t < lease[r] => \E q \in batch : lease[q] = t
  /\ store' = [r \in Records |-> IF r \in batch THEN Leased(lease[r]) ELSE store[r]]

\* The first record goes on to registration, any other is released first.
ClaimReturns(c) ==
  /\ MayClaim(c)
  /\ \E batch \in SUBSET Records : \E lease \in [batch -> Tokens], first \in batch :
       LET Claimed(t) == \E r \in batch : lease[r] = t
           RecordOf(t) == CHOOSE r \in batch : lease[r] = t
       IN /\ Claims(c, batch, lease)
          /\ recordOf' = [t \in Tokens |-> IF Claimed(t) THEN RecordOf(t)
                                           ELSE IF Unused(t) THEN AnyRecord ELSE recordOf[t]]
          /\ ownerOf' = [t \in Tokens |-> IF Claimed(t) THEN c
                                          ELSE IF Unused(t) THEN AnyConsumer ELSE ownerOf[t]]
          /\ phase' = [t \in Tokens |-> IF t = lease[first] THEN "claimed"
                                        ELSE IF Claimed(t) THEN "excess" ELSE phase[t]]
          /\ renewal' = [t \in Tokens |-> IF Claimed(t) THEN "off" ELSE renewal[t]]
  /\ claimer' = [claimer EXCEPT ![c] = "releasing"]
  /\ UNCHANGED <<renewing, actorVars, countVars>>

\* The claim took effect but its reply is an error: the loop polls again.
ClaimReplyLost(c) ==
  /\ MayClaim(c)
  /\ \E batch \in SUBSET Records : \E lease \in [batch -> Tokens] : Claims(c, batch, lease)
  /\ UNCHANGED <<renewing, sourceVars, renewal, actorVars, countVars>>

\* release_after_claim_failure: an error is only logged.
ReleaseExcess(c) ==
  /\ claimer[c] = "releasing"
  /\ \E t \in Mine(c) :
       /\ phase[t] = "excess"
       /\ phase' = [phase EXCEPT ![t] = "none"]
       /\ \/ Current(t) /\ store' = [store EXCEPT ![recordOf[t]] = Settled("Retry")]
          \/ UNCHANGED store
  /\ UNCHANGED <<renewing, recordOf, ownerOf, claimer, renewal, actorVars, countVars>>

SendRegister(c) ==
  /\ claimer[c] = "releasing"
  /\ \A t \in Mine(c) : phase[t] # "excess"
  /\ \E t \in Mine(c) : /\ phase[t] = "claimed"
                        /\ mailbox' = [mailbox EXCEPT ![c] = Append(@, Register(t))]
  /\ claimer' = [claimer EXCEPT ![c] = "registering"]
  /\ UNCHANGED <<renewing, store, recordOf, ownerOf, phase, renewal, pending, actor, countVars>>

\* The registration was confirmed: the stream yields the message to the route.
Yield(c) ==
  /\ claimer[c] = "registering"
  /\ \E t \in Mine(c) : /\ phase[t] = "registered"
                        /\ phase' = [phase EXCEPT ![t] = "handling"]
  /\ claimer' = [claimer EXCEPT ![c] = "polling"]
  /\ UNCHANGED <<renewing, store, recordOf, ownerOf, renewal, actorVars, countVars>>

-----------------------------------------------------------------------------
(* The route: handler, target, settle *)

\* Mutant of SendSettle: a settlement is sent and then sent again.
SendSettleTwice(t, d) ==
  /\ mailbox' = [mailbox EXCEPT ![ownerOf[t]] = @ \o <<Settle(t, d), Settle(t, d)>>]
  /\ phase' = [phase EXCEPT ![t] = "settling"]
SendSettle(t, d) ==
  /\ mailbox' = [mailbox EXCEPT ![ownerOf[t]] = Append(@, Settle(t, d))]
  /\ phase' = [phase EXCEPT ![t] = "settling"]

\* Mutant of Routed: the record is acknowledged when its handling starts.
AckEarly(t) ==
  /\ phase[t] = "registered" /\ claimer[ownerOf[t]] = "registering"
  /\ claimer' = [claimer EXCEPT ![ownerOf[t]] = "polling"]
  /\ SendSettle(t, "Ack")
  /\ UNCHANGED <<renewing, store, recordOf, ownerOf, renewal, pending, actor, countVars>>

\* Handler and target succeeded.
Routed(t) ==
  /\ phase[t] = "handling"
  /\ SendSettle(t, "Ack")
  /\ verdict' = verdict \union {recordOf[t]}
  /\ UNCHANGED <<renewing, store, recordOf, ownerOf, claimer, renewal, pending, actor, stops, early>>

\* The route failed; the failure was delivered or logged.
Failed(t) ==
  /\ phase[t] = "handling"
  /\ \E d \in FailureDecisions :
       /\ SendSettle(t, d)
       /\ verdict' = IF d = "Retry" THEN verdict ELSE verdict \union {recordOf[t]}
  /\ UNCHANGED <<renewing, store, recordOf, ownerOf, claimer, renewal, pending, actor, stops, early>>

\* A panic ends an unpartitioned route task, which drops source and stream; a
\* partition worker swallows it, and nobody settles the delivery.
Panics(t) ==
  /\ phase[t] = "handling"
  /\ stops < MaxStops
  /\ stops' = stops + 1
  /\ phase' = [phase EXCEPT ![t] = "none"]
  /\ claimer' = IF Partitioned THEN claimer ELSE [claimer EXCEPT ![ownerOf[t]] = "dropped"]
  /\ UNCHANGED <<renewing, store, recordOf, ownerOf, renewal, actorVars, verdict, early>>

-----------------------------------------------------------------------------
(* The settlement actor *)

Received(c, command) == /\ actor[c].pc = "idle"
                        /\ mailbox[c] # <<>>
                        /\ Head(mailbox[c]) = command

ServeRegister(c, t) ==
  /\ Received(c, Register(t))
  /\ mailbox' = [mailbox EXCEPT ![c] = Tail(@)]
  /\ pending' = [pending EXCEPT ![c] = @ \union {t}]
  /\ renewal' = [renewal EXCEPT ![t] = IF renewing THEN "sleeping" ELSE "off"]
  /\ phase' = [phase EXCEPT ![t] = "registered"]
  /\ UNCHANGED <<renewing, store, recordOf, ownerOf, claimer, actor, countVars>>

\* Mutant of FirstStep: the store is called while the renewal task still runs.
SettleAtOnce(t) == "settling"
\* Before the store is told, the renewal task is stopped and joined.
FirstStep(t) == "joining"

\* An unknown delivery is answered with an error.
ServeSettle(c, t, d) ==
  /\ Received(c, Settle(t, d))
  /\ mailbox' = [mailbox EXCEPT ![c] = Tail(@)]
  /\ IF t \in pending[c]
     THEN /\ pending' = [pending EXCEPT ![c] = @ \ {t}]
          /\ actor' = [actor EXCEPT ![c] = [pc |-> FirstStep(t), token |-> t, decision |-> d]]
          /\ UNCHANGED phase
     ELSE /\ phase' = [phase EXCEPT ![t] = "none"]
          /\ UNCHANGED <<pending, actor>>
  /\ UNCHANGED <<renewing, store, recordOf, ownerOf, claimer, renewal, countVars>>

Joined(c) ==
  /\ actor[c].pc = "joining"
  /\ renewal[actor[c].token] = "off"
  /\ actor' = [actor EXCEPT ![c].pc = "settling"]
  /\ UNCHANGED <<renewing, store, sourceVars, renewal, mailbox, pending, countVars>>

\* settle_record returned and the route got its reply.
SettleReplies(c) ==
  /\ actor' = [actor EXCEPT ![c] = Idle]
  /\ phase' = [phase EXCEPT ![actor[c].token] = "none"]
  /\ UNCHANGED <<renewing, recordOf, ownerOf, claimer, renewal, mailbox, pending, countVars>>

\* An error the store returns after the call took effect is logged like success.
SettleApplied(c) ==
  /\ actor[c].pc = "settling"
  /\ Current(actor[c].token)
  /\ store' = [store EXCEPT ![recordOf[actor[c].token]] = Settled(actor[c].decision)]
  /\ SettleReplies(c)

\* The call failed, or the token was stale: the route logs the error.
SettleFails(c) ==
  /\ actor[c].pc = "settling"
  /\ SettleReplies(c)
  /\ UNCHANGED store

\* The renewals of deliveries that are still pending are aborted.
Abandoned(c) == [t \in Tokens |-> IF t \in pending[c] THEN "off" ELSE renewal[t]]

\* Mutant of NoMoreCommands: the actor has a sender of its own mailbox.
SenderInHand(c) == FALSE
\* Source and stream are gone: recv() yields None.
NoMoreCommands(c) == mailbox[c] = <<>> /\ claimer[c] = "dropped"

ActorEnds(c) ==
  /\ actor[c].pc = "idle"
  /\ NoMoreCommands(c)
  /\ actor' = [actor EXCEPT ![c].pc = "ended"]
  /\ renewal' = Abandoned(c)
  /\ pending' = [pending EXCEPT ![c] = {}]
  /\ UNCHANGED <<renewing, store, sourceVars, mailbox, countVars>>

-----------------------------------------------------------------------------
(* Renewal tasks: spawn_lease_renewal *)

StopSent(t) == actor[ownerOf[t]].token = t

TimerFires(t) == /\ renewal[t] = "sleeping"
                 /\ ~StopSent(t)
                 /\ renewal' = [renewal EXCEPT ![t] = "due"]
                 /\ UNCHANGED <<renewing, store, sourceVars, actorVars, countVars>>

\* select! may take the timer even when the stop signal is there as well.
RenewCall(t) == /\ renewal[t] = "due"
                /\ renewal' = [renewal EXCEPT ![t] = "calling"]
                /\ UNCHANGED <<renewing, store, sourceVars, actorVars, countVars>>

RenewReturns(t) ==
  /\ renewal[t] = "calling"
  /\ renewal' = [renewal EXCEPT ![t] = "sleeping"]
  /\ \/ /\ Current(t) /\ store[recordOf[t]].state = "leased"
        /\ store' = [store EXCEPT ![recordOf[t]].fresh = TRUE]
     \/ UNCHANGED store
  /\ UNCHANGED <<renewing, sourceVars, actorVars, countVars>>

RenewalStops(t) == /\ renewal[t] \in {"sleeping", "due"}
                   /\ StopSent(t)
                   /\ renewal' = [renewal EXCEPT ![t] = "off"]
                   /\ UNCHANGED <<renewing, store, sourceVars, actorVars, countVars>>

-----------------------------------------------------------------------------
(* The process of a consumer *)

\* Everything in memory is lost; the leases stay with the store.
Crash(c) ==
  /\ stops < MaxStops
  /\ claimer[c] \notin {"down", "absent"}
  /\ stops' = stops + 1
  /\ phase' = [t \in Tokens |-> IF t \in Mine(c) THEN "none" ELSE phase[t]]
  /\ renewal' = [t \in Tokens |-> IF ownerOf[t] = c THEN "off" ELSE renewal[t]]
  /\ claimer' = [claimer EXCEPT ![c] = "down"]
  /\ mailbox' = [mailbox EXCEPT ![c] = <<>>]
  /\ pending' = [pending EXCEPT ![c] = {}]
  /\ actor' = [actor EXCEPT ![c] = Idle]
  /\ UNCHANGED <<renewing, store, recordOf, ownerOf, verdict, early>>

\* A new process opens the source again; the operator also restarts one whose
\* route has ended.
Restart(c) ==
  /\ claimer[c] = "down" \/ actor[c].pc = "ended"
  /\ claimer' = [claimer EXCEPT ![c] = "polling"]
  /\ actor' = [actor EXCEPT ![c] = Idle]
  /\ UNCHANGED <<renewing, store, recordOf, ownerOf, phase, renewal, mailbox, pending, countVars>>

-----------------------------------------------------------------------------
SourceNext(c) == \/ ClaimReturns(c) \/ ClaimReplyLost(c) \/ ReleaseExcess(c)
                 \/ SendRegister(c) \/ Yield(c)

RouteNext(t) == Routed(t) \/ Failed(t) \/ Panics(t)

ActorNext(c) == \/ \E t \in Tokens : \/ ServeRegister(c, t)
                                     \/ \E d \in {"Ack", "Retry", "Reject"} : ServeSettle(c, t, d)
                \/ Joined(c) \/ SettleApplied(c) \/ SettleFails(c) \/ ActorEnds(c)

RenewalNext(t) == TimerFires(t) \/ RenewCall(t) \/ RenewReturns(t) \/ RenewalStops(t)

StoreNext(r) == Age(r) \/ Expire(r) \/ RetryDue(r)

Next == \/ \E c \in Consumers : SourceNext(c) \/ ActorNext(c) \/ Crash(c) \/ Restart(c)
        \/ \E t \in Tokens : RouteNext(t) \/ RenewalNext(t)
        \/ \E r \in Records : StoreNext(r)

Handling(c) == \E t \in Mine(c) : RouteNext(t)
Renewing(c) == \E t \in Tokens : ownerOf[t] = c /\ RenewalNext(t)

\* Tasks are polled and handlers end; stopped processes restart; time passes,
\* for an unrenewed lease until it expires.  The store does not lose every
\* claim reply nor fail every settlement, and not every handling of a record
\* that comes back fails (SF).  A consumer of an unpartitioned route handles,
\* and renews, one delivery at a time.
Fairness ==
  /\ \A c \in Consumers : /\ WF_vars(SourceNext(c) \/ Restart(c)) /\ WF_vars(ActorNext(c))
                          /\ WF_vars(Handling(c)) /\ WF_vars(Renewing(c))
  /\ \A r \in Records : WF_vars(StoreNext(r))
  /\ SF_vars(\E c \in Consumers : ClaimReturns(c))
  /\ SF_vars(\E t \in Tokens : Routed(t))
  /\ SF_vars(\E c \in Consumers : actor[c].decision # "Retry" /\ SettleApplied(c))

Spec == Init /\ [][Next]_vars /\ Fairness

-----------------------------------------------------------------------------
(* Correctness *)

TypeOK ==
  /\ renewing \in BOOLEAN
  /\ store \in [Records -> [state : {"absent", "available", "leased", "delayed", "done"},
                            token : Tokens \union {NoToken}, fresh : BOOLEAN]]
  /\ recordOf \in [Tokens -> Records] /\ ownerOf \in [Tokens -> Consumers]
  /\ phase \in [Tokens -> {"none", "excess", "claimed", "registered", "handling", "settling"}]
  /\ renewal \in [Tokens -> {"off", "sleeping", "due", "calling"}]
  /\ claimer \in [Consumers -> {"absent", "polling", "releasing", "registering", "dropped", "down"}]
  /\ pending \in [Consumers -> SUBSET Tokens]
  /\ \A c \in Consumers : /\ actor[c].pc \in {"idle", "joining", "settling", "ended"}
                          /\ actor[c].pc = "ended" => claimer[c] = "dropped"
  /\ verdict \subseteq Records
  /\ stops \in 0..MaxStops /\ early \in 0..MaxEarly

\* README.md, "acknowledges it only after successful routing": no record leaves
\* the outbox unless some route delivered it, or gave it up by a decision other
\* than Retry, whatever crashes, expiries and lost replies came between.
DoneOnlyAfterVerdict == \A r \in Records : store[r].state = "done" => r \in verdict

\* A renewal task lives no longer than its delivery, and, as the test
\* "configured_renewal_stops_before_settlement" asks, has ended before the store
\* is told how the delivery ended: no renewal revives a lease given back.
RenewalEndsFirst ==
  \A t \in Tokens : renewal[t] # "off" =>
    \/ t \in pending[ownerOf[t]]
    \/ actor[ownerOf[t]].token = t /\ actor[ownerOf[t]].pc = "joining"

\* A settlement always finds its delivery: it was registered with the actor
\* before the route ever saw the message, and is settled once.
SettlementFindsDelivery ==
  \A c \in Consumers : \A i \in DOMAIN mailbox[c] :
    mailbox[c][i].type = "Settle" =>
      /\ mailbox[c][i].token \in pending[c]
      /\ \A h \in DOMAIN mailbox[c] : mailbox[c][h] = mailbox[c][i] => h = i

\* outbox.rs:154-157, "Records are claimed one at a time so later records do
\* not consume lease time while an earlier handler or target is still running".
OneAtATime ==
  \A t, u \in Tokens :
    phase[t] = "handling" /\ phase[u] \in {"claimed", "registered", "handling"}
    /\ ownerOf[t] = ownerOf[u] => t = u

\* Every record is settled in the end, across crashes, lost claim replies and
\* failed settlements.
EveryRecordDone == \A r \in Records : <>(store[r].state \in {"done", "absent"})
=============================================================================
