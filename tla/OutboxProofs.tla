---------------------------- MODULE OutboxProofs ----------------------------
(***************************************************************************)
(* Proofs about Outbox, for any records, consumers, deployments, tokens    *)
(* and bounds: which claims a record and its renewal survive.              *)
(***************************************************************************)
EXTENDS Outbox, QueueFacts

USE DeploymentAssumption, DecisionsAssumption, NoTokenAssumption

-----------------------------------------------------------------------------
(* The inductive invariant *)

Decision == {"Ack", "Retry", "Reject"}
Lease == [state : {"absent", "available", "leased", "delayed", "done"},
          token : Tokens \union {NoToken}, fresh : BOOLEAN]
Command == {Register(t) : t \in Tokens} \union {Settle(t, d) : t \in Tokens, d \in Decision}

\* recordOf and ownerOf of a token nobody uses do not matter.
OutboxTypeOK ==
  /\ store \in [Records -> Lease]
  /\ recordOf \in [Tokens -> Records \union {AnyRecord}]
  /\ ownerOf \in [Tokens -> Consumers \union {AnyConsumer}]
  /\ phase \in [Tokens -> {"none", "excess", "claimed", "registered", "handling", "settling"}]
  /\ renewal \in [Tokens -> {"off", "sleeping", "due", "calling"}]
  /\ claimer \in [Consumers -> {"absent", "polling", "releasing", "registering", "dropped", "down"}]
  /\ mailbox \in [Consumers -> Seq(Command)]
  /\ pending \in [Consumers -> SUBSET Tokens]
  /\ actor \in [Consumers -> [pc : {"idle", "joining", "settling", "ended"},
                              token : Tokens \union {NoToken}, decision : Decision \union {"none"}]]
  /\ verdict \in SUBSET Records

\* The claim loop has one delivery between claim and yield; the records a store
\* returned beside it are released before that one is registered.
ClaimInv ==
  \A t \in Tokens :
    /\ phase[t] # "none" => ownerOf[t] \in Consumers /\ recordOf[t] \in Records
                            /\ claimer[ownerOf[t]] \notin {"absent", "dropped", "down"}
    /\ phase[t] = "excess" => claimer[ownerOf[t]] = "releasing"
    /\ phase[t] = "claimed" => claimer[ownerOf[t]] \in {"releasing", "registering"}
    /\ phase[t] = "registered" => claimer[ownerOf[t]] = "registering"
    /\ \A u \in Tokens : /\ phase[t] \in {"claimed", "registered"}
                         /\ phase[u] \in {"claimed", "registered"}
                         /\ ownerOf[t] = ownerOf[u]
                         => t = u

\* Without partitions a delivery the route works on is its consumer's only one.
AloneInv ==
  ~Partitioned => \A t, u \in Tokens :
    phase[t] \in {"handling", "settling"} /\ phase[u] # "none" /\ ownerOf[t] = ownerOf[u] => t = u

\* What is in a mailbox is where its sender left it, and there once.
MailboxInv ==
  \A c \in Consumers :
    /\ IsInjective(mailbox[c])
    /\ \A t \in Tokens :
         Register(t) \in ToSet(mailbox[c]) =>
           phase[t] = "claimed" /\ ownerOf[t] = c /\ claimer[c] = "registering"
    /\ \A t \in Tokens, d \in Decision :
         Settle(t, d) \in ToSet(mailbox[c]) =>
           /\ phase[t] = "settling" /\ ownerOf[t] = c /\ t \in pending[c]
           /\ d # "Retry" => recordOf[t] \in verdict
           /\ \A e \in Decision : Settle(t, e) \in ToSet(mailbox[c]) => e = d

\* A delivery the route has seen is pending with its owner's actor.
PendingInv ==
  /\ \A c \in Consumers : \A t \in pending[c] : ownerOf[t] = c
  /\ \A t \in Tokens : phase[t] \in {"registered", "handling"} => t \in pending[ownerOf[t]]

\* The actor settles a delivery it has taken out of pending.
ActorInv ==
  \A c \in Consumers :
    LET t == actor[c].token
    IN /\ actor[c].pc \in {"idle", "ended"} => t = NoToken
       /\ actor[c].pc \in {"joining", "settling"} =>
            /\ t \in Tokens /\ phase[t] = "settling" /\ ownerOf[t] = c /\ t \notin pending[c]
            /\ actor[c].decision # "Retry" => recordOf[t] \in verdict
       /\ actor[c].pc = "ended" => claimer[c] = "dropped"

RenewalInv == /\ RenewalEndsFirst
              /\ \A t \in Tokens : renewal[t] # "off" => ownerOf[t] \in Consumers

OutboxInv == /\ OutboxTypeOK /\ ClaimInv /\ AloneInv /\ MailboxInv /\ PendingInv /\ ActorInv
             /\ RenewalInv /\ DoneOnlyAfterVerdict

LEMMA CommandKinds ==
  ASSUME NEW t \in Tokens, NEW u \in Tokens, NEW d \in Decision, NEW e \in Decision
  PROVE  /\ Register(t) \in Command /\ Settle(t, d) \in Command
         /\ Register(t) # Settle(u, d)
         /\ Register(t) = Register(u) <=> t = u
         /\ Settle(t, d) = Settle(u, e) <=> t = u /\ d = e
BY DEF Command, Register, Settle

LEMMA OutboxInvInit == Init => OutboxInv
<1> SUFFICES ASSUME Init PROVE OutboxInv
  OBVIOUS
<1>1. \A c \in Consumers : mailbox[c] \in Seq(Command) /\ ToSet(mailbox[c]) = {}
                           /\ IsInjective(mailbox[c])
  BY EmptyQueue DEF Init
<1>2. OutboxTypeOK
  BY <1>1 DEF Init, OutboxTypeOK, Idle, Lease
<1>3. ClaimInv /\ AloneInv /\ PendingInv /\ RenewalInv
  BY DEF Init, ClaimInv, AloneInv, PendingInv, RenewalInv, RenewalEndsFirst
<1>4. MailboxInv
  BY <1>1 DEF MailboxInv
<1>5. ActorInv /\ DoneOnlyAfterVerdict
  BY DEF Init, ActorInv, Idle, DoneOnlyAfterVerdict
<1> QED
  BY <1>2, <1>3, <1>4, <1>5 DEF OutboxInv

\* What the deliveries are bound to, seen from a state where only the store
\* and the renewals have moved.
LEMMA DeliveriesStay ==
  ASSUME OutboxInv, UNCHANGED <<sourceVars, actorVars, verdict>>
  PROVE  ClaimInv' /\ AloneInv' /\ MailboxInv' /\ PendingInv' /\ ActorInv'
<1>1. ClaimInv' /\ AloneInv' /\ PendingInv'
  BY DEF OutboxInv, ClaimInv, AloneInv, PendingInv, sourceVars, actorVars
<1>2. MailboxInv'
  BY DEF OutboxInv, MailboxInv, sourceVars, actorVars, Register, Settle
<1>3. ActorInv'
  BY DEF OutboxInv, ActorInv, sourceVars, actorVars
<1> QED
  BY <1>1, <1>2, <1>3

-----------------------------------------------------------------------------
(* The store *)

LEMMA SettledLease ==
  ASSUME NEW d \in Decision
  PROVE  /\ Settled(d) \in Lease
         /\ Settled(d).state = "done" <=> d # "Retry"
BY DEF Settled, Lease

LEMMA OnlyStoreMoves ==
  ASSUME OutboxInv, UNCHANGED <<sourceVars, renewal, actorVars, verdict>>,
         store' \in [Records -> Lease],
         \A q \in Records : store'[q].state = "done" => store[q].state = "done"
  PROVE  OutboxInv'
<1>1. OutboxTypeOK'
  BY DEF OutboxInv, OutboxTypeOK, sourceVars, actorVars
<1>2. RenewalInv' /\ DoneOnlyAfterVerdict'
  BY DEF OutboxInv, RenewalInv, RenewalEndsFirst, DoneOnlyAfterVerdict, sourceVars, actorVars
<1> QED
  BY <1>1, <1>2, DeliveriesStay DEF OutboxInv

LEMMA StoreKeeps ==
  ASSUME OutboxInv, NEW r \in Records, StoreNext(r)
  PROVE  OutboxInv'
<1>1. UNCHANGED <<sourceVars, renewal, actorVars, verdict>>
  BY DEF StoreNext, Age, Expire, RetryDue, countVars
<1>2. store \in [Records -> Lease]
  BY DEF OutboxInv, OutboxTypeOK
<1>3. PICK new \in Lease : /\ store' = [store EXCEPT ![r] = new]
                          /\ new.state # "done"
  <2>1. \A f \in BOOLEAN, a \in {"available", "leased"} :
          LET new == [state |-> a, token |-> store[r].token, fresh |-> f]
          IN  new \in Lease /\ new.state # "done"
    BY <1>2 DEF Lease
  <2>2. store[r] = [state |-> store[r].state, token |-> store[r].token, fresh |-> store[r].fresh]
        /\ store[r].fresh \in BOOLEAN
    BY <1>2 DEF Lease
  <2>3. CASE Age(r)
    <3>1. store[r].state = "leased" /\ store' = [store EXCEPT ![r].fresh = FALSE]
      BY <2>3 DEF Age
    <3>2. ASSUME NEW f \in BOOLEAN, store' = [store EXCEPT ![r].fresh = f]
          PROVE  store' = [store EXCEPT ![r] = [state |-> "leased", token |-> store[r].token, fresh |-> f]]
      BY <2>2, <3>1, <1>2, <3>2
    <3> QED
      BY <2>1, <3>1, <3>2
  <2>4. CASE Expire(r) \/ RetryDue(r)
    <3>1. store' = [store EXCEPT ![r] =
                      [state |-> "available", token |-> store[r].token, fresh |-> store[r].fresh]]
      BY <2>2, <2>4, <1>2 DEF Expire, RetryDue
    <3> QED
      BY <2>1, <2>2, <3>1
  <2> QED
    BY <2>3, <2>4 DEF StoreNext
<1>4. /\ store' \in [Records -> Lease]
      /\ \A q \in Records : store'[q].state = "done" => store[q].state = "done"
  BY <1>2, <1>3
<1> QED
  BY <1>1, <1>4, OnlyStoreMoves

-----------------------------------------------------------------------------
(* The claim loop *)

\* A claim leases available records; what is done stays done.
LEMMA ClaimsLease ==
  ASSUME OutboxInv, NEW c \in Consumers, NEW batch \in SUBSET Records,
         NEW lease \in [batch -> Tokens], Claims(c, batch, lease)
  PROVE  /\ store' \in [Records -> Lease]
         /\ \A q \in Records : store'[q].state = "done" => store[q].state = "done"
         /\ \A r \in batch : Unused(lease[r])
<1>1. store \in [Records -> Lease] /\ \A t \in Tokens : Leased(t) \in Lease
  BY DEF OutboxInv, OutboxTypeOK, Leased, Lease
<1>2. /\ store' = [r \in Records |-> IF r \in batch THEN Leased(lease[r]) ELSE store[r]]
      /\ \A r \in batch : lease[r] \in {t \in Tokens : Unused(t)}
  BY DEF Claims
<1>3. \A t \in Tokens : Leased(t).state # "done"
  BY DEF Leased
<1> QED
  BY <1>1, <1>2, <1>3

LEMMA ClaimReplyLostKeeps ==
  ASSUME OutboxInv, NEW c \in Consumers, ClaimReplyLost(c)
  PROVE  OutboxInv'
BY OnlyStoreMoves, ClaimsLease DEF ClaimReplyLost, countVars

LEMMA ClaimReturnsKeeps ==
  ASSUME OutboxInv, NEW c \in Consumers, ClaimReturns(c)
  PROVE  OutboxInv'
<1> DEFINE Returned(batch, lease, first) ==
        LET Claimed(t) == \E r \in batch : lease[r] = t
            RecordOf(t) == CHOOSE r \in batch : lease[r] = t
        IN /\ Claims(c, batch, lease)
           /\ recordOf' = [t \in Tokens |-> IF Claimed(t) THEN RecordOf(t)
                                            ELSE IF Unused(t) THEN AnyRecord ELSE recordOf[t]]
           /\ ownerOf' = [t \in Tokens |-> IF Claimed(t) THEN c
                                           ELSE IF Unused(t) THEN AnyConsumer ELSE ownerOf[t]]
           /\ phase' = [t \in Tokens |-> IF t = lease[first] THEN "claimed"
                                         ELSE IF Claimed(t) THEN "excess" ELSE phase[t]]
           /\ renewal' = [t \in Tokens |-> IF Claimed(t) THEN "off" ELSE renewal[t]]
<1>0. PICK batch \in SUBSET Records : \E lease \in [batch -> Tokens], first \in batch : Returned(batch, lease, first)
  BY DEF ClaimReturns
<1>1. PICK lease \in [batch -> Tokens], first \in batch : Returned(batch, lease, first)
  BY <1>0
<1> DEFINE Claimed(t) == \E r \in batch : lease[r] = t
<1>2. /\ store' \in [Records -> Lease]
      /\ \A q \in Records : store'[q].state = "done" => store[q].state = "done"
      /\ \A t \in Tokens : Claimed(t) => Unused(t)
  <2>1. Claims(c, batch, lease)
    BY <1>1
  <2>2. /\ store' \in [Records -> Lease]
        /\ \A q \in Records : store'[q].state = "done" => store[q].state = "done"
        /\ \A r \in batch : Unused(lease[r])
    BY <2>1, ClaimsLease
  <2> QED
    BY <2>2
<1>3. \A t \in Tokens : Claimed(t) => (CHOOSE r \in batch : lease[r] = t) \in Records
  OBVIOUS
<1>4. /\ Claimed(lease[first]) /\ lease[first] \in Tokens
      /\ ownerOf' \in [Tokens -> Consumers \union {AnyConsumer}]
      /\ recordOf' \in [Tokens -> Records \union {AnyRecord}]
      /\ phase' \in [Tokens -> {"none", "excess", "claimed", "registered", "handling", "settling"}]
      /\ renewal' \in [Tokens -> {"off", "sleeping", "due", "calling"}]
  BY <1>1, <1>3 DEF OutboxInv, OutboxTypeOK
<1>5. \A t \in Tokens : Claimed(t) =>
        /\ ownerOf'[t] = c /\ recordOf'[t] \in Records /\ renewal'[t] = "off"
        /\ phase'[t] \in {"claimed", "excess"}
        /\ phase'[t] = "claimed" => t = lease[first]
  BY <1>1, <1>3
<1>6. \A t \in Tokens :
        /\ Claimed(t) => phase[t] = "none" /\ renewal[t] = "off"
        /\ phase[t] # "none" \/ renewal[t] # "off" => ownerOf'[t] = ownerOf[t] /\ recordOf'[t] = recordOf[t]
        /\ \A b \in Consumers : t \in pending[b] \/ actor[b].token = t =>
             ~Claimed(t) /\ ownerOf'[t] = ownerOf[t] /\ recordOf'[t] = recordOf[t]
  <2>1. ASSUME NEW t \in Tokens, Unused(t)
        PROVE  /\ phase[t] = "none" /\ renewal[t] = "off"
               /\ \A b \in Consumers : t \notin pending[b] /\ actor[b].token # t
    BY <2>1 DEF Unused, OutboxInv, RenewalInv, RenewalEndsFirst
  <2> QED
    BY <1>1, <1>2, <2>1
<1>7. \A t \in Tokens : ~Claimed(t) => phase'[t] = phase[t] /\ renewal'[t] = renewal[t]
  BY <1>1, <1>4
<1>8. /\ claimer[c] = "polling" /\ claimer' = [claimer EXCEPT ![c] = "releasing"]
      /\ ~Partitioned => \A t \in Tokens : phase[t] # "none" => ownerOf[t] # c
      /\ UNCHANGED <<actorVars, verdict>>
  BY DEF ClaimReturns, MayClaim, Mine, countVars
<1> HIDE DEF Claimed
<1>9. OutboxTypeOK'
  BY <1>2, <1>4, <1>8 DEF OutboxInv, OutboxTypeOK, actorVars
<1>10. ClaimInv'
  <2>1. /\ claimer'[c] = "releasing"
        /\ \A b \in Consumers : b # c => claimer'[b] = claimer[b]
    BY <1>8 DEF OutboxInv, OutboxTypeOK
  <2>2. ASSUME NEW t \in Tokens
        PROVE  /\ phase'[t] # "none" => ownerOf'[t] \in Consumers /\ recordOf'[t] \in Records
                     /\ claimer'[ownerOf'[t]] \notin {"absent", "dropped", "down"}
               /\ phase'[t] = "excess" => claimer'[ownerOf'[t]] = "releasing"
               /\ phase'[t] = "claimed" => claimer'[ownerOf'[t]] \in {"releasing", "registering"}
               /\ phase'[t] = "registered" => claimer'[ownerOf'[t]] = "registering"
               /\ phase'[t] \in {"claimed", "registered"} /\ ownerOf'[t] = c => t = lease[first]
    BY <1>5, <1>6, <1>7, <1>8, <2>1 DEF OutboxInv, ClaimInv
  <2>3. ASSUME NEW t \in Tokens, NEW u \in Tokens,
               phase'[t] \in {"claimed", "registered"}, phase'[u] \in {"claimed", "registered"},
               ownerOf'[t] = ownerOf'[u]
        PROVE  t = u
    BY <1>5, <1>6, <1>7, <2>2, <2>3 DEF OutboxInv, ClaimInv
  <2> QED
    BY <2>2, <2>3 DEF ClaimInv
<1>11. AloneInv'
  BY <1>4, <1>5, <1>6, <1>7, <1>8 DEF OutboxInv, OutboxTypeOK, AloneInv
<1>12. MailboxInv'
  BY <1>2, <1>5, <1>6, <1>7, <1>8 DEF OutboxInv, OutboxTypeOK, MailboxInv, actorVars, Register, Settle
<1>13. PendingInv' /\ ActorInv'
  <2>1. PendingInv'
    <3>1. pending' = pending /\ \A b \in Consumers : pending[b] \subseteq Tokens
      BY <1>8 DEF OutboxInv, OutboxTypeOK, actorVars
    <3>2. ASSUME NEW b \in Consumers, NEW t \in pending[b] PROVE ownerOf'[t] = b
      BY <1>6, <3>1 DEF OutboxInv, PendingInv
    <3>3. ASSUME NEW t \in Tokens, phase'[t] \in {"registered", "handling"}
          PROVE  t \in pending[ownerOf'[t]]
      BY <1>5, <1>6, <1>7, <3>3 DEF OutboxInv, PendingInv
    <3> QED
      BY <3>1, <3>2, <3>3 DEF PendingInv
  <2>2. ActorInv'
    <3> SUFFICES ASSUME NEW b \in Consumers PROVE ActorInv!(b)'
      BY DEF ActorInv
    <3>1. ActorInv!(b) /\ actor'[b] = actor[b] /\ pending'[b] = pending[b] /\ verdict' = verdict
          /\ (claimer[b] = "dropped" => claimer'[b] = "dropped")
      BY <1>8 DEF OutboxInv, OutboxTypeOK, ActorInv, actorVars
    <3> QED
      BY <3>1, <1>6, <1>7
  <2> QED
    BY <2>1, <2>2
<1>14. RenewalInv' /\ DoneOnlyAfterVerdict'
  BY <1>2, <1>5, <1>6, <1>7, <1>8
  DEF OutboxInv, RenewalInv, RenewalEndsFirst, DoneOnlyAfterVerdict, actorVars
<1> QED
  BY <1>9, <1>10, <1>11, <1>12, <1>13, <1>14 DEF OutboxInv

LEMMA ReleaseExcessKeeps ==
  ASSUME OutboxInv, NEW c \in Consumers, ReleaseExcess(c)
  PROVE  OutboxInv'
<1>1. PICK t \in Mine(c) :
        /\ phase[t] = "excess"
        /\ phase' = [phase EXCEPT ![t] = "none"]
        /\ \/ Current(t) /\ store' = [store EXCEPT ![recordOf[t]] = Settled("Retry")]
           \/ UNCHANGED store
  BY DEF ReleaseExcess
<1>2. t \in Tokens /\ ownerOf[t] = c
      /\ UNCHANGED <<recordOf, ownerOf, claimer, renewal, actorVars, verdict>>
  BY DEF ReleaseExcess, Mine, countVars
<1>3. /\ store' \in [Records -> Lease]
      /\ \A q \in Records : store'[q].state = "done" => store[q].state = "done"
  <2>1. Settled("Retry") \in Lease /\ Settled("Retry").state # "done" /\ store \in [Records -> Lease]
    BY SettledLease DEF Decision, OutboxInv, OutboxTypeOK
  <2> QED
    BY <1>1, <2>1
<1>4. OutboxTypeOK'
  BY <1>1, <1>2, <1>3 DEF OutboxInv, OutboxTypeOK, actorVars
<1>5. ClaimInv' /\ AloneInv'
  BY <1>1, <1>2 DEF OutboxInv, OutboxTypeOK, ClaimInv, AloneInv
<1>6. MailboxInv'
  BY <1>1, <1>2 DEF OutboxInv, OutboxTypeOK, MailboxInv, actorVars, Register, Settle
<1>7. PendingInv' /\ ActorInv'
  BY <1>1, <1>2 DEF OutboxInv, OutboxTypeOK, PendingInv, ActorInv, actorVars
<1>8. RenewalInv' /\ DoneOnlyAfterVerdict'
  BY <1>2, <1>3 DEF OutboxInv, RenewalInv, RenewalEndsFirst, DoneOnlyAfterVerdict, actorVars
<1> QED
  BY <1>4, <1>5, <1>6, <1>7, <1>8 DEF OutboxInv

\* Mailboxes after a new command was sent, and after one was received.
LEMMA CommandSent ==
  ASSUME OutboxInv, NEW c \in Consumers, NEW m \in Command, m \notin ToSet(mailbox[c]),
         mailbox' = [mailbox EXCEPT ![c] = Append(@, m)]
  PROVE  /\ mailbox' \in [Consumers -> Seq(Command)]
         /\ \A b \in Consumers :
              /\ IsInjective(mailbox'[b])
              /\ ToSet(mailbox'[b]) = IF b = c THEN ToSet(mailbox[b]) \union {m} ELSE ToSet(mailbox[b])
<1>1. mailbox \in [Consumers -> Seq(Command)] /\ \A b \in Consumers : IsInjective(mailbox[b])
  BY DEF OutboxInv, OutboxTypeOK, MailboxInv
<1>2. /\ Append(mailbox[c], m) \in Seq(Command)
      /\ ToSet(Append(mailbox[c], m)) = ToSet(mailbox[c]) \union {m}
      /\ IsInjective(Append(mailbox[c], m))
  BY <1>1, Appended, AppendedNew
<1> QED
  BY <1>1, <1>2

LEMMA CommandReceived ==
  ASSUME OutboxInv, NEW c \in Consumers, mailbox[c] # <<>>,
         mailbox' = [mailbox EXCEPT ![c] = Tail(@)]
  PROVE  /\ mailbox' \in [Consumers -> Seq(Command)]
         /\ Head(mailbox[c]) \in ToSet(mailbox[c])
         /\ \A b \in Consumers :
              /\ IsInjective(mailbox'[b])
              /\ ToSet(mailbox'[b]) = IF b = c THEN ToSet(mailbox[b]) \ {Head(mailbox[c])}
                                               ELSE ToSet(mailbox[b])
<1>1. mailbox \in [Consumers -> Seq(Command)] /\ \A b \in Consumers : IsInjective(mailbox[b])
  BY DEF OutboxInv, OutboxTypeOK, MailboxInv
<1>2. /\ Tail(mailbox[c]) \in Seq(Command)
      /\ Head(mailbox[c]) \in ToSet(mailbox[c])
      /\ ToSet(Tail(mailbox[c])) = ToSet(mailbox[c]) \ {Head(mailbox[c])}
      /\ IsInjective(Tail(mailbox[c]))
  BY <1>1, Taken, TakenOnce
<1> QED
  BY <1>1, <1>2

LEMMA SendRegisterKeeps ==
  ASSUME OutboxInv, NEW c \in Consumers, SendRegister(c)
  PROVE  OutboxInv'
<1>1. PICK t \in Mine(c) : phase[t] = "claimed" /\ mailbox' = [mailbox EXCEPT ![c] = Append(@, Register(t))]
  BY DEF SendRegister
<1>2. /\ t \in Tokens /\ ownerOf[t] = c /\ claimer[c] = "releasing"
      /\ \A u \in Tokens : ownerOf[u] = c => phase[u] # "excess"
      /\ claimer' = [claimer EXCEPT ![c] = "registering"]
      /\ UNCHANGED <<store, recordOf, ownerOf, phase, renewal, pending, actor, verdict>>
  BY DEF SendRegister, Mine, countVars
<1>3. \A u \in Tokens : Register(u) \notin ToSet(mailbox[c])
  BY <1>2 DEF OutboxInv, MailboxInv
<1>4. /\ mailbox' \in [Consumers -> Seq(Command)]
      /\ \A b \in Consumers :
           /\ IsInjective(mailbox'[b])
           /\ ToSet(mailbox'[b]) = IF b = c THEN ToSet(mailbox[b]) \union {Register(t)} ELSE ToSet(mailbox[b])
  BY <1>1, <1>2, <1>3, CommandSent, CommandKinds DEF Decision
<1>5. OutboxTypeOK'
  BY <1>2, <1>4 DEF OutboxInv, OutboxTypeOK
<1>6. ClaimInv' /\ AloneInv'
  BY <1>1, <1>2 DEF OutboxInv, OutboxTypeOK, ClaimInv, AloneInv
<1>7. MailboxInv'
  <2>1. ASSUME NEW b \in Consumers, NEW u \in Tokens, Register(u) \in ToSet(mailbox'[b])
        PROVE  phase[u] = "claimed" /\ ownerOf[u] = b /\ claimer'[b] = "registering"
    <3>1. CASE Register(u) \in ToSet(mailbox[b])
      BY <3>1, <1>2, <1>3 DEF OutboxInv, OutboxTypeOK, MailboxInv
    <3>2. CASE b = c /\ Register(u) = Register(t)
      BY <3>2, <1>1, <1>2, CommandKinds DEF OutboxInv, OutboxTypeOK, Decision
    <3> QED
      BY <2>1, <3>1, <3>2, <1>4
  <2>2. \A b \in Consumers, u \in Tokens, d \in Decision :
          Settle(u, d) \in ToSet(mailbox'[b]) => Settle(u, d) \in ToSet(mailbox[b])
    BY <1>2, <1>4, CommandKinds
  <2>3. \A b \in Consumers, u \in Tokens, d \in Decision :
          Settle(u, d) \in ToSet(mailbox'[b]) =>
            /\ phase[u] = "settling" /\ ownerOf[u] = b /\ u \in pending[b]
            /\ d # "Retry" => recordOf[u] \in verdict
            /\ \A e \in Decision : Settle(u, e) \in ToSet(mailbox'[b]) => e = d
    BY <2>2 DEF OutboxInv, MailboxInv
  <2> QED
    BY <1>2, <1>4, <2>1, <2>3 DEF MailboxInv
<1>8. PendingInv' /\ ActorInv'
  BY <1>1, <1>2 DEF OutboxInv, OutboxTypeOK, PendingInv, ActorInv
<1>9. RenewalInv' /\ DoneOnlyAfterVerdict'
  BY <1>2 DEF OutboxInv, RenewalInv, RenewalEndsFirst, DoneOnlyAfterVerdict
<1> QED
  BY <1>5, <1>6, <1>7, <1>8, <1>9 DEF OutboxInv

LEMMA YieldKeeps ==
  ASSUME OutboxInv, NEW c \in Consumers, Yield(c)
  PROVE  OutboxInv'
<1>1. PICK t \in Mine(c) : phase[t] = "registered" /\ phase' = [phase EXCEPT ![t] = "handling"]
  BY DEF Yield
<1>2. /\ t \in Tokens /\ ownerOf[t] = c /\ claimer[c] = "registering"
      /\ claimer' = [claimer EXCEPT ![c] = "polling"]
      /\ UNCHANGED <<store, recordOf, ownerOf, renewal, actorVars, verdict>>
  BY DEF Yield, Mine, countVars
<1>3. OutboxTypeOK'
  BY <1>1, <1>2 DEF OutboxInv, OutboxTypeOK, actorVars
<1>4. ClaimInv'
  BY <1>1, <1>2 DEF OutboxInv, OutboxTypeOK, ClaimInv
<1>5. AloneInv'
  BY <1>1, <1>2 DEF OutboxInv, OutboxTypeOK, ClaimInv, AloneInv
<1>6. MailboxInv'
  BY <1>1, <1>2 DEF OutboxInv, OutboxTypeOK, ClaimInv, MailboxInv, actorVars, Register, Settle
<1>7. PendingInv' /\ ActorInv'
  BY <1>1, <1>2 DEF OutboxInv, OutboxTypeOK, PendingInv, ActorInv, actorVars
<1>8. RenewalInv' /\ DoneOnlyAfterVerdict'
  BY <1>2 DEF OutboxInv, RenewalInv, RenewalEndsFirst, DoneOnlyAfterVerdict, actorVars
<1> QED
  BY <1>3, <1>4, <1>5, <1>6, <1>7, <1>8 DEF OutboxInv

-----------------------------------------------------------------------------
(* The route *)

\* A settlement is on its way: the route has the delivery no longer in hand.
LEMMA SettlementSent ==
  ASSUME OutboxInv, NEW t \in Tokens, NEW d \in Decision, phase[t] = "handling",
         SendSettle(t, d), d # "Retry" => recordOf[t] \in verdict',
         verdict \subseteq verdict', verdict' \subseteq Records,
         UNCHANGED <<store, recordOf, ownerOf, claimer, renewal, pending, actor>>
  PROVE  OutboxInv'
<1> DEFINE c == ownerOf[t]
<1>1. /\ mailbox' = [mailbox EXCEPT ![c] = Append(@, Settle(t, d))]
      /\ phase' = [phase EXCEPT ![t] = "settling"]
  BY DEF SendSettle
<1>2. /\ c \in Consumers /\ t \in pending[c]
      /\ \A b \in Consumers, e \in Decision : Settle(t, e) \notin ToSet(mailbox[b])
      /\ \A b \in Consumers : Register(t) \notin ToSet(mailbox[b]) /\ actor[b].token # t
  <2>1. c \in Consumers /\ t \in pending[c]
    BY DEF OutboxInv, ClaimInv, PendingInv
  <2>2. \A b \in Consumers : /\ \A e \in Decision : Settle(t, e) \notin ToSet(mailbox[b])
                            /\ Register(t) \notin ToSet(mailbox[b])
    BY DEF OutboxInv, MailboxInv
  <2>3. \A b \in Consumers : actor[b].token # t
    BY DEF OutboxInv, OutboxTypeOK, ActorInv
  <2> QED
    BY <2>1, <2>2, <2>3
<1> HIDE DEF c
<1>3. /\ mailbox' \in [Consumers -> Seq(Command)]
      /\ \A b \in Consumers :
           /\ IsInjective(mailbox'[b])
           /\ ToSet(mailbox'[b]) = IF b = c THEN ToSet(mailbox[b]) \union {Settle(t, d)}
                                            ELSE ToSet(mailbox[b])
  <2>1. Settle(t, d) \in Command /\ Settle(t, d) \notin ToSet(mailbox[c])
    BY <1>2, CommandKinds
  <2> QED
    BY <1>1, <1>2, <2>1, CommandSent
<1>4. OutboxTypeOK'
  BY <1>1, <1>3 DEF OutboxInv, OutboxTypeOK
<1>5. ClaimInv' /\ AloneInv'
  BY <1>1 DEF OutboxInv, OutboxTypeOK, ClaimInv, AloneInv
<1>6. MailboxInv'
  <2>1. \A b \in Consumers, u \in Tokens :
          Register(u) \in ToSet(mailbox'[b]) => u # t /\ Register(u) \in ToSet(mailbox[b])
    BY <1>2, <1>3, CommandKinds
  <2>2. \A b \in Consumers, u \in Tokens, e \in Decision :
          Settle(u, e) \in ToSet(mailbox'[b]) =>
            \/ u # t /\ Settle(u, e) \in ToSet(mailbox[b])
            \/ u = t /\ e = d /\ b = c
    BY <1>2, <1>3, CommandKinds
  <2>3. \A u \in Tokens : phase'[u] = IF u = t THEN "settling" ELSE phase[u]
    BY <1>1 DEF OutboxInv, OutboxTypeOK
  <2>4. \A b \in Consumers, u \in Tokens : Register(u) \in ToSet(mailbox'[b]) =>
          phase'[u] = "claimed" /\ ownerOf[u] = b /\ claimer[b] = "registering"
    BY <2>1, <2>3 DEF OutboxInv, MailboxInv
  <2>5. ASSUME NEW b \in Consumers, NEW u \in Tokens, NEW e \in Decision,
               Settle(u, e) \in ToSet(mailbox'[b])
        PROVE  /\ phase'[u] = "settling" /\ ownerOf[u] = b /\ u \in pending[b]
               /\ e # "Retry" => recordOf[u] \in verdict'
               /\ \A f \in Decision : Settle(u, f) \in ToSet(mailbox'[b]) => f = e
    <3>1. CASE u # t
      BY <2>2, <2>3, <2>5, <3>1 DEF OutboxInv, MailboxInv
    <3>2. CASE u = t
      BY <1>2, <2>2, <2>3, <2>5, <3>2 DEF c
    <3> QED
      BY <3>1, <3>2
  <2> QED
    BY <1>3, <2>4, <2>5 DEF MailboxInv
<1>7. PendingInv' /\ ActorInv'
  BY <1>1, <1>2 DEF OutboxInv, OutboxTypeOK, PendingInv, ActorInv
<1>8. RenewalInv' /\ DoneOnlyAfterVerdict'
  BY DEF OutboxInv, RenewalInv, RenewalEndsFirst, DoneOnlyAfterVerdict
<1> QED
  BY <1>4, <1>5, <1>6, <1>7, <1>8 DEF OutboxInv

LEMMA RouteKeeps ==
  ASSUME OutboxInv, NEW t \in Tokens, RouteNext(t)
  PROVE  OutboxInv'
<1>1. phase[t] = "handling" /\ recordOf[t] \in Records /\ ownerOf[t] \in Consumers /\ verdict \subseteq Records
      /\ t \in pending[ownerOf[t]]
  BY DEF OutboxInv, OutboxTypeOK, ClaimInv, PendingInv, RouteNext, Routed, Failed, Panics
<1>2. CASE Routed(t)
  BY <1>1, <1>2, SettlementSent DEF Routed, Decision
<1>3. CASE Failed(t)
  <2>1. PICK d \in FailureDecisions :
          /\ SendSettle(t, d)
          /\ verdict' = IF d = "Retry" THEN verdict ELSE verdict \union {recordOf[t]}
    BY <1>3 DEF Failed
  <2> QED
    BY <1>1, <1>3, <2>1, SettlementSent DEF Failed, Decision
<1>4. CASE Panics(t)
  <2>1. /\ phase' = [phase EXCEPT ![t] = "none"]
        /\ claimer' = IF Partitioned THEN claimer ELSE [claimer EXCEPT ![ownerOf[t]] = "dropped"]
        /\ UNCHANGED <<store, recordOf, ownerOf, renewal, actorVars, verdict>>
    BY <1>4 DEF Panics
  <2>2. OutboxTypeOK'
    BY <2>1 DEF OutboxInv, OutboxTypeOK, actorVars
  <2>3. \A u \in Tokens : u # t /\ phase[u] # "none" => Partitioned \/ ownerOf[u] # ownerOf[t]
    BY <1>1 DEF OutboxInv, AloneInv
  <2>4. ClaimInv' /\ AloneInv'
    BY <1>1, <2>1, <2>3 DEF OutboxInv, OutboxTypeOK, ClaimInv, AloneInv
  <2>5. MailboxInv'
    BY <1>1, <2>1, <2>3 DEF OutboxInv, OutboxTypeOK, MailboxInv, actorVars, Register, Settle
  <2>6. PendingInv' /\ ActorInv'
    BY <1>1, <2>1 DEF OutboxInv, OutboxTypeOK, PendingInv, ActorInv, actorVars
  <2>7. RenewalInv' /\ DoneOnlyAfterVerdict'
    BY <2>1 DEF OutboxInv, RenewalInv, RenewalEndsFirst, DoneOnlyAfterVerdict, actorVars
  <2> QED
    BY <2>2, <2>4, <2>5, <2>6, <2>7 DEF OutboxInv
<1> QED
  BY <1>2, <1>3, <1>4 DEF RouteNext

-----------------------------------------------------------------------------
(* The settlement actor *)

LEMMA ServeRegisterKeeps ==
  ASSUME OutboxInv, NEW c \in Consumers, NEW t \in Tokens, ServeRegister(c, t)
  PROVE  OutboxInv'
<1>1. /\ mailbox[c] # <<>> /\ Head(mailbox[c]) = Register(t) /\ actor[c].pc = "idle"
      /\ mailbox' = [mailbox EXCEPT ![c] = Tail(@)]
      /\ pending' = [pending EXCEPT ![c] = @ \union {t}]
      /\ renewal' = [renewal EXCEPT ![t] = IF renewing THEN "sleeping" ELSE "off"]
      /\ phase' = [phase EXCEPT ![t] = "registered"]
      /\ UNCHANGED <<store, recordOf, ownerOf, claimer, actor, verdict>>
  BY DEF ServeRegister, Received, countVars
<1>2. /\ mailbox' \in [Consumers -> Seq(Command)]
      /\ Register(t) \in ToSet(mailbox[c])
      /\ \A b \in Consumers :
           /\ IsInjective(mailbox'[b])
           /\ ToSet(mailbox'[b]) = IF b = c THEN ToSet(mailbox[b]) \ {Register(t)} ELSE ToSet(mailbox[b])
  BY <1>1, CommandReceived
<1>3. phase[t] = "claimed" /\ ownerOf[t] = c /\ claimer[c] = "registering"
  BY <1>2 DEF OutboxInv, MailboxInv
<1>4. OutboxTypeOK'
  BY <1>1, <1>2 DEF OutboxInv, OutboxTypeOK
<1>5. ClaimInv' /\ AloneInv'
  BY <1>1, <1>3 DEF OutboxInv, OutboxTypeOK, ClaimInv, AloneInv
<1>6. MailboxInv'
  <2>1. \A b \in Consumers, u \in Tokens :
          Register(u) \in ToSet(mailbox'[b]) => u # t /\ Register(u) \in ToSet(mailbox[b])
    BY <1>2, <1>3, CommandKinds DEF OutboxInv, MailboxInv, Decision
  <2>2. \A b \in Consumers, u \in Tokens, e \in Decision :
          Settle(u, e) \in ToSet(mailbox'[b]) => u # t /\ Settle(u, e) \in ToSet(mailbox[b])
    BY <1>2, <1>3 DEF OutboxInv, MailboxInv
  <2>3. \A u \in Tokens : u # t => phase'[u] = phase[u]
    BY <1>1 DEF OutboxInv, OutboxTypeOK
  <2>4. \A b \in Consumers : pending[b] \subseteq pending'[b]
    BY <1>1 DEF OutboxInv, OutboxTypeOK
  <2>5. \A b \in Consumers, u \in Tokens : Register(u) \in ToSet(mailbox'[b]) =>
          phase'[u] = "claimed" /\ ownerOf[u] = b /\ claimer[b] = "registering"
    BY <2>1, <2>3 DEF OutboxInv, MailboxInv
  <2>6. \A b \in Consumers, u \in Tokens, e \in Decision : Settle(u, e) \in ToSet(mailbox'[b]) =>
          /\ phase'[u] = "settling" /\ ownerOf[u] = b /\ u \in pending'[b]
          /\ e # "Retry" => recordOf[u] \in verdict
          /\ \A f \in Decision : Settle(u, f) \in ToSet(mailbox'[b]) => f = e
    BY <2>2, <2>3, <2>4 DEF OutboxInv, MailboxInv
  <2>7. UNCHANGED <<recordOf, ownerOf, claimer, verdict>>
    BY <1>1
  <2> QED
    BY <1>2, <2>5, <2>6, <2>7 DEF MailboxInv
<1>7. PendingInv'
  BY <1>1, <1>3 DEF OutboxInv, OutboxTypeOK, PendingInv
<1>8. ActorInv'
  <2>1. \A b \in Consumers : actor[b].token # t
    BY <1>3 DEF OutboxInv, OutboxTypeOK, ActorInv
  <2> QED
    BY <1>1, <1>3, <2>1 DEF OutboxInv, OutboxTypeOK, ActorInv
<1>9. RenewalInv' /\ DoneOnlyAfterVerdict'
  BY <1>1, <1>3 DEF OutboxInv, OutboxTypeOK, RenewalInv, RenewalEndsFirst, DoneOnlyAfterVerdict
<1> QED
  BY <1>4, <1>5, <1>6, <1>7, <1>8, <1>9 DEF OutboxInv

LEMMA ServeSettleKeeps ==
  ASSUME OutboxInv, NEW c \in Consumers, NEW t \in Tokens, NEW d \in Decision, ServeSettle(c, t, d)
  PROVE  OutboxInv'
<1>1. /\ mailbox[c] # <<>> /\ Head(mailbox[c]) = Settle(t, d) /\ actor[c].pc = "idle"
      /\ mailbox' = [mailbox EXCEPT ![c] = Tail(@)]
      /\ UNCHANGED <<store, recordOf, ownerOf, claimer, renewal, verdict>>
  BY DEF ServeSettle, Received, countVars
<1>2. /\ mailbox' \in [Consumers -> Seq(Command)]
      /\ Settle(t, d) \in ToSet(mailbox[c])
      /\ \A b \in Consumers :
           /\ IsInjective(mailbox'[b])
           /\ ToSet(mailbox'[b]) = IF b = c THEN ToSet(mailbox[b]) \ {Settle(t, d)} ELSE ToSet(mailbox[b])
  BY <1>1, CommandReceived
<1>3. /\ phase[t] = "settling" /\ ownerOf[t] = c /\ t \in pending[c]
      /\ d # "Retry" => recordOf[t] \in verdict
  BY <1>2 DEF OutboxInv, MailboxInv
<1>4. /\ pending' = [pending EXCEPT ![c] = @ \ {t}]
      /\ actor' = [actor EXCEPT ![c] = [pc |-> "joining", token |-> t, decision |-> d]]
      /\ phase' = phase
  BY <1>3 DEF ServeSettle, FirstStep
<1>5. OutboxTypeOK'
  BY <1>1, <1>2, <1>4 DEF OutboxInv, OutboxTypeOK
<1>6. ClaimInv' /\ AloneInv'
  BY <1>1, <1>4 DEF OutboxInv, OutboxTypeOK, ClaimInv, AloneInv
<1>7. MailboxInv'
  <2>1. \A b \in Consumers, u \in Tokens :
          Register(u) \in ToSet(mailbox'[b]) => Register(u) \in ToSet(mailbox[b])
    BY <1>2
  <2>2. \A b \in Consumers, u \in Tokens, e \in Decision :
          Settle(u, e) \in ToSet(mailbox'[b]) => u # t /\ Settle(u, e) \in ToSet(mailbox[b])
    BY <1>2, <1>3 DEF OutboxInv, MailboxInv
  <2>3. \A b \in Consumers, u \in Tokens : u # t /\ u \in pending[b] => u \in pending'[b]
    BY <1>4 DEF OutboxInv, OutboxTypeOK
  <2>4. \A b \in Consumers, u \in Tokens, e \in Decision : Settle(u, e) \in ToSet(mailbox'[b]) =>
          /\ phase[u] = "settling" /\ ownerOf[u] = b /\ u \in pending'[b]
          /\ e # "Retry" => recordOf[u] \in verdict
          /\ \A f \in Decision : Settle(u, f) \in ToSet(mailbox'[b]) => f = e
    BY <2>2, <2>3 DEF OutboxInv, MailboxInv
  <2>5. \A b \in Consumers, u \in Tokens : Register(u) \in ToSet(mailbox'[b]) =>
          phase[u] = "claimed" /\ ownerOf[u] = b /\ claimer[b] = "registering"
    BY <2>1 DEF OutboxInv, MailboxInv
  <2> QED
    BY <1>1, <1>2, <1>4, <2>4, <2>5 DEF MailboxInv
<1>8. PendingInv'
  BY <1>1, <1>3, <1>4 DEF OutboxInv, OutboxTypeOK, PendingInv
<1>9. ActorInv'
  BY <1>1, <1>3, <1>4 DEF OutboxInv, OutboxTypeOK, ActorInv
<1>10. RenewalInv' /\ DoneOnlyAfterVerdict'
  BY <1>1, <1>3, <1>4 DEF OutboxInv, OutboxTypeOK, RenewalInv, RenewalEndsFirst, DoneOnlyAfterVerdict
<1> QED
  BY <1>5, <1>6, <1>7, <1>8, <1>9, <1>10 DEF OutboxInv

LEMMA JoinedKeeps ==
  ASSUME OutboxInv, NEW c \in Consumers, Joined(c)
  PROVE  OutboxInv'
<1>1. /\ actor[c].pc = "joining" /\ renewal[actor[c].token] = "off"
      /\ actor' = [actor EXCEPT ![c].pc = "settling"]
      /\ UNCHANGED <<store, sourceVars, renewal, mailbox, pending, verdict>>
  BY DEF Joined, countVars
<1>2. \A b \in Consumers : /\ actor'[b].token = actor[b].token /\ actor'[b].decision = actor[b].decision
                           /\ actor'[b].pc = IF b = c THEN "settling" ELSE actor[b].pc
  BY <1>1 DEF OutboxInv, OutboxTypeOK
<1>3. OutboxTypeOK'
  <2> DEFINE Pc == {"idle", "joining", "settling", "ended"}
             T == Tokens \union {NoToken}
             D == Decision \union {"none"}
  <2>1. actor \in [Consumers -> [pc : Pc, token : T, decision : D]] /\ "settling" \in Pc
    BY DEF OutboxInv, OutboxTypeOK
  <2> HIDE DEF Pc, T, D
  <2>2. actor' \in [Consumers -> [pc : Pc, token : T, decision : D]]
    BY <1>1, <2>1
  <2> QED
    BY <1>1, <2>2 DEF OutboxInv, OutboxTypeOK, sourceVars, Pc, T, D
<1>4. ClaimInv' /\ AloneInv' /\ PendingInv'
  BY <1>1 DEF OutboxInv, ClaimInv, AloneInv, PendingInv, sourceVars
<1>5. MailboxInv'
  BY <1>1 DEF OutboxInv, MailboxInv, sourceVars, Register, Settle
<1>6. ActorInv'
  BY <1>1, <1>2 DEF OutboxInv, ActorInv, sourceVars
<1>7. RenewalInv' /\ DoneOnlyAfterVerdict'
  BY <1>1, <1>2 DEF OutboxInv, RenewalInv, RenewalEndsFirst, DoneOnlyAfterVerdict, sourceVars
<1> QED
  BY <1>3, <1>4, <1>5, <1>6, <1>7 DEF OutboxInv

\* The store was called for the actor's delivery, with or without effect.
LEMMA SettlementEnds ==
  ASSUME OutboxInv, NEW c \in Consumers, actor[c].pc = "settling", SettleReplies(c), UNCHANGED verdict,
         \/ store' = [store EXCEPT ![recordOf[actor[c].token]] = Settled(actor[c].decision)]
         \/ UNCHANGED store
  PROVE  OutboxInv'
<1> DEFINE t == actor[c].token
<1>1. /\ actor' = [actor EXCEPT ![c] = Idle]
      /\ phase' = [phase EXCEPT ![t] = "none"]
      /\ UNCHANGED <<recordOf, ownerOf, claimer, renewal, mailbox, pending>>
  BY DEF SettleReplies, countVars
<1>2. /\ t \in Tokens /\ phase[t] = "settling" /\ ownerOf[t] = c /\ t \notin pending[c]
      /\ actor[c].decision # "Retry" => recordOf[t] \in verdict
      /\ renewal[t] = "off"
      /\ \A b \in Consumers : b # c => actor[b].token # t
  BY DEF OutboxInv, OutboxTypeOK, ActorInv, RenewalInv, RenewalEndsFirst
<1>3. /\ store' \in [Records -> Lease]
      /\ DoneOnlyAfterVerdict'
  <2>1. CASE UNCHANGED store
    BY <2>1 DEF OutboxInv, OutboxTypeOK, DoneOnlyAfterVerdict
  <2>2. CASE store' = [store EXCEPT ![recordOf[t]] = Settled(actor[c].decision)]
    <3>1. CASE actor[c].decision \in Decision
      <4>1. Settled(actor[c].decision) \in Lease
            /\ (Settled(actor[c].decision).state = "done" => recordOf[t] \in verdict)
        BY <1>2, <3>1, SettledLease
      <4> QED
        BY <2>2, <4>1 DEF OutboxInv, OutboxTypeOK, DoneOnlyAfterVerdict
    <3>2. CASE actor[c].decision = "none"
      <4>1. Settled("none") \in Lease /\ recordOf[t] \in verdict
        BY <1>2, <3>2 DEF Settled, Lease
      <4> QED
        BY <2>2, <3>2, <4>1 DEF OutboxInv, OutboxTypeOK, DoneOnlyAfterVerdict
    <3> QED
      BY <3>1, <3>2 DEF OutboxInv, OutboxTypeOK
  <2> QED
    BY <2>1, <2>2
<1>4. \A b \in Consumers : actor'[b] = IF b = c THEN Idle ELSE actor[b]
  BY <1>1 DEF OutboxInv, OutboxTypeOK
<1>5. \A u \in Tokens : phase'[u] = IF u = t THEN "none" ELSE phase[u]
  BY <1>1 DEF OutboxInv, OutboxTypeOK
<1> HIDE DEF t
<1>6. OutboxTypeOK'
  BY <1>1, <1>3 DEF OutboxInv, OutboxTypeOK, Idle
<1>7. ClaimInv' /\ AloneInv'
  BY <1>1, <1>5 DEF OutboxInv, ClaimInv, AloneInv
<1>8. MailboxInv'
  BY <1>1, <1>2, <1>5 DEF OutboxInv, MailboxInv, Register, Settle
<1>9. PendingInv'
  BY <1>1, <1>2, <1>5 DEF OutboxInv, PendingInv
<1>10. ActorInv'
  BY <1>1, <1>2, <1>4, <1>5 DEF OutboxInv, ActorInv, Idle
<1>11. RenewalInv'
  BY <1>1, <1>2, <1>4, <1>5 DEF OutboxInv, RenewalInv, RenewalEndsFirst, t
<1> QED
  BY <1>3, <1>6, <1>7, <1>8, <1>9, <1>10, <1>11 DEF OutboxInv

LEMMA ActorEndsKeeps ==
  ASSUME OutboxInv, NEW c \in Consumers, ActorEnds(c)
  PROVE  OutboxInv'
<1>1. /\ actor[c].pc = "idle" /\ mailbox[c] = <<>> /\ claimer[c] = "dropped"
      /\ actor' = [actor EXCEPT ![c].pc = "ended"]
      /\ renewal' = Abandoned(c)
      /\ pending' = [pending EXCEPT ![c] = {}]
      /\ UNCHANGED <<store, sourceVars, mailbox, verdict>>
  BY DEF ActorEnds, NoMoreCommands, countVars
<1>2. /\ \A b \in Consumers : /\ actor'[b].token = actor[b].token /\ actor'[b].decision = actor[b].decision
                              /\ actor'[b].pc = IF b = c THEN "ended" ELSE actor[b].pc
      /\ actor[c].token = NoToken
      /\ \A t \in Tokens : ownerOf[t] = c => phase[t] = "none"
      /\ \A d \in Decision, t \in Tokens : Settle(t, d) \notin ToSet(mailbox[c])
  BY <1>1, EmptyQueue DEF OutboxInv, OutboxTypeOK, ClaimInv, ActorInv
<1>3. /\ OutboxTypeOK'
      /\ \A t \in Tokens : renewal'[t] # "off" => renewal[t] # "off" /\ t \notin pending[c]
  BY <1>1 DEF OutboxInv, OutboxTypeOK, sourceVars, Abandoned
<1>4. ClaimInv' /\ AloneInv'
  BY <1>1 DEF OutboxInv, ClaimInv, AloneInv, sourceVars
<1>5. PendingInv'
  BY <1>1, <1>2 DEF OutboxInv, OutboxTypeOK, PendingInv, sourceVars
<1>6. MailboxInv'
  BY <1>1, <1>2 DEF OutboxInv, OutboxTypeOK, MailboxInv, sourceVars, Register, Settle
<1>7. ActorInv'
  BY <1>1, <1>2 DEF OutboxInv, OutboxTypeOK, ActorInv, sourceVars
<1>8. RenewalInv' /\ DoneOnlyAfterVerdict'
  BY <1>1, <1>2, <1>3 DEF OutboxInv, OutboxTypeOK, RenewalInv, RenewalEndsFirst, DoneOnlyAfterVerdict, sourceVars
<1> QED
  BY <1>3, <1>4, <1>5, <1>6, <1>7, <1>8 DEF OutboxInv

LEMMA ActorKeeps ==
  ASSUME OutboxInv, NEW c \in Consumers, ActorNext(c)
  PROVE  OutboxInv'
<1>1. CASE SettleApplied(c) \/ SettleFails(c)
  BY <1>1, SettlementEnds DEF SettleApplied, SettleFails, SettleReplies, countVars
<1> QED
  BY <1>1, ServeRegisterKeeps, ServeSettleKeeps, JoinedKeeps, ActorEndsKeeps DEF ActorNext, Decision

-----------------------------------------------------------------------------
(* Renewal tasks and processes *)

LEMMA RenewalKeeps ==
  ASSUME OutboxInv, NEW t \in Tokens, RenewalNext(t)
  PROVE  OutboxInv'
<1>1. /\ UNCHANGED <<sourceVars, actorVars, verdict>>
      /\ renewal[t] # "off"
      /\ \E s \in {"off", "sleeping", "due", "calling"} : renewal' = [renewal EXCEPT ![t] = s]
  BY DEF RenewalNext, TimerFires, RenewCall, RenewReturns, RenewalStops, countVars
<1>2. store \in [Records -> Lease]
  BY DEF OutboxInv, OutboxTypeOK
<1>3. /\ store' \in [Records -> Lease]
      /\ \A q \in Records : store'[q].state = "done" => store[q].state = "done"
  <2>1. CASE UNCHANGED store
    BY <1>2, <2>1
  <2>2. CASE RenewReturns(t) /\ store' # store
    <3>1. store' = [store EXCEPT ![recordOf[t]].fresh = TRUE]
      BY <2>2 DEF RenewReturns
    <3>2. ASSUME NEW f \in BOOLEAN, store' = [store EXCEPT ![recordOf[t]].fresh = f]
          PROVE  /\ store' \in [Records -> Lease]
                 /\ \A q \in Records : store'[q].state = store[q].state
      <4>1. \A l \in Lease : [l EXCEPT !.fresh = f] \in Lease /\ [l EXCEPT !.fresh = f].state = l.state
        BY DEF Lease
      <4> QED
        BY <1>2, <3>2, <4>1
    <3> QED
      BY <3>1, <3>2
  <2> QED
    BY <2>1, <2>2 DEF RenewalNext, TimerFires, RenewCall, RenewalStops
<1>4. OutboxTypeOK'
  BY <1>1, <1>3 DEF OutboxInv, OutboxTypeOK, sourceVars, actorVars
<1>5. RenewalInv' /\ DoneOnlyAfterVerdict'
  BY <1>1, <1>3 DEF OutboxInv, OutboxTypeOK, RenewalInv, RenewalEndsFirst, DoneOnlyAfterVerdict,
                    sourceVars, actorVars
<1> QED
  BY <1>1, <1>4, <1>5, DeliveriesStay DEF OutboxInv

LEMMA CrashKeeps ==
  ASSUME OutboxInv, NEW c \in Consumers, Crash(c)
  PROVE  OutboxInv'
<1>1. /\ phase' = [t \in Tokens |-> IF t \in Mine(c) THEN "none" ELSE phase[t]]
      /\ renewal' = [t \in Tokens |-> IF ownerOf[t] = c THEN "off" ELSE renewal[t]]
      /\ claimer' = [claimer EXCEPT ![c] = "down"]
      /\ mailbox' = [mailbox EXCEPT ![c] = <<>>]
      /\ pending' = [pending EXCEPT ![c] = {}]
      /\ actor' = [actor EXCEPT ![c] = Idle]
      /\ UNCHANGED <<store, recordOf, ownerOf, verdict>>
  BY DEF Crash
<1>2. /\ \A t \in Tokens : phase'[t] = IF ownerOf[t] = c THEN "none" ELSE phase[t]
      /\ \A b \in Consumers :
           /\ claimer'[b] = IF b = c THEN "down" ELSE claimer[b]
           /\ mailbox'[b] = IF b = c THEN <<>> ELSE mailbox[b]
           /\ pending'[b] = IF b = c THEN {} ELSE pending[b]
           /\ actor'[b] = IF b = c THEN Idle ELSE actor[b]
  BY <1>1 DEF OutboxInv, OutboxTypeOK, Mine
<1>3. <<>> \in Seq(Command) /\ ToSet(<<>>) = {} /\ IsInjective(<<>>)
  BY EmptyQueue
<1>4. OutboxTypeOK'
  BY <1>1, <1>3 DEF OutboxInv, OutboxTypeOK, Idle
<1>5. ClaimInv' /\ AloneInv' /\ PendingInv'
  BY <1>1, <1>2 DEF OutboxInv, ClaimInv, AloneInv, PendingInv
<1>6. MailboxInv'
  <2>1. ASSUME NEW b \in Consumers, b # c
        PROVE  MailboxInv!(b)'
    BY <1>1, <1>2, <2>1 DEF OutboxInv, MailboxInv, Register, Settle
  <2>2. MailboxInv!(c)'
    BY <1>2, <1>3
  <2> QED
    BY <2>1, <2>2 DEF MailboxInv
<1>7. ActorInv'
  BY <1>1, <1>2 DEF OutboxInv, ActorInv, Idle
<1>8. RenewalInv' /\ DoneOnlyAfterVerdict'
  BY <1>1, <1>2 DEF OutboxInv, OutboxTypeOK, RenewalInv, RenewalEndsFirst, DoneOnlyAfterVerdict
<1> QED
  BY <1>4, <1>5, <1>6, <1>7, <1>8 DEF OutboxInv

LEMMA RestartKeeps ==
  ASSUME OutboxInv, NEW c \in Consumers, Restart(c)
  PROVE  OutboxInv'
<1>1. /\ claimer[c] \in {"down", "dropped"}
      /\ claimer' = [claimer EXCEPT ![c] = "polling"]
      /\ actor' = [actor EXCEPT ![c] = Idle]
      /\ UNCHANGED <<store, recordOf, ownerOf, phase, renewal, mailbox, pending, verdict>>
  BY DEF Restart, countVars, OutboxInv, ActorInv
<1>2. \A t \in Tokens : ownerOf[t] = c => phase[t] = "none"
  BY <1>1 DEF OutboxInv, OutboxTypeOK, ClaimInv
<1>3. /\ \A b \in Consumers :
           /\ claimer'[b] = IF b = c THEN "polling" ELSE claimer[b]
           /\ actor'[b] = IF b = c THEN Idle ELSE actor[b]
      /\ \A t \in Tokens : actor[c].token = t => actor[c].pc \notin {"joining", "settling"}
  BY <1>1, <1>2 DEF OutboxInv, OutboxTypeOK, ActorInv
<1>4. OutboxTypeOK'
  BY <1>1 DEF OutboxInv, OutboxTypeOK, Idle
<1>5. ClaimInv' /\ AloneInv' /\ PendingInv'
  BY <1>1, <1>2, <1>3 DEF OutboxInv, ClaimInv, AloneInv, PendingInv
<1>6. MailboxInv'
  BY <1>1, <1>2, <1>3 DEF OutboxInv, MailboxInv, Register, Settle
<1>7. ActorInv'
  BY <1>1, <1>3 DEF OutboxInv, ActorInv, Idle
<1>8. RenewalInv' /\ DoneOnlyAfterVerdict'
  BY <1>1, <1>2, <1>3 DEF OutboxInv, OutboxTypeOK, RenewalInv, RenewalEndsFirst, DoneOnlyAfterVerdict
<1> QED
  BY <1>4, <1>5, <1>6, <1>7, <1>8 DEF OutboxInv

-----------------------------------------------------------------------------
(* The theorems *)

LEMMA OutboxInvStep == OutboxInv /\ [Next]_vars => OutboxInv'
<1> SUFFICES ASSUME OutboxInv, [Next]_vars PROVE OutboxInv'
  OBVIOUS
<1>1. ASSUME NEW c \in Consumers, SourceNext(c) PROVE OutboxInv'
  BY <1>1, ClaimReturnsKeeps, ClaimReplyLostKeeps, ReleaseExcessKeeps, SendRegisterKeeps, YieldKeeps
  DEF SourceNext
<1>2. CASE UNCHANGED vars
  <2>1. UNCHANGED <<sourceVars, renewal, actorVars, verdict>> /\ UNCHANGED store
    BY <1>2 DEF vars, countVars
  <2>2. store \in [Records -> Lease]
    BY DEF OutboxInv, OutboxTypeOK
  <2> QED
    BY <2>1, <2>2, OnlyStoreMoves
<1> QED
  BY <1>1, <1>2, ActorKeeps, CrashKeeps, RestartKeeps, RouteKeeps, RenewalKeeps, StoreKeeps DEF Next

THEOREM OutboxInvariance == Spec => []OutboxInv
BY OutboxInvInit, OutboxInvStep, PTL DEF Spec

\* README.md, "acknowledges it only after successful routing": a record is done
\* only when a route delivered it or gave it up, whatever crashed, expired or
\* lost its reply.
THEOREM DoneRecordsWereRouted == Spec => []DoneOnlyAfterVerdict
<1>1. OutboxInv => DoneOnlyAfterVerdict
  BY DEF OutboxInv
<1> QED
  BY <1>1, OutboxInvariance, PTL

\* A renewal task lives no longer than its delivery and has ended before the
\* store is told the outcome (settle_pending, spawn_lease_renewal).
THEOREM RenewalsEndBeforeSettlement == Spec => []RenewalEndsFirst
<1>1. OutboxInv => RenewalEndsFirst
  BY DEF OutboxInv, RenewalInv
<1> QED
  BY <1>1, OutboxInvariance, PTL

\* The settlement actor never answers a route that the delivery is unknown.
THEOREM SettlementsFindDeliveries == Spec => []SettlementFindsDelivery
<1>1. ASSUME OutboxInv
      PROVE  SettlementFindsDelivery
  <2> SUFFICES ASSUME NEW c \in Consumers, NEW i \in DOMAIN mailbox[c], mailbox[c][i].type = "Settle"
               PROVE  /\ mailbox[c][i].token \in pending[c]
                      /\ \A h \in DOMAIN mailbox[c] : mailbox[c][h] = mailbox[c][i] => h = i
    BY DEF SettlementFindsDelivery
  <2>1. mailbox[c] \in Seq(Command) /\ IsInjective(mailbox[c])
    BY <1>1 DEF OutboxInv, OutboxTypeOK, MailboxInv
  <2>2. mailbox[c][i] \in Command /\ mailbox[c][i] \in ToSet(mailbox[c])
    BY <2>1 DEF ToSet
  <2>3. PICK t \in Tokens, d \in Decision : mailbox[c][i] = Settle(t, d)
    BY <2>2 DEF Command, Register
  <2>4. Settle(t, d).token = t
    BY DEF Settle
  <2>5. t \in pending[c]
    BY <1>1, <2>2, <2>3 DEF OutboxInv, MailboxInv
  <2> QED
    BY <2>1, <2>3, <2>4, <2>5 DEF IsInjective
<1> QED
  BY <1>1, OutboxInvariance, PTL

\* outbox.rs:154-157: an unpartitioned route never claims while it handles; the
\* doc's claim fails only for a route with partition_by.
THEOREM UnpartitionedOneAtATime == ~Partitioned /\ Spec => []OneAtATime
<1>1. ~Partitioned /\ OutboxInv => OneAtATime
  BY DEF OutboxInv, AloneInv, OneAtATime
<1>2. ~Partitioned /\ []OutboxInv => []OneAtATime
  <2>1. CASE Partitioned
    BY <2>1
  <2>2. CASE ~Partitioned
    <3>1. OutboxInv => OneAtATime
      BY <1>1, <2>2
    <3> QED
      BY <3>1, PTL
  <2> QED
    BY <2>1, <2>2
<1> QED
  BY <1>2, OutboxInvariance
=============================================================================
