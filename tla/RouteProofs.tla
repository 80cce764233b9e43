---------------------------- MODULE RouteProofs -----------------------------
(***************************************************************************)
(* Proofs about the running of routes: HttpRoute, for any requests and     *)
(* capacities, any number of bindings, any place of the HTTP source among  *)
(* them, any number of calls of install and any partition keys; then Flow, *)
(* for any origins, transports, spellings and headers of applications.     *)
(***************************************************************************)
EXTENDS Flow, HttpRoute, QueueFacts

USE BindingsAssumption

-----------------------------------------------------------------------------
(* Router::install *)

InstallTypeOK ==
  /\ opened \in [1..Bindings -> Nat]
  /\ taken \in [1..Bindings -> BOOLEAN]
  /\ next \in 0..Bindings

\* What OneTaskPerRoute leaves out: a source that was opened is gone from its
\* binding, an install that has come to a binding has opened all before it,
\* and the result of the last install stands until the next.
InstallInv ==
  /\ InstallTypeOK
  /\ \A b \in 1..Bindings : opened[b] = 0 \/ (opened[b] = 1 /\ taken[b])
  /\ next # 0 => /\ result = "running"
                 /\ \A b \in 1..(next - 1) : opened[b] = 1
  /\ result = "ok" => \A b \in 1..Bindings : opened[b] = 1

LEMMA InstallInvInit == Init => InstallInv
BY DEF Init, InstallInv, InstallTypeOK

LEMMA InstallCalledKeeps ==
  ASSUME InstallInv, InstallCalled
  PROVE  InstallInv'
BY DEF InstallInv, InstallTypeOK, InstallCalled

LEMMA OpenFailsKeeps ==
  ASSUME InstallInv, OpenFails
  PROVE  InstallInv'
<1>1. next' = 0 /\ result' \in {"already installed", "failed"} /\ opened' = opened
  BY DEF OpenFails, Returns
<1>2. /\ taken' \in [1..Bindings -> BOOLEAN]
      /\ \A b \in 1..Bindings : taken[b] => taken'[b]
  BY DEF InstallInv, InstallTypeOK, OpenFails
<1>3. \A b \in 1..Bindings : opened'[b] = 0 \/ (opened'[b] = 1 /\ taken'[b])
  BY <1>1, <1>2 DEF InstallInv
<1>4. next' = 0 /\ result' # "ok"
  BY <1>1
<1>5. InstallTypeOK'
  <2>1. InstallTypeOK /\ next' \in 0..Bindings
    BY <1>4 DEF InstallInv
  <2> QED
    BY <1>1, <1>2, <2>1 DEF InstallTypeOK
<1> QED
  BY <1>3, <1>4, <1>5 DEF InstallInv

\* The binding that is opened had its source, so it was never opened before.
LEMMA OpensKeeps ==
  ASSUME InstallInv, Opens
  PROVE  InstallInv'
<1>1. next \in 1..Bindings /\ opened[next] = 0
  BY DEF InstallInv, InstallTypeOK, Opens, IsInstalled
<1>2. /\ opened' \in [1..Bindings -> Nat]
      /\ taken' \in [1..Bindings -> BOOLEAN]
      /\ opened'[next] = 1 /\ taken'[next]
      /\ \A b \in 1..Bindings : b # next => opened'[b] = opened[b] /\ taken'[b] = taken[b]
  BY <1>1 DEF InstallInv, InstallTypeOK, Opens
<1>3. \A b \in 1..Bindings : opened'[b] = 0 \/ (opened'[b] = 1 /\ taken'[b])
  BY <1>2 DEF InstallInv
<1>4. \A b \in 1..next : opened'[b] = 1
  BY <1>1, <1>2 DEF InstallInv
<1>5. CASE next = Bindings
  <2>1. next' = 0 /\ result' = "ok"
    BY <1>5 DEF Opens, Returns
  <2> QED
    BY <1>2, <1>3, <1>4, <1>5, <2>1 DEF InstallInv, InstallTypeOK
<1>6. CASE next # Bindings
  <2>1. next' = next + 1 /\ result' = "running"
    BY <1>1, <1>6 DEF Opens, InstallInv
  <2>2. next' \in 1..Bindings /\ \A b \in 1..(next' - 1) : opened'[b] = 1
    BY <1>1, <1>4, <1>6, <2>1
  <2> QED
    BY <1>2, <1>3, <2>1, <2>2 DEF InstallInv, InstallTypeOK
<1> QED
  BY <1>5, <1>6

LEMMA RouterDroppedKeeps ==
  ASSUME InstallInv, RouterDropped
  PROVE  InstallInv'
BY DEF InstallInv, InstallTypeOK, RouterDropped

LEMMA InstallInvStep == InstallInv /\ [Next]_vars => InstallInv'
<1> SUFFICES ASSUME InstallInv, [Next]_vars PROVE InstallInv'
  OBVIOUS
<1>1. CASE UNCHANGED installVars
  BY <1>1 DEF InstallInv, InstallTypeOK, installVars
<1>2. CASE InstallCalled
  BY <1>2, InstallCalledKeeps
<1>3. CASE OpenFails
  BY <1>3, OpenFailsKeeps
<1>4. CASE Opens
  BY <1>4, OpensKeeps
<1>5. CASE RouterDropped
  BY <1>5, RouterDroppedKeeps
<1>6. ASSUME NEW r \in Requests,
             \/ Connects(r) \/ BodyFails(r) \/ BodyRead(r)
             \/ Enqueues(r) \/ SendFails(r) \/ Disconnects(r)
      PROVE  UNCHANGED installVars
  BY <1>6 DEF Connects, BodyFails, BodyRead, Enqueues, SendFails, Disconnects
<1>7. ASSUME \/ Grant \/ Takes \/ Finishes \/ Unresolved \/ Submits \/ Panics
             \/ \E k \in Keys : Resolves(k) \/ JobFinishes(k) \/ JobPanics(k)
      PROVE  UNCHANGED installVars
  BY <1>7 DEF Grant, Takes, Finishes, Unresolved, DoneWith, Submits, Panics, Resolves,
              JobFinishes, JobPanics, JobLeaves
<1>8. CASE UNCHANGED vars
  BY <1>8, <1>1 DEF vars
<1> QED
  BY <1>1, <1>2, <1>3, <1>4, <1>5, <1>6, <1>7, <1>8 DEF Next

\* The invariant of install holds of every run.
THEOREM InstallInvariance == Spec => []InstallInv
<1> QED
  BY InstallInvInit, InstallInvStep, PTL DEF Spec

\* However many calls of install fail half-way, and wherever: no source is
\* opened twice, and an install that returned Ok has started every route
\* (router/core.rs:629-634).
THEOREM OneTask == Spec => []OneTaskPerRoute
<1>1. InstallInv => OneTaskPerRoute
  BY DEF InstallInv, InstallTypeOK, OneTaskPerRoute
<1> QED
  BY <1>1, InstallInvariance, PTL

-----------------------------------------------------------------------------
(* Sequences *)

LEMMA RemoveAtOf ==
  ASSUME NEW S, NEW s \in Seq(S), NEW k \in DOMAIN s, IsInjective(s)
  PROVE  /\ RemoveAt(s, k) \in Seq(S)
         /\ IsInjective(RemoveAt(s, k))
         /\ ToSet(RemoveAt(s, k)) \subseteq ToSet(s) \ {s[k]}
<1> DEFINE a == SubSeq(s, 1, k - 1)
           b == SubSeq(s, k + 1, Len(s))
           t == RemoveAt(s, k)
<1>1. DOMAIN s = 1..Len(s) /\ Len(s) \in Nat /\ k \in 1..Len(s)
      /\ \A i \in 1..Len(s) : s[i] \in S
  BY LenProperties
<1>2. a \in Seq(S) /\ Len(a) = k - 1 /\ \A i \in 1..(k - 1) : a[i] = s[i]
  BY <1>1, SubSeqProperties
<1>3. b \in Seq(S) /\ Len(b) = Len(s) - k /\ \A i \in 1..(Len(s) - k) : b[i] = s[k + i]
  BY <1>1, SubSeqProperties
<1>4. t \in Seq(S) /\ Len(t) = Len(s) - 1
      /\ \A i \in 1..(Len(s) - 1) : t[i] = IF i < k THEN s[i] ELSE s[i + 1]
  <2> HIDE DEF a, b
  <2>1. t = a \o b
    BY DEF RemoveAt, a, b
  <2>2. /\ a \o b \in Seq(S) /\ Len(a \o b) = Len(a) + Len(b)
        /\ \A i \in 1..(Len(a) + Len(b)) :
             (a \o b)[i] = IF i <= Len(a) THEN a[i] ELSE b[i - Len(a)]
    BY <1>2, <1>3, ConcatProperties
  <2>3. Len(a) + Len(b) = Len(s) - 1
    BY <1>1, <1>2, <1>3
  <2>4. ASSUME NEW i \in 1..(Len(s) - 1)
        PROVE  t[i] = IF i < k THEN s[i] ELSE s[i + 1]
    <3>1. CASE i < k
      BY <1>1, <1>2, <2>1, <2>2, <2>3, <3>1
    <3>2. CASE i >= k
      <4>1. t[i] = b[i - (k - 1)]
        BY <1>1, <1>2, <2>1, <2>2, <2>3, <3>2
      <4>2. i - (k - 1) \in 1..(Len(s) - k) /\ k + (i - (k - 1)) = i + 1
        BY <1>1, <3>2
      <4> QED
        BY <1>1, <1>3, <3>2, <4>1, <4>2
    <3> QED
      BY <1>1, <3>1, <3>2
  <2> QED
    BY <2>1, <2>2, <2>3, <2>4
<1>5. DOMAIN t = 1..(Len(s) - 1)
  BY <1>4, LenProperties
<1> HIDE DEF t
<1>6. IsInjective(t)
  BY <1>1, <1>4, <1>5 DEF IsInjective
<1>7. ToSet(t) \subseteq ToSet(s) \ {s[k]}
  BY <1>1, <1>4, <1>5 DEF IsInjective, ToSet
<1> QED
  BY <1>4, <1>6, <1>7 DEF t

\* What is appended comes after the rest, whose order stays.
LEMMA AppendedLast ==
  ASSUME NEW S, NEW s \in Seq(S), NEW z \in S, NEW x, NEW y
  PROVE  /\ Precedes(s, x, y) => Precedes(Append(s, z), x, y)
         /\ x \in ToSet(s) => Precedes(Append(s, z), x, z)
<1>1. /\ Append(s, z) \in Seq(S)
      /\ Len(Append(s, z)) = Len(s) + 1
      /\ \A i \in 1..Len(s) : Append(s, z)[i] = s[i]
      /\ Append(s, z)[Len(s) + 1] = z
  BY AppendProperties
<1>2. DOMAIN Append(s, z) = 1..(Len(s) + 1) /\ DOMAIN s = 1..Len(s) /\ Len(s) \in Nat
  BY <1>1, LenProperties
<1>3. ASSUME Precedes(s, x, y) PROVE Precedes(Append(s, z), x, y)
  BY <1>1, <1>2, <1>3 DEF Precedes
<1>4. ASSUME x \in ToSet(s) PROVE Precedes(Append(s, z), x, z)
  <2>1. PICK i \in 1..Len(s) : s[i] = x
    BY <1>2, <1>4 DEF ToSet
  <2>2. i \in DOMAIN Append(s, z) /\ Len(s) + 1 \in DOMAIN Append(s, z) /\ i < Len(s) + 1
    BY <1>2
  <2> QED
    BY <1>1, <2>1, <2>2 DEF Precedes
<1> QED
  BY <1>3, <1>4

\* In a sequence without repetition nothing comes both before and after.
LEMMA PrecedesOnce ==
  ASSUME NEW S, NEW s \in Seq(S), IsInjective(s), NEW x, NEW y, Precedes(s, x, y)
  PROVE  x # y /\ ~Precedes(s, y, x)
<1>1. DOMAIN s = 1..Len(s) /\ Len(s) \in Nat
  BY LenProperties
<1>2. PICK i \in DOMAIN s, h \in DOMAIN s : i < h /\ s[i] = x /\ s[h] = y
  BY DEF Precedes
<1>3. i \in Nat /\ h \in Nat
  BY <1>1, <1>2
<1>4. x # y
  BY <1>2, <1>3 DEF IsInjective
<1>5. ASSUME NEW a \in DOMAIN s, NEW b \in DOMAIN s, a < b, s[a] = y, s[b] = x
      PROVE  FALSE
  <2>1. a = h /\ b = i
    BY <1>2, <1>5 DEF IsInjective
  <2> QED
    BY <1>2, <1>3, <1>5, <2>1
<1> QED
  BY <1>4, <1>5 DEF Precedes

-----------------------------------------------------------------------------
(* The channel *)

ChannelTypeOK ==
  /\ request \in [Requests -> {"new", "reading", "waiting", "granted", "done"}]
  /\ answer \in [Requests -> {"none", "202", "413", "503"}]
  /\ waiters \in Seq(Requests) /\ queue \in Seq(Requests)
  /\ accepted \in Seq(Requests)
  /\ receiver \in {"source", "stream", "dropped", "panicked"}

TaskTypeOK ==
  /\ handling \in Requests \union {NoRequest}
  /\ handled \in Seq(Requests) /\ abandoned \subseteq Requests
  /\ key \in [Requests -> Keys \union {NoKey}]
  /\ line \in [Keys -> Seq(Requests)]

\* Who stands in line waits, and stands there once: a permit is granted to
\* nobody who has been answered.
WaitersInv == /\ IsInjective(waiters)
              /\ \A r \in ToSet(waiters) : request[r] = "waiting"

\* A request that entered the channel is done, and was told so.
AnswerInv == \A r \in Requests : /\ answer[r] = "202" <=> r \in ToSet(accepted)
                                 /\ answer[r] = "202" => request[r] = "done"

\* The loop has a message while it holds the receiver, and the source, which
\* gives the receiver away once, is not opened again.
ReceiverInv == /\ receiver # "stream" => handling = NoRequest
               /\ receiver # "source" => taken[HttpBinding]

Begun == Left \union InWork

\* What the channel holds is what nobody has begun, in the order it came in.
QueueInv ==
  ~Gone => /\ IsInjective(queue)
           /\ ToSet(queue) = ToSet(accepted) \ Begun
           /\ \A q, r \in Requests : Precedes(queue, q, r) => Precedes(accepted, q, r)
           /\ \A q \in Begun, r \in ToSet(queue) : Precedes(accepted, q, r)

\* A line holds requests of its key, which the loop has let go, in the order
\* they came in; what the loop has in hand came in after all that was begun.
LinesInv ==
  /\ \A k \in Keys : /\ IsInjective(line[k])
                     /\ \A r \in ToSet(line[k]) : key[r] = k /\ r # handling
                     /\ \A q, r \in Requests :
                          Precedes(line[k], q, r) => Precedes(accepted, q, r)
  /\ handling # NoRequest => \A q \in Begun \ {handling} : Precedes(accepted, q, handling)

\* A request is worked on once.
OnceInv == /\ IsInjective(accepted) /\ IsInjective(handled)
           /\ ToSet(handled) \intersect abandoned = {} /\ Left \intersect InWork = {}
           /\ Begun \subseteq ToSet(accepted)

OrderInv == \A q, r \in Requests : Precedes(accepted, q, r) =>
              /\ r \in Begun => q \in Begun
              /\ key[q] = key[r] /\ r \in Left => q \in Left
              /\ key[q] = key[r] => ~Precedes(handled, r, q)

WorkInv == QueueInv /\ LinesInv /\ OnceInv /\ OrderInv

AcceptedInv == /\ InstallInv /\ ChannelTypeOK /\ TaskTypeOK
               /\ WaitersInv /\ AnswerInv /\ ReceiverInv /\ WorkInv

LEMMA AcceptedInvInit == Init => AcceptedInv
<1> SUFFICES ASSUME Init PROVE AcceptedInv
  OBVIOUS
<1>1. InstallInv
  BY InstallInvInit
<1>2. ChannelTypeOK /\ TaskTypeOK /\ ReceiverInv
  BY DEF Init, ChannelTypeOK, TaskTypeOK, ReceiverInv
<1>3. IsInjective(<<>>) /\ ToSet(<<>>) = {}
  BY DEF IsInjective, ToSet
<1>4. WaitersInv /\ AnswerInv
  BY <1>3 DEF Init, WaitersInv, AnswerInv
<1>5. \A k \in Keys : line[k] = <<>>
  BY DEF Init
<1>6. Left = {} /\ InWork = {} /\ Begun = {}
  BY <1>3, <1>5 DEF Init, Left, InWork, Begun
<1>7. WorkInv
  <2>1. \A q, r : ~Precedes(<<>>, q, r)
    BY NothingPrecedes
  <2>2. queue = <<>> /\ accepted = <<>> /\ handled = <<>> /\ abandoned = {}
        /\ handling = NoRequest
    BY DEF Init
  <2>3. QueueInv
    BY <1>3, <1>6, <2>1, <2>2 DEF QueueInv
  <2>4. LinesInv
    BY <1>3, <1>5, <2>1, <2>2 DEF LinesInv
  <2>5. OnceInv
    BY <1>3, <1>6, <2>2 DEF OnceInv
  <2>6. OrderInv
    BY <2>1, <2>2 DEF OrderInv
  <2> QED
    BY <2>3, <2>4, <2>5, <2>6 DEF WorkInv
<1> QED
  BY <1>1, <1>2, <1>4, <1>7 DEF AcceptedInv

\* What is begun, and where it is, depends on the task alone.
LEMMA SameWork ==
  ASSUME UNCHANGED taskVars
  PROVE  /\ Left' = Left /\ InWork' = InWork /\ Begun' = Begun
         /\ TaskTypeOK => TaskTypeOK'
<1>1. handling' = handling /\ line' = line /\ handled' = handled /\ abandoned' = abandoned
      /\ key' = key
  BY DEF taskVars
<1> QED
  BY <1>1 DEF Left, InWork, Begun, TaskTypeOK

LEMMA SameInv ==
  ASSUME WorkInv, UNCHANGED <<channelVars, taskVars>>
  PROVE  WorkInv'
<1>1. /\ Left' = Left /\ InWork' = InWork /\ Begun' = Begun
      /\ queue' = queue /\ accepted' = accepted /\ (Gone' <=> Gone)
      /\ handling' = handling /\ line' = line /\ key' = key
      /\ handled' = handled /\ abandoned' = abandoned
  BY SameWork DEF channelVars, taskVars, Gone
<1> QED
  BY <1>1 DEF WorkInv, QueueInv, LinesInv, OnceInv, OrderInv

\* A step of a request that leaves the channel, its receiver and the task alone.
LEMMA RequestStep ==
  ASSUME AcceptedInv, UNCHANGED <<channelVars, installVars, taskVars>>,
         ChannelTypeOK', WaitersInv', AnswerInv'
  PROVE  AcceptedInv'
<1>1. InstallInv'
  BY DEF AcceptedInv, InstallInv, InstallTypeOK, installVars
<1>2. ReceiverInv'
  BY DEF AcceptedInv, ReceiverInv, channelVars, installVars, taskVars
<1>3. TaskTypeOK' /\ WorkInv'
  BY SameWork, SameInv DEF AcceptedInv
<1> QED
  BY <1>1, <1>2, <1>3 DEF AcceptedInv

LEMMA ConnectsKeeps ==
  ASSUME AcceptedInv, NEW r \in Requests, Connects(r)
  PROVE  AcceptedInv'
<1>1. ChannelTypeOK'
  BY DEF AcceptedInv, ChannelTypeOK, Connects, channelVars, taskVars
<1>2. WaitersInv' /\ AnswerInv'
  BY DEF AcceptedInv, ChannelTypeOK, WaitersInv, AnswerInv, Connects, channelVars
<1> QED
  BY <1>1, <1>2, RequestStep DEF Connects

LEMMA BodyFailsKeeps ==
  ASSUME AcceptedInv, NEW r \in Requests, BodyFails(r)
  PROVE  AcceptedInv'
<1>1. ChannelTypeOK'
  BY DEF AcceptedInv, ChannelTypeOK, BodyFails, Status, channelVars, taskVars
<1>2. WaitersInv' /\ AnswerInv'
  BY DEF AcceptedInv, ChannelTypeOK, WaitersInv, AnswerInv, BodyFails, Status, channelVars
<1> QED
  BY <1>1, <1>2, RequestStep DEF BodyFails

LEMMA BodyReadKeeps ==
  ASSUME AcceptedInv, NEW r \in Requests, BodyRead(r)
  PROVE  AcceptedInv'
<1>1. /\ waiters' \in Seq(Requests) /\ IsInjective(waiters')
      /\ ToSet(waiters') = ToSet(waiters) \union {r}
  <2>1. waiters \in Seq(Requests) /\ IsInjective(waiters) /\ r \notin ToSet(waiters)
    BY DEF AcceptedInv, ChannelTypeOK, WaitersInv, BodyRead
  <2> QED
    BY <2>1, Appended, AppendedNew DEF BodyRead
<1>2. ChannelTypeOK'
  BY <1>1 DEF AcceptedInv, ChannelTypeOK, BodyRead, channelVars, taskVars
<1>3. WaitersInv' /\ AnswerInv'
  BY <1>1 DEF AcceptedInv, ChannelTypeOK, WaitersInv, AnswerInv, BodyRead, channelVars
<1> QED
  BY <1>2, <1>3, RequestStep DEF BodyRead

LEMMA GrantKeeps ==
  ASSUME AcceptedInv, Grant
  PROVE  AcceptedInv'
<1>1. waiters \in Seq(Requests) /\ waiters # <<>> /\ IsInjective(waiters)
  BY DEF AcceptedInv, ChannelTypeOK, WaitersInv, Grant
<1>2. /\ Head(waiters) \in Requests /\ waiters' \in Seq(Requests)
      /\ IsInjective(waiters')
      /\ ToSet(waiters') \subseteq ToSet(waiters) \ {Head(waiters)}
  BY <1>1, Taken, TakenOnce DEF Grant
<1>3. request[Head(waiters)] = "waiting"
  <2>1. Head(waiters) = waiters[1] /\ 1 \in DOMAIN waiters
    BY <1>1
  <2> QED
    BY <2>1 DEF AcceptedInv, WaitersInv, ToSet
<1>4. ChannelTypeOK'
  BY <1>2 DEF AcceptedInv, ChannelTypeOK, Grant, channelVars, taskVars
<1>5. WaitersInv' /\ AnswerInv'
  BY <1>2, <1>3 DEF AcceptedInv, ChannelTypeOK, WaitersInv, AnswerInv, Grant, channelVars
<1> QED
  BY <1>4, <1>5, RequestStep DEF Grant

\* Whoever leaves the line was in it once.
LEMMA LineLeft ==
  ASSUME AcceptedInv, NEW r \in Requests, LeavesLine(r)
  PROVE  /\ waiters' \in Seq(Requests) /\ IsInjective(waiters')
         /\ ToSet(waiters') \subseteq ToSet(waiters) \ {r}
<1>1. waiters \in Seq(Requests) /\ IsInjective(waiters)
  BY DEF AcceptedInv, ChannelTypeOK, WaitersInv
<1>2. CASE r \notin ToSet(waiters)
  BY <1>1, <1>2 DEF LeavesLine
<1>3. CASE r \in ToSet(waiters)
  <2>1. PICK k \in DOMAIN waiters : /\ waiters[k] = r
                                   /\ waiters' = RemoveAt(waiters, k)
    BY <1>3 DEF LeavesLine, ToSet
  <2> QED
    BY <1>1, <2>1, RemoveAtOf
<1> QED
  BY <1>2, <1>3

LEMMA SendFailsKeeps ==
  ASSUME AcceptedInv, NEW r \in Requests, SendFails(r)
  PROVE  AcceptedInv'
<1>1. /\ waiters' \in Seq(Requests) /\ IsInjective(waiters')
      /\ ToSet(waiters') \subseteq ToSet(waiters) \ {r}
  BY LineLeft DEF SendFails
<1>2. ChannelTypeOK'
  BY <1>1 DEF AcceptedInv, ChannelTypeOK, SendFails, Status, Unavailable, channelVars, taskVars
<1>3. WaitersInv' /\ AnswerInv'
  BY <1>1 DEF AcceptedInv, ChannelTypeOK, WaitersInv, AnswerInv, SendFails, Status, Unavailable,
              channelVars
<1> QED
  BY <1>2, <1>3, RequestStep DEF SendFails

LEMMA DisconnectsKeeps ==
  ASSUME AcceptedInv, NEW r \in Requests, Disconnects(r)
  PROVE  AcceptedInv'
<1>1. /\ waiters' \in Seq(Requests) /\ IsInjective(waiters')
      /\ ToSet(waiters') \subseteq ToSet(waiters) \ {r}
  BY LineLeft DEF Disconnects
<1>2. ChannelTypeOK'
  BY <1>1 DEF AcceptedInv, ChannelTypeOK, Disconnects, channelVars, taskVars
<1>3. WaitersInv' /\ AnswerInv'
  BY <1>1 DEF AcceptedInv, ChannelTypeOK, WaitersInv, AnswerInv, Disconnects, channelVars
<1> QED
  BY <1>2, <1>3, RequestStep DEF Disconnects

\* A request holds a permit before it is told anything, so it enters the
\* channel once, and behind all that is begun or waits.
LEMMA EnqueuesKeeps ==
  ASSUME AcceptedInv, NEW r \in Requests, Enqueues(r)
  PROVE  AcceptedInv'
<1>1. /\ accepted \in Seq(Requests) /\ queue \in Seq(Requests)
      /\ IsInjective(accepted) /\ Begun \subseteq ToSet(accepted)
  BY DEF AcceptedInv, ChannelTypeOK, WorkInv, OnceInv
<1>2. r \notin ToSet(accepted) /\ r \notin Begun
  BY <1>1 DEF AcceptedInv, AnswerInv, Enqueues
<1>3. /\ accepted' = Append(accepted, r) /\ accepted' \in Seq(Requests)
      /\ IsInjective(accepted')
      /\ ToSet(accepted') = ToSet(accepted) \union {r}
  BY <1>1, <1>2, Appended, AppendedNew DEF Enqueues
<1>4. /\ \A x, y : Precedes(accepted, x, y) => Precedes(accepted', x, y)
      /\ \A x \in ToSet(accepted) : Precedes(accepted', x, r)
      /\ \A x, y : Precedes(accepted', x, y) => Precedes(accepted, x, y) \/ y = r
  <2> HIDE DEF Begun
  <2> QED
    BY <1>1, <1>3, AppendedLast, PrecedesAppended
<1>5. /\ Left' = Left /\ InWork' = InWork /\ Begun' = Begun /\ TaskTypeOK'
      /\ handled' = handled /\ abandoned' = abandoned /\ key' = key /\ line' = line
      /\ handling' = handling /\ (Gone' <=> Gone)
  BY SameWork DEF AcceptedInv, Enqueues, taskVars, Gone
<1>6. queue' \in Seq(Requests)
  BY <1>1, AppendProperties DEF Enqueues
<1>7. ChannelTypeOK'
  BY <1>3, <1>6 DEF AcceptedInv, ChannelTypeOK, Enqueues, Status
<1>8. InstallInv' /\ ReceiverInv'
  BY DEF AcceptedInv, InstallInv, InstallTypeOK, ReceiverInv, Enqueues, installVars, taskVars
<1>9. WaitersInv' /\ AnswerInv'
  BY <1>3 DEF AcceptedInv, ChannelTypeOK, WaitersInv, AnswerInv, Enqueues, Status
<1>10. OnceInv'
  BY <1>3, <1>5 DEF AcceptedInv, WorkInv, OnceInv
<1>11. LinesInv'
  BY <1>4, <1>5 DEF AcceptedInv, WorkInv, LinesInv
<1>12. OrderInv'
  <2>1. r \notin Left /\ r \notin ToSet(handled)
    BY <1>2 DEF Begun, Left
  <2>2. \A x : ~Precedes(handled, r, x)
    BY <2>1, PrecedesIn
  <2> QED
    BY <1>2, <1>4, <1>5, <2>1, <2>2 DEF AcceptedInv, WorkInv, OrderInv
<1>13. QueueInv'
  <2> SUFFICES ASSUME ~Gone PROVE QueueInv'
    BY <1>5 DEF QueueInv
  <2>1. /\ IsInjective(queue) /\ ToSet(queue) = ToSet(accepted) \ Begun
        /\ \A q, p \in Requests : Precedes(queue, q, p) => Precedes(accepted, q, p)
        /\ \A q \in Begun, p \in ToSet(queue) : Precedes(accepted, q, p)
        /\ queue' = Append(queue, r)
    BY DEF AcceptedInv, WorkInv, QueueInv, Enqueues
  <2>2. r \notin ToSet(queue)
    BY <1>2, <2>1
  <2>3. IsInjective(queue') /\ ToSet(queue') = ToSet(queue) \union {r}
    BY <1>1, <2>1, <2>2, Appended, AppendedNew
  <2>4. \A x, y : Precedes(queue', x, y) => Precedes(queue, x, y) \/ (y = r /\ x \in ToSet(queue))
    BY <1>1, <2>1, PrecedesAppended
  <2>5. ToSet(queue') = ToSet(accepted') \ Begun
    BY <1>2, <1>3, <2>1, <2>3
  <2>6. \A q, p \in Requests : Precedes(queue', q, p) => Precedes(accepted', q, p)
    BY <1>4, <2>1, <2>4
  <2>7. \A q \in Begun, p \in ToSet(queue') : Precedes(accepted', q, p)
    BY <1>1, <1>4, <2>1, <2>3
  <2> QED
    BY <1>5, <2>3, <2>5, <2>6, <2>7 DEF QueueInv
<1> QED
  BY <1>5, <1>7, <1>8, <1>9, <1>10, <1>11, <1>12, <1>13 DEF AcceptedInv, WorkInv

\* install leaves the channel and the task alone, and a source that has left
\* its binding does not come back.
LEMMA InstallStep ==
  ASSUME AcceptedInv, InstallInv',
         UNCHANGED <<requestVars, channelVars, taskVars>>,
         taken[HttpBinding] => taken'[HttpBinding]
  PROVE  AcceptedInv'
<1>1. TaskTypeOK' /\ WorkInv'
  BY SameWork, SameInv DEF AcceptedInv
<1>2. ChannelTypeOK' /\ WaitersInv' /\ AnswerInv' /\ ReceiverInv'
  BY DEF AcceptedInv, ChannelTypeOK, WaitersInv, AnswerInv, ReceiverInv,
         requestVars, channelVars, taskVars
<1> QED
  BY <1>1, <1>2 DEF AcceptedInv

LEMMA InstallCalledKeepsAccepted ==
  ASSUME AcceptedInv, InstallCalled
  PROVE  AcceptedInv'
<1>1. InstallInv'
  BY InstallCalledKeeps DEF AcceptedInv
<1> QED
  BY <1>1, InstallStep DEF InstallCalled

LEMMA OpenFailsKeepsAccepted ==
  ASSUME AcceptedInv, OpenFails
  PROVE  AcceptedInv'
<1>1. InstallInv'
  BY OpenFailsKeeps DEF AcceptedInv
<1>2. taken[HttpBinding] => taken'[HttpBinding]
  BY DEF AcceptedInv, InstallInv, InstallTypeOK, OpenFails
<1> QED
  BY <1>1, <1>2, InstallStep DEF OpenFails

\* The receiver moves; what it holds is lost with it or stays.
LEMMA ReceiverStep ==
  ASSUME AcceptedInv, UNCHANGED <<requestVars, accepted, taskVars>>,
         InstallInv', ReceiverInv', receiver' \in {"stream", "dropped"},
         ~Gone' => ~Gone /\ queue' = queue, queue' \in Seq(Requests)
  PROVE  AcceptedInv'
<1>1. /\ Left' = Left /\ InWork' = InWork /\ Begun' = Begun /\ TaskTypeOK'
      /\ handled' = handled /\ abandoned' = abandoned /\ key' = key /\ line' = line
      /\ handling' = handling /\ accepted' = accepted
  BY SameWork DEF AcceptedInv, taskVars
<1>2. ChannelTypeOK' /\ WaitersInv' /\ AnswerInv'
  BY DEF AcceptedInv, ChannelTypeOK, WaitersInv, AnswerInv, requestVars
<1>3. QueueInv'
  BY <1>1 DEF AcceptedInv, WorkInv, QueueInv
<1>4. LinesInv' /\ OnceInv' /\ OrderInv'
  BY <1>1 DEF AcceptedInv, WorkInv, LinesInv, OnceInv, OrderInv
<1> QED
  BY <1>1, <1>2, <1>3, <1>4 DEF AcceptedInv, WorkInv

\* The source that is opened still had its receiver.
LEMMA OpensKeepsAccepted ==
  ASSUME AcceptedInv, Opens
  PROVE  AcceptedInv'
<1>1. InstallInv'
  BY OpensKeeps DEF AcceptedInv
<1>2. /\ taken[HttpBinding] => taken'[HttpBinding]
      /\ next = HttpBinding => taken'[HttpBinding]
  BY DEF AcceptedInv, InstallInv, InstallTypeOK, Opens
<1>3. CASE next # HttpBinding
  <2>1. UNCHANGED channelVars
    BY <1>3 DEF Opens, OpensSource, channelVars
  <2> QED
    BY <1>1, <1>2, <2>1, InstallStep DEF Opens
<1>4. CASE next = HttpBinding
  <2>1. receiver = "source" /\ receiver' = "stream"
    BY <1>4 DEF AcceptedInv, ReceiverInv, Opens, OpensSource, IsInstalled
  <2>2. ReceiverInv' /\ ~Gone /\ ~Gone'
    BY <1>2, <1>4, <2>1 DEF ReceiverInv, Gone
  <2>3. UNCHANGED <<requestVars, accepted, taskVars, queue>> /\ queue' \in Seq(Requests)
    BY DEF AcceptedInv, ChannelTypeOK, Opens
  <2> QED
    BY <1>1, <2>1, <2>2, <2>3, ReceiverStep
<1> QED
  BY <1>3, <1>4

\* A source that goes with its router never had a task.
LEMMA RouterDroppedKeepsAccepted ==
  ASSUME AcceptedInv, RouterDropped
  PROVE  AcceptedInv'
<1>1. InstallInv' /\ taken'[HttpBinding]
  BY RouterDroppedKeeps DEF AcceptedInv, RouterDropped
<1>2. CASE receiver # "source"
  BY <1>1, <1>2, InstallStep DEF RouterDropped, channelVars
<1>3. CASE receiver = "source"
  <2>1. receiver' = "dropped" /\ queue' = <<>> /\ handling' = NoRequest
    BY <1>3 DEF AcceptedInv, ReceiverInv, RouterDropped, taskVars
  <2>2. ReceiverInv' /\ Gone' /\ queue' \in Seq(Requests)
    BY <1>1, <2>1 DEF ReceiverInv, Gone
  <2>3. UNCHANGED <<requestVars, accepted, taskVars>>
    BY DEF RouterDropped
  <2> QED
    BY <1>1, <2>1, <2>2, <2>3, ReceiverStep
<1> QED
  BY <1>2, <1>3

-----------------------------------------------------------------------------
(* The task and its lines *)

\* A step of the task; what of the invariant a step of each kind keeps comes
\* below.
LEMMA TaskStep ==
  ASSUME AcceptedInv, UNCHANGED <<requestVars, accepted, installVars>>,
         receiver' = receiver \/ receiver' = "panicked",
         queue' \in Seq(Requests), TaskTypeOK', ReceiverInv', WorkInv'
  PROVE  AcceptedInv'
<1>1. InstallInv'
  BY DEF AcceptedInv, InstallInv, InstallTypeOK, installVars
<1>2. WaitersInv' /\ AnswerInv'
  BY DEF AcceptedInv, WaitersInv, AnswerInv, requestVars
<1>3. ChannelTypeOK'
  BY DEF AcceptedInv, ChannelTypeOK, requestVars
<1> QED
  BY <1>1, <1>2, <1>3 DEF AcceptedInv

LEMMA InWorkIs ==
  /\ \A r : r \in InWork <=> \/ r = handling /\ r # NoRequest
                             \/ \E k \in Keys : r \in ToSet(line[k])
  /\ \A r : r \in InWork' <=> \/ r = handling' /\ r # NoRequest
                              \/ \E k \in Keys : r \in ToSet(line'[k])
BY DEF InWork

\* The first of the channel came in after all that is begun, and before all
\* that waits behind it.
LEMMA TakesKeeps ==
  ASSUME AcceptedInv, Takes
  PROVE  AcceptedInv'
<1> DEFINE h == Head(queue)
<1>1. /\ queue \in Seq(Requests) /\ queue # <<>> /\ ~Gone /\ handling = NoRequest
      /\ accepted \in Seq(Requests) /\ IsInjective(accepted)
  BY DEF AcceptedInv, ChannelTypeOK, WorkInv, OnceInv, Takes, Gone
<1>2. /\ IsInjective(queue) /\ ToSet(queue) = ToSet(accepted) \ Begun
      /\ \A q, r \in Requests : Precedes(queue, q, r) => Precedes(accepted, q, r)
      /\ \A q \in Begun, r \in ToSet(queue) : Precedes(accepted, q, r)
  BY <1>1 DEF AcceptedInv, WorkInv, QueueInv
<1>3. /\ h \in Requests /\ Tail(queue) \in Seq(Requests) /\ IsInjective(Tail(queue))
      /\ ToSet(Tail(queue)) = ToSet(queue) \ {h} /\ h \in ToSet(queue)
      /\ \A x, y : Precedes(Tail(queue), x, y) => Precedes(queue, x, y)
      /\ \A y \in ToSet(Tail(queue)) : Precedes(queue, h, y)
  BY <1>1, <1>2, Taken, TakenOnce, PrecedesTaken
<1>4. ToSet(queue) \subseteq Requests
  BY <1>1 DEF ToSet
<1>5. /\ handling' = h /\ queue' = Tail(queue) /\ accepted' = accepted /\ key' = key
      /\ line' = line /\ handled' = handled /\ abandoned' = abandoned /\ (Gone' <=> Gone)
      /\ receiver' = receiver
  BY DEF Takes, Gone
<1> HIDE DEF h
<1>6. h # NoRequest
  BY <1>3, NoRequestAssumption
<1>7. Left' = Left /\ InWork' = InWork \union {h} /\ Begun' = Begun \union {h}
  BY <1>1, <1>5, <1>6 DEF Left, InWork, Begun
<1>8. QueueInv'
  <2>1. ToSet(queue') = ToSet(accepted') \ Begun'
    BY <1>2, <1>3, <1>5, <1>7
  <2>2. \A q, r \in Requests : Precedes(queue', q, r) => Precedes(accepted', q, r)
    BY <1>2, <1>3, <1>5
  <2>3. \A q \in Begun', r \in ToSet(queue') : Precedes(accepted', q, r)
    BY <1>2, <1>3, <1>4, <1>5, <1>7
  <2> QED
    BY <1>3, <1>5, <2>1, <2>2, <2>3 DEF QueueInv
<1>9. LinesInv'
  <2>1. \A k \in Keys : ToSet(line[k]) \subseteq Begun
    BY DEF Begun, InWork
  <2>2. h \notin Begun
    BY <1>2, <1>3
  <2>3. \A q \in Begun' \ {h} : Precedes(accepted', q, h)
    BY <1>2, <1>3, <1>5, <1>7
  <2>4. \A k \in Keys : \A r \in ToSet(line[k]) : r # h
    BY <2>1, <2>2
  <2> QED
    BY <1>5, <2>3, <2>4 DEF AcceptedInv, WorkInv, LinesInv
<1>10. OnceInv'
  <2>1. h \notin Left
    BY <1>2, <1>3 DEF Begun
  <2> QED
    BY <1>2, <1>3, <1>5, <1>7, <2>1 DEF AcceptedInv, WorkInv, OnceInv
<1>11. OrderInv'
  <2>1. ASSUME NEW q \in Requests, Precedes(accepted, q, h) PROVE q \in Begun
    <3>1. q # h /\ ~Precedes(accepted, h, q) /\ q \in ToSet(accepted)
      BY <1>1, <2>1, PrecedesOnce, PrecedesIn
    <3>2. q \notin ToSet(queue)
      BY <1>2, <1>3, <1>4, <3>1
    <3> QED
      BY <1>2, <3>1, <3>2
  <2> QED
    BY <1>5, <1>7, <2>1 DEF AcceptedInv, WorkInv, OrderInv
<1>12. TaskTypeOK' /\ ReceiverInv'
  BY <1>3, <1>5 DEF AcceptedInv, TaskTypeOK, ReceiverInv, Takes, installVars, h
<1> QED
  BY <1>3, <1>5, <1>8, <1>9, <1>10, <1>11, <1>12, TaskStep DEF WorkInv, Takes

\* A request that is begun leaves: nothing of its key that came in before it is
\* still in work.
LeavesRoute(h) ==
  /\ h \in Requests /\ h \in InWork
  /\ \A q \in Requests : Precedes(accepted, q, h) /\ key[q] = key[h] => q \in Left
  /\ accepted' = accepted /\ key' = key
  /\ InWork' = InWork \ {h}
  /\ \/ handled' = Append(handled, h) /\ abandoned' = abandoned
     \/ handled' = handled /\ abandoned' = abandoned \union {h}

LEMMA LeavesKeeps ==
  ASSUME AcceptedInv, NEW h, LeavesRoute(h)
  PROVE  /\ Left' = Left \union {h} /\ Begun' = Begun
         /\ OnceInv' /\ OrderInv'
         /\ handled' \in Seq(Requests) /\ abandoned' \subseteq Requests
<1>1. /\ h \in Requests /\ h \in InWork /\ accepted' = accepted /\ key' = key
      /\ InWork' = InWork \ {h}
      /\ \A q \in Requests : Precedes(accepted, q, h) /\ key[q] = key[h] => q \in Left
  BY DEF LeavesRoute
<1>2. /\ handled \in Seq(Requests) /\ abandoned \subseteq Requests
      /\ IsInjective(handled) /\ IsInjective(accepted)
      /\ ToSet(handled) \intersect abandoned = {} /\ Left \intersect InWork = {}
      /\ Begun \subseteq ToSet(accepted) /\ accepted \in Seq(Requests)
  BY DEF AcceptedInv, ChannelTypeOK, TaskTypeOK, WorkInv, OnceInv
<1>3. h \notin Left /\ h \notin ToSet(handled) /\ h \notin abandoned
  BY <1>1, <1>2 DEF Left
<1>4. /\ handled' \in Seq(Requests) /\ abandoned' \subseteq Requests
      /\ IsInjective(handled') /\ ToSet(handled') \intersect abandoned' = {}
      /\ ToSet(handled') \union abandoned' = Left \union {h}
      /\ \A x, y : Precedes(handled', x, y) =>
                     Precedes(handled, x, y) \/ (y = h /\ x \in ToSet(handled))
  <2>1. CASE handled' = Append(handled, h) /\ abandoned' = abandoned
    <3>1. /\ handled' \in Seq(Requests) /\ IsInjective(handled')
          /\ ToSet(handled') = ToSet(handled) \union {h}
      BY <1>1, <1>2, <1>3, <2>1, Appended, AppendedNew
    <3>2. \A x, y : Precedes(handled', x, y) =>
                      Precedes(handled, x, y) \/ (y = h /\ x \in ToSet(handled))
      BY <1>1, <1>2, <2>1, PrecedesAppended
    <3> QED
      BY <1>2, <1>3, <2>1, <3>1, <3>2 DEF Left
  <2>2. CASE handled' = handled /\ abandoned' = abandoned \union {h}
    BY <1>1, <1>2, <1>3, <2>2 DEF Left
  <2> QED
    BY <2>1, <2>2 DEF LeavesRoute
<1>5. Left' = Left \union {h}
  BY <1>4 DEF Left
<1>6. Begun' = Begun
  BY <1>1, <1>5 DEF Begun
<1>7. OnceInv'
  BY <1>1, <1>2, <1>4, <1>5, <1>6 DEF OnceInv
<1>8. OrderInv'
  <2> SUFFICES ASSUME NEW q \in Requests, NEW r \in Requests, Precedes(accepted, q, r)
               PROVE  /\ r \in Begun => q \in Begun
                      /\ key[q] = key[r] /\ r \in Left' => q \in Left'
                      /\ key[q] = key[r] => ~Precedes(handled', r, q)
    BY <1>1, <1>6 DEF OrderInv
  <2>1. /\ r \in Begun => q \in Begun
        /\ key[q] = key[r] /\ r \in Left => q \in Left
        /\ key[q] = key[r] => ~Precedes(handled, r, q)
    BY DEF AcceptedInv, WorkInv, OrderInv
  <2>2. key[q] = key[r] /\ r \in Left' => q \in Left'
    BY <1>1, <1>5, <2>1
  <2>3. ASSUME key[q] = key[r], Precedes(handled', r, q) PROVE FALSE
    <3>1. q = h /\ r \in ToSet(handled)
      BY <1>4, <2>1, <2>3
    <3>2. h \in Left
      BY <2>1, <2>3, <3>1 DEF Left
    <3> QED
      BY <1>3, <3>2
  <2> QED
    BY <2>1, <2>2, <2>3
<1> QED
  BY <1>4, <1>5, <1>6, <1>7, <1>8

\* The loop's own message: all that came in before it is begun, and what of
\* that is in work has a key.
LEMMA InHandLeaves ==
  ASSUME AcceptedInv, handling # NoRequest, key[handling] = NoKey, handling' = NoRequest,
         accepted' = accepted, key' = key, line' = line,
         \/ handled' = Append(handled, handling) /\ abandoned' = abandoned
         \/ handled' = handled /\ abandoned' = abandoned \union {handling}
  PROVE  LeavesRoute(handling)
<1>1. handling \in Requests /\ handling \in InWork /\ handling \in Begun
  BY DEF AcceptedInv, TaskTypeOK, InWork, Begun
<1>2. \A k \in Keys : \A r \in ToSet(line[k]) : key[r] = k /\ r # handling
  BY DEF AcceptedInv, WorkInv, LinesInv
<1>3. InWork' = InWork \ {handling}
  BY <1>2 DEF InWork
<1>4. ASSUME NEW q \in Requests, Precedes(accepted, q, handling), key[q] = NoKey
      PROVE  q \in Left
  <2>1. q \in Begun
    BY <1>1, <1>4 DEF AcceptedInv, WorkInv, OrderInv
  <2>2. q # handling
    BY <1>4, PrecedesOnce DEF AcceptedInv, ChannelTypeOK, WorkInv, OnceInv
  <2>3. q \notin InWork
    BY <1>2, <1>4, <2>2, NoKeyAssumption DEF InWork
  <2> QED
    BY <2>1, <2>3 DEF Begun
<1> QED
  BY <1>1, <1>3, <1>4 DEF LeavesRoute

\* With nothing in hand and the lines as they were, the lines stay in order.
LEMMA LinesStay ==
  ASSUME AcceptedInv, handling' = NoRequest, accepted' = accepted, key' = key, line' = line
  PROVE  LinesInv'
<1>1. \A k \in Keys : ToSet(line[k]) \subseteq Requests
  <2>1. \A k \in Keys : line[k] \in Seq(Requests)
    BY DEF AcceptedInv, TaskTypeOK
  <2> QED
    BY <2>1 DEF ToSet
<1>2. \A k \in Keys : \A r \in ToSet(line[k]) : r # NoRequest
  BY <1>1, NoRequestAssumption
<1> QED
  BY <1>2 DEF AcceptedInv, WorkInv, LinesInv

LEMMA DoneWithKeeps ==
  ASSUME AcceptedInv, NEW ok, DoneWith(ok)
  PROVE  AcceptedInv'
<1>1. /\ handling # NoRequest /\ key[handling] = NoKey /\ handling' = NoRequest
      /\ accepted' = accepted /\ key' = key /\ line' = line
      /\ handled' = Append(handled, handling) /\ abandoned' = abandoned
      /\ queue' = queue /\ receiver' = receiver /\ (Gone' <=> Gone)
      /\ UNCHANGED <<requestVars, installVars>>
  BY DEF DoneWith, Continues, Gone
<1>2. LeavesRoute(handling)
  BY <1>1, InHandLeaves
<1>3. /\ Begun' = Begun /\ OnceInv' /\ OrderInv' /\ handled' \in Seq(Requests)
      /\ abandoned' \subseteq Requests
  BY <1>2, LeavesKeeps
<1>4. QueueInv'
  BY <1>1, <1>3 DEF AcceptedInv, WorkInv, QueueInv
<1>5. LinesInv'
  BY <1>1, LinesStay
<1>6. TaskTypeOK' /\ ReceiverInv' /\ queue' \in Seq(Requests)
  BY <1>1, <1>3 DEF AcceptedInv, ChannelTypeOK, TaskTypeOK, ReceiverInv, installVars
<1> QED
  BY <1>1, <1>3, <1>4, <1>5, <1>6, TaskStep DEF WorkInv

LEMMA PanicsKeeps ==
  ASSUME AcceptedInv, Panics
  PROVE  AcceptedInv'
<1>1. /\ handling # NoRequest /\ key[handling] = NoKey /\ handling' = NoRequest
      /\ accepted' = accepted /\ key' = key /\ line' = line
      /\ handled' = handled /\ abandoned' = abandoned \union {handling}
      /\ queue' = <<>> /\ receiver' = "panicked" /\ Gone'
      /\ UNCHANGED <<requestVars, installVars>>
  BY DEF Panics, Gone
<1>2. LeavesRoute(handling)
  BY <1>1, InHandLeaves
<1>3. /\ OnceInv' /\ OrderInv' /\ handled' \in Seq(Requests) /\ abandoned' \subseteq Requests
  BY <1>2, LeavesKeeps
<1>4. QueueInv'
  BY <1>1 DEF QueueInv
<1>5. LinesInv'
  BY <1>1, LinesStay
<1>6. receiver = "stream"
  BY <1>1 DEF AcceptedInv, ReceiverInv
<1>7. TaskTypeOK' /\ ReceiverInv' /\ queue' \in Seq(Requests)
  BY <1>1, <1>3, <1>6 DEF AcceptedInv, TaskTypeOK, ReceiverInv, installVars
<1> QED
  BY <1>1, <1>3, <1>4, <1>5, <1>7, TaskStep DEF WorkInv

\* The request that gets its key is the last that was begun: none of that key
\* that has left came in after it.
LEMMA ResolvesKeeps ==
  ASSUME AcceptedInv, NEW k \in Keys, Resolves(k)
  PROVE  AcceptedInv'
<1>1. /\ handling \in Requests /\ handling # NoRequest /\ key[handling] = NoKey
      /\ key' = [key EXCEPT ![handling] = k]
      /\ accepted' = accepted /\ handling' = handling /\ line' = line /\ queue' = queue
      /\ handled' = handled /\ abandoned' = abandoned /\ receiver' = receiver
      /\ (Gone' <=> Gone) /\ UNCHANGED <<requestVars, installVars>>
  BY DEF AcceptedInv, TaskTypeOK, Resolves, channelVars, Gone
<1>2. Left' = Left /\ InWork' = InWork /\ Begun' = Begun
  BY <1>1 DEF Left, InWork, Begun
<1>3. /\ key' \in [Requests -> Keys \union {NoKey}]
      /\ \A r \in Requests : r # handling => key'[r] = key[r]
  BY <1>1 DEF AcceptedInv, TaskTypeOK
<1>4. QueueInv' /\ OnceInv'
  BY <1>1, <1>2 DEF AcceptedInv, WorkInv, QueueInv, OnceInv
<1>5. LinesInv'
  <2>1. \A j \in Keys : \A r \in ToSet(line[j]) : key[r] = j /\ r # handling /\ r \in Requests
    <3>1. \A j \in Keys : line[j] \in Seq(Requests)
      BY DEF AcceptedInv, TaskTypeOK
    <3>2. \A j \in Keys : ToSet(line[j]) \subseteq Requests
      BY <3>1 DEF ToSet
    <3> QED
      BY <3>2 DEF AcceptedInv, WorkInv, LinesInv
  <2>2. \A j \in Keys : \A r \in ToSet(line[j]) : key'[r] = j
    BY <1>3, <2>1
  <2> QED
    BY <1>1, <1>2, <2>1, <2>2 DEF AcceptedInv, WorkInv, LinesInv
<1>6. OrderInv'
  <2>1. handling \notin Left /\ handling \notin ToSet(handled)
    <3>1. handling \in InWork
      BY <1>1 DEF InWork
    <3> QED
      BY <3>1 DEF AcceptedInv, WorkInv, OnceInv, Left
  <2>2. \A r : ~Precedes(handled, handling, r) /\ ~Precedes(handled, r, handling)
    BY <2>1, PrecedesIn
  <2>3. \A r \in Left : ~Precedes(accepted, handling, r)
    <3> SUFFICES ASSUME NEW r \in Left PROVE ~Precedes(accepted, handling, r)
      OBVIOUS
    <3>1. Precedes(accepted, r, handling)
      BY <1>1, <2>1 DEF AcceptedInv, WorkInv, LinesInv, Begun
    <3> QED
      BY <3>1, PrecedesOnce DEF AcceptedInv, ChannelTypeOK, WorkInv, OnceInv
  <2> QED
    BY <1>1, <1>2, <1>3, <2>1, <2>2, <2>3 DEF AcceptedInv, WorkInv, OrderInv
<1>7. TaskTypeOK' /\ ReceiverInv' /\ queue' \in Seq(Requests)
  BY <1>1, <1>3 DEF AcceptedInv, ChannelTypeOK, TaskTypeOK, ReceiverInv, installVars
<1> QED
  BY <1>1, <1>4, <1>5, <1>6, <1>7, TaskStep DEF WorkInv

\* What joins a line came in after all that stands in it.
LEMMA SubmitsKeeps ==
  ASSUME AcceptedInv, Submits
  PROVE  AcceptedInv'
<1> DEFINE h == handling
           k == key[handling]
<1>1. /\ h \in Requests /\ h # NoRequest /\ k \in Keys
      /\ line' = [line EXCEPT ![k] = Append(line[k], h)] /\ handling' = NoRequest
      /\ accepted' = accepted /\ key' = key /\ queue' = queue
      /\ handled' = handled /\ abandoned' = abandoned /\ receiver' = receiver
      /\ (Gone' <=> Gone) /\ UNCHANGED <<requestVars, installVars>>
  BY DEF AcceptedInv, TaskTypeOK, Submits, channelVars, Gone
<1>2. /\ line \in [Keys -> Seq(Requests)]
      /\ \A j \in Keys : /\ IsInjective(line[j])
                         /\ \A r \in ToSet(line[j]) : key[r] = j /\ r # h
                         /\ \A q, r \in Requests :
                              Precedes(line[j], q, r) => Precedes(accepted, q, r)
      /\ \A q \in Begun \ {h} : Precedes(accepted, q, h)
  BY <1>1 DEF AcceptedInv, TaskTypeOK, WorkInv, LinesInv
<1>3. key[h] = k
  OBVIOUS
<1> HIDE DEF h, k
<1>4. h = handling
  BY DEF h
<1>5. /\ line'[k] = Append(line[k], h) /\ \A j \in Keys : j # k => line'[j] = line[j]
      /\ line[k] \in Seq(Requests)
  BY <1>1, <1>2
<1>6. /\ line'[k] \in Seq(Requests) /\ IsInjective(line'[k])
      /\ ToSet(line'[k]) = ToSet(line[k]) \union {h}
      /\ \A q, r : Precedes(line'[k], q, r) =>
                     Precedes(line[k], q, r) \/ (r = h /\ q \in ToSet(line[k]))
  <2>1. h \notin ToSet(line[k])
    BY <1>1, <1>2
  <2> QED
    BY <1>1, <1>2, <1>5, <2>1, Appended, AppendedNew, PrecedesAppended
<1>7. line' \in [Keys -> Seq(Requests)]
  BY <1>1, <1>2, <1>5, <1>6
<1>8. Left' = Left /\ InWork' = InWork /\ Begun' = Begun
  <2>1. \A r : (\E j \in Keys : r \in ToSet(line'[j]))
                <=> (r = h \/ \E j \in Keys : r \in ToSet(line[j]))
    BY <1>1, <1>5, <1>6
  <2>2. \A r : r \in InWork' <=> r \in InWork
    BY <1>1, <1>4, <2>1, InWorkIs
  <2>3. InWork' = InWork
    BY <2>2
  <2> QED
    BY <1>1, <2>3 DEF Left, Begun
<1>9. QueueInv' /\ OnceInv' /\ OrderInv'
  BY <1>1, <1>8 DEF AcceptedInv, WorkInv, QueueInv, OnceInv, OrderInv
<1>10. LinesInv'
  <2> SUFFICES ASSUME NEW j \in Keys
               PROVE  /\ IsInjective(line'[j])
                      /\ \A r \in ToSet(line'[j]) : key[r] = j /\ r # NoRequest
                      /\ \A q, r \in Requests :
                           Precedes(line'[j], q, r) => Precedes(accepted, q, r)
    BY <1>1 DEF LinesInv
  <2>1. line'[j] \in Seq(Requests)
    BY <1>7
  <2>2. ToSet(line'[j]) \subseteq Requests
    BY <2>1 DEF ToSet
  <2>3. \A r \in ToSet(line'[j]) : r # NoRequest
    BY <2>2, NoRequestAssumption
  <2>4. CASE j # k
    BY <1>2, <1>5, <2>3, <2>4
  <2>5. CASE j = k
    <3>1. \A q \in ToSet(line[k]) : Precedes(accepted, q, h)
      <4>1. ToSet(line[k]) \subseteq Begun \ {h}
        BY <1>1, <1>2 DEF Begun, InWork
      <4> QED
        BY <1>2, <4>1
    <3> QED
      BY <1>1, <1>2, <1>3, <1>6, <2>3, <2>5, <3>1
  <2> QED
    BY <2>4, <2>5
<1>11. TaskTypeOK' /\ ReceiverInv' /\ queue' \in Seq(Requests)
  BY <1>1, <1>4, <1>7 DEF AcceptedInv, ChannelTypeOK, TaskTypeOK, ReceiverInv, installVars
<1> QED
  BY <1>1, <1>9, <1>10, <1>11, TaskStep DEF WorkInv

\* The first of a line leaves: of its key all else that is in work came in
\* after it.
LEMMA JobKeeps ==
  ASSUME AcceptedInv, NEW k \in Keys, JobFinishes(k) \/ JobPanics(k)
  PROVE  AcceptedInv'
<1> DEFINE h == Head(line[k])
<1>1. /\ line[k] # <<>> /\ line' = [line EXCEPT ![k] = Tail(line[k])]
      /\ accepted' = accepted /\ key' = key /\ queue' = queue /\ handling' = handling
      /\ receiver' = receiver /\ (Gone' <=> Gone) /\ UNCHANGED <<requestVars, installVars>>
      /\ \/ handled' = Append(handled, h) /\ abandoned' = abandoned
         \/ handled' = handled /\ abandoned' = abandoned \union {h}
  BY DEF JobFinishes, JobPanics, JobLeaves, channelVars, Gone
<1>2. /\ line \in [Keys -> Seq(Requests)]
      /\ \A j \in Keys : /\ IsInjective(line[j])
                         /\ \A r \in ToSet(line[j]) : key[r] = j /\ r # handling
                         /\ \A q, r \in Requests :
                              Precedes(line[j], q, r) => Precedes(accepted, q, r)
  BY DEF AcceptedInv, TaskTypeOK, WorkInv, LinesInv
<1>3. /\ h \in Requests /\ h \in ToSet(line[k]) /\ key[h] = k /\ h # handling
      /\ Tail(line[k]) \in Seq(Requests) /\ IsInjective(Tail(line[k]))
      /\ ToSet(Tail(line[k])) = ToSet(line[k]) \ {h}
      /\ \A x, y : Precedes(Tail(line[k]), x, y) => Precedes(line[k], x, y)
      /\ \A y \in ToSet(line[k]) \ {h} : Precedes(line[k], h, y)
  <2>1. line[k] \in Seq(Requests) /\ IsInjective(line[k])
    BY <1>2
  <2>2. /\ h \in Requests /\ h \in ToSet(line[k])
        /\ Tail(line[k]) \in Seq(Requests) /\ IsInjective(Tail(line[k]))
        /\ ToSet(Tail(line[k])) = ToSet(line[k]) \ {h}
    BY <1>1, <2>1, Taken, TakenOnce
  <2>3. /\ \A x, y : Precedes(Tail(line[k]), x, y) => Precedes(line[k], x, y)
        /\ \A y \in ToSet(Tail(line[k])) : Precedes(line[k], h, y)
    BY <1>1, <2>1, PrecedesTaken
  <2> QED
    BY <1>2, <2>2, <2>3
<1> HIDE DEF h
<1>4. line'[k] = Tail(line[k]) /\ \A j \in Keys : j # k => line'[j] = line[j]
  BY <1>1, <1>2
<1>5. LeavesRoute(h)
  <2>1. h \in InWork /\ h \in Begun
    BY <1>3 DEF InWork, Begun
  <2>2. InWork' = InWork \ {h}
    <3>1. \A j \in Keys : j # k => h \notin ToSet(line[j])
      BY <1>2, <1>3
    <3>2. \A j \in Keys : ToSet(line'[j]) = ToSet(line[j]) \ {h}
      <4> SUFFICES ASSUME NEW j \in Keys PROVE ToSet(line'[j]) = ToSet(line[j]) \ {h}
        OBVIOUS
      <4>1. CASE j = k
        BY <1>3, <1>4, <4>1
      <4>2. CASE j # k
        BY <1>4, <3>1, <4>2
      <4> QED
        BY <4>1, <4>2
    <3>3. \A r : r \in InWork' <=> r \in InWork /\ r # h
      <4> SUFFICES ASSUME NEW r PROVE r \in InWork' <=> r \in InWork /\ r # h
        OBVIOUS
      <4>1. (\E j \in Keys : r \in ToSet(line'[j]))
              <=> (r # h /\ \E j \in Keys : r \in ToSet(line[j]))
        BY <3>2
      <4>2. r = handling => r # h
        BY <1>3
      <4>3. r \in InWork' <=> \/ r = handling /\ r # NoRequest
                              \/ \E j \in Keys : r \in ToSet(line'[j])
        BY <1>1, InWorkIs
      <4> QED
        BY <4>1, <4>2, <4>3, InWorkIs
    <3> QED
      BY <3>3
  <2>3. ASSUME NEW q \in Requests, Precedes(accepted, q, h), key[q] = key[h]
        PROVE  q \in Left
    <3>1. q # h /\ ~Precedes(accepted, h, q)
      BY <2>3, PrecedesOnce DEF AcceptedInv, ChannelTypeOK, WorkInv, OnceInv
    <3>2. q \in Begun
      BY <1>3, <2>1, <2>3 DEF AcceptedInv, WorkInv, OrderInv
    <3>3. q # handling
      <4>1. handling # NoRequest => Precedes(accepted, h, handling)
        BY <1>3, <2>1 DEF AcceptedInv, WorkInv, LinesInv
      <4> QED
        BY <3>1, <4>1, NoRequestAssumption
    <3>4. \A j \in Keys : q \notin ToSet(line[j])
      BY <1>2, <1>3, <2>3, <3>1
    <3> QED
      BY <3>2, <3>3, <3>4 DEF Begun, InWork
  <2> QED
    BY <1>1, <1>3, <2>1, <2>2, <2>3 DEF LeavesRoute
<1>6. /\ Begun' = Begun /\ OnceInv' /\ OrderInv' /\ handled' \in Seq(Requests)
      /\ abandoned' \subseteq Requests
  BY <1>5, LeavesKeeps
<1>7. QueueInv'
  BY <1>1, <1>6 DEF AcceptedInv, WorkInv, QueueInv
<1>8. LinesInv'
  <2>1. ASSUME NEW j \in Keys
        PROVE  /\ IsInjective(line'[j])
               /\ \A r \in ToSet(line'[j]) : key[r] = j /\ r # handling
               /\ \A q, r \in Requests : Precedes(line'[j], q, r) => Precedes(accepted, q, r)
    <3>1. CASE j = k
      <4>1. line'[j] = Tail(line[k])
        BY <1>4, <3>1
      <4> QED
        BY <1>2, <1>3, <3>1, <4>1
    <3>2. CASE j # k
      BY <1>2, <1>4, <3>2
    <3> QED
      BY <3>1, <3>2
  <2> QED
    BY <1>1, <1>6, <2>1 DEF AcceptedInv, WorkInv, LinesInv
<1>9. line' \in [Keys -> Seq(Requests)]
  BY <1>1, <1>2, <1>3
<1>10. TaskTypeOK' /\ ReceiverInv' /\ queue' \in Seq(Requests)
  BY <1>1, <1>6, <1>9 DEF AcceptedInv, ChannelTypeOK, TaskTypeOK, ReceiverInv, installVars
<1> QED
  BY <1>1, <1>6, <1>7, <1>8, <1>10, TaskStep DEF WorkInv

LEMMA AcceptedInvStep == AcceptedInv /\ [Next]_vars => AcceptedInv'
<1> SUFFICES ASSUME AcceptedInv, [Next]_vars PROVE AcceptedInv'
  OBVIOUS
<1>1. ASSUME NEW r \in Requests,
             \/ Connects(r) \/ BodyFails(r) \/ BodyRead(r)
             \/ Enqueues(r) \/ SendFails(r) \/ Disconnects(r)
      PROVE  AcceptedInv'
  BY <1>1, ConnectsKeeps, BodyFailsKeeps, BodyReadKeeps, EnqueuesKeeps, SendFailsKeeps,
     DisconnectsKeeps
<1>2. ASSUME Grant \/ InstallCalled \/ OpenFails \/ Opens \/ RouterDropped
      PROVE  AcceptedInv'
  BY <1>2, GrantKeeps, InstallCalledKeepsAccepted, OpenFailsKeepsAccepted, OpensKeepsAccepted,
     RouterDroppedKeepsAccepted
<1>3. ASSUME Finishes \/ Unresolved
      PROVE  AcceptedInv'
  BY <1>3, DoneWithKeeps DEF Finishes, Unresolved
<1>4. ASSUME Takes \/ Submits \/ Panics
      PROVE  AcceptedInv'
  BY <1>4, TakesKeeps, SubmitsKeeps, PanicsKeeps
<1>5. ASSUME NEW k \in Keys, Resolves(k) \/ JobFinishes(k) \/ JobPanics(k)
      PROVE  AcceptedInv'
  BY <1>5, ResolvesKeeps, JobKeeps
<1>6. ASSUME UNCHANGED vars
      PROVE  AcceptedInv'
  <2>1. UNCHANGED <<requestVars, channelVars, installVars, taskVars>>
    BY <1>6 DEF vars
  <2>2. InstallInv'
    BY <2>1 DEF AcceptedInv, InstallInv, InstallTypeOK, installVars
  <2>3. taken' = taken
    BY <2>1 DEF installVars
  <2> QED
    BY <2>1, <2>2, <2>3, InstallStep
<1> QED
  BY <1>1, <1>2, <1>3, <1>4, <1>5, <1>6 DEF Next

\* The invariant of the channel, the loop and the lines holds of every run.
THEOREM AcceptedInvariance == Spec => []AcceptedInv
<1> QED
  BY AcceptedInvInit, AcceptedInvStep, PTL DEF Spec

\* For any clients, capacities, bindings, installs and partition keys: 202 is
\* told to exactly the clients whose request entered the channel, what entered
\* it is worked on once, and is there unless a panic or the loss of the receiver
\* took it; requests of one key, on an unpartitioned route all of them, leave in
\* the order they came in (http/adapter.rs:202-242, router/core.rs:640-702).
THEOREM AcceptedKept == Spec => []AcceptedIsKept
<1>1. ASSUME AcceptedInv PROVE AcceptedIsKept
  <2>1. \A s, q, r : InOrder(s, q, r) <=> Precedes(s, q, r)
    BY DEF InOrder, Precedes
  <2>2. \A r \in Requests : answer[r] = "202" <=> r \in ToSet(accepted)
    BY <1>1 DEF AcceptedInv, AnswerInv
  <2>3. ~Gone => ToSet(queue) = ToSet(accepted) \ Begun
    BY <1>1 DEF AcceptedInv, WorkInv, QueueInv
  <2>4. OnceInv /\ OrderInv
    BY <1>1 DEF AcceptedInv, WorkInv
  <2> QED
    BY <2>1, <2>2, <2>3, <2>4 DEF OnceInv, OrderInv, Begun, AcceptedIsKept
<1> QED
  BY <1>1, AcceptedInvariance, PTL

-----------------------------------------------------------------------------
(* Flow: the inductive invariant.  A property of a message is an invariant  *)
(* of every frame on a transport and of what a route holds, which is what   *)
(* its source has made of such a frame.                                     *)

\* Of a header there is at most the spelling that the code writes.
OneSpelling(h, base) == Variants(h, base) \subseteq {Exact(base)}

\* No spelling of the ID's header holds another ID.
HasId(h, id) == \A name \in Variants(h, "id") : h[name] = id
FrameHasId(f, id) == IF f.native.id # NoId THEN f.native.id = id ELSE HasId(f.headers, id)

\* Where there is a label it tells the format, in every spelling of it.
Named(h, type) == Variants(h, "type") # {} /\ \A name \in Variants(h, "type") : h[name] = type
Label(f, type) ==
  /\ f.transport \in {"nats", "http"} => Named(f.headers, type)
  /\ f.transport = "rabbit" /\ f.native.type = NoType => Named(f.headers, type)
  /\ f.transport = "rabbit" /\ f.native.type # NoType => f.native.type = type
  /\ f.transport = "outbox" => f.native.type = type

WriterOf(f) == config.default[IF f.subject = "in" THEN "caller" ELSE "route"]
LabelInv(f) == f.payload.value # Value("page") =>
                 f.payload.format = WriterOf(f) /\ Label(f, WriterOf(f))

\* IDs that differ only in the spelling of their header are what
\* StableLogicalId is about; a message may start without an ID.
HasOneId == Forms = {"exact"} /\ origin.id # NoId

\* Which transport a frame is on, and whether an AMQP property is there.
PlaceInv(f) ==
  /\ f.subject \in {"in", "mid", "errors", "reply"}
  /\ f.subject \in {"in", "reply"} => f.transport = config.in
  /\ f.subject = "reply" => config.in \in Brokers
  /\ f.subject \in {"mid", "errors"} => f.transport \in {config.out, "http"}
  /\ f.transport \notin {"rabbit", "outbox"} => f.native.id = NoId
  /\ f.transport = "outbox" => f.native.id # NoId

\* What the first route reads comes from the origin; of its correlation there
\* is one spelling.
OriginInv(f) == f.subject = "in" =>
  /\ f.payload.value = Value("input")
  /\ OneSpelling(f.headers, "corr")
  /\ Correlation(f.headers) = origin.corr

IdInv(f) ==
  /\ Forms = {"exact"} => OneSpelling(f.headers, "id")
  /\ HasOneId => /\ FrameHasId(f, origin.id)
                 /\ f.transport = "outbox" => HasId(f.headers, origin.id)
                 /\ Carries(f) \/ (f.transport \in {"nng", "http"} /\ f.subject # "in")

\* What came of the request: its values, and what a failure says of it.
ResultOf(value) ==
  /\ value \in {Value("output"), Value("page")} \/ value.is = "failure"
  /\ value = Value("page") => config.to = "http"
  /\ value.is = "failure" =>
       /\ HasOneId => value.original.id = origin.id
       /\ Correlation(value.original.headers) = origin.corr
ResultInv(f) == f.subject # "in" => ResultOf(f.payload.value)

ReplyInv(f) == f.subject = "reply" =>
  /\ f.payload.value # Value("output") <=> Exact("failure") \in DOMAIN f.headers
  /\ Correlation(f.headers) = origin.corr

FrameInv(f) == /\ PlaceInv(f) /\ LabelInv(f) /\ OriginInv(f) /\ IdInv(f)
               /\ ResultInv(f) /\ ReplyInv(f)

\* A route has what its source made of such a frame.
HeldInv == held # Nothing =>
  /\ FrameInv(held.frame) /\ held.frame.subject # "reply"
  /\ \E r \in Received(held.frame, Minted[held.frame.subject]) : held = RouteMessage(held.frame, r)

StartInv == /\ config \in Config /\ Agree(config)
            /\ origin = Nothing => network = {} /\ held = Nothing /\ returned = "none"

JourneyInv == /\ StartInv
              /\ \A f \in network : FrameInv(f)
              /\ HeldInv
              /\ returned = "transport" => config.to = "http"

-----------------------------------------------------------------------------
(* Maps of headers.  What the properties look at are the spellings of one   *)
(* name, and an operation that is about another name keeps them.            *)

Kept(h, g, base) == /\ Variants(g, base) = Variants(h, base)
                    /\ \A name \in Variants(h, base) : g[name] = h[name]

LEMMA KeptAgain ==
  ASSUME NEW h, NEW g, NEW k, NEW base, Kept(h, g, base), Kept(g, k, base)
  PROVE  Kept(h, k, base)
BY DEF Kept

LEMMA KeptFacts ==
  ASSUME NEW h, NEW g
  PROVE  /\ \A id : Kept(h, g, "id") => (HasId(h, id) <=> HasId(g, id))
         /\ \A type : Kept(h, g, "type") => (Named(h, type) <=> Named(g, type))
         /\ Kept(h, g, "corr") => Correlation(h) = Correlation(g)
         /\ Kept(h, g, "failure") => (Exact("failure") \in DOMAIN h <=> Exact("failure") \in DOMAIN g)
<1>1. \A base : Exact(base)[1] = base
  BY DEF Exact
<1>2. \A base, k : Exact(base) \in DOMAIN k <=> Exact(base) \in Variants(k, base)
  BY <1>1 DEF Variants
<1>3. Kept(h, g, "corr") => Correlation(h) = Correlation(g)
  BY <1>2 DEF Kept, Correlation
<1>4. Kept(h, g, "failure") => (Exact("failure") \in DOMAIN h <=> Exact("failure") \in DOMAIN g)
  BY <1>2 DEF Kept
<1> QED
  BY <1>3, <1>4 DEF Kept, HasId, Named

LEMMA PutKeeps ==
  ASSUME NEW h, NEW base, NEW value, NEW other, other # base
  PROVE  Kept(h, Put(h, base, value), other)
BY DEF Kept, Put, Extended, Variants, Exact

LEMMA PutPuts ==
  ASSUME NEW h, NEW base, NEW value
  PROVE  /\ Exact(base) \in DOMAIN Put(h, base, value)
         /\ Put(h, base, value)[Exact(base)] = value
         /\ Variants(Put(h, base, value), base) = Variants(h, base) \union {Exact(base)}
         /\ \A name \in Variants(h, base) : name # Exact(base) => Put(h, base, value)[name] = h[name]
BY DEF Put, Extended, Variants, Exact

LEMMA RetainKeeps ==
  ASSUME NEW h, NEW base, NEW other, other # base
  PROVE  Kept(h, Retain(h, base), other)
BY DEF Kept, Retain, Restrict, Variants

LEMMA RetainDrops == ASSUME NEW h, NEW base PROVE Variants(Retain(h, base), base) = {}
BY DEF Retain, Restrict, Variants

LEMMA WithoutKeeps ==
  ASSUME NEW h, NEW base, NEW other, other # base
  PROVE  Kept(h, Without(h, base), other) /\ Exact(base) \notin DOMAIN Without(h, base)
BY DEF Kept, Without, Restrict, Variants, Exact

LEMMA LabelIsSet ==
  ASSUME NEW h, NEW type
  PROVE  /\ Named(SetContentType(h, type), type) /\ Exact("type") \in DOMAIN SetContentType(h, type)
         /\ \A other : other # "type" => Kept(h, SetContentType(h, type), other)
<1> DEFINE bare == Retain(h, "type")
<1>1. Variants(bare, "type") = {}
  BY RetainDrops
<1>2. Named(Put(bare, "type", type), type) /\ Exact("type") \in DOMAIN Put(bare, "type", type)
  BY <1>1, PutPuts DEF Named
<1>3. ASSUME NEW other, other # "type" PROVE Kept(h, Put(bare, "type", type), other)
  <2>1. Kept(h, bare, other) /\ Kept(bare, Put(bare, "type", type), other)
    BY <1>3, RetainKeeps, PutKeeps
  <2> QED
    BY <2>1, KeptAgain
<1> QED
  BY <1>2, <1>3 DEF SetContentType

LEMMA LowerCase ==
  ASSUME NEW h, NEW l \in Lowercased(h), NEW base
  PROVE  /\ Variants(l, base) = IF Variants(h, base) = {} THEN {} ELSE {Exact(base)}
         /\ \A name \in Variants(l, base) : \E other \in Variants(h, base) : l[name] = h[other]
<1>1. PICK choice \in [{n[1] : n \in DOMAIN h} -> DOMAIN h] :
        /\ \A b \in DOMAIN choice : choice[b][1] = b
        /\ l = [name \in {Exact(n[1]) : n \in DOMAIN h} |-> h[choice[name[1]]]]
  BY DEF Lowercased
<1>2. \A b : Exact(b)[1] = b
  BY DEF Exact
<1>3. \A name \in DOMAIN l : \E n \in DOMAIN h : name = Exact(n[1]) /\ name[1] = n[1]
  BY <1>1, <1>2
<1>4. \A n \in DOMAIN h : Exact(n[1]) \in DOMAIN l
  BY <1>1
<1>5. Variants(l, base) = IF Variants(h, base) = {} THEN {} ELSE {Exact(base)}
  BY <1>2, <1>3, <1>4 DEF Variants
<1>6. ASSUME NEW name \in Variants(l, base)
      PROVE  \E other \in Variants(h, base) : l[name] = h[other]
  <2>1. PICK n \in DOMAIN h : name = Exact(n[1]) /\ n[1] = base
    BY <1>3, <1>6 DEF Variants
  <2>2. base \in DOMAIN choice /\ choice[base] \in DOMAIN h /\ choice[base][1] = base
    BY <1>1, <2>1
  <2>3. name[1] = base /\ name \in {Exact(m[1]) : m \in DOMAIN h}
    BY <1>2, <2>1
  <2>4. l[name] = h[choice[base]]
    BY <1>1, <2>3
  <2> QED
    BY <2>2, <2>4 DEF Variants
<1> QED
  BY <1>5, <1>6

LEMMA LowerCaseKeeps ==
  ASSUME NEW h, NEW l \in Lowercased(h)
  PROVE  /\ \A id : HasId(h, id) => HasId(l, id)
         /\ \A type : Named(h, type) => Named(l, type)
         /\ Variants(h, "id") # {} => Variants(l, "id") # {}
         /\ \A base : OneSpelling(l, base)
         /\ OneSpelling(h, "corr") => Correlation(l) = Correlation(h)
<1>1. \A id : HasId(h, id) => HasId(l, id)
  BY LowerCase DEF HasId
<1>2. \A type : Named(h, type) => Named(l, type)
  BY LowerCase DEF Named
<1>3. Variants(h, "id") # {} => Variants(l, "id") # {}
  BY LowerCase
<1>4. ASSUME OneSpelling(h, "corr")
      PROVE  Kept(h, l, "corr")
  BY <1>4, LowerCase DEF Kept, OneSpelling
<1>5. \A base : OneSpelling(l, base)
  BY LowerCase DEF OneSpelling
<1> QED
  BY <1>1, <1>2, <1>3, <1>4, <1>5, KeptFacts

-----------------------------------------------------------------------------
(* Sending *)

LEMMA FrameFields ==
  ASSUME NEW t, NEW h, NEW p, NEW native
  PROVE  LET f == FrameOf(t, h, p, native)
         IN /\ f.transport = t /\ f.headers = h /\ f.payload = p /\ f.native = native
            /\ f # SendError
BY DEF FrameOf, SendError

\* An ID that is found is the message's; a message without gets the new one.
LEMMA EnsuresId ==
  ASSUME NEW h, NEW minted, NEW e \in EnsureMessageId(h, minted)
  PROVE  /\ Exact("id") \in DOMAIN e.headers /\ e.headers[Exact("id")] = e.id
         /\ OneSpelling(h, "id") => OneSpelling(e.headers, "id")
         /\ \A other : other # "id" => Kept(h, e.headers, other)
         /\ \A id : id # NoId /\ HasId(h, id) /\ (Variants(h, "id") # {} \/ minted = id)
                    => e.id = id /\ HasId(e.headers, id)
<1>1. PICK found \in MessageIdFromHeaders(h) :
        e = IF found = NoId THEN Envelope(minted, Put(h, "id", minted))
            ELSE Envelope(found, Put(Retain(h, "id"), "id", found))
  BY DEF EnsureMessageId
<1>2. CASE found = NoId
  <2>1. e.id = minted /\ e.headers = Put(h, "id", minted)
    BY <1>1, <1>2 DEF Envelope
  <2>2. ASSUME NEW id, id # NoId, HasId(h, id), Variants(h, "id") # {} \/ minted = id
        PROVE  e.id = id /\ HasId(e.headers, id)
    <3>1. Variants(h, "id") = {} /\ minted = id
      BY <1>2, <2>2 DEF HasId, MessageIdFromHeaders
    <3> QED
      BY <2>1, <3>1, PutPuts DEF HasId
  <2>3. OneSpelling(h, "id") => OneSpelling(e.headers, "id")
    BY <2>1, PutPuts DEF OneSpelling
  <2> QED
    BY <2>1, <2>2, <2>3, PutPuts, PutKeeps
<1>3. CASE found # NoId
  <2> DEFINE bare == Retain(h, "id")
  <2>1. e.id = found /\ e.headers = Put(bare, "id", found)
    BY <1>1, <1>3 DEF Envelope
  <2>2. \E name \in Variants(h, "id") : found = h[name]
    BY <1>3 DEF MessageIdFromHeaders
  <2>3. \A id : HasId(h, id) => found = id
    BY <2>2 DEF HasId
  <2>4. Variants(bare, "id") = {}
    BY RetainDrops
  <2>5. HasId(e.headers, found)
    BY <2>1, <2>4, PutPuts DEF HasId
  <2>8. OneSpelling(e.headers, "id")
    BY <2>1, <2>4, PutPuts DEF OneSpelling
  <2>6. ASSUME NEW other, other # "id" PROVE Kept(h, Put(bare, "id", found), other)
    <3>1. Kept(h, bare, other) /\ Kept(bare, Put(bare, "id", found), other)
      BY <2>6, RetainKeeps, PutKeeps
    <3> QED
      BY <3>1, KeptAgain
  <2>7. /\ Exact("id") \in DOMAIN Put(bare, "id", found)
        /\ Put(bare, "id", found)[Exact("id")] = found
    BY PutPuts
  <2> QED
    BY <2>1, <2>3, <2>5, <2>6, <2>7, <2>8
<1> QED
  BY <1>2, <1>3

LEMMA NamedType ==
  ASSUME NEW h, NEW type
  PROVE  Named(h, type) => ContentTypes(h) = {Plain(type)}
<1> SUFFICES ASSUME Named(h, type) PROVE ContentTypes(h) = {Plain(type)}
  OBVIOUS
<1> QED
  BY DEF Named, ContentTypes

\* What a frame on t that was made of h and p has kept of them.
Conveys(f, t, h, p) ==
  /\ f # SendError
  /\ f.transport = t /\ f.payload = p
  /\ OneSpelling(h, "id") => OneSpelling(f.headers, "id")
  /\ \A other : other # "id" => Kept(h, f.headers, other)
  /\ t # "rabbit" => f.native.id = NoId
  /\ \A type : type # NoType /\ Named(h, type) /\ t \in {"nats", "rabbit"} => Label(f, type)

LEMMA BytesConvey ==
  ASSUME NEW t \in Brokers, NEW h, NEW p, NEW minted,
         NEW f \in PublishBytes(t, h, p, minted) \ {SendError}
  PROVE  /\ Conveys(f, t, h, p)
         /\ t = "rabbit" \/ Variants(h, "id") # {} => Carries(f)
         /\ \A id : id # NoId /\ HasId(h, id) /\ (t # "rabbit" \/ Variants(h, "id") # {} \/ minted = id)
                    => FrameHasId(f, id) /\ (t = "rabbit" => f.native.id # NoId)
<1>1. CASE t # "rabbit"
  <2>1. f = FrameOf(t, h, p, NotAmqp)
    BY <1>1 DEF PublishBytes, Brokers
  <2>2. /\ f.transport = t /\ f.headers = h /\ f.payload = p /\ f.native.id = NoId
        /\ f # SendError
    BY <2>1, FrameFields DEF NotAmqp
  <2>3. Conveys(f, t, h, p)
    <3>1. \A other : Kept(h, h, other)
      BY DEF Kept
    <3>2. \A type : Named(h, type) => Label(f, type)
      <4>1. f.transport \in {"nats", "nng", "redis"}
        BY <1>1, <2>2 DEF Brokers
      <4> QED
        BY <2>2, <4>1 DEF Label
    <3> QED
      BY <2>2, <3>1, <3>2 DEF Conveys
  <2> QED
    BY <1>1, <2>2, <2>3 DEF Carries, FrameHasId
<1>2. CASE t = "rabbit"
  <2>1. PICK e \in EnsureMessageId(h, minted) :
          \E native \in HeadersToProperties(e.headers) : f = FrameOf(t, e.headers, p, native)
    BY <1>2 DEF PublishBytes
  <2>2. PICK name \in ContentTypes(e.headers), id \in MessageIdFromHeaders(e.headers) :
          f = FrameOf(t, e.headers, p, [type |-> name.type, id |-> id])
    BY <2>1 DEF HeadersToProperties
  <2>3. /\ f.transport = t /\ f.headers = e.headers /\ f.payload = p
        /\ f.native.type = name.type /\ f.native.id = id /\ f # SendError
    BY <2>2, FrameFields
  <2>4. /\ Exact("id") \in DOMAIN e.headers
        /\ OneSpelling(h, "id") => OneSpelling(e.headers, "id")
        /\ \A other : other # "id" => Kept(h, e.headers, other)
        /\ \A i : i # NoId /\ HasId(h, i) /\ (Variants(h, "id") # {} \/ minted = i)
                    => e.id = i /\ HasId(e.headers, i)
    BY EnsuresId
  <2>5. Variants(e.headers, "id") # {}
    BY <2>4 DEF Variants, Exact
  <2>6. \A i : HasId(e.headers, i) => id = i
    BY <2>5 DEF MessageIdFromHeaders, HasId
  <2>7. ASSUME NEW type, type # NoType, Named(h, type) PROVE Label(f, type)
    <3>1. Named(e.headers, type)
      BY <2>4, <2>7, KeptFacts
    <3>2. name = Plain(type)
      BY <3>1, NamedType
    <3>3. f.native.type = type
      BY <2>3, <3>2 DEF Plain
    <3> QED
      BY <1>2, <2>3, <2>7, <3>3 DEF Label
  <2>8. Conveys(f, t, h, p)
    BY <1>2, <2>3, <2>4, <2>7 DEF Conveys
  <2>9. Carries(f)
    BY <2>3, <2>5 DEF Carries
  <2>10. ASSUME NEW i, i # NoId, HasId(h, i), Variants(h, "id") # {} \/ minted = i
         PROVE  f.native.id = i
    BY <2>3, <2>4, <2>6, <2>10
  <2> QED
    BY <1>2, <2>8, <2>9, <2>10 DEF FrameHasId
<1> QED
  BY <1>1, <1>2

-----------------------------------------------------------------------------
(* Endpoints with the built-in codecs *)

LEMMA BuiltInSelects ==
  ASSUME NEW d \in {"json", "cbor"}
  PROVE  Registered(Default.codecs, Plain(d)) /\ Selected(Default.codecs, Plain(d)) = CodecOf(d, d)
<1> DEFINE codecs == Default.codecs
           matching == {i \in 1..Len(codecs) : Matches(codecs[i].type, Plain(d))}
           at == IF d = "json" THEN 3 ELSE 2
<1>1. codecs = <<CodecOf("msgpack", "msgpack"), CodecOf("cbor", "cbor"), CodecOf("json", "json")>>
  BY DEF Default, JsonCodec, CborCodec, MsgPackCodec
<1>2. /\ DOMAIN codecs = 1..3 /\ Len(codecs) = 3 /\ codecs[1] = CodecOf("msgpack", "msgpack")
      /\ codecs[2] = CodecOf("cbor", "cbor") /\ codecs[3] = CodecOf("json", "json")
  BY <1>1
<1>3. \A type : Matches(type, Plain(d)) <=> type = d
  BY DEF Matches, MediaType, Plain
<1>4. matching = {at} /\ codecs[at] = CodecOf(d, d) /\ at \in 1..3
  BY <1>2, <1>3 DEF CodecOf
<1>5. Registered(codecs, Plain(d))
  BY <1>4 DEF Registered
<1>6. Selected(codecs, Plain(d)) = codecs[Min(matching)]
  BY <1>4 DEF Selected, SelectInSeq
<1>7. Min(matching) = at
  BY <1>4 DEF Min
<1> QED
  BY <1>4, <1>5, <1>6, <1>7

LEMMA EndpointFacts ==
  ASSUME NEW d \in {"json", "cbor"}
  PROVE  LET e == WithDefaultContentType(Default, Plain(d))
         IN /\ ContentType(e) = d
            /\ \A value : Encode(e, value) = [format |-> d, value |-> value]
            /\ \A bytes : bytes.format = d => DecodeWithContentType(e, bytes, NoName) = bytes.value
            /\ \A type \in {"json", "cbor"} : \A bytes :
                 bytes.format = type => DecodeWithContentType(e, bytes, Plain(type)) = bytes.value
<1> DEFINE e == WithDefaultContentType(Default, Plain(d))
<1>1. CanonicalType(Default.codecs, Plain(d)) = d
  BY BuiltInSelects DEF CanonicalType, CodecOf
<1>2. e.codecs = Default.codecs /\ e.default = d
  BY <1>1 DEF WithDefaultContentType, NoType, Default
<1>3. \A value : Encode(e, value) = [format |-> d, value |-> value]
  BY <1>2, BuiltInSelects DEF Encode, EncodeSelected, EncodeWith, CodecOf
<1>4. ASSUME NEW type \in {"json", "cbor"}, NEW bytes, bytes.format = type
      PROVE  DecodeSelected(e.codecs, Plain(type), bytes) = bytes.value
  BY <1>2, <1>4, BuiltInSelects DEF DecodeSelected, DecodeWith, CodecOf
<1>5. \A type \in {"json", "cbor"} : Plain(type) # NoName
  BY DEF Plain, NoName, NoType
<1> QED
  BY <1>2, <1>3, <1>4, <1>5 DEF ContentType, DecodeWithContentType, Decode

-----------------------------------------------------------------------------
(* dispatch_raw and publish *)

LEMMA ConveysAgain ==
  ASSUME NEW f, NEW t, NEW h, NEW g, NEW p, Conveys(f, t, g, p),
         OneSpelling(h, "id") => OneSpelling(g, "id"),
         \A other : other # "id" => Kept(h, g, other)
  PROVE  Conveys(f, t, h, p)
<1>1. \A other : other # "id" => Kept(h, f.headers, other)
  BY KeptAgain DEF Conveys
<1>2. Kept(h, g, "type")
  OBVIOUS
<1>3. \A type : Named(h, type) => Named(g, type)
  BY <1>2, KeptFacts
<1> QED
  BY <1>1, <1>3 DEF Conveys

\* The IDs that dispatch_raw, told id, lets a frame have.
Conducts(t, h, id, i) ==
  i # NoId /\ IF t = "nng" THEN HasId(h, i) ELSE i = id /\ (HasId(h, i) \/ OneSpelling(h, "id"))

LEMMA DispatchConveys ==
  ASSUME NEW t \in Brokers, NEW h, NEW id, NEW p, NEW minted,
         NEW f \in DispatchRaw(t, h, id, p, minted) \ {SendError}
  PROVE  /\ Conveys(f, t, h, p)
         /\ t # "nng" \/ Variants(h, "id") # {} => Carries(f)
         /\ \A i : Conducts(t, h, id, i) => FrameHasId(f, i) /\ (t = "rabbit" => f.native.id # NoId)
<1> DEFINE g == IF t = "nng" THEN h ELSE Put(h, "id", id)
<1>1. f \in PublishBytes(t, g, p, minted) \ {SendError}
  BY DEF DispatchRaw
<1>2. \A other : other # "id" => Kept(h, g, other)
  BY PutKeeps DEF Kept
<1>3. /\ t # "nng" => Variants(g, "id") # {}
      /\ t # "nng" /\ (HasId(h, id) \/ OneSpelling(h, "id")) => HasId(g, id)
      /\ OneSpelling(h, "id") => OneSpelling(g, "id")
      /\ t = "nng" => g = h
  BY PutPuts DEF HasId, OneSpelling
<1> HIDE DEF g
<1>4. /\ Conveys(f, t, g, p)
      /\ t = "rabbit" \/ Variants(g, "id") # {} => Carries(f)
      /\ \A i : i # NoId /\ HasId(g, i) /\ (t # "rabbit" \/ Variants(g, "id") # {} \/ minted = i)
           => FrameHasId(f, i) /\ (t = "rabbit" => f.native.id # NoId)
  BY <1>1, BytesConvey
<1>5. Conveys(f, t, h, p)
  BY <1>2, <1>3, <1>4, ConveysAgain
<1>6. ASSUME NEW i, Conducts(t, h, id, i)
      PROVE  i # NoId /\ HasId(g, i) /\ (t # "rabbit" \/ Variants(g, "id") # {})
  BY <1>3, <1>6 DEF Conducts
<1>7. ASSUME NEW i, Conducts(t, h, id, i)
      PROVE  FrameHasId(f, i) /\ (t = "rabbit" => f.native.id # NoId)
  BY <1>4, <1>6, <1>7
<1>8. t # "nng" \/ Variants(h, "id") # {} => Carries(f)
  BY <1>3, <1>4
<1> QED
  BY <1>5, <1>7, <1>8

IsPublished(f, t, h, endpoint, value, minted) ==
  /\ f.transport = t /\ f.payload = Encode(endpoint, value)
  /\ OneSpelling(h, "id") => OneSpelling(f.headers, "id")
  /\ \A other : other \notin {"id", "type"} => Kept(h, f.headers, other)
  /\ t # "rabbit" => f.native.id = NoId
  /\ Label(f, ContentType(endpoint))
  /\ Carries(f)
  /\ \A id : id # NoId /\ HasId(h, id) /\ (Variants(h, "id") # {} \/ minted = id) => FrameHasId(f, id)

LEMMA PublishConveys ==
  ASSUME NEW t \in Brokers, NEW h, NEW endpoint, NEW value, NEW minted,
         ContentType(endpoint) # NoType,
         NEW f \in Publish(t, h, endpoint, value, minted) \ {SendError}
  PROVE  IsPublished(f, t, h, endpoint, value, minted)
<1> DEFINE type == ContentType(endpoint)
<1>1. PICK e \in EnsureMessageId(h, minted) :
        f \in PublishBytes(t, IF SupportsContentTypeHeaders(t) THEN SetContentType(e.headers, type)
                              ELSE e.headers, Encode(endpoint, value), minted)
  BY DEF Publish
<1> DEFINE g == IF SupportsContentTypeHeaders(t) THEN SetContentType(e.headers, type) ELSE e.headers
<1>2. /\ Exact("id") \in DOMAIN e.headers
      /\ OneSpelling(h, "id") => OneSpelling(e.headers, "id")
      /\ \A other : other # "id" => Kept(h, e.headers, other)
      /\ \A id : id # NoId /\ HasId(h, id) /\ (Variants(h, "id") # {} \/ minted = id)
                    => e.id = id /\ HasId(e.headers, id)
  BY EnsuresId
<1>3. \A other : other # "type" => Kept(e.headers, g, other)
  BY LabelIsSet DEF Kept
<1>4. SupportsContentTypeHeaders(t) => Named(g, type)
  BY LabelIsSet
<1> HIDE DEF g
<1>5. /\ Conveys(f, t, g, Encode(endpoint, value))
      /\ t = "rabbit" \/ Variants(g, "id") # {} => Carries(f)
      /\ \A id : id # NoId /\ HasId(g, id) /\ (t # "rabbit" \/ Variants(g, "id") # {} \/ minted = id)
           => FrameHasId(f, id) /\ (t = "rabbit" => f.native.id # NoId)
  <2>1. f \in PublishBytes(t, g, Encode(endpoint, value), minted) \ {SendError}
    BY <1>1 DEF g
  <2> QED
    BY <2>1, BytesConvey
<1>6. Variants(g, "id") # {}
  <2>1. Kept(e.headers, g, "id")
    BY <1>3
  <2> QED
    BY <1>2, <2>1 DEF Kept, Variants, Exact
<1>7. /\ \A id : HasId(e.headers, id) => HasId(g, id)
      /\ OneSpelling(h, "id") => OneSpelling(g, "id")
  <2>1. Kept(e.headers, g, "id")
    BY <1>3
  <2> QED
    BY <1>2, <2>1, KeptFacts DEF Kept, OneSpelling
<1>8. ASSUME NEW other, other \notin {"id", "type"} PROVE Kept(h, f.headers, other)
  <2>1. Kept(h, e.headers, other) /\ Kept(e.headers, g, other) /\ Kept(g, f.headers, other)
    BY <1>2, <1>3, <1>5, <1>8 DEF Conveys
  <2>2. Kept(h, g, other)
    BY <2>1, KeptAgain
  <2> QED
    BY <2>1, <2>2, KeptAgain
<1>9. Label(f, type)
  <2>1. CASE SupportsContentTypeHeaders(t)
    BY <1>4, <1>5, <2>1 DEF Conveys, SupportsContentTypeHeaders
  <2>2. CASE ~SupportsContentTypeHeaders(t)
    <3>1. f.transport \in {"nng", "redis"}
      BY <1>5, <2>2 DEF Conveys, SupportsContentTypeHeaders, Brokers
    <3> QED
      BY <3>1 DEF Label
  <2> QED
    BY <2>1, <2>2
<1> QED
  BY <1>2, <1>5, <1>6, <1>7, <1>8, <1>9 DEF Conveys, IsPublished

-----------------------------------------------------------------------------
(* Receiving *)

\* What an envelope has of the frame's ID, its correlation and its label.
HasTheId(f, r, id) ==
  /\ r.id = id /\ HasId(r.headers, id)
  /\ f.transport # "outbox" => r.headers[Exact("id")] = id

KnowsId(f, id) ==
  /\ id # NoId /\ FrameHasId(f, id) /\ Carries(f) /\ OneSpelling(f.headers, "id")
  /\ f.transport = "outbox" => HasId(f.headers, id)

Reads(f, r) ==
  /\ \A id : KnowsId(f, id) => HasTheId(f, r, id)
  /\ OneSpelling(f.headers, "id") => /\ OneSpelling(r.headers, "id")
                                     /\ f.native.id # NoId => r.id = f.native.id
  /\ OneSpelling(f.headers, "corr") => Correlation(r.headers) = Correlation(f.headers)
  /\ f.transport \in Brokers => Kept(f.headers, r.headers, "corr") /\ Kept(f.headers, r.headers, "failure")
  /\ \A type : type # NoType /\ Label(f, type) =>
       Hints(f.transport, r.headers) = IF f.transport \in {"nng", "redis"} THEN {NoName} ELSE {Plain(type)}

LEMMA EnsuredReads ==
  ASSUME NEW f, NEW minted, NEW r \in EnsureMessageId(f.headers, minted),
         f.transport \in {"nats", "nng", "redis"}, f.native.id = NoId
  PROVE  Reads(f, r)
<1>1. /\ Exact("id") \in DOMAIN r.headers /\ r.headers[Exact("id")] = r.id
      /\ OneSpelling(f.headers, "id") => OneSpelling(r.headers, "id")
      /\ \A other : other # "id" => Kept(f.headers, r.headers, other)
      /\ \A id : id # NoId /\ HasId(f.headers, id) /\ (Variants(f.headers, "id") # {} \/ minted = id)
                  => r.id = id /\ HasId(r.headers, id)
  BY EnsuresId
<1>2. ASSUME NEW id, KnowsId(f, id) PROVE HasTheId(f, r, id)
  <2>1. /\ id # NoId /\ HasId(f.headers, id) /\ Variants(f.headers, "id") # {}
        /\ OneSpelling(f.headers, "id")
    BY <1>2 DEF KnowsId, Carries, FrameHasId
  <2> QED
    BY <1>1, <2>1 DEF HasTheId
<1>3. Kept(f.headers, r.headers, "corr") /\ Kept(f.headers, r.headers, "failure")
      /\ Kept(f.headers, r.headers, "type")
  BY <1>1
<1>4. Correlation(r.headers) = Correlation(f.headers)
  BY <1>3, KeptFacts
<1>5. ASSUME NEW type, type # NoType, Label(f, type)
      PROVE  Hints(f.transport, r.headers) = IF f.transport \in {"nng", "redis"} THEN {NoName} ELSE {Plain(type)}
  <2>1. CASE f.transport \in {"nng", "redis"}
    BY <2>1 DEF Hints, SupportsContentTypeHeaders
  <2>2. CASE f.transport = "nats"
    <3>1. Named(r.headers, type)
      BY <1>3, <1>5, <2>2, KeptFacts DEF Label
    <3> QED
      BY <2>2, <3>1, NamedType DEF Hints, SupportsContentTypeHeaders
  <2> QED
    BY <2>1, <2>2
<1> QED
  BY <1>1, <1>2, <1>3, <1>4, <1>5 DEF Reads

LEMMA AmqpReads ==
  ASSUME NEW f, NEW minted, NEW r \in EnsureInboundMessageId(PropertiesToHeaders(f), minted),
         f.transport = "rabbit"
  PROVE  Reads(f, r)
<1> DEFINE labelled == IF f.native.type = NoType THEN f.headers
                       ELSE SetContentType(f.headers, f.native.type)
           h == IF f.native.id = NoId THEN labelled ELSE Put(labelled, "id", f.native.id)
<1>1. PICK found \in MessageIdFromHeaders(h) :
        r = IF found = NoId THEN Envelope(minted, Put(h, "id", minted)) ELSE Envelope(found, h)
  BY DEF EnsureInboundMessageId, PropertiesToHeaders
<1>2. /\ found = NoId => r.id = minted /\ r.headers = Put(h, "id", minted)
      /\ found # NoId => r.id = found /\ r.headers = h
  BY <1>1 DEF Envelope
<1>3. \A other : other # "type" => Kept(f.headers, labelled, other)
  BY LabelIsSet DEF Kept
<1>4. ASSUME NEW other, other # "id" PROVE Kept(labelled, h, other) /\ Kept(h, r.headers, other)
  <2>1. ASSUME NEW k, NEW id PROVE Kept(k, k, other) /\ Kept(k, Put(k, "id", id), other)
    <3>1. Kept(k, k, other)
      BY DEF Kept
    <3> QED
      BY <1>4, <3>1, PutKeeps
  <2>2. Kept(labelled, h, other)
    BY <2>1
  <2> HIDE DEF h
  <2> QED
    BY <1>2, <2>1, <2>2
<1>5. ASSUME NEW type, type # NoType, Label(f, type) PROVE Named(labelled, type)
  BY <1>5, LabelIsSet DEF Label
<1>6. /\ f.native.id # NoId => /\ Exact("id") \in DOMAIN h /\ h[Exact("id")] = f.native.id
                               /\ Variants(h, "id") = Variants(labelled, "id") \union {Exact("id")}
      /\ f.native.id = NoId => h = labelled
  BY PutPuts
<1> HIDE DEF h, labelled
<1>7. ASSUME NEW other, other \notin {"id", "type"} PROVE Kept(f.headers, r.headers, other)
  <2>1. Kept(f.headers, labelled, other) /\ Kept(labelled, h, other) /\ Kept(h, r.headers, other)
    BY <1>3, <1>4, <1>7
  <2>2. Kept(f.headers, h, other)
    BY <2>1, KeptAgain
  <2> QED
    BY <2>1, <2>2, KeptAgain
<1>8. Kept(f.headers, r.headers, "corr") /\ Kept(f.headers, r.headers, "failure")
  BY <1>7
<1>11. ASSUME OneSpelling(f.headers, "id")
       PROVE  OneSpelling(labelled, "id") /\ OneSpelling(r.headers, "id")
              /\ (f.native.id # NoId => r.id = f.native.id)
  <2>1. Kept(f.headers, labelled, "id")
    BY <1>3
  <2>2. OneSpelling(labelled, "id")
    BY <1>11, <2>1 DEF Kept, OneSpelling
  <2>3. OneSpelling(h, "id")
    BY <1>6, <2>2 DEF OneSpelling
  <2>4. OneSpelling(Put(h, "id", minted), "id")
    BY <2>3, PutPuts DEF OneSpelling
  <2>5. ASSUME f.native.id # NoId PROVE r.id = f.native.id
    <3>1. HasId(h, f.native.id) /\ Variants(h, "id") # {}
      BY <1>6, <2>3, <2>5 DEF OneSpelling, HasId, Variants, Exact
    <3>2. found = f.native.id
      BY <3>1 DEF MessageIdFromHeaders, HasId
    <3> QED
      BY <1>2, <2>5, <3>2
  <2> QED
    BY <1>2, <2>2, <2>3, <2>4, <2>5
<1>9. ASSUME NEW id, KnowsId(f, id) PROVE HasTheId(f, r, id)
  <2>1. Kept(f.headers, labelled, "id")
    BY <1>3
  <2>2. OneSpelling(labelled, "id")
    BY <1>9, <1>11 DEF KnowsId
  <2>3. Exact("id") \in DOMAIN h /\ h[Exact("id")] = id /\ OneSpelling(h, "id")
    <3>1. CASE f.native.id # NoId
      BY <1>6, <1>9, <2>2, <3>1 DEF KnowsId, FrameHasId, OneSpelling
    <3>2. CASE f.native.id = NoId
      <4>1. HasId(f.headers, id) /\ Variants(f.headers, "id") # {}
        BY <1>9, <3>2 DEF KnowsId, FrameHasId, Carries
      <4>2. HasId(labelled, id) /\ Variants(labelled, "id") # {}
        BY <2>1, <4>1, KeptFacts DEF Kept
      <4> QED
        BY <1>6, <2>2, <3>2, <4>2 DEF OneSpelling, HasId, Variants
    <3> QED
      BY <3>1, <3>2
  <2>4. HasId(h, id) /\ Variants(h, "id") # {}
    BY <2>3 DEF OneSpelling, HasId, Variants, Exact
  <2>5. found = id
    BY <2>4 DEF MessageIdFromHeaders, HasId
  <2> QED
    BY <1>2, <1>9, <2>3, <2>4, <2>5 DEF HasTheId, KnowsId
<1>10. ASSUME NEW type, type # NoType, Label(f, type)
       PROVE  Hints(f.transport, r.headers) = {Plain(type)}
  <2>1. Kept(labelled, h, "type") /\ Kept(h, r.headers, "type")
    BY <1>4
  <2>2. Named(r.headers, type)
    BY <1>5, <1>10, <2>1, KeptFacts
  <2> QED
    BY <2>2, NamedType DEF Hints, SupportsContentTypeHeaders
<1> QED
  BY <1>8, <1>9, <1>10, <1>11, KeptFacts DEF Reads

LEMMA HttpReads ==
  ASSUME NEW f, NEW minted, NEW l \in Lowercased(f.headers), NEW r \in EnsureMessageId(l, minted),
         f.transport = "http", f.native.id = NoId
  PROVE  Reads(f, r)
<1>1. /\ Exact("id") \in DOMAIN r.headers /\ r.headers[Exact("id")] = r.id
      /\ OneSpelling(l, "id") => OneSpelling(r.headers, "id")
      /\ \A other : other # "id" => Kept(l, r.headers, other)
      /\ \A id : id # NoId /\ HasId(l, id) /\ (Variants(l, "id") # {} \/ minted = id)
                  => r.id = id /\ HasId(r.headers, id)
  BY EnsuresId
<1>2. ASSUME NEW id, KnowsId(f, id) PROVE HasTheId(f, r, id)
  <2>1. id # NoId /\ HasId(f.headers, id) /\ Variants(f.headers, "id") # {}
    BY <1>2 DEF KnowsId, Carries, FrameHasId
  <2>2. HasId(l, id) /\ Variants(l, "id") # {} /\ OneSpelling(l, "id")
    BY <2>1, LowerCaseKeeps
  <2> QED
    BY <1>1, <2>1, <2>2 DEF HasTheId
<1>3. Kept(l, r.headers, "corr") /\ Kept(l, r.headers, "type")
  BY <1>1
<1>4. OneSpelling(f.headers, "corr") => Correlation(r.headers) = Correlation(f.headers)
  BY <1>3, KeptFacts, LowerCaseKeeps
<1>5. ASSUME NEW type, type # NoType, Label(f, type)
      PROVE  Hints(f.transport, r.headers) = {Plain(type)}
  <2>1. Named(f.headers, type)
    BY <1>5 DEF Label
  <2>2. Named(l, type)
    BY <2>1, LowerCaseKeeps
  <2>3. Named(r.headers, type)
    BY <1>3, <2>2, KeptFacts
  <2> QED
    BY <2>3, NamedType DEF Hints
<1> QED
  BY <1>1, <1>2, <1>4, <1>5, LowerCaseKeeps DEF Reads, Brokers

LEMMA RecordReads ==
  ASSUME NEW f, NEW r \in {Envelope(f.native.id, RecordHeaders(f))},
         f.transport = "outbox", f.native.id # NoId
  PROVE  Reads(f, r)
<1>1. r.id = f.native.id /\ r.headers = RecordHeaders(f)
  BY DEF Envelope
<1>2. \A other : other # "type" => Kept(f.headers, r.headers, other)
  BY <1>1, LabelIsSet DEF Kept, RecordHeaders
<1>3. Kept(f.headers, r.headers, "id") /\ Kept(f.headers, r.headers, "corr")
  BY <1>2
<1>4. ASSUME NEW id, KnowsId(f, id) PROVE HasTheId(f, r, id)
  <2>1. HasId(r.headers, id)
    BY <1>3, <1>4, KeptFacts DEF KnowsId
  <2> QED
    BY <1>1, <1>4, <2>1 DEF KnowsId, HasTheId, FrameHasId
<1>5. ASSUME NEW type, type # NoType, Label(f, type)
      PROVE  Hints(f.transport, r.headers) = {Plain(type)}
  <2>1. f.native.type = type
    BY <1>5 DEF Label
  <2>2. Named(r.headers, type)
    BY <1>1, <1>5, <2>1, LabelIsSet DEF RecordHeaders
  <2> QED
    BY <2>2, NamedType DEF Hints
<1>6. Correlation(r.headers) = Correlation(f.headers)
  BY <1>3, KeptFacts
<1> QED
  BY <1>1, <1>3, <1>4, <1>5, <1>6 DEF Reads, Brokers, Kept, OneSpelling

LEMMA SourceReads ==
  ASSUME NEW f, f.transport \in Brokers \union {"http", "outbox"},
         f.transport \notin {"rabbit", "outbox"} => f.native.id = NoId,
         f.transport = "outbox" => f.native.id # NoId,
         NEW minted, NEW r \in Received(f, minted)
  PROVE  Reads(f, r)
<1>1. CASE f.transport \in {"nats", "nng", "redis"}
  <2>1. r \in EnsureMessageId(f.headers, minted)
    BY <1>1 DEF Received
  <2> QED
    BY <1>1, <2>1, EnsuredReads
<1>2. CASE f.transport = "rabbit"
  <2>1. r \in EnsureInboundMessageId(PropertiesToHeaders(f), minted)
    BY <1>2 DEF Received
  <2> QED
    BY <1>2, <2>1, AmqpReads
<1>3. CASE f.transport = "http"
  <2>1. PICK l \in Lowercased(f.headers) : r \in EnsureMessageId(l, minted)
    BY <1>3 DEF Received
  <2> QED
    BY <1>3, <2>1, HttpReads
<1>4. CASE f.transport = "outbox"
  <2>1. r \in {Envelope(f.native.id, RecordHeaders(f))}
    BY <1>4 DEF Received
  <2> QED
    BY <1>4, <2>1, RecordReads
<1> QED
  BY <1>1, <1>2, <1>3, <1>4 DEF Brokers

-----------------------------------------------------------------------------
(* The configuration *)

IsConfigured == config \in Config /\ Agree(config)

LEMMA ConfigFacts ==
  ASSUME IsConfigured
  PROVE  /\ config.in \in Brokers \union {"http", "outbox"} /\ config.out \in Brokers
         /\ \A party \in Parties : config.default[party] \in {"json", "cbor"}
         /\ config.to \in {"mid", "reply", "http", "none"}
         /\ config.errors \in {"errors", "reply", "httpErrors", "none"}
         /\ "reply" \in {config.to, config.errors} => config.in \in Brokers
         /\ config.in \in {"nng", "redis"} => config.default["caller"] = config.default["route"]
         /\ config.out \in {"nng", "redis"} => config.default["route"] = config.default["peer"]
<1>1. /\ config.in \in Inbound /\ config.out \in Outbound
      /\ config.to \in (BrokerTargets \union HttpTargets \union {"none"}) \ {"errors", "httpErrors"}
      /\ config.errors \in (BrokerTargets \union HttpTargets \union {"none"}) \ {"mid", "http"}
      /\ config.default \in [Parties -> {"json", "cbor"}]
  BY DEF IsConfigured, Config
<1> QED
  BY <1>1, TransportsAssumption DEF IsConfigured, Agree, BrokerTargets, HttpTargets

LEMMA EndpointOf ==
  ASSUME IsConfigured, NEW party \in Parties
  PROVE  /\ ContentType(Endpoint(party)) = config.default[party]
         /\ \A value : Encode(Endpoint(party), value) = [format |-> config.default[party], value |-> value]
         /\ \A bytes : bytes.format = config.default[party] =>
              DecodeWithContentType(Endpoint(party), bytes, NoName) = bytes.value
         /\ \A other \in Parties : \A bytes : bytes.format = config.default[other] =>
              DecodeWithContentType(Endpoint(party), bytes, Plain(config.default[other])) = bytes.value
<1>1. \A p \in Parties : config.default[p] \in {"json", "cbor"}
  BY ConfigFacts
<1> QED
  BY <1>1, EndpointFacts DEF Endpoint

-----------------------------------------------------------------------------
(* Delivery *)

\* What a target may be given for the second route or the caller to understand it.
Labels(target) == target \in HttpTargets \/ SupportsContentTypeHeaders(Behind(target))
Sendable(target, m) ==
  /\ HasOneId => m.id = origin.id /\ HasId(m.headers, origin.id)
  /\ Forms = {"exact"} => OneSpelling(m.headers, "id")
  /\ Correlation(m.headers) = origin.corr
  /\ m.payload.value # Value("page") =>
       /\ m.payload.format = config.default["route"]
       /\ Labels(target) => /\ Named(m.headers, config.default["route"])
                            /\ Exact("type") \in DOMAIN m.headers
  /\ ResultOf(m.payload.value)
  /\ m.payload.value # Value("output") <=> Exact("failure") \in DOMAIN m.headers

LEMMA AddressedFields ==
  ASSUME NEW subject, NEW r
  PROVE  LET f == Addressed(subject, r)
         IN /\ f.subject = subject /\ f.transport = r.transport /\ f.headers = r.headers
            /\ f.payload = r.payload /\ f.native = r.native /\ IsFrame(f)
            /\ \A type : Label(f, type) <=> Label(r, type)
            /\ \A id : FrameHasId(f, id) <=> FrameHasId(r, id)
            /\ Carries(f) <=> Carries(r)
<1> DEFINE f == Addressed(subject, r)
<1>1. /\ f.subject = subject /\ f.transport = r.transport /\ f.headers = r.headers
      /\ f.payload = r.payload /\ f.native = r.native /\ IsFrame(f)
  BY DEF Addressed, IsFrame
<1>2. \A type : Label(f, type) <=> Label(r, type)
  <2> HIDE DEF f
  <2> QED
    BY <1>1 DEF Label
<1>3. /\ \A id : FrameHasId(f, id) <=> FrameHasId(r, id)
      /\ Carries(f) <=> Carries(r)
  <2> HIDE DEF f
  <2> QED
    BY <1>1 DEF FrameHasId, Carries
<1> QED
  BY <1>1, <1>2, <1>3

LEMMA BrokerFrame ==
  ASSUME IsConfigured, NEW target \in BrokerTargets, target = "reply" => config.in \in Brokers,
         NEW m, Sendable(target, m), NEW f \in BrokerDelivers(target, m), IsFrame(f)
  PROVE  FrameInv(f) /\ f.subject # "in"
<1> DEFINE t == Behind(target)
           h == Without(m.headers, "reply")
<1>1. PICK r \in DispatchRaw(t, h, m.id, m.payload, Minted[target]) : r # SendError /\ f = Addressed(target, r)
  <2>1. ~IsFrame(SendError)
    BY DEF IsFrame, SendError
  <2> QED
    BY <2>1 DEF BrokerDelivers
<1>2. t \in Brokers /\ (target = "reply" => t = config.in) /\ (target # "reply" => t = config.out)
  BY ConfigFacts DEF Behind
<1>3. \A other : other # "reply" => Kept(m.headers, h, other)
  BY WithoutKeeps
<1> HIDE DEF t, h
<1>4. /\ Conveys(r, t, h, m.payload)
      /\ t # "nng" \/ Variants(h, "id") # {} => Carries(r)
      /\ m.id # NoId /\ HasId(h, m.id) => FrameHasId(r, m.id)
  BY <1>1, <1>2, DispatchConveys DEF Conducts
<1>5. /\ f.subject = target /\ f.transport = r.transport /\ f.headers = r.headers
      /\ f.payload = r.payload /\ f.native = r.native
      /\ \A type : Label(f, type) <=> Label(r, type)
      /\ \A id : FrameHasId(f, id) <=> FrameHasId(r, id)
      /\ Carries(f) <=> Carries(r)
  BY <1>1, AddressedFields
<1>6. f.transport = t /\ f.payload = m.payload /\ (t # "rabbit" => f.native.id = NoId)
  BY <1>4, <1>5 DEF Conveys
<1>7. PlaceInv(f)
  BY <1>2, <1>5, <1>6 DEF PlaceInv, BrokerTargets, Brokers
<1>8. LabelInv(f)
  <2> SUFFICES ASSUME f.payload.value # Value("page")
               PROVE  f.payload.format = config.default["route"] /\ Label(f, config.default["route"])
    BY <1>5 DEF LabelInv, WriterOf, BrokerTargets
  <2>1. config.default["route"] \in {"json", "cbor"}
    BY ConfigFacts DEF Parties
  <2>2. m.payload.format = config.default["route"]
        /\ (t \in {"nats", "rabbit"} => Named(m.headers, config.default["route"]))
    BY <1>6 DEF Sendable, Labels, SupportsContentTypeHeaders, t
  <2>3. t \in {"nats", "rabbit"} => Named(h, config.default["route"])
    BY <1>3, <2>2, KeptFacts
  <2>4. t \in {"nats", "rabbit"} => Label(r, config.default["route"])
    BY <1>4, <2>1, <2>3 DEF Conveys, NoType
  <2>5. t \notin {"nats", "rabbit"} => Label(f, config.default["route"])
    BY <1>2, <1>6 DEF Label, Brokers
  <2> QED
    BY <1>5, <1>6, <2>2, <2>4, <2>5
<1>9. IdInv(f)
  <2>1. Kept(m.headers, h, "id")
    BY <1>3
  <2>2. ASSUME Forms = {"exact"} PROVE OneSpelling(f.headers, "id")
    <3>1. OneSpelling(h, "id")
      BY <2>1, <2>2 DEF Sendable, Kept, OneSpelling
    <3> QED
      BY <1>4, <1>5, <3>1 DEF Conveys
  <2>3. ASSUME HasOneId PROVE FrameHasId(f, origin.id) /\ (Carries(f) \/ t = "nng")
    <3>1. m.id = origin.id /\ m.id # NoId /\ HasId(m.headers, m.id)
      BY <2>3 DEF Sendable, HasOneId
    <3>2. HasId(h, m.id)
      BY <2>1, <3>1, KeptFacts
    <3> QED
      BY <1>4, <1>5, <3>1, <3>2
  <2> QED
    BY <1>2, <1>5, <1>6, <2>2, <2>3 DEF IdInv, BrokerTargets, Brokers
<1>10. ResultInv(f)
  BY <1>6 DEF ResultInv, Sendable
<1>11. ReplyInv(f)
  <2>1. Kept(m.headers, h, "corr") /\ Kept(m.headers, h, "failure")
    BY <1>3
  <2>2. Kept(h, f.headers, "corr") /\ Kept(h, f.headers, "failure")
    BY <1>4, <1>5 DEF Conveys
  <2>3. /\ Correlation(f.headers) = Correlation(m.headers)
        /\ Exact("failure") \in DOMAIN f.headers <=> Exact("failure") \in DOMAIN m.headers
    BY <2>1, <2>2, KeptFacts
  <2> QED
    BY <1>6, <2>3 DEF ReplyInv, Sendable
<1>12. OriginInv(f)
  BY <1>5 DEF OriginInv, BrokerTargets
<1> QED
  BY <1>5, <1>7, <1>8, <1>9, <1>10, <1>11, <1>12 DEF FrameInv, BrokerTargets

LEMMA HttpFrame ==
  ASSUME IsConfigured, NEW target \in HttpTargets,
         NEW m, Sendable(target, m), NEW f \in HttpDelivers(target, m), IsFrame(f)
  PROVE  FrameInv(f) /\ f.subject # "in"
<1> DEFINE bare == Without(m.headers, "reply")
           h == WithLabel(bare)
<1>1. f = Addressed(Subject(target), FrameOf("http", h, m.payload, NotAmqp))
  <2>1. ~IsFrame(ConnectionError)
    BY DEF IsFrame, ConnectionError
  <2>2. \A k : ~IsFrame(HttpResponse(k))
    BY DEF IsFrame, HttpResponse
  <2>3. \A r \in Responses : ~IsFrame(r)
    BY <2>2 DEF Responses
  <2> QED
    BY <2>1, <2>3 DEF HttpDelivers, Invoke
<1>2. \A other : other # "reply" => Kept(m.headers, bare, other)
  BY WithoutKeeps
<1>3. \A other : other # "type" => Kept(bare, h, other)
  BY PutKeeps DEF WithLabel, Kept
<1>4. Exact("type") \in DOMAIN m.headers => h = bare
  <2>1. Kept(m.headers, bare, "type")
    BY <1>2
  <2> QED
    BY <2>1 DEF WithLabel, Kept, Variants, Exact
<1>5. Subject(target) \in {"mid", "errors"}
  BY DEF Subject, HttpTargets
<1> HIDE DEF h, bare
<1>6. /\ f.subject \in {"mid", "errors"} /\ f.transport = "http" /\ f.headers = h
      /\ f.payload = m.payload /\ f.native.id = NoId
  BY <1>1, <1>5, FrameFields, AddressedFields DEF NotAmqp
<1>7. PlaceInv(f)
  BY <1>6 DEF PlaceInv
<1>8. LabelInv(f)
  <2> SUFFICES ASSUME f.payload.value # Value("page")
               PROVE  f.payload.format = config.default["route"] /\ Label(f, config.default["route"])
    BY <1>6 DEF LabelInv, WriterOf
  <2>1. /\ m.payload.format = config.default["route"]
        /\ Named(m.headers, config.default["route"]) /\ Exact("type") \in DOMAIN m.headers
    BY <1>6 DEF Sendable, Labels
  <2>2. Kept(m.headers, h, "type")
    BY <1>2, <1>4, <2>1
  <2>3. Named(h, config.default["route"])
    BY <2>1, <2>2, KeptFacts
  <2> QED
    BY <1>6, <2>1, <2>3 DEF Label
<1>9. IdInv(f)
  <2>1. /\ HasOneId => HasId(m.headers, origin.id)
        /\ Forms = {"exact"} => OneSpelling(m.headers, "id")
    BY DEF Sendable
  <2>2. Kept(m.headers, bare, "id") /\ Kept(bare, h, "id")
    BY <1>2, <1>3
  <2>3. Kept(m.headers, h, "id")
    BY <2>2, KeptAgain
  <2>4. /\ HasOneId => HasId(h, origin.id)
        /\ Forms = {"exact"} => OneSpelling(h, "id")
    BY <2>1, <2>3, KeptFacts DEF Kept, OneSpelling
  <2> QED
    BY <1>6, <2>4 DEF IdInv, FrameHasId
<1>10. ResultInv(f)
  BY <1>6 DEF ResultInv, Sendable
<1>11. ReplyInv(f) /\ OriginInv(f)
  BY <1>6 DEF ReplyInv, OriginInv
<1> QED
  BY <1>6, <1>7, <1>8, <1>9, <1>10, <1>11 DEF FrameInv

LEMMA DeliveredFrame ==
  ASSUME IsConfigured, NEW target \in BrokerTargets \union HttpTargets,
         target = "reply" => config.in \in Brokers,
         NEW m, Sendable(target, m), NEW f \in DeliverTo(target, m), IsFrame(f)
  PROVE  FrameInv(f) /\ f.subject # "in"
<1>1. CASE target \in HttpTargets
  <2>1. f \in HttpDelivers(target, m)
    BY <1>1 DEF DeliverTo
  <2> QED
    BY <1>1, <2>1, HttpFrame
<1>2. CASE target \notin HttpTargets
  <2>1. f \in BrokerDelivers(target, m) /\ target \in BrokerTargets
    BY <1>2 DEF DeliverTo
  <2> QED
    BY <2>1, BrokerFrame
<1> QED
  BY <1>1, <1>2

-----------------------------------------------------------------------------
(* What a route holds *)

LEMMA HeldReads ==
  ASSUME IsConfigured, HeldInv, held # Nothing
  PROVE  /\ FrameInv(held.frame) /\ held.frame.subject \in {"in", "mid", "errors"}
         /\ held.payload = held.frame.payload
         /\ {"id", "headers", "payload"} \subseteq DOMAIN held
         /\ Reads(held.frame, held)
<1>1. PICK r \in Received(held.frame, Minted[held.frame.subject]) : held = RouteMessage(held.frame, r)
  BY DEF HeldInv
<1>2. /\ held.id = r.id /\ held.headers = r.headers /\ held.payload = held.frame.payload
      /\ {"id", "headers", "payload"} \subseteq DOMAIN held
  BY <1>1 DEF RouteMessage
<1>3. FrameInv(held.frame) /\ held.frame.subject \in {"in", "mid", "errors"}
  BY DEF HeldInv, FrameInv, PlaceInv
<1>4. /\ held.frame.transport \in Brokers \union {"http", "outbox"}
      /\ held.frame.transport \notin {"rabbit", "outbox"} => held.frame.native.id = NoId
      /\ held.frame.transport = "outbox" => held.frame.native.id # NoId
  BY <1>3, ConfigFacts DEF FrameInv, PlaceInv
<1>5. Reads(held.frame, r)
  BY <1>4, SourceReads
<1>6. Reads(held.frame, held)
  BY <1>2, <1>5 DEF Reads, HasTheId
<1> QED
  BY <1>2, <1>3, <1>6

LEMMA KnownId ==
  ASSUME NEW f, IdInv(f), HasOneId, Carries(f)
  PROVE  KnowsId(f, origin.id)
BY DEF IdInv, HasOneId, KnowsId

LEMMA RouteHolds ==
  ASSUME IsConfigured, HeldInv, held # Nothing, held.frame.subject = "in"
  PROVE  /\ HasOneId => held.id = origin.id /\ HasId(held.headers, origin.id)
         /\ Forms = {"exact"} => OneSpelling(held.headers, "id")
         /\ Correlation(held.headers) = origin.corr
<1>1. FrameInv(held.frame) /\ Reads(held.frame, held)
  BY HeldReads
<1>2. ASSUME HasOneId PROVE HasTheId(held.frame, held, origin.id)
  <2>1. IdInv(held.frame) /\ Carries(held.frame)
    BY <1>1, <1>2 DEF FrameInv, IdInv
  <2> QED
    BY <1>1, <1>2, <2>1, KnownId DEF Reads
<1>3. OneSpelling(held.frame.headers, "corr") /\ Correlation(held.frame.headers) = origin.corr
  BY <1>1 DEF FrameInv, OriginInv
<1>4. Forms = {"exact"} => OneSpelling(held.frame.headers, "id")
  BY <1>1 DEF FrameInv, IdInv
<1> QED
  BY <1>1, <1>2, <1>3, <1>4 DEF Reads, HasTheId

IsMessage(m) == {"id", "headers", "payload"} \subseteq DOMAIN m

LEMMA WithHeaders ==
  ASSUME NEW m, IsMessage(m), NEW h
  PROVE  LET n == [m EXCEPT !.headers = h]
         IN n.headers = h /\ n.id = m.id /\ n.payload = m.payload /\ IsMessage(n)
BY DEF IsMessage

IsEncoded(n, target, value, m) ==
  /\ n.id = m.id /\ IsMessage(n)
  /\ n.payload = [format |-> config.default["route"], value |-> value]
  /\ Labels(target) => n.headers = SetContentType(m.headers, config.default["route"])
  /\ ~Labels(target) => n.headers = m.headers

LEMMA EncodedFields ==
  ASSUME IsConfigured, NEW target, NEW value, NEW m, IsMessage(m)
  PROVE  IsEncoded(EncodeFor(target, value, m), target, value, m)
<1> DEFINE h == IF Labels(target) THEN SetContentType(m.headers, config.default["route"]) ELSE m.headers
           p == [format |-> config.default["route"], value |-> value]
           n == EncodeFor(target, value, m)
<1>1. ContentType(Endpoint("route")) = config.default["route"] /\ Encode(Endpoint("route"), value) = p
  BY EndpointOf DEF Parties
<1> HIDE DEF p
<1>2. n = [m EXCEPT !.payload = p, !.headers = h]
  <2>1. m.headers = [m EXCEPT !.payload = p].headers
    BY DEF IsMessage
  <2> QED
    BY <1>1, <2>1 DEF EncodeFor, Labels
<1> HIDE DEF n, h
<1>3. n.id = m.id /\ n.headers = h /\ n.payload = p /\ IsMessage(n)
  BY <1>2 DEF IsMessage
<1> QED
  BY <1>3 DEF n, h, p, IsEncoded

LEMMA Values ==
  /\ Value("output").is = "output" /\ Value("page").is = "page" /\ Value("input").is = "input"
  /\ Value("output") # Value("page")
  /\ \A v : v.is = "failure" => v # Value("output") /\ v # Value("page") /\ v # Value("input")
  /\ Value("input") # Value("page") /\ Value("input") # Value("output")
<1>1. Value("output").is = "output" /\ Value("page").is = "page" /\ Value("input").is = "input"
  BY DEF Value
<1> QED
  BY <1>1

\* What the handler makes of the message, and what the target makes of that.
LEMMA OutputSendable ==
  ASSUME IsConfigured, HeldInv, held # Nothing, held.frame.subject = "in", NEW m \in Outputs(held)
  PROVE  Sendable(config.to, EncodeHandlerOutput(m))
<1>1. IsMessage(held)
  BY HeldReads DEF IsMessage
<1>2. IsMessage(m) /\ m.id = held.id /\ (m.headers = held.headers \/
        \E kept : Exact("corr") \in kept /\ m.headers = Restrict(held.headers, DOMAIN held.headers \intersect kept))
  <2>1. CASE m = held
    BY <1>1, <2>1
  <2>2. CASE m # held
    <3>1. PICK kept \in {{Exact("corr")}, {Exact("corr"), Exact("reply"), Exact("failure")}} :
            m = [held EXCEPT !.headers = Restrict(held.headers, DOMAIN held.headers \intersect kept)]
      BY <2>2 DEF Outputs
    <3> DEFINE h == Restrict(held.headers, DOMAIN held.headers \intersect kept)
    <3>2. Exact("corr") \in kept
      OBVIOUS
    <3>3. m.headers = h /\ m.id = held.id /\ IsMessage(m)
      <4> HIDE DEF h
      <4> QED
        BY <1>1, <3>1, WithHeaders DEF h
    <3> QED
      BY <3>2, <3>3
  <2> QED
    BY <2>1, <2>2
<1>3. /\ HasOneId => m.id = origin.id /\ HasId(m.headers, origin.id)
      /\ Forms = {"exact"} => OneSpelling(m.headers, "id")
      /\ Correlation(m.headers) = origin.corr
  <2>1. ASSUME NEW kept, Exact("corr") \in kept,
               m.headers = Restrict(held.headers, DOMAIN held.headers \intersect kept)
        PROVE  /\ Correlation(m.headers) = Correlation(held.headers)
               /\ \A id : HasId(held.headers, id) => HasId(m.headers, id)
               /\ OneSpelling(held.headers, "id") => OneSpelling(m.headers, "id")
    <3>1. /\ DOMAIN m.headers = DOMAIN held.headers \intersect kept
          /\ \A name \in DOMAIN m.headers : m.headers[name] = held.headers[name]
      BY <2>1 DEF Restrict
    <3>2. Correlation(m.headers) = Correlation(held.headers)
      BY <2>1, <3>1 DEF Correlation
    <3>3. Variants(m.headers, "id") \subseteq Variants(held.headers, "id")
          /\ \A name \in Variants(m.headers, "id") : name \in DOMAIN m.headers
      BY <3>1 DEF Variants
    <3> QED
      BY <3>1, <3>2, <3>3 DEF HasId, OneSpelling
  <2> QED
    BY <1>2, <2>1, RouteHolds
<1> DEFINE bare == Without(m.headers, "failure")
           plain == [m EXCEPT !.headers = bare]
           n == EncodeHandlerOutput(m)
<1>4. plain.headers = bare /\ plain.id = m.id /\ IsMessage(plain)
  BY <1>2, WithHeaders
<1>5. n = EncodeFor(config.to, Value("output"), plain)
  BY DEF EncodeHandlerOutput
<1>6. /\ \A other : other # "failure" => Kept(m.headers, bare, other)
      /\ Exact("failure") \notin DOMAIN bare
  BY WithoutKeeps
<1> HIDE DEF plain, bare
<1>7. /\ n.id = m.id
      /\ n.payload = [format |-> config.default["route"], value |-> Value("output")]
      /\ Labels(config.to) => n.headers = SetContentType(bare, config.default["route"])
      /\ ~Labels(config.to) => n.headers = bare
  <2>1. IsEncoded(n, config.to, Value("output"), plain)
    BY <1>4, <1>5, EncodedFields
  <2> HIDE DEF n
  <2> QED
    BY <1>4, <2>1 DEF IsEncoded
<1> HIDE DEF n
<1>8. ASSUME NEW other, other # "type" PROVE Kept(bare, n.headers, other)
  <2>1. Kept(bare, SetContentType(bare, config.default["route"]), other)
    BY <1>8, LabelIsSet
  <2>2. Kept(bare, bare, other)
    BY DEF Kept
  <2> QED
    BY <1>7, <2>1, <2>2
<1>9. Labels(config.to) => Named(n.headers, config.default["route"]) /\ Exact("type") \in DOMAIN n.headers
  BY <1>7, LabelIsSet
<1>10. Exact("failure") \notin DOMAIN n.headers
  <2>1. Kept(bare, n.headers, "failure")
    BY <1>8
  <2> QED
    BY <1>6, <2>1, KeptFacts
<1>11. ASSUME NEW other, other \notin {"failure", "type"} PROVE Kept(m.headers, n.headers, other)
  <2>1. Kept(m.headers, bare, other) /\ Kept(bare, n.headers, other)
    BY <1>6, <1>8, <1>11
  <2> QED
    BY <2>1, KeptAgain
<1>12. /\ \A id : HasId(m.headers, id) => HasId(n.headers, id)
       /\ OneSpelling(m.headers, "id") => OneSpelling(n.headers, "id")
       /\ Correlation(n.headers) = Correlation(m.headers)
  <2>1. Kept(m.headers, n.headers, "id") /\ Kept(m.headers, n.headers, "corr")
    BY <1>11
  <2> QED
    BY <2>1, KeptFacts DEF Kept, OneSpelling
<1>13. ResultOf(n.payload.value)
  BY <1>7, Values DEF ResultOf
<1>14. n.payload.value = Value("output") /\ n.payload.format = config.default["route"]
  BY <1>7
<1>15. Sendable(config.to, n)
  BY <1>3, <1>7, <1>9, <1>10, <1>12, <1>13, <1>14 DEF Sendable
<1> QED
  BY <1>15 DEF n

-----------------------------------------------------------------------------
(* Failures *)

LEMMA MarkedFields ==
  ASSUME NEW h
  PROVE  /\ \A other : other # "failure" => Kept(h, Marked(h), other)
         /\ Exact("failure") \in DOMAIN Marked(h)
BY PutKeeps, PutPuts DEF Marked

LEMMA FailureSendable ==
  ASSUME IsConfigured, HeldInv, held # Nothing, held.frame.subject = "in", NEW target, NEW outcome
  PROVE  Sendable(target, EncodedFailure(target, held, outcome))
<1> DEFINE value == RouteFailure(held, outcome)
           e == EncodeFor(target, value, held)
           h == Marked(e.headers)
           n == EncodedFailure(target, held, outcome)
<1>1. IsMessage(held)
  BY HeldReads DEF IsMessage
<1>2. /\ e.id = held.id /\ IsMessage(e)
      /\ e.payload = [format |-> config.default["route"], value |-> value]
      /\ Labels(target) => e.headers = SetContentType(held.headers, config.default["route"])
      /\ ~Labels(target) => e.headers = held.headers
  <2>1. IsEncoded(e, target, value, held)
    BY <1>1, EncodedFields
  <2> HIDE DEF e, value
  <2> QED
    BY <2>1 DEF IsEncoded
<1>3. n = [e EXCEPT !.headers = h]
  BY DEF EncodedFailure
<1>4. /\ \A other : other # "failure" => Kept(e.headers, h, other)
      /\ Exact("failure") \in DOMAIN h
  BY MarkedFields
<1>5. value.is = "failure" /\ value.original.id = held.id /\ value.original.headers = held.headers
  BY DEF RouteFailure, FailedRouteMessage
<1> HIDE DEF n, h, e, value
<1>6. n.id = held.id /\ n.headers = h /\ n.payload = e.payload
  BY <1>2, <1>3, WithHeaders
<1>7. ASSUME NEW other, other # "type" PROVE Kept(held.headers, e.headers, other)
  <2>1. Kept(held.headers, SetContentType(held.headers, config.default["route"]), other)
    BY <1>7, LabelIsSet
  <2>2. Kept(held.headers, held.headers, other)
    BY DEF Kept
  <2> QED
    BY <1>2, <2>1, <2>2
<1>8. ASSUME NEW other, other \notin {"failure", "type"} PROVE Kept(held.headers, h, other)
  <2>1. Kept(held.headers, e.headers, other) /\ Kept(e.headers, h, other)
    BY <1>4, <1>7, <1>8
  <2> QED
    BY <2>1, KeptAgain
<1>9. /\ HasOneId => held.id = origin.id /\ HasId(held.headers, origin.id)
      /\ Forms = {"exact"} => OneSpelling(held.headers, "id")
      /\ Correlation(held.headers) = origin.corr
  BY RouteHolds
<1>10. /\ HasId(held.headers, origin.id) => HasId(h, origin.id)
       /\ OneSpelling(held.headers, "id") => OneSpelling(h, "id")
       /\ Correlation(h) = Correlation(held.headers)
  <2>1. Kept(held.headers, h, "id") /\ Kept(held.headers, h, "corr")
    BY <1>8
  <2> QED
    BY <2>1, KeptFacts DEF Kept, OneSpelling
<1>11. ASSUME Labels(target)
       PROVE  Named(h, config.default["route"]) /\ Exact("type") \in DOMAIN h
  <2>1. Named(e.headers, config.default["route"]) /\ Exact("type") \in DOMAIN e.headers
    BY <1>2, <1>11, LabelIsSet
  <2>2. Kept(e.headers, h, "type")
    BY <1>4
  <2>3. \A k : Exact("type") \in DOMAIN k <=> Exact("type") \in Variants(k, "type")
    BY DEF Variants, Exact
  <2>4. Named(h, config.default["route"])
    BY <2>1, <2>2, KeptFacts
  <2> QED
    BY <2>1, <2>2, <2>3, <2>4 DEF Kept
<1>12. /\ n.payload.value = value /\ n.payload.format = config.default["route"]
       /\ value # Value("output") /\ value # Value("page")
  BY <1>2, <1>5, <1>6, Values
<1>13. ResultOf(value)
  BY <1>5, <1>9, <1>12 DEF ResultOf
<1>14. Sendable(target, n)
  BY <1>4, <1>6, <1>9, <1>10, <1>11, <1>12, <1>13 DEF Sendable
<1> QED
  BY <1>14 DEF n

LEMMA CopyFields ==
  ASSUME NEW from, NEW base, NEW to
  PROVE  /\ \A other : other # base => Kept(to, Copy(from, base, to), other)
         /\ Exact(base) \notin DOMAIN to =>
              /\ Exact(base) \in DOMAIN Copy(from, base, to) <=> Exact(base) \in DOMAIN from
              /\ Exact(base) \in DOMAIN from => Copy(from, base, to)[Exact(base)] = from[Exact(base)]
<1>1. CASE Exact(base) \in DOMAIN from
  <2>1. Copy(from, base, to) = Put(to, base, from[Exact(base)])
    BY <1>1 DEF Copy
  <2> QED
    BY <1>1, <2>1, PutKeeps, PutPuts
<1>2. CASE Exact(base) \notin DOMAIN from
  <2>1. Copy(from, base, to) = to /\ \A other : Kept(to, to, other)
    BY <1>2 DEF Copy, Kept
  <2> QED
    BY <1>2, <2>1
<1> QED
  BY <1>1, <1>2

LEMMA ForwardedSendable ==
  ASSUME IsConfigured, HeldInv, held # Nothing, held.frame.subject = "in", config.to = "http",
         NEW target, NEW response \in Responses, NEW n \in ForwardedResponse(held, response)
  PROVE  Sendable(target, n)
<1>1. PICK l \in Lowercased(response.headers) :
        \E g : /\ g = Restrict(l, DOMAIN l \ {Exact(b) : b \in {"id", "failure", "status", "corr", "reply"}})
               /\ n = [held EXCEPT !.payload = response.payload,
                                   !.headers = Marked(Put(Copy(held.headers, "reply", Copy(held.headers, "corr", g)),
                                                          "status", "5xx"))]
  BY DEF ForwardedResponse, Forwarded
<1> DEFINE g == Restrict(l, DOMAIN l \ {Exact(b) : b \in {"id", "failure", "status", "corr", "reply"}})
           c == Copy(held.headers, "corr", g)
           d == Copy(held.headers, "reply", c)
           s == Put(d, "status", "5xx")
           h == Marked(s)
<1>2. n = [held EXCEPT !.payload = response.payload, !.headers = h]
  BY <1>1
<1>3. Variants(g, "id") = {} /\ Exact("corr") \notin DOMAIN g
  <2>1. DOMAIN g = DOMAIN l \ {Exact(b) : b \in {"id", "failure", "status", "corr", "reply"}}
    BY DEF Restrict
  <2>2. OneSpelling(l, "id")
    BY LowerCaseKeeps
  <2>3. Exact("id") \notin DOMAIN g /\ Exact("corr") \notin DOMAIN g /\ DOMAIN g \subseteq DOMAIN l
    BY <2>1
  <2> HIDE DEF g
  <2> QED
    BY <2>2, <2>3 DEF OneSpelling, Variants
<1> HIDE DEF g
<1>4. /\ \A other : other # "corr" => Kept(g, c, other)
      /\ Exact("corr") \in DOMAIN c <=> Exact("corr") \in DOMAIN held.headers
      /\ Exact("corr") \in DOMAIN held.headers => c[Exact("corr")] = held.headers[Exact("corr")]
  BY <1>3, CopyFields
<1> HIDE DEF c
<1>5. \A other : other # "reply" => Kept(c, d, other)
  BY CopyFields
<1> HIDE DEF d
<1>6. \A other : other # "status" => Kept(d, s, other)
  BY PutKeeps
<1> HIDE DEF s
<1>7. /\ \A other : other # "failure" => Kept(s, h, other)
      /\ Exact("failure") \in DOMAIN h
  BY MarkedFields
<1> HIDE DEF h
<1>8. ASSUME NEW other, other \notin {"reply", "status", "failure"} PROVE Kept(c, h, other)
  <2>1. Kept(c, d, other) /\ Kept(d, s, other) /\ Kept(s, h, other)
    BY <1>5, <1>6, <1>7, <1>8
  <2>2. Kept(c, s, other)
    BY <2>1, KeptAgain
  <2> QED
    BY <2>1, <2>2, KeptAgain
<1>9. Variants(h, "id") = {}
  <2>1. Kept(g, c, "id") /\ Kept(c, h, "id")
    BY <1>4, <1>8
  <2> QED
    BY <1>3, <2>1 DEF Kept
<1>10. Correlation(h) = origin.corr
  <2>1. Kept(c, h, "corr")
    BY <1>8
  <2>2. Correlation(h) = Correlation(c)
    BY <2>1, KeptFacts
  <2>3. Correlation(c) = Correlation(held.headers)
    BY <1>4 DEF Correlation
  <2> QED
    BY <2>2, <2>3, RouteHolds
<1>11. response.payload.value = Value("page")
  <2>1. PICK k : response = HttpResponse(k)
    BY DEF Responses
  <2> QED
    BY <2>1 DEF HttpResponse
<1>12. n.id = held.id /\ n.headers = h /\ n.payload = response.payload
  <2>1. IsMessage(held)
    BY HeldReads DEF IsMessage
  <2> QED
    BY <1>2, <2>1 DEF IsMessage
<1>13. ResultOf(Value("page"))
  BY Values DEF ResultOf
<1>14. HasOneId => held.id = origin.id
  BY RouteHolds
<1>15. HasId(h, origin.id) /\ OneSpelling(h, "id")
  BY <1>9 DEF HasId, OneSpelling
<1> QED
  BY <1>7, <1>10, <1>11, <1>12, <1>13, <1>14, <1>15, Values DEF Sendable

\* What an error target can be given, and what a target can answer.
Answers(outcome) == IsResponse(outcome) => outcome \in Responses /\ config.to = "http"

LEMMA DeliveryAnswers ==
  ASSUME IsConfigured, config.to # "none", NEW m, NEW outcome \in DeliverTo(config.to, m), ~IsFrame(outcome)
  PROVE  Answers(outcome)
<1>1. ~IsResponse(SendError) /\ ~IsResponse(ConnectionError)
  BY DEF IsResponse, SendError, ConnectionError
<1>2. \A subject, r : IsFrame(Addressed(subject, r))
  BY DEF IsFrame, Addressed
<1>3. CASE config.to \in HttpTargets
  <2>1. config.to = "http"
    BY <1>3, ConfigFacts DEF HttpTargets
  <2>2. outcome \in {ConnectionError} \union Responses
    BY <1>2, <1>3 DEF DeliverTo, HttpDelivers, Invoke
  <2> QED
    BY <1>1, <2>1, <2>2 DEF Answers
<1>4. CASE config.to \notin HttpTargets
  <2>1. outcome = SendError
    BY <1>2, <1>4 DEF DeliverTo, BrokerDelivers
  <2> QED
    BY <1>1, <2>1 DEF Answers
<1> QED
  BY <1>3, <1>4

LEMMA FailureFrames ==
  ASSUME IsConfigured, HeldInv, held # Nothing, held.frame.subject = "in",
         NEW outcome, Answers(outcome), NEW frames \in DeliverFailure(held, outcome), NEW f \in frames
  PROVE  FrameInv(f)
<1>1. config.errors # "none"
  BY DEF DeliverFailure
<1>2. PICK n \in IF IsResponse(outcome) THEN ForwardedResponse(held, outcome)
                 ELSE {EncodedFailure(config.errors, held, outcome)} :
        f \in DeliverTo(config.errors, n) /\ IsFrame(f)
  BY <1>1 DEF DeliverFailure
<1>3. Sendable(config.errors, n)
  <2>1. CASE IsResponse(outcome)
    <3>1. outcome \in Responses /\ config.to = "http" /\ n \in ForwardedResponse(held, outcome)
      BY <1>2, <2>1 DEF Answers
    <3> QED
      BY <3>1, ForwardedSendable
  <2>2. CASE ~IsResponse(outcome)
    <3>1. n = EncodedFailure(config.errors, held, outcome)
      BY <1>2, <2>2
    <3> QED
      BY <3>1, FailureSendable
  <2> QED
    BY <2>1, <2>2
<1>4. config.errors \in BrokerTargets \union HttpTargets /\ (config.errors = "reply" => config.in \in Brokers)
  BY <1>1, ConfigFacts DEF BrokerTargets, HttpTargets
<1> QED
  BY <1>2, <1>3, <1>4, DeliveredFrame

-----------------------------------------------------------------------------
(* Decoding *)

ReaderOf(f) == IF f.subject = "reply" THEN "caller" ELSE Reader(f.subject)

LEMMA DecodesRight ==
  ASSUME IsConfigured, NEW f, FrameInv(f), NEW r, Reads(f, r), f.payload.value # Value("page")
  PROVE  /\ Hints(f.transport, r.headers) # {}
         /\ \A hint \in Hints(f.transport, r.headers) :
              DecodeWithContentType(Endpoint(ReaderOf(f)), f.payload, hint) = f.payload.value
<1> DEFINE w == IF f.subject = "in" THEN "caller" ELSE "route"
           type == config.default[w]
<1>1. w \in Parties /\ ReaderOf(f) \in Parties /\ type \in {"json", "cbor"}
  <2>1. w \in Parties /\ ReaderOf(f) \in Parties
    BY DEF Parties, ReaderOf, Reader
  <2> QED
    BY <2>1, ConfigFacts
<1>2. f.payload.format = type /\ Label(f, type)
  BY DEF FrameInv, LabelInv, WriterOf
<1>3. Hints(f.transport, r.headers) = IF f.transport \in {"nng", "redis"} THEN {NoName} ELSE {Plain(type)}
  BY <1>1, <1>2 DEF Reads, NoType
<1>4. CASE f.transport \in {"nng", "redis"}
  <2>1. type = config.default[ReaderOf(f)]
    BY <1>4, ConfigFacts DEF FrameInv, PlaceInv, ReaderOf, Reader
  <2>2. DecodeWithContentType(Endpoint(ReaderOf(f)), f.payload, NoName) = f.payload.value
    BY <1>1, <1>2, <2>1, EndpointOf
  <2> QED
    BY <1>3, <1>4, <2>2
<1>5. CASE f.transport \notin {"nng", "redis"}
  <2>1. DecodeWithContentType(Endpoint(ReaderOf(f)), f.payload, Plain(type)) = f.payload.value
    BY <1>1, <1>2, EndpointOf
  <2> QED
    BY <1>3, <1>5, <2>1
<1> QED
  BY <1>4, <1>5

-----------------------------------------------------------------------------
(* Steps of the route and of the readers *)

LEMMA ConfiguredStays ==
  ASSUME UNCHANGED <<config, origin>>
  PROVE  /\ IsConfigured <=> IsConfigured'
         /\ \A f : FrameInv(f) => FrameInv(f)'
<1>1. ASSUME NEW f, FrameInv(f) PROVE FrameInv(f)'
  <2>1. PlaceInv(f)'
    BY <1>1 DEF FrameInv, PlaceInv
  <2>2. LabelInv(f)'
    BY <1>1 DEF FrameInv, LabelInv, WriterOf
  <2>3. OriginInv(f)'
    BY <1>1 DEF FrameInv, OriginInv
  <2>4. IdInv(f)'
    BY <1>1 DEF FrameInv, IdInv, HasOneId
  <2>5. ResultInv(f)'
    BY <1>1 DEF FrameInv, ResultInv, ResultOf, HasOneId
  <2>6. ReplyInv(f)'
    BY <1>1 DEF FrameInv, ReplyInv
  <2> QED
    BY <2>1, <2>2, <2>3, <2>4, <2>5, <2>6 DEF FrameInv
<1>2. IsConfigured <=> IsConfigured'
  BY DEF IsConfigured, Agree
<1> QED
  BY <1>1, <1>2

LEMMA RedeliveredFrame ==
  ASSUME NEW f, FrameInv(f)
  PROVE  FrameInv([f EXCEPT !.redelivered = TRUE])
<1> DEFINE g == [f EXCEPT !.redelivered = TRUE]
<1>1. /\ g.subject = f.subject /\ g.transport = f.transport /\ g.headers = f.headers
      /\ g.payload = f.payload /\ g.native = f.native
  OBVIOUS
<1> HIDE DEF g
<1>2. \A type : Label(f, type) => Label(g, type)
  BY <1>1 DEF Label
<1>3. LabelInv(g) /\ PlaceInv(g) /\ OriginInv(g)
  BY <1>1, <1>2 DEF FrameInv, LabelInv, WriterOf, PlaceInv, OriginInv
<1>4. IdInv(g)
  BY <1>1 DEF FrameInv, IdInv, FrameHasId, Carries
<1>5. ResultInv(g) /\ ReplyInv(g)
  BY <1>1 DEF FrameInv, ResultInv, ReplyInv
<1>6. FrameInv(g)
  BY <1>3, <1>4, <1>5 DEF FrameInv
<1> QED
  BY <1>6 DEF g

LEMMA FinishKeeps ==
  ASSUME JourneyInv, held # Nothing, NEW frames, NEW decision, Finish(frames, decision),
         \A f \in frames : FrameInv(f)
  PROVE  JourneyInv'
<1>1. /\ network' = network \union frames \union Settled(decision)
      /\ held' = Nothing /\ config' = config /\ origin' = origin /\ returned' = returned
  BY DEF Finish
<1>2. \A f \in Settled(decision) : FrameInv(f)
  BY RedeliveredFrame DEF Settled, JourneyInv, HeldInv
<1>3. \A f \in network' : FrameInv(f)
  BY <1>1, <1>2 DEF JourneyInv
<1>4. \A f \in network' : FrameInv(f)'
  BY <1>1, <1>3, ConfiguredStays
<1>5. origin # Nothing
  BY DEF JourneyInv, StartInv
<1>6. StartInv'
  BY <1>1, <1>5, ConfiguredStays DEF StartInv, JourneyInv, IsConfigured
<1>7. HeldInv' /\ (returned = "transport" => config.to = "http")'
  BY <1>1 DEF HeldInv, JourneyInv
<1> QED
  BY <1>4, <1>6, <1>7 DEF JourneyInv

LEMMA FailKeeps ==
  ASSUME JourneyInv, held # Nothing, held.frame.subject = "in", NEW outcome, Answers(outcome), Fail(outcome)
  PROVE  JourneyInv'
<1>1. PICK frames \in DeliverFailure(held, outcome) : Finish(frames, config.onFailure)
  BY DEF Fail
<1>2. \A f \in frames : FrameInv(f)
  BY FailureFrames DEF JourneyInv, StartInv, IsConfigured
<1> QED
  BY <1>1, <1>2, FinishKeeps

LEMMA RouteStepKeeps ==
  ASSUME JourneyInv,
         TargetRejects \/ KeyUnresolved \/ NoConsume \/ HandlerFails \/ HandlerSucceeds \/ Consume
  PROVE  JourneyInv'
<1>1. Answers(SendError) /\ Answers(HandlerError)
  BY DEF Answers, IsResponse, SendError, HandlerError
<1>2. CASE TargetRejects \/ KeyUnresolved \/ NoConsume \/ HandlerFails
  BY <1>1, <1>2, FailKeeps DEF TargetRejects, KeyUnresolved, NoConsume, HandlerFails, MayRun, AtRoute
<1>3. CASE HandlerSucceeds
  <2>1. held # Nothing /\ held.frame.subject = "in"
    BY <1>3 DEF HandlerSucceeds, MayRun, AtRoute
  <2>2. CASE config.to = "none"
    <3>1. Finish({}, "Ack")
      BY <1>3, <2>2 DEF HandlerSucceeds
    <3> QED
      BY <2>1, <3>1, FinishKeeps
  <2>3. CASE config.to # "none"
    <3>1. PICK m \in Outputs(held) : \E outcome \in DeliverTo(config.to, EncodeHandlerOutput(m)) :
            IF IsFrame(outcome) THEN Finish({outcome}, "Ack") ELSE Fail(outcome)
      BY <1>3, <2>3 DEF HandlerSucceeds
    <3>2. PICK outcome \in DeliverTo(config.to, EncodeHandlerOutput(m)) :
            IF IsFrame(outcome) THEN Finish({outcome}, "Ack") ELSE Fail(outcome)
      BY <3>1
    <3>3. IsConfigured /\ HeldInv
      BY DEF JourneyInv, StartInv, IsConfigured
    <3>4. CASE IsFrame(outcome)
      <4>1. Sendable(config.to, EncodeHandlerOutput(m))
        BY <2>1, <3>3, OutputSendable
      <4>2. config.to \in BrokerTargets \union HttpTargets /\ (config.to = "reply" => config.in \in Brokers)
        BY <2>3, <3>3, ConfigFacts DEF BrokerTargets, HttpTargets
      <4>3. FrameInv(outcome)
        BY <3>2, <3>3, <3>4, <4>1, <4>2, DeliveredFrame
      <4>4. Finish({outcome}, "Ack")
        BY <3>2, <3>4
      <4> QED
        BY <2>1, <4>3, <4>4, FinishKeeps
    <3>5. CASE ~IsFrame(outcome)
      <4>1. Answers(outcome)
        BY <2>3, <3>2, <3>3, <3>5, DeliveryAnswers
      <4>2. Fail(outcome)
        BY <3>2, <3>5
      <4> QED
        BY <2>1, <4>1, <4>2, FailKeeps
    <3> QED
      BY <3>4, <3>5
  <2> QED
    BY <2>2, <2>3
<1>4. CASE Consume
  BY <1>4, FinishKeeps DEF Consume
<1> QED
  BY <1>2, <1>3, <1>4

LEMMA ReceiveKeeps ==
  ASSUME JourneyInv, NEW frame \in network, Receive(frame)
  PROVE  JourneyInv'
<1>1. PICK r \in Received(frame, Minted[frame.subject]) : held' = RouteMessage(frame, r)
  BY DEF Receive
<1>2. /\ network' = network \ {frame} /\ config' = config /\ origin' = origin /\ returned' = returned
      /\ frame.subject # "reply"
  BY DEF Receive
<1>3. FrameInv(frame) /\ \A f \in network' : FrameInv(f)
  BY <1>2 DEF JourneyInv
<1>4. FrameInv(frame)' /\ \A f \in network' : FrameInv(f)'
  BY <1>2, <1>3, ConfiguredStays
<1>5. held'.frame = frame
  BY <1>1 DEF RouteMessage
<1>6. HeldInv'
  <2>1. FrameInv(held.frame)'
    BY <1>4, <1>5 DEF FrameInv, PlaceInv, LabelInv, OriginInv, IdInv, ResultInv, ReplyInv
  <2> QED
    BY <1>1, <1>2, <1>5, <2>1 DEF HeldInv
<1>7. StartInv'
  BY <1>2, ConfiguredStays DEF StartInv, JourneyInv, IsConfigured
<1> QED
  BY <1>2, <1>4, <1>6, <1>7 DEF JourneyInv

LEMMA ReplyKeeps ==
  ASSUME JourneyInv, NEW frame \in network, ReplyArrives(frame)
  PROVE  JourneyInv'
<1>1. /\ network' = network \ {frame} /\ config' = config /\ origin' = origin /\ held' = held
      /\ frame.subject = "reply"
  BY DEF ReplyArrives
<1>2. FrameInv(frame) /\ \A f \in network' : FrameInv(f)
  BY <1>1 DEF JourneyInv
<1>3. \A f \in network' : FrameInv(f)'
  BY <1>1, <1>2, ConfiguredStays
<1>4. HeldInv'
  <2> SUFFICES ASSUME held' # Nothing
               PROVE  /\ FrameInv(held.frame)' /\ held'.frame.subject # "reply"
                      /\ \E r \in Received(held'.frame, Minted[held'.frame.subject]) : held' = RouteMessage(held'.frame, r)
    BY DEF HeldInv
  <2>1. /\ FrameInv(held.frame) /\ held.frame.subject # "reply"
        /\ \E r \in Received(held.frame, Minted[held.frame.subject]) : held = RouteMessage(held.frame, r)
    BY <1>1 DEF JourneyInv, HeldInv
  <2>2. FrameInv(held.frame)'
    BY <1>1, <2>1 DEF FrameInv, PlaceInv, LabelInv, WriterOf, OriginInv, IdInv, HasOneId, ResultInv, ResultOf, ReplyInv
  <2> QED
    BY <1>1, <2>1, <2>2
<1>5. StartInv'
  BY <1>1, ConfiguredStays DEF StartInv, JourneyInv, IsConfigured
<1>6. ASSUME returned' = "transport", config.to # "http" PROVE FALSE
  <2>1. PICK r \in Received(frame, Minted.reply) :
          IF returned = "none" /\ Correlation(r.headers) = origin.corr /\ origin.kind = "call"
          THEN \E hint \in Hints(frame.transport, r.headers) :
                 LET decoded == DecodeWithContentType(Endpoint("caller"), frame.payload, hint)
                 IN returned' = IF decoded = SerializationError THEN "transport"
                                ELSE Outcome(r.headers, decoded)
          ELSE UNCHANGED returned
    BY DEF ReplyArrives
  <2>2. returned # "transport"
    BY <1>6 DEF JourneyInv
  <2>3. PICK hint \in Hints(frame.transport, r.headers) :
          LET decoded == DecodeWithContentType(Endpoint("caller"), frame.payload, hint)
          IN returned' = IF decoded = SerializationError THEN "transport"
                         ELSE Outcome(r.headers, decoded)
    BY <1>6, <2>1, <2>2
  <2>4. IsConfigured
    BY DEF JourneyInv, StartInv, IsConfigured
  <2>5. frame.transport = config.in /\ config.in \in Brokers
    BY <1>1, <1>2 DEF FrameInv, PlaceInv
  <2>6. Reads(frame, r)
    <3>1. /\ frame.transport \notin {"rabbit", "outbox"} => frame.native.id = NoId
          /\ frame.transport = "outbox" => frame.native.id # NoId
      BY <1>2 DEF FrameInv, PlaceInv
    <3> QED
      BY <2>5, <3>1, SourceReads
  <2>7. /\ frame.payload.value = Value("output") \/ frame.payload.value.is = "failure"
        /\ frame.payload.value # Value("output") <=> Exact("failure") \in DOMAIN frame.headers
    BY <1>1, <1>2, <1>6 DEF FrameInv, ResultInv, ResultOf, ReplyInv
  <2>8. frame.payload.value # Value("page") /\ frame.payload.value # SerializationError
    BY <2>7, Values DEF SerializationError
  <2>9. DecodeWithContentType(Endpoint("caller"), frame.payload, hint) = frame.payload.value
    <3>1. ReaderOf(frame) = "caller"
      BY <1>1 DEF ReaderOf
    <3> QED
      BY <1>2, <2>3, <2>4, <2>6, <2>8, <3>1, DecodesRight
  <2>10. Exact("failure") \in DOMAIN r.headers <=> Exact("failure") \in DOMAIN frame.headers
    BY <2>5, <2>6, KeptFacts DEF Reads
  <2>11. returned' = Outcome(r.headers, frame.payload.value)
    BY <2>3, <2>8, <2>9
  <2> QED
    BY <1>6, <2>7, <2>10, <2>11, Values DEF Outcome
<1> QED
  BY <1>1, <1>3, <1>4, <1>5, <1>6 DEF JourneyInv

-----------------------------------------------------------------------------
(* Origins *)

\* What the origin puts before the first route.
Entered(f, id, corr) ==
  /\ f.subject = "in" /\ f.transport = config.in
  /\ f.transport \notin {"rabbit", "outbox"} => f.native.id = NoId
  /\ f.transport = "outbox" => f.native.id # NoId
  /\ f.payload.value = Value("input") /\ f.payload.format = config.default["caller"]
  /\ Label(f, config.default["caller"])
  /\ OneSpelling(f.headers, "corr") /\ Correlation(f.headers) = corr
  /\ Forms = {"exact"} => OneSpelling(f.headers, "id")
  /\ Forms = {"exact"} /\ id # NoId =>
       /\ FrameHasId(f, id) /\ Carries(f)
       /\ f.transport = "outbox" => HasId(f.headers, id)

LEMMA OriginKeeps ==
  ASSUME JourneyInv, origin = Nothing, NEW kind, NEW id, NEW corr, Starts(kind, id, corr),
         UNCHANGED <<config, held>>, returned' # "transport",
         \A f \in network' : Entered(f, id, corr)
  PROVE  JourneyInv'
<1>1. config' = config /\ held' = Nothing
  BY DEF JourneyInv, StartInv
<1>2. origin' = [kind |-> kind, id |-> id, corr |-> corr]
  BY DEF Starts
<1>3. origin'.id = id /\ origin'.corr = corr /\ origin' # Nothing
  BY <1>2 DEF Nothing
<1>4. ASSUME NEW f \in network' PROVE FrameInv(f)'
  <2>1. Entered(f, id, corr)
    BY <1>4
  <2>2. PlaceInv(f)'
    BY <1>1, <2>1 DEF Entered, PlaceInv
  <2>3. LabelInv(f)'
    BY <1>1, <2>1 DEF Entered, LabelInv, WriterOf
  <2>4. OriginInv(f)'
    BY <1>3, <2>1 DEF Entered, OriginInv
  <2>5. IdInv(f)'
    BY <1>3, <2>1 DEF Entered, IdInv, HasOneId
  <2>6. ResultInv(f)' /\ ReplyInv(f)'
    BY <2>1 DEF Entered, ResultInv, ReplyInv
  <2> QED
    BY <2>2, <2>3, <2>4, <2>5, <2>6 DEF FrameInv
<1>5. HeldInv'
  BY <1>1 DEF HeldInv
<1>6. StartInv'
  BY <1>1, <1>3 DEF JourneyInv, StartInv, Agree
<1> QED
  BY <1>4, <1>5, <1>6 DEF JourneyInv

\* What applications attach: one ID, in one place unless they spell it otherwise.
Attached(h, id) == /\ Variants(h, "corr") = {}
                   /\ HasId(h, id)
                   /\ Forms = {"exact"} => OneSpelling(h, "id")

LEMMA ExtendedAttached ==
  ASSUME NEW names, NEW form \in Forms, NEW app \in AppHeaders,
         names \subseteq {<<"id", form>>, <<"type", "other">>, Exact("failure")}
  PROVE  LET h == Extended(Given(names), app)
         IN /\ Attached(h, GivenId)
            /\ Exact("id") \in names <=> Exact("id") \in DOMAIN h
            /\ <<"type", "other">> \notin names => Variants(h, "type") = {}
<1> DEFINE h == Extended(Given(names), app)
<1>1. /\ DOMAIN h = names \union DOMAIN app
      /\ \A name \in names : name \notin DOMAIN app => h[name] = GivenValue[name[1]]
  BY DEF Extended, Given
<1>2. \A name \in DOMAIN app : name[1] \notin {"id", "type", "corr"}
  <2>1. PICK mine \in SUBSET (AppNames \X Forms) : app \in [mine -> AppValues]
    BY DEF AppHeaders
  <2> QED
    BY <2>1, AppAssumption
<1>3. \A base, other : <<base, other>>[1] = base
  OBVIOUS
<1> HIDE DEF h
<1>4. Variants(h, "corr") = {}
  BY <1>1, <1>2, <1>3 DEF Variants, Exact
<1>5. \A name \in Variants(h, "id") : name \in names /\ name = <<"id", form>> /\ name \notin DOMAIN app
  BY <1>1, <1>2, <1>3 DEF Variants, Exact
<1>6. HasId(h, GivenId)
  <2>1. \A name \in Variants(h, "id") : h[name] = GivenValue[name[1]] /\ name[1] = "id"
    BY <1>1, <1>3, <1>5
  <2>2. GivenValue["id"] = GivenId
    BY DEF GivenValue
  <2> QED
    BY <2>1, <2>2 DEF HasId
<1>7. Forms = {"exact"} => OneSpelling(h, "id")
  BY <1>5 DEF OneSpelling, Exact
<1>8. Exact("id") \in names <=> Exact("id") \in DOMAIN h
  BY <1>1, <1>2, <1>3 DEF Exact
<1>9. <<"type", "other">> \notin names => Variants(h, "type") = {}
  BY <1>1, <1>2, <1>3 DEF Variants, Exact
<1> QED
  BY <1>4, <1>6, <1>7, <1>8, <1>9 DEF Attached, h

LEMMA GivenAttached ==
  ASSUME NEW h \in GivenHeaders
  PROVE  Attached(h, GivenId)
<1>1. PICK names \in GivenNames, app \in AppHeaders : h = Extended(Given(names), app)
  BY DEF GivenHeaders
<1>2. PICK form \in Forms : names \subseteq {<<"id", form>>, <<"type", "other">>, Exact("failure")}
  BY <1>1 DEF GivenNames
<1> QED
  BY <1>1, <1>2, ExtendedAttached

LEMMA KeptAttached ==
  ASSUME NEW h, NEW g, NEW id, Attached(h, id), Kept(h, g, "id"), Kept(h, g, "corr")
  PROVE  Attached(g, id)
BY KeptFacts DEF Attached, Kept, OneSpelling

\* A frame of the application's own.
LEMMA ArrivesKeeps ==
  ASSUME JourneyInv, origin = Nothing, NEW kind, NEW h, NEW native, NEW id, Arrives(kind, h, native, id),
         Variants(h, "corr") = {},
         LET f == FrameOf(config.in, h, EncodeWith(CodecOf(config.default["caller"], config.default["caller"]),
                                                   Value("input")), native)
         IN /\ config.in \notin {"rabbit", "outbox"} => native.id = NoId
            /\ config.in = "outbox" => native.id # NoId
            /\ Label(f, config.default["caller"])
            /\ Forms = {"exact"} => OneSpelling(h, "id")
            /\ Forms = {"exact"} /\ id # NoId =>
                 /\ FrameHasId(f, id) /\ Carries(f)
                 /\ config.in = "outbox" => HasId(h, id)
  PROVE  JourneyInv'
<1> DEFINE p == EncodeWith(CodecOf(config.default["caller"], config.default["caller"]), Value("input"))
           f == FrameOf(config.in, h, p, native)
           a == Addressed("in", f)
<1>1. /\ network' = {a} /\ Starts(kind, id, NoCall) /\ UNCHANGED <<config, held, returned>>
  BY DEF Arrives
<1>2. p.format = config.default["caller"] /\ p.value = Value("input")
  BY DEF EncodeWith, CodecOf
<1> HIDE DEF p
<1>3. f.transport = config.in /\ f.headers = h /\ f.payload = p /\ f.native = native
  BY FrameFields
<1> HIDE DEF f
<1>4. /\ a.subject = "in" /\ a.transport = f.transport /\ a.headers = f.headers
      /\ a.payload = f.payload /\ a.native = f.native
      /\ \A type : Label(a, type) <=> Label(f, type)
      /\ \A i : FrameHasId(a, i) <=> FrameHasId(f, i)
      /\ Carries(a) <=> Carries(f)
  BY AddressedFields
<1> HIDE DEF a
<1>5. OneSpelling(h, "corr") /\ Correlation(h) = NoCall
  BY DEF OneSpelling, Correlation, Variants, Exact
<1>6. Entered(a, id, NoCall)
  BY <1>2, <1>3, <1>4, <1>5 DEF Entered, f, p
<1>7. returned' # "transport"
  BY <1>1 DEF JourneyInv, StartInv
<1> QED
  BY <1>1, <1>6, <1>7, OriginKeeps

LEMMA CallKeeps ==
  ASSUME JourneyInv, origin = Nothing, Call
  PROVE  JourneyInv'
<1>1. PICK h \in GivenHeaders :
        LET results == DispatchRaw(config.in, Request(h), OtherId,
                                   Encode(Endpoint("caller"), Value("input")), Minted.in)
        IN /\ network' = Sent("in", results)
           /\ returned' = IF results = {SendError} THEN "unsent" ELSE "none"
           /\ Starts("call", IF config.in # "nng" THEN OtherId
                             ELSE IF Exact("id") \in DOMAIN h THEN GivenId ELSE NoId, OwnCall)
  BY DEF Call
<1> DEFINE t == config.in
           p == Encode(Endpoint("caller"), Value("input"))
           g == Request(h)
           put == Put(Put(h, "corr", OwnCall), "reply", "caller")
           id == IF t # "nng" THEN OtherId ELSE IF Exact("id") \in DOMAIN h THEN GivenId ELSE NoId
           type == config.default["caller"]
<1>2. IsConfigured /\ t \in Brokers
  BY DEF Call, JourneyInv, StartInv, IsConfigured
<1>3. p.format = type /\ p.value = Value("input") /\ type # NoType /\ ContentType(Endpoint("caller")) = type
  BY <1>2, EndpointOf, ConfigFacts DEF Parties, NoType
<1>4. Attached(h, GivenId)
  BY GivenAttached
<1>5. /\ Variants(put, "corr") = {Exact("corr")} /\ put[Exact("corr")] = OwnCall
      /\ Kept(h, put, "id")
  <2> DEFINE one == Put(h, "corr", OwnCall)
  <2>1. Variants(one, "corr") = {Exact("corr")} /\ one[Exact("corr")] = OwnCall
    BY <1>4, PutPuts DEF Attached
  <2>2. Kept(one, put, "corr") /\ Kept(h, one, "id") /\ Kept(one, put, "id")
    BY PutKeeps
  <2>3. Kept(h, put, "id")
    BY <2>2, KeptAgain
  <2> HIDE DEF one, put
  <2> QED
    BY <2>1, <2>2, <2>3 DEF Kept
<1>6. g = IF SupportsContentTypeHeaders(t) THEN SetContentType(put, type) ELSE put
  BY <1>3 DEF Request
<1> HIDE DEF put, p
<1>7. /\ \A other : other # "type" => Kept(put, g, other)
      /\ SupportsContentTypeHeaders(t) => Named(g, type)
  BY <1>6, LabelIsSet DEF Kept
<1>8. Kept(put, g, "id") /\ Kept(put, g, "corr")
  BY <1>7
<1>9. Kept(h, g, "id") /\ OneSpelling(g, "corr") /\ Correlation(g) = OwnCall
  <2>1. Kept(h, g, "id")
    BY <1>5, <1>8, KeptAgain
  <2>2. Variants(g, "corr") = {Exact("corr")} /\ g[Exact("corr")] = OwnCall
    BY <1>5, <1>8 DEF Kept
  <2> QED
    BY <2>1, <2>2 DEF OneSpelling, Correlation, Variants
<1>10. HasId(g, GivenId) /\ (Forms = {"exact"} => OneSpelling(g, "id"))
       /\ (Exact("id") \in DOMAIN h => Variants(g, "id") # {})
  <2>1. HasId(g, GivenId)
    BY <1>4, <1>9, KeptFacts DEF Attached
  <2> QED
    BY <1>4, <1>9, <2>1 DEF Attached, Kept, OneSpelling, Variants, Exact
<1> HIDE DEF g
<1>11. ASSUME NEW a \in network' PROVE Entered(a, id, OwnCall)
  <2>1. PICK f \in DispatchRaw(t, g, OtherId, p, Minted.in) \ {SendError} : a = Addressed("in", f)
    BY <1>1, <1>11 DEF Sent, g, p
  <2>2. /\ Conveys(f, t, g, p)
        /\ t # "nng" \/ Variants(g, "id") # {} => Carries(f)
        /\ \A i : Conducts(t, g, OtherId, i) => FrameHasId(f, i) /\ (t = "rabbit" => f.native.id # NoId)
    BY <1>2, <2>1, DispatchConveys
  <2>3. /\ a.subject = "in" /\ a.transport = f.transport /\ a.headers = f.headers
        /\ a.payload = f.payload /\ a.native = f.native
        /\ \A y : Label(a, y) <=> Label(f, y)
        /\ \A i : FrameHasId(a, i) <=> FrameHasId(f, i)
        /\ Carries(a) <=> Carries(f)
    BY <2>1, AddressedFields
  <2>4. /\ a.transport = t /\ a.payload = p /\ (t # "rabbit" => a.native.id = NoId)
        /\ OneSpelling(g, "id") => OneSpelling(a.headers, "id")
        /\ Kept(g, a.headers, "corr")
    BY <2>2, <2>3 DEF Conveys
  <2>5. Label(f, type)
    <3>1. CASE SupportsContentTypeHeaders(t)
      BY <1>3, <1>7, <2>2, <3>1 DEF Conveys, SupportsContentTypeHeaders
    <3>2. CASE ~SupportsContentTypeHeaders(t)
      BY <1>2, <2>3, <2>4, <3>2 DEF Label, SupportsContentTypeHeaders, Brokers
    <3> QED
      BY <3>1, <3>2
  <2>6. OneSpelling(a.headers, "corr") /\ Correlation(a.headers) = OwnCall
    BY <1>9, <2>4, KeptFacts DEF Kept, OneSpelling
  <2>9. Forms = {"exact"} => OneSpelling(a.headers, "id")
    BY <1>10, <2>4
  <2>7. ASSUME Forms = {"exact"}, id # NoId
        PROVE  FrameHasId(a, id) /\ Carries(a)
    <3>2. CASE t = "nng"
      <4>1. Exact("id") \in DOMAIN h /\ id = GivenId
        BY <2>7, <3>2
      <4> QED
        BY <1>10, <2>2, <2>3, <2>7, <3>2, <4>1 DEF Conducts
    <3>3. CASE t # "nng"
      BY <1>10, <2>2, <2>3, <2>7, <3>3 DEF Conducts
    <3> QED
      BY <3>2, <3>3
  <2>8. t \notin {"outbox"}
    BY <1>2 DEF Brokers
  <2> HIDE DEF id, type
  <2> QED
    BY <1>3, <2>3, <2>4, <2>5, <2>6, <2>7, <2>8, <2>9 DEF Entered, type
<1>12. Starts("call", id, OwnCall) /\ UNCHANGED <<config, held>> /\ returned' # "transport"
  BY <1>1 DEF Call
<1> HIDE DEF id
<1> QED
  BY <1>11, <1>12, OriginKeeps

LEMMA PublishKeeps ==
  ASSUME JourneyInv, origin = Nothing, PublishIn
  PROVE  JourneyInv'
<1>1. PICK h \in GivenHeaders, reply \in BOOLEAN :
        /\ network' = Sent("in", Publish(config.in, IF reply THEN Put(h, "reply", "caller") ELSE h,
                                         Endpoint("caller"), Value("input"), GivenId))
        /\ Starts("publish", GivenId, NoCall)
  BY DEF PublishIn
<1> DEFINE t == config.in
           g == IF reply THEN Put(h, "reply", "caller") ELSE h
           p == Encode(Endpoint("caller"), Value("input"))
           type == config.default["caller"]
<1>2. IsConfigured /\ t \in Brokers
  BY DEF PublishIn, JourneyInv, StartInv, IsConfigured
<1>3. p.format = type /\ p.value = Value("input") /\ type # NoType /\ ContentType(Endpoint("caller")) = type
  BY <1>2, EndpointOf, ConfigFacts DEF Parties, NoType
<1>4. Attached(g, GivenId)
  <2>1. Kept(h, Put(h, "reply", "caller"), "id") /\ Kept(h, Put(h, "reply", "caller"), "corr")
    BY PutKeeps
  <2>2. Kept(h, h, "id") /\ Kept(h, h, "corr")
    BY DEF Kept
  <2> QED
    BY <2>1, <2>2, GivenAttached, KeptAttached
<1> HIDE DEF p, g
<1>5. ASSUME NEW a \in network' PROVE Entered(a, GivenId, NoCall)
  <2>1. PICK f \in Publish(t, g, Endpoint("caller"), Value("input"), GivenId) \ {SendError} :
          a = Addressed("in", f)
    BY <1>1, <1>5 DEF Sent, g
  <2>2. /\ f.transport = t /\ f.payload = p
        /\ OneSpelling(g, "id") => OneSpelling(f.headers, "id")
        /\ \A other : other \notin {"id", "type"} => Kept(g, f.headers, other)
        /\ t # "rabbit" => f.native.id = NoId
        /\ Label(f, type) /\ Carries(f)
        /\ \A i : i # NoId /\ HasId(g, i) /\ (Variants(g, "id") # {} \/ GivenId = i) => FrameHasId(f, i)
    <3>1. ContentType(Endpoint("caller")) # NoType
      BY <1>3
    <3>2. IsPublished(f, t, g, Endpoint("caller"), Value("input"), GivenId)
      BY <1>2, <2>1, <3>1, PublishConveys
    <3> QED
      BY <1>3, <3>2 DEF p, IsPublished
  <2>3. /\ a.subject = "in" /\ a.transport = f.transport /\ a.headers = f.headers
        /\ a.payload = f.payload /\ a.native = f.native
        /\ \A y : Label(a, y) <=> Label(f, y)
        /\ \A i : FrameHasId(a, i) <=> FrameHasId(f, i)
        /\ Carries(a) <=> Carries(f)
    BY <2>1, AddressedFields
  <2>4. Kept(g, a.headers, "corr")
    BY <2>2, <2>3
  <2>5. OneSpelling(a.headers, "corr") /\ Correlation(a.headers) = NoCall
    <3>1. Variants(a.headers, "corr") = {}
      BY <1>4, <2>4 DEF Attached, Kept
    <3> QED
      BY <3>1 DEF OneSpelling, Correlation, Variants, Exact
  <2>6. FrameHasId(a, GivenId) /\ (Forms = {"exact"} => OneSpelling(a.headers, "id"))
    BY <1>4, <2>2, <2>3 DEF Attached, GivenId, NoId
  <2>7. t # "outbox"
    BY <1>2 DEF Brokers
  <2> QED
    BY <1>3, <2>2, <2>3, <2>5, <2>6, <2>7 DEF Entered
<1>6. UNCHANGED <<config, held, returned>> /\ returned = "none"
  BY DEF PublishIn, JourneyInv, StartInv
<1> QED
  BY <1>1, <1>5, <1>6, OriginKeeps

LEMMA LabelledFields ==
  ASSUME NEW h
  PROVE  /\ Variants(h, "type") = {} => Named(Labelled(h), config.default["caller"])
         /\ \A other : other # "type" => Kept(h, Labelled(h), other)
BY PutPuts, PutKeeps DEF Labelled, Named

LEMMA HttpRequestKeeps ==
  ASSUME JourneyInv, origin = Nothing, HttpRequest
  PROVE  JourneyInv'
<1>1. PICK names \in SUBSET {Exact("id")}, app \in {a \in AppHeaders : FitHeaderMap(a)} :
        LET h == Extended(Given(names), app)
        IN Arrives("http", Labelled(h), NotAmqp, IF Exact("id") \in DOMAIN h THEN GivenId ELSE NoId)
  BY DEF HttpRequest
<1> DEFINE h == Extended(Given(names), app)
           g == Labelled(h)
           id == IF Exact("id") \in DOMAIN h THEN GivenId ELSE NoId
           type == config.default["caller"]
           f == FrameOf(config.in, g, EncodeWith(CodecOf(type, type), Value("input")), NotAmqp)
<1>2. Arrives("http", g, NotAmqp, id)
  BY <1>1
<1>3. config.in = "http"
  BY DEF HttpRequest
<1>4. /\ Attached(h, GivenId) /\ Variants(h, "type") = {}
  <2>1. names \subseteq {<<"id", "exact">>, <<"type", "other">>, Exact("failure")} /\ "exact" \in Forms
        /\ app \in AppHeaders
    BY FormsAssumption DEF Exact
  <2>2. <<"type", "other">> \notin names
    BY DEF Exact
  <2> QED
    BY <2>1, <2>2, ExtendedAttached
<1> HIDE DEF h
<1>5. Named(g, type) /\ \A other : other # "type" => Kept(h, g, other)
  BY <1>4, LabelledFields
<1>6. Kept(h, g, "id") /\ Kept(h, g, "corr")
  BY <1>5
<1>7. Attached(g, GivenId)
  BY <1>4, <1>6, KeptAttached
<1> HIDE DEF g
<1>8. f.transport = "http" /\ f.headers = g /\ f.native.id = NoId
  BY <1>3, FrameFields DEF NotAmqp
<1> HIDE DEF f
<1>9. Label(f, type)
  BY <1>5, <1>8 DEF Label
<1>10. ASSUME Forms = {"exact"}, id # NoId
       PROVE  FrameHasId(f, id) /\ Carries(f)
  <2>1. Exact("id") \in DOMAIN h /\ id = GivenId
    BY <1>10
  <2>2. Variants(g, "id") # {}
    BY <1>6, <2>1 DEF Kept, Variants, Exact
  <2> QED
    BY <1>7, <1>8, <1>10, <2>1, <2>2 DEF Attached, FrameHasId, Carries
<1>11. /\ Variants(g, "corr") = {} /\ NotAmqp.id = NoId
       /\ Forms = {"exact"} => OneSpelling(g, "id")
  BY <1>7 DEF Attached, NotAmqp
<1> HIDE DEF id
<1> QED
  BY <1>2, <1>3, <1>9, <1>10, <1>11, ArrivesKeeps DEF f

LEMMA OutboxKeeps ==
  ASSUME JourneyInv, origin = Nothing, OutboxRecord
  PROVE  JourneyInv'
<1> DEFINE type == config.default["caller"]
           native == [type |-> type, id |-> GivenId]
<1>1. PICK h \in GivenHeaders : Arrives("outbox", h, native, GivenId)
  BY DEF OutboxRecord
<1> DEFINE f == FrameOf(config.in, h, EncodeWith(CodecOf(type, type), Value("input")), native)
<1>2. config.in = "outbox"
  BY DEF OutboxRecord
<1>3. Attached(h, GivenId)
  BY GivenAttached
<1>4. native.type = type /\ native.id = GivenId /\ GivenId # NoId
  BY DEF GivenId, NoId
<1> HIDE DEF native
<1>5. f.transport = "outbox" /\ f.headers = h /\ f.native = native
  BY <1>2, FrameFields
<1> HIDE DEF f
<1>6. Label(f, type)
  BY <1>4, <1>5 DEF Label
<1>7. /\ FrameHasId(f, GivenId) /\ Carries(f) /\ HasId(h, GivenId) /\ Variants(h, "corr") = {}
      /\ Forms = {"exact"} => OneSpelling(h, "id")
  BY <1>3, <1>4, <1>5 DEF Attached, FrameHasId, Carries
<1> QED
  BY <1>1, <1>2, <1>4, <1>6, <1>7, ArrivesKeeps DEF f

LEMMA ForeignKeeps ==
  ASSUME JourneyInv, origin = Nothing, ForeignPublish
  PROVE  JourneyInv'
<1>1. PICK form \in Forms, nativeId \in {NoId, GivenId} : \E names \in SUBSET {<<"id", form>>, Exact("reply")} :
        LET h == [name \in names |-> IF name[1] = "id" THEN OtherId ELSE "caller"]
        IN Arrives("foreign", Labelled(h), [type |-> NoType, id |-> nativeId],
                   IF nativeId # NoId THEN nativeId ELSE IF Variants(h, "id") # {} THEN OtherId ELSE NoId)
  BY DEF ForeignPublish
<1>2. PICK names \in SUBSET {<<"id", form>>, Exact("reply")} :
        LET h == [name \in names |-> IF name[1] = "id" THEN OtherId ELSE "caller"]
        IN Arrives("foreign", Labelled(h), [type |-> NoType, id |-> nativeId],
                   IF nativeId # NoId THEN nativeId ELSE IF Variants(h, "id") # {} THEN OtherId ELSE NoId)
  BY <1>1
<1> DEFINE h == [name \in names |-> IF name[1] = "id" THEN OtherId ELSE "caller"]
           g == Labelled(h)
           native == [type |-> NoType, id |-> nativeId]
           id == IF nativeId # NoId THEN nativeId ELSE IF Variants(h, "id") # {} THEN OtherId ELSE NoId
           type == config.default["caller"]
           f == FrameOf(config.in, g, EncodeWith(CodecOf(type, type), Value("input")), native)
<1>3. Arrives("foreign", g, native, id)
  BY <1>2
<1>4. config.in = "rabbit"
  BY DEF ForeignPublish
<1>5. \A base, other : <<base, other>>[1] = base
  OBVIOUS
<1>6. DOMAIN h = names /\ \A name \in names : h[name] = IF name[1] = "id" THEN OtherId ELSE "caller"
  OBVIOUS
<1> HIDE DEF h
<1>7. /\ Variants(h, "type") = {} /\ Variants(h, "corr") = {}
      /\ \A name \in Variants(h, "id") : name = <<"id", form>> /\ h[name] = OtherId
  BY <1>5, <1>6 DEF Variants, Exact
<1>8. HasId(h, OtherId) /\ (Forms = {"exact"} => OneSpelling(h, "id"))
  BY <1>7 DEF HasId, OneSpelling, Exact
<1>9. Named(g, type) /\ \A other : other # "type" => Kept(h, g, other)
  BY <1>7, LabelledFields
<1>10. Kept(h, g, "id") /\ Kept(h, g, "corr")
  BY <1>9
<1>11. /\ HasId(g, OtherId) /\ (Forms = {"exact"} => OneSpelling(g, "id")) /\ Variants(g, "corr") = {}
       /\ Variants(g, "id") = Variants(h, "id")
  BY <1>7, <1>8, <1>10, KeptFacts DEF Kept, OneSpelling
<1>12. native.type = NoType /\ native.id = nativeId
  OBVIOUS
<1> HIDE DEF g, native
<1>13. f.transport = "rabbit" /\ f.headers = g /\ f.native = native
  BY <1>4, FrameFields
<1> HIDE DEF f
<1>14. Label(f, type)
  BY <1>9, <1>12, <1>13 DEF Label
<1>15. ASSUME id # NoId PROVE FrameHasId(f, id) /\ Carries(f)
  BY <1>11, <1>12, <1>13, <1>15 DEF FrameHasId, Carries
<1> HIDE DEF id
<1> QED
  BY <1>3, <1>4, <1>11, <1>14, <1>15, ArrivesKeeps DEF f

-----------------------------------------------------------------------------
(* Every step *)

LEMMA JourneyStarts == Configured => JourneyInv
BY DEF Configured, JourneyInv, StartInv, HeldInv

LEMMA JourneyStep == JourneyInv /\ [Step]_journey => JourneyInv'
<1> SUFFICES ASSUME JourneyInv, [Step]_journey PROVE JourneyInv'
  OBVIOUS
<1>1. CASE Originate
  BY <1>1, CallKeeps, PublishKeeps, HttpRequestKeeps, OutboxKeeps, ForeignKeeps DEF Originate
<1>2. CASE \E frame \in network : Receive(frame) \/ ReplyArrives(frame)
  BY <1>2, ReceiveKeeps, ReplyKeeps
<1>3. CASE TargetRejects \/ KeyUnresolved \/ NoConsume \/ HandlerFails \/ HandlerSucceeds \/ Consume
  BY <1>3, RouteStepKeeps
<1>4. ASSUME UNCHANGED <<config, origin, network, held>>,
             UNCHANGED returned \/ (origin # Nothing /\ returned' = "timeout")
      PROVE  JourneyInv'
  <2>1. \A f \in network' : FrameInv(f)'
    BY <1>4, ConfiguredStays DEF JourneyInv
  <2>2. HeldInv'
    <3> SUFFICES ASSUME held' # Nothing
                 PROVE  /\ FrameInv(held.frame)' /\ held'.frame.subject # "reply"
                        /\ \E r \in Received(held'.frame, Minted[held'.frame.subject]) : held' = RouteMessage(held'.frame, r)
      BY DEF HeldInv
    <3> QED
      BY <1>4 DEF JourneyInv, HeldInv, FrameInv, PlaceInv, LabelInv, WriterOf, OriginInv, IdInv,
                  HasOneId, ResultInv, ResultOf, ReplyInv
  <2>3. StartInv'
    BY <1>4 DEF JourneyInv, StartInv, Agree
  <2> QED
    BY <1>4, <2>1, <2>2, <2>3 DEF JourneyInv
<1>5. CASE CallTimesOut
  BY <1>4, <1>5 DEF CallTimesOut
<1>6. CASE UNCHANGED journey
  BY <1>4, <1>6 DEF journey
<1> QED
  BY <1>1, <1>2, <1>3, <1>5, <1>6 DEF Step

\* Whichever codecs and transports join the parties, and whatever headers the
\* applications attach in whichever spelling: a frame is where it may be and
\* labelled by who wrote it, a failure is about the request, and what a route
\* holds is what its source made of such a frame.
THEOREM JourneyInvariance == Journey => []JourneyInv
<1> QED
  BY JourneyStarts, JourneyStep, PTL DEF Journey

\* The ID survives everything that is done with the message, wherever the
\* applications spell its header as the code does (bus/mod.rs:145-156,
\* message.rs:13-30).
THEOREM IdentityIsKept == Forms = {"exact"} => (Journey => []IdentityKept)
<1> SUFFICES ASSUME Forms = {"exact"} PROVE Journey => []IdentityKept
  OBVIOUS
<1>1. ASSUME JourneyInv PROVE IdentityKept
  <2> SUFFICES ASSUME origin # Nothing, origin.id # NoId
               PROVE  /\ \A frame \in network : Carries(frame) \/ frame.transport \in {"nng", "http"}
                      /\ held # Nothing /\ Carries(held.frame) =>
                           /\ held.id = origin.id
                           /\ held.frame.transport # "outbox" => held.headers[Exact("id")] = held.id
                      /\ held # Nothing /\ held.payload.value.is = "failure" =>
                           held.payload.value.original.id = origin.id
    BY DEF IdentityKept
  <2>1. HasOneId /\ IsConfigured /\ HeldInv
    BY <1>1 DEF HasOneId, JourneyInv, StartInv, IsConfigured
  <2>2. \A frame \in network : Carries(frame) \/ frame.transport \in {"nng", "http"}
    BY <1>1, <2>1 DEF JourneyInv, FrameInv, IdInv
  <2>3. ASSUME held # Nothing, Carries(held.frame) PROVE HasTheId(held.frame, held, origin.id)
    <3>1. FrameInv(held.frame) /\ Reads(held.frame, held)
      BY <2>1, <2>3, HeldReads
    <3> QED
      BY <2>1, <2>3, <3>1, KnownId DEF FrameInv, Reads
  <2>4. ASSUME held # Nothing, held.payload.value.is = "failure"
        PROVE  held.payload.value.original.id = origin.id
    <3>1. FrameInv(held.frame) /\ held.payload = held.frame.payload
      BY <2>1, <2>4, HeldReads
    <3> QED
      BY <2>1, <2>4, <3>1, Values DEF FrameInv, OriginInv, ResultInv, ResultOf
  <2> QED
    BY <2>2, <2>3, <2>4 DEF HasTheId
<1> QED
  BY <1>1, JourneyInvariance, PTL

\* Where applications spell the ID's header as the code does, what README.md:206-210
\* says of a native AMQP ID is true of every message a route holds.
THEOREM NativeIdIsKept == Forms = {"exact"} => (Journey => []StableLogicalId)
<1> SUFFICES ASSUME Forms = {"exact"} PROVE Journey => []StableLogicalId
  OBVIOUS
<1>1. ASSUME JourneyInv PROVE StableLogicalId
  <2> SUFFICES ASSUME held # Nothing, held.frame.native.id # NoId
               PROVE  held.id = held.frame.native.id
    BY DEF StableLogicalId
  <2>1. IsConfigured /\ HeldInv
    BY <1>1 DEF JourneyInv, StartInv, IsConfigured
  <2>2. FrameInv(held.frame) /\ Reads(held.frame, held)
    BY <2>1, HeldReads
  <2> QED
    BY <2>2 DEF FrameInv, IdInv, Reads
<1> QED
  BY <1>1, JourneyInvariance, PTL

\* Every source decodes what the last endpoint encoded, for any headers in any
\* spelling (codec.rs:88-91, bus/adapter.rs:60-67, core.rs:990-1006).
THEOREM LabelsTellFormats == Journey => []LabelTellsFormat
<1>1. ASSUME JourneyInv PROVE LabelTellsFormat
  <2> SUFFICES ASSUME held # Nothing, held.payload.value # Value("page")
               PROVE  Decoded(held) = {held.payload.value}
    BY DEF LabelTellsFormat
  <2> DEFINE f == held.frame
             hints == Hints(f.transport, held.headers)
  <2>1. IsConfigured /\ HeldInv
    BY <1>1 DEF JourneyInv, StartInv, IsConfigured
  <2>2. FrameInv(f) /\ Reads(f, held) /\ held.payload = f.payload /\ f.subject # "reply"
    BY <2>1, HeldReads
  <2>3. hints # {} /\ \A hint \in hints :
          DecodeWithContentType(Endpoint(Reader(f.subject)), f.payload, hint) = f.payload.value
    BY <2>1, <2>2, DecodesRight DEF ReaderOf
  <2>4. Decoded(held) = {DecodeWithContentType(Endpoint(Reader(f.subject)), f.payload, hint) : hint \in hints}
    BY <2>2 DEF Decoded, DecodeAt
  <2> HIDE DEF f, hints
  <2> QED
    BY <2>2, <2>3, <2>4
<1> QED
  BY <1>1, JourneyInvariance, PTL

\* Every reply is about the request that awaits it and says what became of it,
\* for any headers in any spelling (core.rs:953-967, 984-1027,
\* broker.rs:367-404).
THEOREM RepliesTellOutcomes == Journey => []ReplyTellsOutcome
<1>1. ASSUME JourneyInv PROVE ReplyTellsOutcome
  <2>1. ASSUME NEW frame \in network, frame.subject = "reply"
        PROVE  /\ frame.payload.value # Value("output") <=> Exact("failure") \in DOMAIN frame.headers
               /\ Correlation(frame.headers) = origin.corr
               /\ frame.payload.value.is = "failure" =>
                    Correlation(frame.payload.value.original.headers) = origin.corr
    BY <1>1, <2>1 DEF JourneyInv, FrameInv, ReplyInv, ResultInv, ResultOf
  <2> QED
    BY <1>1, <2>1 DEF ReplyTellsOutcome, JourneyInv
<1> QED
  BY <1>1, JourneyInvariance, PTL
=============================================================================
