----------------------------- MODULE HttpRoute ------------------------------
(***************************************************************************)
(* HttpSource (src/src/http/adapter.rs) and Router::install                *)
(* (src/src/router/core.rs): requests enter a bounded channel and are      *)
(* answered before anybody has worked on them; the route that reads the    *)
(* channel starts when the router is installed, one binding after another. *)
(* It works on one message at a time or, with a partition_by, hands each   *)
(* one to the line of its key.                                             *)
(*                                                                         *)
(* The channel is tokio's: a semaphore grants permits in the order of the  *)
(* waiters, and a granted sender appends when it is next polled.  axum     *)
(* drops the future of a request whose client has gone away.  The          *)
(* Partitioner is what KeyedSerial says of it, with its bounded channels.  *)
(***************************************************************************)
EXTENDS Naturals, SequencesExt

CONSTANTS Requests,
          Capacities,   \* capacities an application may ask for
          Bindings,     \* number of routes of the router
          HttpBinding,  \* the one that reads the HttpSource
          MaxInstalls,  \* bound: calls of install
          Keys,         \* partition keys a resolver may return
          PartitionCapacity,  \* slots of the channel of each key
          NoRequest, NoKey

ASSUME BindingsAssumption == Bindings \in Nat /\ HttpBinding \in 1..Bindings
ASSUME CapacitiesAssumption == Capacities \subseteq Nat
ASSUME NoRequestAssumption == NoRequest \notin Requests
ASSUME NoKeyAssumption == NoKey \notin Keys
ASSUME PartitionCapacityAssumption == PartitionCapacity \in Nat \ {0}

VARIABLES
  capacity,     \* what was asked for
  request,      \* request[r]: how far enqueue_request has got
  answer,       \* answer[r]: the status, or "none"
  waiters,      \* requests queued for a permit
  queue,        \* the channel
  receiver,     \* where its receiver is: "source", "stream", or how it
                \* was lost: "dropped" or "panicked"
  opened,       \* opened[b]: how often the source of binding b was opened
  taken,        \* taken[b]: binding b has no source any more
  next,         \* the binding install is at, or 0
  installs,     \* calls of install so far
  result,       \* the result of the last one
  partitioned,  \* whether the route has a partition_by
  handling,     \* the request the loop of the route task has in hand
  key,          \* key[r]: what the resolver returned for r, if it did
  line,         \* line[k]: the jobs of key k, the first of which runs
  accepted,     \* history: requests in the order they entered the channel
  handled,      \* history: requests in the order they left the route
  abandoned     \* history: requests whose handler or resolver panicked

requestVars == <<capacity, request, answer, waiters>>
channelVars == <<queue, receiver, accepted>>
installVars == <<opened, taken, next, installs, result>>
taskVars == <<partitioned, handling, key, line, handled, abandoned>>
vars == <<requestVars, channelVars, installVars, taskVars>>

Init == /\ capacity \in Capacities
        /\ request = [r \in Requests |-> "new"]
        /\ answer = [r \in Requests |-> "none"]
        /\ waiters = <<>> /\ queue = <<>> /\ accepted = <<>>
        /\ receiver = "source"
        /\ opened = [b \in 1..Bindings |-> 0]
        /\ taken = [b \in 1..Bindings |-> FALSE]
        /\ next = 0 /\ installs = 0 /\ result = "none"
        /\ partitioned \in BOOLEAN
        /\ handling = NoRequest /\ handled = <<>> /\ abandoned = {}
        /\ key = [r \in Requests |-> NoKey] /\ line = [k \in Keys |-> <<>>]

-----------------------------------------------------------------------------
(* enqueue_request *)

Status(r, state, status) == /\ request' = [request EXCEPT ![r] = state]
                            /\ answer' = [answer EXCEPT ![r] = status]

Gone == receiver \in {"dropped", "panicked"}

\* Mutant of Slots: the capacity as it was asked for; tokio panics when it is 0,
\* here the channel never grants.
SlotsAsAsked == capacity
Slots == IF capacity = 0 THEN 1 ELSE capacity

Granted == {r \in Requests : request[r] = "granted"}

Free == Len(queue) + Cardinality(Granted) < Slots

\* A sender that is dropped gives up its place in line, if it has one.
LeavesLine(r) ==
  waiters' = IF r \in ToSet(waiters)
             THEN RemoveAt(waiters, CHOOSE i \in DOMAIN waiters : waiters[i] = r) ELSE waiters

Connects(r) == /\ request[r] = "new"
               /\ request' = [request EXCEPT ![r] = "reading"]
               /\ UNCHANGED <<capacity, answer, waiters, channelVars, installVars, taskVars>>

\* A body above the limit, or one that ends early.
BodyFails(r) == /\ request[r] = "reading"
                /\ Status(r, "done", "413")
                /\ UNCHANGED <<capacity, waiters, channelVars, installVars, taskVars>>

\* The message is built; send waits in line for a permit.
BodyRead(r) == /\ request[r] = "reading"
               /\ request' = [request EXCEPT ![r] = "waiting"]
               /\ waiters' = Append(waiters, r)
               /\ UNCHANGED <<capacity, answer, channelVars, installVars, taskVars>>

Grant == /\ waiters # <<>> /\ Free /\ ~Gone
         /\ request' = [request EXCEPT ![Head(waiters)] = "granted"]
         /\ waiters' = Tail(waiters)
         /\ UNCHANGED <<capacity, answer, channelVars, installVars, taskVars>>

\* A sender polled while the receiver goes away may still append, to a channel
\* nobody reads.
Enqueues(r) == /\ request[r] = "granted"
               /\ queue' = IF Gone THEN queue ELSE Append(queue, r)
               /\ accepted' = Append(accepted, r)
               /\ Status(r, "done", "202")
               /\ UNCHANGED <<capacity, waiters, receiver, installVars, taskVars>>

\* Mutant of Unavailable: whoever waited is told that it was accepted.
AcceptedAnyway == "202"
Unavailable == "503"

SendFails(r) == /\ request[r] \in {"waiting", "granted"} /\ Gone
                /\ Status(r, "done", Unavailable)
                /\ LeavesLine(r)
                /\ UNCHANGED <<capacity, channelVars, installVars, taskVars>>

\* The client goes away: its future is dropped, and its place in line or its
\* permit with it.
Disconnects(r) == /\ request[r] \in {"reading", "waiting", "granted"}
                  /\ request' = [request EXCEPT ![r] = "done"]
                  /\ LeavesLine(r)
                  /\ UNCHANGED <<capacity, answer, channelVars, installVars, taskVars>>

-----------------------------------------------------------------------------
(* Router::install, through App::install *)

InstallCalled == /\ next = 0 /\ installs < MaxInstalls /\ result # "dropped"
                 /\ next' = 1 /\ installs' = installs + 1 /\ result' = "running"
                 /\ UNCHANGED <<requestVars, channelVars, opened, taken, taskVars>>

Returns(outcome) == next' = 0 /\ result' = outcome

\* Mutant of IsInstalled: a binding keeps its source for another install.
NeverInstalled(b) == FALSE
IsInstalled(b) == taken[b]

\* The source is gone from its binding before it is asked to open.
OpenFails == /\ next # 0
             /\ IF IsInstalled(next) THEN Returns("already installed")
                ELSE next # HttpBinding /\ Returns("failed")
             /\ taken' = [taken EXCEPT ![next] = TRUE]
             /\ UNCHANGED <<requestVars, channelVars, opened, installs, taskVars>>

\* The source gives its receiver to the stream of the route.
OpensSource(b) == receiver' = IF b = HttpBinding THEN "stream" ELSE receiver

\* The route runs from here on, whatever becomes of the bindings behind it.
Opens == /\ next # 0 /\ ~IsInstalled(next)
         /\ taken' = [taken EXCEPT ![next] = TRUE]
         /\ opened' = [opened EXCEPT ![next] = @ + 1]
         /\ OpensSource(next)
         /\ IF next = Bindings THEN Returns("ok") ELSE next' = next + 1 /\ UNCHANGED result
         /\ UNCHANGED <<requestVars, queue, accepted, installs, taskVars>>

\* The application drops its router, or gives its App another one: sources
\* that were never taken go, routes that run stay.
RouterDropped ==
  /\ next = 0 /\ result # "dropped"
  /\ result' = "dropped"
  /\ taken' = [b \in 1..Bindings |-> TRUE]
  /\ IF receiver = "source" THEN receiver' = "dropped" /\ queue' = <<>>
                            ELSE UNCHANGED <<receiver, queue>>
  /\ UNCHANGED <<requestVars, accepted, opened, next, installs, taskVars>>

-----------------------------------------------------------------------------
(* The task of the route, whose loop has one message in hand, and its lines *)

Takes == /\ receiver = "stream" /\ handling = NoRequest /\ queue # <<>>
         /\ handling' = Head(queue) /\ queue' = Tail(queue)
         /\ UNCHANGED <<requestVars, receiver, accepted, installVars>>
         /\ UNCHANGED <<partitioned, key, line, handled, abandoned>>

\* Mutant of Continues: the loop ends with a message that failed.
ContinuesWhenHandled(ok) == ok
Continues(ok) == TRUE

\* The loop is done with its message, which it worked on itself, and takes the
\* next; a loop that ended instead would drop the receiver.
DoneWith(ok) == /\ handling # NoRequest /\ key[handling] = NoKey
                /\ handled' = Append(handled, handling)
                /\ handling' = NoRequest
                /\ IF Continues(ok) THEN UNCHANGED <<queue, receiver>>
                                    ELSE queue' = <<>> /\ receiver' = "dropped"
                /\ UNCHANGED <<requestVars, accepted, installVars>>
                /\ UNCHANGED <<partitioned, key, line, abandoned>>

\* process_route_message ends, well or not.
Finishes == ~partitioned /\ \E ok \in BOOLEAN : DoneWith(ok)

\* The resolver fails or returns "": the message goes to the error target and
\* is settled before the next is taken.
Unresolved == partitioned /\ DoneWith(FALSE)

Resolves(k) == /\ partitioned /\ handling # NoRequest /\ key[handling] = NoKey
               /\ key' = [key EXCEPT ![handling] = k]
               /\ UNCHANGED <<requestVars, channelVars, installVars>>
               /\ UNCHANGED <<partitioned, handling, line, handled, abandoned>>

\* submit_task is awaited in the loop: a key whose channel is full keeps every
\* message behind this one waiting.
Submits == /\ handling # NoRequest /\ key[handling] # NoKey
           /\ Len(line[key[handling]]) <= PartitionCapacity
           /\ line' = [line EXCEPT ![key[handling]] = Append(@, handling)]
           /\ handling' = NoRequest
           /\ UNCHANGED <<requestVars, channelVars, installVars>>
           /\ UNCHANGED <<partitioned, key, handled, abandoned>>

\* A handler of an unpartitioned route, or a resolver, that panics takes the
\* task with it, and the channel's receiver; the lines go on.
Panics == /\ handling # NoRequest /\ key[handling] = NoKey
          /\ abandoned' = abandoned \union {handling}
          /\ handling' = NoRequest /\ queue' = <<>> /\ receiver' = "panicked"
          /\ UNCHANGED <<requestVars, accepted, installVars>>
          /\ UNCHANGED <<partitioned, key, line, handled>>

\* The worker of key k: process_route_message ends, or panics, which
\* run_partition_job catches.
JobLeaves(k) == /\ line[k] # <<>>
                /\ line' = [line EXCEPT ![k] = Tail(@)]
                /\ UNCHANGED <<requestVars, channelVars, installVars>>
                /\ UNCHANGED <<partitioned, handling, key>>

JobFinishes(k) == /\ JobLeaves(k)
                  /\ handled' = Append(handled, Head(line[k]))
                  /\ UNCHANGED abandoned

JobPanics(k) == /\ JobLeaves(k)
                /\ abandoned' = abandoned \union {Head(line[k])}
                /\ UNCHANGED handled

-----------------------------------------------------------------------------
Next == \/ \E r \in Requests : \/ Connects(r) \/ BodyFails(r) \/ BodyRead(r) \/ Enqueues(r)
                               \/ SendFails(r) \/ Disconnects(r)
        \/ Grant \/ InstallCalled \/ OpenFails \/ Opens \/ RouterDropped
        \/ Takes \/ Finishes \/ Unresolved \/ Submits \/ Panics
        \/ \E k \in Keys : Resolves(k) \/ JobFinishes(k) \/ JobPanics(k)

\* Tasks that can run do, and a handler or resolver comes to an end; clients and
\* install need not.
Fairness == /\ \A r \in Requests : WF_vars(Enqueues(r)) /\ WF_vars(SendFails(r))
            /\ WF_vars(Grant) /\ WF_vars(Takes) /\ WF_vars(Finishes)
            /\ WF_vars(Unresolved \/ \E k \in Keys : Resolves(k)) /\ WF_vars(Submits)
            /\ \A k \in Keys : WF_vars(JobFinishes(k))

Spec == Init /\ [][Next]_vars /\ Fairness

-----------------------------------------------------------------------------
(* Correctness *)

\* Out of the route again, and still in it.
Left == ToSet(handled) \union abandoned
InWork == ({handling} \ {NoRequest}) \union UNION {ToSet(line[k]) : k \in Keys}

InOrder(s, q, r) == \E i, j \in DOMAIN s : i < j /\ s[i] = q /\ s[j] = r

\* 202 is told to exactly the clients whose request entered the channel, and
\* what entered it is worked on once: it is in one place, and nothing is lost
\* but what a panic or the loss of the router takes, however clients, permits
\* and a late install interleave (http/adapter.rs:202-242: "admitted for
\* asynchronous processing", README.md:594).  Requests are begun in the order
\* they came in.  Those of one key leave in that order too, none of them before
\* an earlier one has left; all requests of an unpartitioned route, and those a
\* resolver refuses, count as one key (README.md:502: "must run sequentially
\* while different keys may run concurrently").
AcceptedIsKept ==
  /\ \A r \in Requests : answer[r] = "202" <=> r \in ToSet(accepted)
  /\ IsInjective(accepted) /\ IsInjective(handled)
  /\ ToSet(handled) \intersect abandoned = {} /\ Left \intersect InWork = {}
  /\ Left \union InWork \subseteq ToSet(accepted)
  /\ ~Gone => ToSet(queue) = ToSet(accepted) \ (Left \union InWork)
  /\ \A q, r \in Requests : InOrder(accepted, q, r) =>
       /\ r \in Left \union InWork => q \in Left \union InWork
       /\ key[q] = key[r] /\ r \in Left => q \in Left
       /\ key[q] = key[r] => ~InOrder(handled, r, q)

\* No source is opened twice, and an install that returned Ok has started every
\* route, though earlier calls may have failed half-way (core.rs:629-634).
OneTaskPerRoute == /\ \A b \in 1..Bindings : opened[b] <= 1
                   /\ result = "ok" => \A b \in 1..Bindings : opened[b] = 1

\* A client whose body was read gets its answer, or has left, unless the route
\* is never installed: then the channel fills and nobody empties it.
RequestsAnswered ==
  \A r \in Requests : request[r] \in {"waiting", "granted"} ~>
                         (request[r] = "done" \/ receiver = "source")

\* What was accepted is worked on, unless the route is never installed or a
\* panic takes the loop with it before the request has reached its line: the
\* failure of one message does not stop the next (README.md:600), nor does a full
\* or slow key for ever.
AcceptedIsHandled ==
  \A r \in Requests : answer[r] = "202" ~>
    \/ r \in Left \/ opened[HttpBinding] = 0
    \/ receiver = "panicked" /\ key[r] = NoKey
=============================================================================
