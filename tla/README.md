# Qanat: formal models

TLA+ models of [qanat](../src/README.md), a Rust library that routes messages between
in-process buses, brokers, HTTP and a transactional outbox. Source paths below are relative
to the crate's own modules, `src/src/`; `README.md` is the repository's, `src/README.md`.

| to check | run, in this directory |
|---|---|
| a model | `tlc -workers 2 -config <cfg> MC<Module>` (section 3 names the pairs) |
| the proofs | `tlapm <Module>.tla` for each module of section 4; the longest takes about five minutes |

`PROJECT.json` lists every run, the mutated definitions that show each property can fail,
the source lines each definition stands for, the hazards and the theorems.

## 1. The system

| part | state it keeps | operations | how it meets the others |
|---|---|---|---|
| **Partitioner** `router/core.rs:232-536` | a registry task: key → `Active(generation, sender)` or `Retiring(generation, waiters)`; per generation a worker task with a bounded channel | submit_task (acquire a sender, send the job, retry), idle retirement (BeginRetirement, drain, Retired), shutdown through a weak sender | a partitioned route submits every message as a job; application code may too |
| **Route execution** `router/core.rs:600-1050` | one task per route; nothing survives a message | install one binding after another, resolve partition, `accepts`, extract, handler, deliver to target, deliver failure, settle | takes from a source's stream, writes to a target, settles with the source |
| **In-process bus** `bus/internal_router.rs`, `bus/routing.rs`, `bus/in_memory_bus.rs`, `bus/local_router.rs` | one actor: a routing table (bindings with consumers and a round-robin counter) and a map consumer → bounded channel | dispatch, subscribe, subscribe_group | InMemoryBus, LocalRouter, and the local side of the Redis and NNG buses |
| **Subject matching** `bus/routing.rs:34-55`, `bus/rabbitmq_bus.rs:215-247` | none | match a wildcard pattern; derive an AMQP binding key | the local router and RabbitMQ must select alike |
| **Outbox source** `outbox.rs` | claim loop per stream; settlement actor with a map of pending leases; a renewal task per delivery | claim, release excess, register, renew, acknowledge / retry / reject | a provider's table (`OutboxStore`) on one side, a route on the other |
| **RabbitMQ bus** `bus/rabbitmq_bus.rs` | settlement actor with a map of ackers; message counter per stream | publish, subscribe (group), settle | broker on one side, a route or a proxy on the other |
| **Broker proxy** `router/broker.rs`, `router/proxy.rs` | a once-initialised runtime, a bounded command channel, a reply task with a pending map | call, cancel on failure or timeout, drop | sends requests through any bus, receives all replies on one subject |
| **HTTP source and target** `http/adapter.rs` | a bounded channel per endpoint, whose receiver the route takes at install | answer 202 once a request is in the channel, 503 when its receiver is gone, 413; send by POST, PUT and so on, and refuse responses that are not a success | feeds routes, ends routes; a refused response is passed on to the error target |
| **NNG and Redis buses** `bus/nng_bus.rs`, `bus/redis_bus.rs` | NNG: socket, reader thread, bridge channel, task; Redis: subscribed connection and receive loop | publish (transport, for NNG also locally), receive, subscribe | both feed the node's local router |
| **NATS bus** `bus/nats_bus.rs` | a client | publish with a header map that may refuse a header, subscribe (group) | the server routes |
| **Codecs, wire format, identity** `bus/{codec,wire,message,raw_message}.rs` | the codecs an endpoint has registered and its default | register, choose a default, encode, decode by label; frame and unframe; find or mint a message ID | every bus, source and target |
| **Shell** `router/{app,config}.rs`, `lib.rs`, `errors.rs` | builders | build and start | everything |

What is hard here: tasks that talk through bounded channels and one-shot replies, any of whose
callers may drop its future at an await; actors that hold one half of a relation whose other
half is in another task; at-least-once delivery across crashes; timers that race answers.

What makes each part correct:

- *Partitioner*: jobs of a key run one at a time, in order, exactly once, although workers
  retire while jobs arrive; nobody waits for ever; nothing outlives the last handle.
- *Route with RabbitMQ or outbox*: a message is settled only after its outcome is known, by the
  delivery it belongs to, once; nothing is lost, and a duplicate can be recognised.
- *In-process bus*: a dispatch reaches all matching subscribers or none, one member of each
  group, and never blocks on a reader.
- *Bridges*: a node routes each message once, in the publisher's order; what has arrived is never stuck.
- *Identity and labels*: a message has one ID from origin to reply, over any chain of transports;
  whoever receives a payload decodes it as what it was encoded.
- *Replies*: an answer says what became of the request it answers, and of no other.
- *HTTP source*: what was answered with 202 is worked on once, and in order for each partition key,
  whatever the clients do.
- *Proxy*: a call returns its own answer or an error, always; the pending map does not keep
  what nobody waits for.

## 2. The modules

| module | models | state ↔ code |
|---|---|---|
| `KeyedSerial` | abstract: one FIFO line per key, one running job per key | the doc comment of `Partitioner` |
| `Partitioner` | registry, workers, submitters | `commands` registry mailbox, `entries` the HashMap, `worker[g]` the position in `spawn_partition_worker`, `channel[g]`, `running[g]` the job under `catch_unwind`, `submitter[r]`/`sender[r]` the position in and the sender held by `submit_task` |
| `PartitionerProofs` | theorems about `Partitioner` | |
| `SubjectMatch` | `wildcard_match`, `rabbit_binding_key`, a topic exchange (external) | token sequences |
| `SubjectRouter` | the routing table as operators | `bindings` is the Vec of `Binding` in order |
| `LocalRouter` | RouterHandle and router_actor over `SubjectRouter` | `commands` mailbox, `senders` the HashMap, `stream[s]` the subscription channels |
| `Bridge` | NngBus and RedisBus on several nodes, transports (external), local routers at the grain of a dispatch | `wire[n][k]` lines of the transport, `reader[n]` the frame in the thread's hand, `bridge[n]` the channel, `unread[n]` the subscriber's stream |
| `Outbox` | LeasedOutboxSource, its store (external), its route | `claimer[c]` position in `claim_next`, `mailbox`, `pending`, `actor` the settlement actor, `renewal[t]` the renewal task |
| `RequestReply` | abstract: a call returns once, with its own answer or an error | |
| `BrokerProxy` | calls, runtime cell, command channel, reply task, a service (external) | `cell`/`initializer` the OnceCell, `commands`, `pending`, `registered[c]`/`reply[c]` the one-shots, `inbox` the subscription |
| `RabbitRoute` | RabbitMqStream, settlement actor, route, broker (external) | `phase[d]` position in `process_route_message`, `ackers`, `commands`, `place[m]` where the broker has the message |
| `Codec` | HeaderAwareCodec as operators: collections, defaults, labels | an endpoint is its codecs, last registered first, and its default |
| `Wire` | the frame of NNG and Redis as operators | a buffer is a sequence of cells, one per `u32` and one per byte |
| `Transport` | what each transport does to headers, label and ID of a message: publish, dispatch_raw, receive | a header is named by what it is and how it is spelled |
| `Flow` | one message from its origin through a route (`process_route_message`, `deliver_failure`) to target, error target and caller | `held` the message in the route's hand, `network` frames in flight, `config` who is joined to whom |
| `HttpRoute` | HttpSource, its channel with permits, Router::install and the task of the route, with or without `partition_by` | `request[r]` position in `enqueue_request`, `waiters` senders queued on the channel's semaphore, `receiver` where the receiving half is, `taken`/`opened` the sources of the bindings, `next` the binding `install` is at, `handling` the message in the loop's hand, `line[k]` the jobs of a partition key |
| `RouteProofs` | theorems about `Flow` and `HttpRoute` | |
| `BrokerProxyProofs`, `OutboxProofs`, `RabbitRouteProofs`, `BridgeProofs` | theorems about the module each is named after | |
| `BusProofs` | theorems about what needs no transport: `SubjectMatch`, `Codec`, `Wire`, `SubjectRouter`, `LocalRouter` | |
| `QueueFacts` | lemmas about sequences, induction and recursion over them, for all proof modules but the first | |

`LocalRouter` is built on `SubjectRouter`, which is built on `SubjectMatch`; `Flow` on
`Transport`, which is built on `Codec`; `Partitioner` implements `KeyedSerial` and `BrokerProxy`
implements `RequestReply` by refinement mappings checked as properties. `Outbox` and
`RabbitRoute` each compose a source, its actor and the route, `HttpRoute` a source and the
installation of its route. `MCTables` puts `SubjectMatch`, `Codec` and `Wire` over bounded
inputs, under the name `Inputs`, so that `BusProofs` can extend it beside `LocalRouter`; the other
`MC*` modules only add operators the configurations assign to constants.

The same code appears at two grains. `RabbitRoute` and `Outbox` follow *when* each step of
`process_route_message` happens, against crashes, timers and the settlement actor, and know
nothing of headers; `Flow` follows *what* the steps do to one message and takes each route
step as one action, since nobody else touches a message in a route's hand. Likewise
`BrokerProxy` follows the life of calls, and `Flow` what a call and its reply carry.

Conventions. An action is one stretch of code between two awaits: the tasks share no memory,
so nothing else can interleave with it. A one-shot reply is part of the state of the task that
waits for it. Dropping a future is an action of its own (`Cancel`, `GiveUp`, `Leave`,
`Abandon`, `Disconnects`). Variables marked *history* exist for properties only. Operators that
directly precede the definition they vary, under a comment "Mutant of", are the faults a
property is tried against; no specification uses them. Type invariants are
conjuncts of the inductive invariants of section 4; no run spends time on those that a theorem
states.

Abstractions worth knowing:

- *Partitioner*. Generations are not reused, as in the code, up to `MaxGeneration`. The waiters of
  a retiring key are a set: each holds its own one-shot, and all are answered in one step of
  the registry, so their order shows only as scheduling. Job bodies end, normally or by panic
  (`run_partition_job` catches both).
- *LocalRouter*. The actor does not await inside a command, so a command is one action.
- *Bridge*. One subscriber per node: what several do to each other is `LocalRouter`'s. Frames that do
  not decode are left out (the loops skip them).
- *Outbox*. A delivery is named by its lease token; the first unused token is taken, since tokens
  are interchangeable. Time is a choice: a lease ages and expires, timers fire and a released
  record becomes due at any moment. Store calls may fail before or after taking effect. A
  lease may expire `MaxEarly` times while its delivery is in hand, and as often as it likes
  otherwise.
- *BrokerProxy*. Payloads are answers; subjects, headers and codecs are left to `Flow`, except that
  encoding and decoding may fail.
- *RabbitRoute*. Two deliveries of a partitioned route may overlap whatever their keys; per-key
  order is `Partitioner`'s. The broker pushes without limit because the code sets no QoS. The queue
  is a durable one: a route subscribes in a group.
- *Codec*. An encoded value is the format and the value: what serde writes is not modelled, only
  that a codec reads its own format and refuses another. A content type is a media type and a
  way to write it.
- *Wire*. Lengths count modulo `LengthMod`; a cell holds a byte or a whole `u32` field.
- *Flow*. One message. Endpoints of one party share a codec; parties on a transport without labels
  share its default, as `README.md` demands of applications. A header map iterates in any order,
  so a lookup that ignores case picks any of several spellings. A handler keeps the headers, or
  returns its own that keep the correlation. The headers of applications and their values are
  constants; `Unfit` values, such as one with a line break, are refused by NATS and HTTP. The
  specification is `Configured`, `Step`, `Journey`, so that `RouteProofs` can extend it beside
  `HttpRoute`. The HTTP peer answers at once or not at all; an error of a target is taken for "did
  not arrive", the other case is `RabbitRoute.DeliveryFails`.
- *HttpRoute*. The channel is tokio's: permits are granted in the order of the waiters, a granted
  sender appends when it is next polled, and one that is polled while the receiver goes away may
  still be told 202. A binding other than the HTTP one may fail to open; the HTTP one does not,
  the first time. A partitioned route hands its messages to a partitioner that is taken as what
  `KeyedSerial` says it is: one line per key, the first job of which runs, behind a channel with
  `PartitionCapacity` slots. The domain is the route's own: a `Partitioner` shared with another
  route would put foreign jobs between. The stream of the HTTP source never ends while its task
  lives, since the endpoint keeps a sender, so the loop's exit is left out.

## 3. The runs

Deadlock checking is off in every run: each system really may stop (all handles dropped, all
messages done, bounds used up).

| run: module, cfg | instance | what it shows |
|---|---|---|
| `partitioner`: `MCPartitioner`, `Partitioner.cfg` | 1 key, 2 submitters (one may drop its future), capacity 1, 2 jobs each, 4 generations; 14 k states | the inductive invariant `IInv`, types and capacities included; one worker per key; no stale sender; no acquisition lost; uncancelled submissions complete; shutdown ends all tasks; idle keys are reclaimed; `KeyedSerial` is implemented, its fairness included |
| `tables`: `MCTables`, `Tables.cfg` | patterns and subjects of up to 3 tokens over `a`, `b` and the empty token; endpoints of up to 5 codecs; frames with up to 2 headers; every buffer of up to 7 cells of 0 to 3 (`BufferCells`); 56 k states | the token loop agrees with the README's table, and with RabbitMQ on every pattern it accepts, each but for one pair (see 5); the label an endpoint writes leads every endpoint that knows it to the bytes; what was framed is read back; what is accepted is a frame of what was read |
| `local_safety`: `MCLocalRouter`, `LocalRouter_safety.cfg` | 3 subscribers, fanout and group subscriptions, buffer 1, 3 messages; 136 k states | table and senders stay in step; one binding per group; open streams stay subscribed; a dispatch is all or nothing |
| `local_group`: `MCLocalRouter`, `LocalRouter_group.cfg` | 2 consumers of a group | **violated**: `GroupReceives`, see 5 |
| `bridge`: `MCBridge`, `Bridge.cfg` | 2 nodes with a publisher each, either transport, all buffers of 1, 2 messages each; 104 k states | no duplicates and each publisher's order; over Redis one order for all nodes; nothing stays in flight behind a subscriber that does not read |
| `outbox`: `MCOutbox`, `Outbox.cfg` | two deployments: 2 consumers with renewal and 1 record; 1 consumer without and 2 records, from a store that may return both for a claim of one; 3 tokens, one early expiry, one crash or panic; 204 k states | settled only after a verdict; no renewal in flight during settlement, none without a delivery; a settlement finds its own delivery; every record is settled in the end |
| `outbox_partitioned`: `MCOutbox`, `Outbox_partitioned.cfg` | a partitioned route, 2 records | **violated**: `OneAtATime`, see 5 |
| `proxy`: `MCBrokerProxy`, `BrokerProxy.cfg` | 2 calls, channel of 1, 2 answers in all; 55 k states | each call gets its own reply or an error and returns; no reply missed; `pending` holds nothing without a reason; `RequestReply` is implemented |
| `rabbit`: `MCRabbitRoute`, `RabbitRoute.cfg` | two routes: one that retries failures, with target and error target; a partitioned `consume()` one that rejects them. 2 messages, 4 deliveries per process, a panic, a lost connection or crash; 256 k states | nothing leaves the broker without a verdict, and a refusal is reported first; a repeated message is flagged; a settlement finds its acker, once; neither ackers nor messages are left behind; every message leaves the broker |
| `flow`: `MCFlow`, `Flow.cfg` | every origin, every pair of transports, every target, error target and failure decision, both equal and differing codec defaults, a header of the application's own that holds a fit or an unfit value; 457 k states | one ID from the origin on; the label leads to the format; a reply tells the outcome of its request |
| `flow_identity`: `MCFlow`, `Flow_identity.cfg` | a publisher that is not Qanat, RabbitMQ, an ID header in another spelling | **violated**: `StableLogicalId`, see 5 |
| `http`: `MCHttpRoute`, `HttpRoute.cfg` | 3 clients, capacity asked for 0 (which means 1) or 2, 2 bindings, 2 installs, a dropped router; a route without `partition_by`, and one with 2 keys, a channel of 1 slot each and a resolver that may refuse; panics of handlers and resolvers; 109 k states | 202 for exactly what is kept, worked on once, begun in order and left in the order of its key; one task per route; no client waits for ever; what was accepted is handled |

Why these bounds are enough to be of use. The interesting race of the partitioner needs one
generation that retires, a job that arrives meanwhile and a successor that retires again: 3
generations of one key, and two submitters so that one is parked while the other holds a clone.
The run has a generation for every job, so `MaxGeneration` never blocks anybody; for more keys and
every other bound the theorems speak. A channel of capacity 1 is empty, partly used and full
within two jobs. `local_safety` needs a full, a closed and an open target in one dispatch: three
subscribers. The outbox needs a lease that expires in one process while another claims: two
consumers, and a third token for the claim after that; with two consumers and no limit on early
expiry, records can be claimed and lost for ever, which `MaxEarly` rules out and the liveness
property therefore does not speak of. The bridge needs a frame in each place, thread, channel and
stream, with another one behind it. The proxy's full channel needs two calls and a capacity of
one; a late and a duplicated answer need two answers. Three requests put one in the route's hand,
one in a channel of one slot and one in line for a permit; with one key they fill its worker and
its channel, so that the third would block the loop, and with two keys the second overtakes the
first; two bindings, the HTTP one second, let the first start and the second be missed, and a
second install meets what the first left. `flow` needs two hops, in and out, because an ID or a
label is lost between transports that keep it and transports that do not; a third hop starts from
the same kinds of frames. Two headers are the fewest that can be iterated in either order. Six
cells hold the smallest frame with one header of one byte, and seven one with two empty headers,
whose keys are then the same; each length of them may lie. Symmetry is used only in
`local_safety`, which checks no liveness, over a set no definition orders.

### Fairness, and why the code justifies it

- `Partitioner`: tokio polls a ready task (WF of the registry and of each worker); a job ends,
  an assumption about handlers, and its timer fires (WF within the worker); a sender blocked
  on a full channel is served in order by tokio's semaphore (SF of `Send`, since room comes
  and goes). Nothing is assumed of who submits, cancels or drops handles.
- `LocalRouter`: the actor task is fair; no liveness is checked of it.
- `Bridge`: the threads and tasks of each node run. Subscribers may never read, and nothing is
  assumed of publishers.
- `Outbox`: the actors, the claim loop, renewal and restarts are fair, leases expire, and the store
  is not down for ever: a claim and a settlement tried again and again take effect at last, and a
  record handled again and again is routed at last (SF, see the comment at `Fairness`). Crashes and
  panics are not fair and are bounded. A process whose stream or task has ended is started anew:
  nothing in the code does it, so an operator must.
- `BrokerProxy`: each call's future is polled, bus calls return and the timeout fires (WF). The
  service owes nothing.
- `RabbitRoute`: tasks are polled, the broker pushes, handlers and targets return, and an
  operator starts a process whose route has ended anew. The last is needed because
  nothing in the code reconnects.
- `HttpRoute`: axum polls the futures of requests, the channel grants permits, the route's loop
  runs, and resolvers, handlers and the jobs of each key come to an end (WF; a job blocked behind
  a full key needs no more, since only the loop itself fills it). Clients and whoever calls
  `install` owe nothing, so the properties except a route that is never installed.
- `Flow` and `MCTables` state no fairness: their properties are of states.

## 4. The proofs

Eight modules hold theorems. They hold for every value of the constants that satisfies the named
assumptions, which say no more than what the code has: channel capacities are positive, bounds are
natural numbers, a value that stands for "none" (`NoJob`, `NoRequest`, `NoCall`, `NoToken`,
`NoFrame`) is none of the others, a publisher has a node, decisions are the three there are. `Flow`
assumes that an application's own headers have none of the names the code gives a meaning
(`AppAssumption`), that transports are the six there are (`TransportsAssumption`) and that a
header name has its own spelling or another (`FormsAssumption`); `MCTables` that a cell
of a buffer is a `u32` or a byte, below `LengthMod` (`CellsAssumption`).

| module | obligations | theorem | what it establishes |
|---|---|---|---|
| `PartitionerProofs` | 1827 | `Invariance`, `SerialInvariance` | `SafeSpec => []IInv`, `SafeSpec => []SerialInv` |
| | | `TypeCorrect` | types, channel capacity included |
| | | `MutualExclusion` | `OneWorkerPerKey` |
| | | `NeverStale` | `SenderNeverStale`: the retry in `submit_task` is never taken |
| | | `NeverRefused` | `RetirementNeverRefused`: the registry's `false` is never sent |
| | | `AcquisitionsAreAnswered` | `AcquisitionNotLost`: whoever waits for a sender is in the mailbox or parked where the answer will come from |
| | | `KeyedSerialImplemented` | the safety part of `KeyedSerial`: jobs of a key run once, in order, alone |
| `RouteProofs` | 2954 | `JourneyInvariance` | `JourneyInv`, the journey of a message, is invariant |
| | | `IdentityIsKept` | `IdentityKept`, if applications spell the ID's header as the code does |
| | | `NativeIdIsKept` | `StableLogicalId` under the same hypothesis: what `flow_identity` finds needs a second spelling |
| | | `LabelsTellFormats` | `LabelTellsFormat`, for either spelling |
| | | `RepliesTellOutcomes` | `ReplyTellsOutcome`, for either spelling |
| | | `InstallInvariance`, `AcceptedInvariance` | `InstallInv`, `AcceptedInv` are invariant |
| | | `OneTask` | `OneTaskPerRoute`: no source is opened twice, and an install that returned `Ok` has started every route |
| | | `AcceptedKept` | `AcceptedIsKept`: 202 is told for exactly what entered the channel, which is in one place, worked on once and begun in order; what has the same key leaves in order, and only a panic or the loss of the receiver loses anything; partitioned or not |
| `BrokerProxyProofs` | 579 | `ProxyInvariance` | `ProxyInv` is invariant |
| | | `RepliesAreNotMissed` | `NoReplyMissed` |
| | | `PendingIsExplained` | `PendingHasReason` |
| | | `RequestReplyImplemented` | `ImplementsRequestReply`, all of `RequestReply`: it states no fairness |
| `OutboxProofs` | 793 | `OutboxInvariance` | `OutboxInv` is invariant |
| | | `DoneRecordsWereRouted` | `DoneOnlyAfterVerdict` |
| | | `RenewalsEndBeforeSettlement` | `RenewalEndsFirst` |
| | | `SettlementsFindDeliveries` | `SettlementFindsDelivery` |
| | | `UnpartitionedOneAtATime` | `OneAtATime` of routes without `partition_by`; the run `outbox_partitioned` refutes it of the others |
| `RabbitRouteProofs` | 1122 | `RabbitInvariance` | `RabbitInv` is invariant |
| | | `GoneMessagesHaveVerdicts` | `GoneOnlyAfterVerdict` |
| | | `DuplicatesAreFlagged` | `DuplicateIsFlagged` |
| | | `SettlementsFindAckers` | `SettlementFindsAcker` |
| | | `UnackedMessagesAreInHand` | `UnackedIsInHand`: no delivery is forgotten, as long as no handler panicked |
| `BridgeProofs` | 835 | `BridgeInvariance` | `BridgeInv` is invariant |
| | | `PublishersStayInOrder` | `InOrderOnce` |
| | | `NodesAgree` | `SameOrder`, for Redis |
| `BusProofs` | 3795 | `MatchFollowsTable`, `PatternsMatchTheTable` | the token loop of `wildcard_match` returns what the README's table says, for patterns and subjects of any length, except that `>` takes the empty subject; so `MatchesTable` |
| | | `BackendsSelectAlike`, `BackendsMatchAlike` | the AMQP binding key selects the same subjects, for patterns without a literal `#`, except that `*` takes the empty subject only locally; so `BackendsAgree` |
| | | `DefaultStaysRegistered` | whatever the builder calls are, an endpoint has a codec for its default |
| | | `LabelsLead`, `LabelsReachTheirReaders` | the label leads every endpoint that knows it to the value, and the others refuse; so `LabelsAgree` |
| | | `FramesAreReadBack`, `FramesAreKept` | what was framed is read back; so `FramesSurvive` |
| | | `OnlyFramesAreRead`, `OnlyFramesAreAccepted` | a buffer of any length that is not refused is, cell by cell, a frame of the subject and payload read and of a header listing that reads as the map returned; so `OnlyFramesAccepted` |
| | | `RouterInvariance` | `RouterInv` is invariant |
| | | `TableKeepsSenders` | `TableMatchesSenders` |
| | | `QueuesHaveOneBinding` | `OneBindingPerQueue` |
| | | `OpenStreamsKeepTheirPlace` | `OpenStreamsStaySubscribed` |
| | | `DispatchIsAllOrNothing` | the action property `AllOrNothing` |
| | | `GroupsAreServedInTurn` | of each group it matches, an accepted message reaches the consumer whose turn it is and no other, unless that one has gone: the one case in which `GroupReceives` fails |
| `QueueFacts` | 699 | | the lemmas all but the first of these share |

None of the state properties is inductive by itself. What each needs is told below; TLC confirmed
every inductive invariant on the instance of its run before it was proved (`IInv` is
still one of the properties of `partitioner`).

### Partitioner

Not even `TypeOK` is inductive, since `Send` appends `job[r]` to the channel of `sender[r]`,
and only `JobInv` and `SenderNeverStale` say that both exist. `IInv` adds what the code relies
on without saying it:

- `EntryInv` and `WorkerInv` tie each registry entry to exactly the state of its generation's
  worker: `Active` until the registry grants retirement, `Retiring` from then until it has read
  the `Retired` message. So a live worker of a key *is* the generation in the key's entry, and two
  live workers of one key are the same generation.
- `CommandInv` says what a message in the mailbox implies about its sender: a `BeginRetirement`
  comes from a worker that still waits for the answer, a `Retired` from one that has exited and whose
  entry is still `Retiring`. `OneReportInv` allows a generation one such message at a
  time, so serving one does not falsify another.
- `SenderNeverStale` is the key step: a worker exits only when `HasSender` is false, that is
  when its entry is no longer `Active`, and no submitter holds a clone. Since the registry
  hands out clones only from `Active` entries, a clone in somebody's hand keeps its worker.
- `ShutdownInv` covers the end: the registry stops when no strong handle is left, so no worker
  can still ask it.

`SerialInv` adds what the refinement needs: a granted retirement is going to be reported (`ReportInv`),
so that who is parked is answered (`AnswerInv`); an ended worker leaves nothing in its channel
(`EmptyInv`); and the jobs known anywhere were submitted no later than their submitter's last
(`NumberInv`), so no job is accepted twice. The line of a key in `KeyedSerial` is the
channel of the one live worker of the key, if there is one (`Line`, `Current`).
A retirement is then a stutter, because the line it leaves is empty.

### The journey of a message

None of the three properties says anything of a frame in flight that a later step could use, so
`JourneyInv` says of every frame what its reader will need (`FrameInv`), and of the message in a
route's hand that it is what its source made of such a frame (`HeldInv`, which keeps the choice
of a spelling where the code makes it):

- `PlaceInv`: which transport a subject is on, and whether there is a native ID;
- `LabelInv`: the payload is in the default format of who wrote it, and, where the transport shows
  labels, the native label, or without one every spelling of the header, names that format. Where
  it does not, `Agree` has made both defaults the same. Either way the reader decodes what was
  encoded;
- `IdInv`: the native ID, or without one every spelling of the header, is the origin's, and a
  frame that carries neither is on NNG or HTTP. Without `Forms = {"exact"}` this is false, and
  `StableLogicalId` is the counterexample; one spelling is inductive, since all that is put beside
  it is canonical;
- `OriginInv`, `ResultInv`, `ReplyInv`: what a frame's value can be and the correlation it has, what a
  failure says of its original, and that a reply is marked exactly when it is not an output.

Each operation on a header map is about one name and keeps the spellings of every other
(`Kept`), so each of the properties follows one name through `dispatch_raw`, `publish`,
`headers_to_properties`, the sources, the target and `deliver_failure`, one lemma for each
(`Conveys`, `Sendable`). `FailureSendable` and `ForwardedSendable` are where an old mark or a
foreign correlation would get through.

### HTTP source

`OneTaskPerRoute` needs that a source that was opened is gone from its binding (`InstallInv`), so a
later install stops there with an error instead of opening it again, and that an install which
has come to a binding has opened all before it. `AcceptedIsKept` needs more; `AcceptedInv` adds:

- `LineInv`: a request stands in the line for permits at most once and waits there, so a permit never
  goes to one that has been answered;
- `AnswerInv`: what was told 202 is `done`, so a request that holds a permit has not entered the
  channel before, and `accepted` stays injective;
- `ReceiverInv`: the loop has a message in hand only while it holds the receiver, and a source
  that gave its receiver away is gone from its binding. So opening the HTTP source finds the
  receiver where it was and revives no channel, and a router that drops its sources takes no
  request out of a task's hands;
- `QueueInv`: while the receiver lives, the channel holds what was accepted and not begun, in the
  order it came in and behind all that was begun;
- `LinesInv`: a line holds requests of its key, which the loop has let go, in the order they came
  in; what the loop has in hand came in after all else that was begun, so it may be put behind any
  line;
- `OnceInv`, `OrderInv`: one place for each request, and the orders that `AcceptedIsKept` states.
  A job leaves the head of its line; the earlier requests of its key have left the line, and
  cannot be in the loop's hand or the channel.

### Broker proxy

Three parties hold parts of one call: its future, the command channel, the reply task. `QueueInv`
says that a call's `Register` is queued once, while it waits for the confirmation or was given up then,
and its `Cancel` only when it has returned: so a `Cancel` never overtakes its
`Register`. `OneshotInv` orders the two one-shots: the reply comes after the confirmation and
when the entry is gone. Then a confirmed call without a reply is pending (`ConfirmedInv`),
which is `NoReplyMissed`, and an ended task has dropped both one-shots of everybody it knew
(`EndedInv`). `AnswerInv` follows an answer from the service through the subscription to the
call; the refinement maps everything before a call's return to stutters.

### Outbox

A delivery is in several tasks at once: claim loop, mailbox, actor, renewal, route. `ClaimInv` gives
each claim loop one delivery between claim and yield; `MailboxInv` says where the sender of each queued
command is, `PendingInv` that what the route has seen is pending, `ActorInv` that the delivery
the actor settles is out of `pending` and out of the mailbox, and both that a decision other than
`Retry` was taken about a record with a verdict. So whatever the store does
with leases meanwhile, what marks a record done was decided by a route, and
joining the renewal before the store call leaves none running.
`AloneInv` is the extra part without partitions.

### RabbitMQ

`OneCarrier` says that a message is in one place of the process, an entry of the stream or
one delivery; `CarrierInv` that the broker counts it as unacknowledged, or, once the connection is lost,
as redelivered. `FlagInv` follows the flag: what is still to be handled without it
was never routed. `KnownInv` and `CommandInv` follow an acker: registered, or its `Register` is in the
mailbox before any `Settle` of the delivery (`Before`); `ActorInv` adds that the acker the
actor has taken is gone and nobody settles the delivery again. `Justified` is carried along with each
decision from the route to the broker. The mailbox is what makes the order sound: one
task sends both commands, so first-in, first-out is enough.

### Bridges

The frames on the way to a node are in four places, and `Ahead(n, x, y)` orders them: delivered before
bridge before reader thread before wire, by position within each. `OrderInv` says that of two
messages of one publisher the earlier is ahead; `AgreeInv` that, without NNG's local
shortcut, no two nodes order two messages differently. `RouteInv` is what makes this inductive:
over NNG a line carries only its own node's messages, never to itself, so two lines never race
with one publisher's messages, and over Redis nothing is in between. `NumberInv` makes what is published
newer than all that is on its way.

### Patterns, codecs and frames

`wildcard_match` and the two readers of `wire.rs` are loops, modelled as recursive functions. The
library's induction theorems take an operator as a parameter, which no installed prover can
instantiate; `QueueFacts` derives a form about sets from `WFMin` (`Induction`), and from that
the existence of recursively defined functions (`Recursion`). With these:

- *patterns*: the loop is compared with `TokensMatch`, the README's rows as a formula about
  positions (`MatchFollowsTokens`); the topic exchange likewise (`KeySelects`), which gives for
  each position of the key the positions of the words that the rest of the key matches from.
  `TableMatch` adds what the row `>` says of the empty subject, and `Words` what the broker makes
  of it, so that the two exceptions, `EmptyTaken` and `EmptyWordTaken`, are part of the theorems
  and shown to be the only ones.
- *codecs*: for any set of content types and formats in which the two names of MessagePack mean the
  same (`Formats`) and codecs that write what their type names (`Honest`), every endpoint that the
  builder calls can make has its default among its codecs (`Endpoints`); the first codec
  that matches a label then writes and reads the same format.
- *frames*: `FramesAreReadBack` takes any payload, any subject and any headers with distinct keys
  in any order, as long as the subject and the header block fit their length fields (`Fits`); a
  longer one is cut modulo `LengthMod` and no property is claimed. `OnlyFramesAreRead` goes the
  other way, for buffers whose cells are below `LengthMod`: `Filled` says after each turn of the
  loop that the cells up to the cursor are a listing that reads as the map so far. The listing may
  repeat a key, which `encode` never does and `decode` accepts: the last value counts (`ReadAs`).
  Nothing is claimed of the payload's length, which the format does not carry. `ListingLength`
  bounds the listing by the cells it takes, so that the run's finite set of listings
  (`BufferListings`) leaves out none.

Tokens of `MCTables` other than `*` and `>` are literals (`TokensAssumption`); a literal `#` is
excepted, see section 5.

### In-process router

The table is a sequence of bindings with sequences of consumers, and `senders` a set. `RouterInv`
says that the consumers of the table are exactly the senders, each with one place in it
(`Apart`), each queue with one binding, and that a subscriber's one command is served before its
sender exists (`AskInv`), so nobody is bound twice. `remove_consumer` may empty a binding and drop it:
`Left` and `Without` say what remains, and the lemmas that filtering keeps membership, order and
distinctness carry the invariant through it. `DispatchIsAllOrNothing` follows from the
two passes of the actor: the first finds a full target and touches nothing, or finds none, and then
each open fanout target has room. For `GroupsAreServedInTurn`, `Apart` says that a member of a group
is a consumer of no other binding, so `route` can have picked it for its turn only.

### Only model-checked

- Liveness under fairness, `ENABLED`, and with it the fairness part of `KeyedSerial`: outside what
  the proof system handles.
- The three properties of section 5 that the code violates; `UnpartitionedOneAtATime`,
  `NativeIdIsKept` and `GroupsAreServedInTurn` say how far each holds.

## 5. Findings

Three runs show a statement of the documentation violated by what the code does.

- **A group message can reach nobody** (`local_group`). `route` picks the round-robin consumer
  before anybody looks whether its channel is open (`bus/internal_router.rs:144-167`). If the pick
  has gone, it is removed and the dispatch returns `Ok`, though another consumer of the group is
  open. `README.md:118` promises that one consumer in the group receives each message.
- **A partitioned route leases records ahead of its handlers** (`outbox_partitioned`).
  `outbox.rs:156` says that records are claimed one at a time so that later ones do not consume
  lease time; a partitioned route takes the next message as soon as the last is submitted
  (`router/core.rs:662`).
- **A native AMQP message ID can lose to a header** (`flow_identity`). `properties_to_headers` puts
  the native `message_id` under the canonical name beside whatever spelling of
  `qanat-message-id` the publisher used (`bus/rabbitmq_bus.rs:290`), and
  `ensure_inbound_message_id` takes the first the HashMap yields (`:305`). `README.md:206` says that
  RabbitMQ preserves a stable logical ID in its native `message_id`, `README.md:210` that the same ID
  is in the envelope.

Observations made while modelling, without a run of their own:

- `README.md:724` says `>` matches any non-empty subject; `wildcard_match` lets it match the
  empty one, which `split` makes one empty token (`bus/routing.rs:40`). `TableMatch` has the README's
  row, and `MatchesTable`, with the theorems behind it, says that the two differ on this pair
  (`EmptyTaken`) and on no other.
- A message with the empty subject reaches the pattern `*` locally and not over RabbitMQ, where an
  empty routing key has no word: `BackendsAgree` says so (`EmptyWordTaken`), and that it is
  the only pair on which a pattern without a literal `#` selects differently.
- A frame that is cut or padded within its payload is taken for another frame, over NNG and Redis: only
  the other fields have lengths. A header key that comes twice is accepted, with its last value.
- A literal `#` in a pattern means itself locally and "any tokens" to RabbitMQ;
  `BackendsAgree` is checked over tokens other than `#` and `*`.
- `README.md:208` says that messages received without an ID are rejected; `README.md:526`,
  `bus/rabbitmq_bus.rs:300` and the other sources mint one. A message redelivered without an ID gets
  another one each time.
- Over HTTP and NNG the ID travels in the headers only: `NngBus` dispatches a raw message without
  inserting its ID, an outbox record sent to an HTTP target takes its own headers along and not its
  ID, and a handler that replaces the headers replaces the ID with them. `IdentityKept` excepts
  these frames, and no others.
- An ID header that is spelled in another case and empty is not found, and a minted one is put
  beside it.
- A response an HTTP peer refused is forwarded to the error target, its body and label as they
  came. When that is the caller's reply address, the proxy takes the body for a `RouteFailure` and
  reports a transport error rather than the remote one of `README.md:686`; a `qanat-http-status`
  put on it stays on later messages.
- A handler that replaces the headers drops the reply address: delivery to it then fails although
  `accepts` said yes. A broker target always removes the reply address, so a second hop cannot answer.
- In a partitioned route the loop that takes messages waits for a full partition
  (`router/core.rs:696`): one slow key holds up the others. `AcceptedIsHandled` shows that it does
  so only as long as the jobs of that key take.
- A resolver that panics ends the loop of its route as a handler does in an unpartitioned one; a handler
  that panics in a partitioned route ends only its own job.
- After an install that failed before the HTTP binding was reached, its source still answers 202 until
  the channel is full, and then keeps clients waiting. A sender polled while the receiver goes away may
  be told 202 for a message nobody will read.
- Two outbox consumers whose leases keep expiring before the settlement can hand a record to and fro
  for ever.
- `DuplicateIsFlagged` is checked and proved for one consumer process. With a competing one it can
  fail: a process that loses its connection keeps unflagged copies in its buffer and goes on
  handling them, after another process has been given the same message, flagged, and routed it.
- RabbitMQ publishing waits for the client, not for a publisher confirm: `confirm_select` is never sent.
- After a panic in a partition worker nobody settles the delivery: its outbox lease is renewed, or its
  RabbitMQ message stays unacknowledged, for the life of the route. `UnackedIsInHand` excepts panics.
- The replies a `BrokerProxy` receives over RabbitMQ are never settled, so their ackers stay in
  the settlement actor's map.
- A receive loop of the NNG or Redis bus holds the bus's state, so dropping the last `NngBus` or
  `RedisBus` ends neither its threads nor its subscriptions. When a Redis subscription ends, nobody
  subscribes again: streams stay open and silent while publishing goes on.
- `NngBus::publish` may return an error after the frame has gone to the other nodes.
- When a proxy's reply task has ended, its runtime stays in the `OnceCell` and every later call
  fails; `CallReturns` shows they fail rather than hang.

## 6. Not modelled

- HTTP: the axum router wrappers (`HttpRouter`), endpoint metadata and the listener keep no state;
  `HttpPath` and `HttpQuery` are modelled as being there or not.
- NATS: subscribing, flushing and queue groups are the client's and the server's; the bus keeps
  nothing but a counter for local delivery IDs.
- RabbitMQ connecting and declaring, Redis and NNG connecting: calls of a client in sequence, whose
  failure ends the constructor.
- The options of the outbox source and their `validate` (`outbox.rs:230-257`): lengths of time,
  which the model leaves open.
- A codec whose own content type has parameters: `matches_content_type` strips them from the
  incoming label only (`bus/codec.rs:240-245`), so such a codec would match no label; none of the
  built-in ones is.
- A partitioner shared by several routes, in `HttpRoute`, `Outbox` and `RabbitRoute`:
  `Partitioner` has several submitters, the routes have one each.
- Several consumer processes of one RabbitMQ queue: `RabbitRoute` has one, which may be started anew.
- Application builders, manifest, error types, re-exports: nothing changes after start but the
  router an `App` holds, which is in `HttpRoute`.
- What serde makes of bytes, UTF-8 validity beyond "is text", the readable copy of a payload in a
  failure report (`router/core.rs:112-147`), log lines.
- The broker's, the store's and the HTTP peer's own failures, beyond what their clients see.

## 7. Plan

Modelled in this order, because each leans on the one before: the partitioner with its proofs; each
source and bus with its settlement; the proxy; codecs, frames and transports; the journey of a
message; the HTTP source with `install`. The proofs came in
the same order. Still to do:

1. `OneAtATime` for partitioned routes in a form that is true: two deliveries that are handled at
   once differ in their keys, which composes `Outbox` with `KeyedSerial`.
2. `GroupReceives` as the documentation has it, once a dispatch looks further than the first pick:
   `GroupsAreServedInTurn` is what the code does now.
