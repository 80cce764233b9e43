-------------------------------- MODULE Flow --------------------------------
(***************************************************************************)
(* The journey of one message: from its origin (a BrokerProxy call,        *)
(* Bus::publish, an HTTP request, an outbox record, or a publisher that is *)
(* not Qanat) to a route, process_route_message there (router/core.rs),    *)
(* and on to the route's target and error target, whose frames reach a     *)
(* second route, a consumer of failures, or the caller.                    *)
(*                                                                         *)
(* Endpoints of one party share a codec; parties joined by a transport     *)
(* without content-type headers share its default, as README.md asks.      *)
(* Values are named by what they are: "input", "output", "failure" (a      *)
(* RouteFailure) and "page" (the body of an HTTP error response).          *)
(***************************************************************************)
EXTENDS Transport, Naturals

CONSTANTS Origins,      \* of "call", "publish", "http", "outbox", "foreign"
          Inbound,      \* transports of the first route's source and of replies
          Outbound,     \* transports behind the targets
          Forms         \* spellings in which applications write the ID's header

Brokers == {"nats", "rabbit", "nng", "redis"}

ASSUME FormsAssumption == "exact" \in Forms /\ Forms \subseteq {"exact", "other"}
ASSUME TransportsAssumption == /\ Inbound \subseteq Brokers \union {"http", "outbox"}
                               /\ Outbound \subseteq Brokers

VARIABLES
  config,    \* who is joined to whom, chosen once
  origin,    \* how the message started, and the ID it was given
  network,   \* the frames in flight
  held,      \* the message a route has taken from its stream, or Nothing
  returned     \* what the proxy call returned, or "none"

journey == <<config, origin, network, held, returned>>

Nothing == [nothing |-> TRUE]

Value(is) == [is |-> is]

\* IDs: given at the origin, and minted where nobody finds one.
GivenId == 1
OtherId == 2
Minted == [in |-> 3, mid |-> 4, errors |-> 5, reply |-> 6]

OwnCall == 1
OtherCall == 2
NoCall == 0

-----------------------------------------------------------------------------
(* Configuration *)

Parties == {"caller", "route", "peer"}

\* Targets are named by the subject they send to, the reply address of the
\* message among them; HTTP targets lead to the readers of "mid" and "errors".
BrokerTargets == {"mid", "errors", "reply"}
HttpTargets == {"http", "httpErrors"}

Subject(target) == CASE target = "http" -> "mid"
                     [] target = "httpErrors" -> "errors"
                     [] OTHER -> target

\* The first route: its target, its error target, what it does with a message
\* that failed.  to = "none" is consume().  The default of the route's codec is
\* not the built-in one; the others' are the same or differ.
Config == [in : Inbound, out : Outbound,
           to : (BrokerTargets \union HttpTargets \union {"none"}) \ {"errors", "httpErrors"},
           errors : (BrokerTargets \union HttpTargets \union {"none"}) \ {"mid", "http"},
           onFailure : {"Retry", "Reject"},
           default : {d \in [Parties -> {"json", "cbor"}] : d["route"] = "cbor"}]

Agree(c) ==
  /\ c.in \in {"nng", "redis"} => c.default["caller"] = c.default["route"]
  /\ c.out \in {"nng", "redis"} => c.default["route"] = c.default["peer"]
  /\ c.in \in {"http", "outbox"} => c.to # "reply" /\ c.errors # "reply"

Endpoint(party) == WithDefaultContentType(Default, Plain(config.default[party]))

Configured == /\ config \in {c \in Config : Agree(c)}
              /\ origin = Nothing
              /\ network = {}
              /\ held = Nothing
              /\ returned = "none"

Addressed(subject, frame) ==
  [transport |-> frame.transport, subject |-> subject, headers |-> frame.headers,
   payload |-> frame.payload, native |-> frame.native, redelivered |-> frame.redelivered]
Sent(subject, results) == {Addressed(subject, f) : f \in results \ {SendError}}

-----------------------------------------------------------------------------
(* Origins *)

AppHeaders == UNION {[names -> AppValues] : names \in SUBSET (AppNames \X Forms)}

\* What an application may attach beside its own headers; its label is
\* misleading, and spelled as HTTP does.
GivenValue == [id |-> GivenId, type |-> "xml", failure |-> "true"]
GivenNames == UNION {SUBSET {<<"id", form>>, <<"type", "other">>, Exact("failure")} : form \in Forms}
Given(names) == [name \in names |-> GivenValue[name[1]]]

GivenHeaders == {Extended(Given(names), app) : names \in GivenNames, app \in AppHeaders}

Starts(kind, id, corr) == origin' = [kind |-> kind, id |-> id, corr |-> corr]

\* call_with_headers, once the reply stream and the registration stand
\* (BrokerProxy.tla): the ID travels in the headers, or not at all over NNG.
Request(h) ==
  LET addressed == Put(Put(h, "corr", OwnCall), "reply", "caller")
      default == ContentType(Endpoint("caller"))
  IN IF SupportsContentTypeHeaders(config.in) THEN SetContentType(addressed, default) ELSE addressed

Call ==
  /\ "call" \in Origins /\ config.in \in Brokers
  /\ \E h \in GivenHeaders :
       LET results == DispatchRaw(config.in, Request(h), OtherId,
                                  Encode(Endpoint("caller"), Value("input")), Minted.in)
       IN /\ network' = Sent("in", results)
          /\ returned' = IF results = {SendError} THEN "unsent" ELSE "none"
          /\ Starts("call", IF config.in # "nng" THEN OtherId
                            ELSE IF Exact("id") \in DOMAIN h THEN GivenId ELSE NoId, OwnCall)
  /\ UNCHANGED <<config, held>>

\* An application may answer to somebody itself.
PublishIn ==
  /\ "publish" \in Origins /\ config.in \in Brokers
  /\ \E h \in GivenHeaders, reply \in BOOLEAN :
       /\ network' = Sent("in", Publish(config.in, IF reply THEN Put(h, "reply", "caller") ELSE h,
                                        Endpoint("caller"), Value("input"), GivenId))
       /\ Starts("publish", GivenId, NoCall)
  /\ UNCHANGED <<config, held, returned>>

\* Clients and records that label what they send; the frame is theirs.
Arrives(kind, h, native, id) ==
  /\ network' = {Addressed("in", FrameOf(config.in, h,
                                  EncodeWith(CodecOf(config.default["caller"],
                                                     config.default["caller"]), Value("input")),
                                  native))}
  /\ Starts(kind, id, NoCall)
  /\ UNCHANGED <<config, held, returned>>

Labelled(h) == Put(h, "type", config.default["caller"])

HttpRequest ==
  /\ "http" \in Origins /\ config.in = "http"
  /\ \E names \in SUBSET {Exact("id")}, app \in {a \in AppHeaders : FitHeaderMap(a)} :
       LET h == Extended(Given(names), app)
       IN Arrives("http", Labelled(h), NotAmqp, IF Exact("id") \in DOMAIN h THEN GivenId ELSE NoId)

OutboxRecord ==
  /\ "outbox" \in Origins /\ config.in = "outbox"
  /\ \E h \in GivenHeaders :
       Arrives("outbox", h, [type |-> config.default["caller"], id |-> GivenId], GivenId)

\* A third-party AMQP publisher: header, native property, both or neither.
ForeignPublish ==
  /\ "foreign" \in Origins /\ config.in = "rabbit"
  /\ \E form \in Forms, id \in {NoId, GivenId} :
       \E names \in SUBSET {<<"id", form>>, Exact("reply")} :
         LET h == [name \in names |-> IF name[1] = "id" THEN OtherId ELSE "caller"]
         IN Arrives("foreign", Labelled(h), [type |-> NoType, id |-> id],
                 IF id # NoId THEN id ELSE IF Variants(h, "id") # {} THEN OtherId ELSE NoId)

Originate == origin = Nothing
             /\ (Call \/ PublishIn \/ HttpRequest \/ OutboxRecord \/ ForeignPublish)

-----------------------------------------------------------------------------
(* Sources *)

\* The party that reads a subject.
Reader(subject) == IF subject = "in" THEN "route" ELSE "peer"

RouteMessage(frame, received) ==
  [frame |-> frame, id |-> received.id, headers |-> received.headers, payload |-> frame.payload]

Receive(frame) ==
  /\ held = Nothing /\ frame.subject \in {"in", "mid", "errors"}
  /\ \E r \in Received(frame, Minted[frame.subject]) : held' = RouteMessage(frame, r)
  /\ network' = network \ {frame}
  /\ UNCHANGED <<config, origin, returned>>

Decoded(m) ==
  DecodeAt(m.frame.transport, Endpoint(Reader(m.frame.subject)), m.headers, m.payload)

\* Path parameters are metadata, the query is in the address: both are there
\* for the messages of an HttpSource only.
HttpPath(m) == m.frame.transport = "http"
HttpQuery(m) == m.frame.transport = "http"

RouteHeader(m) == \E name \in DOMAIN m.headers : name[1] \in AppNames

\* FromRouteMessage: a typed body is decoded, a named header, parameter or query
\* must be there; whole messages, envelopes and payloads cannot fail.
Arguments == {"body", "header", "path", "query", "raw"}

Extracts(argument, m) == CASE argument = "body" -> m.payload.value \in Decoded(m)
                           [] argument = "header" -> RouteHeader(m)
                           [] argument = "path" -> HttpPath(m)
                           [] argument = "query" -> HttpQuery(m)
                           [] argument = "raw" -> TRUE

\* Only RabbitMQ and the outbox do anything with a decision.
Settles(transport) == transport \in {"rabbit", "outbox"}

Settled(decision) ==
  IF decision = "Retry" /\ Settles(held.frame.transport)
  THEN {[held.frame EXCEPT !.redelivered = TRUE]} ELSE {}

Finish(frames, decision) ==
  /\ network' = network \union frames \union Settled(decision)
  /\ held' = Nothing
  /\ UNCHANGED <<config, origin, returned>>

-----------------------------------------------------------------------------
(* Targets *)

\* The transport behind a broker target.
Behind(target) == IF target = "reply" THEN config.in ELSE config.out

\* RouteTarget::encode of BrokerTarget and HttpTarget.
EncodeFor(target, value, m) ==
  LET labels == target \in HttpTargets \/ SupportsContentTypeHeaders(Behind(target))
  IN [m EXCEPT !.payload = Encode(Endpoint("route"), value),
               !.headers = IF labels THEN SetContentType(@, ContentType(Endpoint("route"))) ELSE @]

Accepts(target, m) == target = "reply" => Exact("reply") \in DOMAIN m.headers

\* What came of deliver: the frame of a message that was sent, an error, or the
\* response of an HTTP peer that is not a success.
BrokerDelivers(target, m) ==
  IF ~Accepts(target, m) THEN {SendError}
  ELSE {IF r = SendError THEN r ELSE Addressed(target, r)
          : r \in DispatchRaw(Behind(target), Without(m.headers, "reply"), m.id, m.payload,
                              Minted[target])}

\* HttpTarget::send: bytes without a label of the canonical spelling get one.
WithLabel(h) == IF Exact("type") \in DOMAIN h THEN h ELSE Put(h, "type", "octets")

HttpResponse(h) == [headers |-> h, payload |-> [format |-> "html", value |-> Value("page")]]

\* Responses of an HTTP peer that refuses: its own headers, named as it likes.
ResponseValue == [type |-> "html", id |-> OtherId, corr |-> OtherCall]
Responses == {HttpResponse([name \in names |-> ResponseValue[name[1]]])
                : names \in SUBSET {Exact("type"), Exact("id"), <<"corr", "other">>}}

ConnectionError == [refused |-> "connection"]

Invoke(target, h, payload) ==
  {ConnectionError} \union
  IF FitHeaderMap(h)
  THEN {Addressed(Subject(target), FrameOf("http", h, payload, NotAmqp))} \union Responses
  ELSE {}

HttpDelivers(target, m) == Invoke(target, WithLabel(Without(m.headers, "reply")), m.payload)

DeliverTo(target, m) ==
  IF target \in HttpTargets THEN HttpDelivers(target, m) ELSE BrokerDelivers(target, m)

IsFrame(result) == "subject" \in DOMAIN result
IsResponse(result) == ~IsFrame(result) /\ "payload" \in DOMAIN result

-----------------------------------------------------------------------------
(* deliver_failure *)

\* What of the response's headers is passed on: no credentials, hop-by-hop or
\* Qanat header, no correlation and no reply address; names in lower case.
Forwarded(h) ==
  {Restrict(l, DOMAIN l \ {Exact(b) : b \in {"id", "failure", "status", "corr", "reply"}})
     : l \in Lowercased(h)}

Copy(from, base, to) ==
  IF Exact(base) \in DOMAIN from THEN Put(to, base, from[Exact(base)]) ELSE to

Marked(h) == Put(h, "failure", "true")

ForwardedResponse(m, response) ==
  {[m EXCEPT !.payload = response.payload,
             !.headers = Marked(Put(Copy(m.headers, "reply", Copy(m.headers, "corr", h)),
                                    "status", "5xx"))]
     : h \in Forwarded(response.headers)}

\* RouteError::handler and RouteError::delivery.
HandlerError == [refused |-> "handler"]
Stage(result) == IF result = HandlerError THEN "handler" ELSE "delivery"

\* The original as the route received it, whatever the handler made of it.
FailedRouteMessage(m) == [id |-> m.id, headers |-> m.headers, payload |-> m.payload]

RouteFailure(m, result) ==
  [is |-> "failure", stage |-> Stage(result), original |-> FailedRouteMessage(m)]

EncodedFailure(target, m, result) ==
  LET encoded == EncodeFor(target, RouteFailure(m, result), m)
  IN [encoded EXCEPT !.headers = Marked(@)]

\* Failures are never routed on: without a target, or when it refuses, a log
\* line is all that remains.
DeliverFailure(m, result) ==
  IF config.errors = "none" THEN {{}}
  ELSE {IF IsFrame(sent) THEN {sent} ELSE {}
          : sent \in UNION {DeliverTo(config.errors, failure)
              : failure \in IF IsResponse(result) THEN ForwardedResponse(m, result)
                            ELSE {EncodedFailure(config.errors, m, result)}}}

Fail(result) ==
  \E frames \in DeliverFailure(held, result) : Finish(frames, config.onFailure)

-----------------------------------------------------------------------------
(* process_route_message of the first route *)

AtRoute == held # Nothing /\ held.frame.subject = "in"

\* A handler may keep the headers or return its own; what it returns here
\* keeps the correlation, if nothing else.
Outputs(m) ==
  {m} \union {[m EXCEPT !.headers = Restrict(@, DOMAIN @ \intersect kept)]
                : kept \in {{Exact("corr")}, {Exact("corr"), Exact("reply"), Exact("failure")}}}

\* Mutant of EncodeHandlerOutput: the mark of an earlier failure stays.
EncodeMarkedOutput(m) == EncodeFor(config.to, Value("output"), m)

EncodeHandlerOutput(m) ==
  EncodeFor(config.to, Value("output"), [m EXCEPT !.headers = Without(@, "failure")])

TargetRejects == /\ AtRoute /\ config.to # "none" /\ ~Accepts(config.to, held)
                 /\ Fail(SendError)

MayRun == AtRoute /\ (config.to # "none" => Accepts(config.to, held))

\* An argument cannot be extracted, or the handler returns an error.
HandlerFails == /\ MayRun
                /\ Fail(HandlerError)

\* The resolver of a partitioned route fails or yields an empty key.
KeyUnresolved == /\ AtRoute
                 /\ Fail(HandlerError)

\* A RouteHandler of the application's own has no consume unless it defines one.
NoConsume == /\ AtRoute /\ config.to = "none"
             /\ Fail(HandlerError)

HandlerSucceeds ==
  /\ MayRun
  /\ \E argument \in Arguments : Extracts(argument, held)
  /\ IF config.to = "none" THEN Finish({}, "Ack")
     ELSE \E m \in Outputs(held) : \E result \in DeliverTo(config.to, EncodeHandlerOutput(m)) :
            IF IsFrame(result) THEN Finish({result}, "Ack") ELSE Fail(result)

\* The second route and the reader of failures are terminal and succeed.
Consume == /\ held # Nothing /\ held.frame.subject \in {"mid", "errors"}
           /\ Finish({}, "Ack")

-----------------------------------------------------------------------------
(* The caller *)

Correlation(h) == IF Exact("corr") \in DOMAIN h THEN h[Exact("corr")] ELSE NoCall

\* A marked reply is decoded as a RouteFailure, any other as the output type.
Outcome(h, decoded) ==
  IF Exact("failure") \in DOMAIN h
  THEN IF decoded.is = "failure" THEN "remote" ELSE "transport"
  ELSE IF decoded.is = "output" THEN "ok" ELSE "transport"

ReplyArrives(frame) ==
  /\ frame.subject = "reply"
  /\ network' = network \ {frame}
  /\ \E r \in Received(frame, Minted.reply) :
       IF returned = "none" /\ Correlation(r.headers) = origin.corr /\ origin.kind = "call"
       THEN \E hint \in Hints(frame.transport, r.headers) :
              LET decoded == DecodeWithContentType(Endpoint("caller"), frame.payload, hint)
              IN returned' = IF decoded = SerializationError THEN "transport"
                           ELSE Outcome(r.headers, decoded)
       ELSE UNCHANGED returned
  /\ UNCHANGED <<config, origin, held>>

CallTimesOut ==
  /\ origin # Nothing /\ returned = "none"
  /\ origin.kind = "call"
  /\ returned' = "timeout"
  /\ UNCHANGED <<config, origin, network, held>>

Step == \/ Originate
        \/ \E frame \in network : Receive(frame) \/ ReplyArrives(frame)
        \/ TargetRejects \/ KeyUnresolved \/ NoConsume \/ HandlerFails \/ HandlerSucceeds \/ Consume
        \/ CallTimesOut

Journey == Configured /\ [][Step]_journey

-----------------------------------------------------------------------------
(* Correctness *)

\* The ID is in the frame: the native property, or a header that has it.
Carries(frame) == frame.native.id # NoId \/ Variants(frame.headers, "id") # {}

\* A message has one ID from its origin on, across routes, transports, failures
\* and redelivery, in the envelope and in the header a handler sees, whatever
\* the handler did to the headers, and in what a failure says of its original;
\* only NNG and HTTP, which have no place for it but the headers, may be given
\* a message without (bus/mod.rs:145-156, message.rs:13-30, core.rs:95-127).
IdentityKept ==
  origin # Nothing /\ origin.id # NoId =>
    /\ \A frame \in network : Carries(frame) \/ frame.transport \in {"nng", "http"}
    /\ held # Nothing /\ Carries(held.frame) =>
         /\ held.id = origin.id
         /\ held.frame.transport # "outbox" => held.headers[Exact("id")] = held.id
    /\ held # Nothing /\ held.payload.value.is = "failure" =>
         held.payload.value.original.id = origin.id

\* Whatever labels a message has had on its way, from whom and in which
\* spelling, a source decodes what the last endpoint encoded; only the body of
\* an HTTP error response keeps the label of whoever sent it (codec.rs:88-91,
\* bus/adapter.rs:60-67, core.rs:990-1006).
LabelTellsFormat ==
  held # Nothing /\ held.payload.value # Value("page") => Decoded(held) = {held.payload.value}

\* A reply says what became of the request it answers: success and failure are
\* not taken for each other though the request brought an old failure mark
\* along, no response of an HTTP peer puts another call's correlation on it, and
\* a failure is about this very request; the caller can decode every reply but
\* such a response (core.rs:953-967, 984-1027, broker.rs:367-404).
ReplyTellsOutcome ==
  /\ \A frame \in network : frame.subject = "reply" =>
       /\ (frame.payload.value # Value("output") <=> Exact("failure") \in DOMAIN frame.headers)
       /\ Correlation(frame.headers) = origin.corr
       /\ frame.payload.value.is = "failure" =>
            Correlation(frame.payload.value.original.headers) = origin.corr
  /\ returned = "transport" => config.to = "http"

\* "RabbitMQ ... preserves a stable logical ID in its native AMQP message_id ...
\* The same ID is available as BrokerEnvelope.0.message_id" (README.md:206-210).
StableLogicalId ==
  held # Nothing /\ held.frame.transport = "rabbit" /\ held.frame.native.id # NoId =>
    held.id = held.frame.native.id
=============================================================================
