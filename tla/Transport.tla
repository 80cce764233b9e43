----------------------------- MODULE Transport ------------------------------
(***************************************************************************)
(* What a message's headers and message ID go through on each transport:   *)
(* message.rs, the header functions of codec.rs, and what nats_bus.rs,     *)
(* rabbitmq_bus.rs, nng_bus.rs, redis_bus.rs and the HTTP source do with   *)
(* them when they send and receive.                                        *)
(*                                                                         *)
(* A header name is <<base, form>>: the name as the code spells it or the  *)
(* same name in another case, which is another key of the map.  Headers    *)
(* are a function from names to values.  Where the code takes the first    *)
(* match in a HashMap's iteration order, the operator is the set of all    *)
(* the outcomes.                                                           *)
(***************************************************************************)
EXTENDS Codec

CONSTANTS AppNames,    \* names of headers that are the applications' own
          AppValues,   \* what they may hold
          Unfit        \* those of the values that no transport's header can hold

ASSUME AppAssumption ==
  /\ AppNames \intersect {"id", "type", "corr", "reply", "failure", "status"} = {}
  /\ Unfit \subseteq AppValues

Exact(base) == <<base, "exact">>

\* A message ID is a number; an empty header value and no header are NoId.
NoId == 0

\* HashMap::extend and insert.
Extended(h, more) == [name \in DOMAIN h \union DOMAIN more |->
                        IF name \in DOMAIN more THEN more[name] ELSE h[name]]
Put(h, base, value) == Extended(h, [name \in {Exact(base)} |-> value])
Without(h, base) == Restrict(h, DOMAIN h \ {Exact(base)})

\* The entries that eq_ignore_ascii_case finds.
Variants(h, base) == {name \in DOMAIN h : name[1] = base}
Retain(h, base) == Restrict(h, DOMAIN h \ Variants(h, base))

MessageIdFromHeaders(h) ==
  IF Variants(h, "id") = {} THEN {NoId} ELSE {h[name] : name \in Variants(h, "id")}

Envelope(id, h) == [id |-> id, headers |-> h]

\* Mutant of EnsureMessageId: the ID that came with the message is not looked for.
AlwaysNewMessageId(h, minted) == {Envelope(minted, Put(h, "id", minted))}

\* Spellings collapse into one when an ID is found; a new ID goes beside them.
EnsureMessageId(h, minted) ==
  {IF found = NoId THEN Envelope(minted, Put(h, "id", minted))
   ELSE Envelope(found, Put(Retain(h, "id"), "id", found))
     : found \in MessageIdFromHeaders(h)}

ContentTypes(h) ==
  IF Variants(h, "type") = {} THEN {NoName} ELSE {Plain(h[name]) : name \in Variants(h, "type")}

\* Mutant of SetContentType: another spelling of the label stays.
InsertContentType(h, type) == Put(h, "type", type)
SetContentType(h, type) == Put(Retain(h, "type"), "type", type)

-----------------------------------------------------------------------------
(* Sending.  A frame is what is on the transport; native is the AMQP       *)
(* content_type and message_id.                                            *)

SupportsContentTypeHeaders(transport) == transport \in {"nats", "rabbit"}

NotAmqp == [type |-> NoType, id |-> NoId]

FrameOf(transport, h, payload, native) ==
  [transport |-> transport, headers |-> h, payload |-> payload, native |-> native,
   redelivered |-> FALSE]

SendError == [refused |-> "send"]

\* headers_to_nats, and reqwest: a value that no header can hold is an error.
FitHeaderMap(h) == \A name \in DOMAIN h : name[1] \in AppNames => h[name] \notin Unfit

HeadersToProperties(h) ==
  {[type |-> name.type, id |-> id] : name \in ContentTypes(h), id \in MessageIdFromHeaders(h)}

\* publish_bytes of each backend.
PublishBytes(transport, h, payload, minted) ==
  CASE transport = "nats" ->
         IF FitHeaderMap(h) THEN {FrameOf(transport, h, payload, NotAmqp)} ELSE {SendError}
    [] transport = "rabbit" ->
         UNION {{FrameOf(transport, e.headers, payload, native)
                   : native \in HeadersToProperties(e.headers)}
                  : e \in EnsureMessageId(h, minted)}
    [] transport \in {"nng", "redis"} -> {FrameOf(transport, h, payload, NotAmqp)}

\* dispatch_raw puts the envelope's ID into the headers, beside any other
\* spelling of it; NngBus has a dispatch_raw of its own, which does not.
DispatchRaw(transport, h, id, payload, minted) ==
  PublishBytes(transport, IF transport = "nng" THEN h ELSE Put(h, "id", id), payload, minted)

\* ExternalBus::publish with the bus's codec.
Publish(transport, h, endpoint, value, minted) ==
  UNION {PublishBytes(transport,
                      IF SupportsContentTypeHeaders(transport)
                      THEN SetContentType(e.headers, ContentType(endpoint)) ELSE e.headers,
                      Encode(endpoint, value), minted)
           : e \in EnsureMessageId(h, minted)}

-----------------------------------------------------------------------------
(* Receiving: [id, headers] of the envelope *)

PropertiesToHeaders(frame) ==
  LET labelled == IF frame.native.type = NoType THEN frame.headers
                  ELSE SetContentType(frame.headers, frame.native.type)
  IN IF frame.native.id = NoId THEN labelled ELSE Put(labelled, "id", frame.native.id)

\* No spelling is collapsed here.
EnsureInboundMessageId(h, minted) ==
  {IF found = NoId THEN Envelope(minted, Put(h, "id", minted)) ELSE Envelope(found, h) : found \in MessageIdFromHeaders(h)}

\* An HTTP header map has one spelling of a name.
Lowercased(h) ==
  {[name \in {Exact(n[1]) : n \in DOMAIN h} |-> h[choice[name[1]]]]
     : choice \in {c \in [{n[1] : n \in DOMAIN h} -> DOMAIN h] :
                     \A base \in DOMAIN c : c[base][1] = base}}

\* The outbox hands on the record's ID and headers, and its content type if any.
RecordHeaders(frame) ==
  IF frame.native.type = NoType THEN frame.headers
                                ELSE SetContentType(frame.headers, frame.native.type)

Received(frame, minted) ==
  CASE frame.transport \in {"nats", "nng", "redis"} -> EnsureMessageId(frame.headers, minted)
    [] frame.transport = "rabbit" -> EnsureInboundMessageId(PropertiesToHeaders(frame), minted)
    [] frame.transport = "http" ->
         UNION {EnsureMessageId(h, minted) : h \in Lowercased(frame.headers)}
    [] frame.transport = "outbox" -> {Envelope(frame.native.id, RecordHeaders(frame))}

\* What a source offers its codec: BrokerSource looks at the label only where
\* the bus has one, HttpSource and LeasedOutboxSource always.
Hints(transport, h) ==
  IF SupportsContentTypeHeaders(transport) \/ transport \in {"http", "outbox"}
  THEN ContentTypes(h) ELSE {NoName}

DecodeAt(transport, endpoint, h, payload) ==
  {DecodeWithContentType(endpoint, payload, hint) : hint \in Hints(transport, h)}
=============================================================================
