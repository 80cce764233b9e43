------------------------------ MODULE MCTables ------------------------------
(***************************************************************************)
(* The pure parts, over bounded inputs: patterns and subjects grown token  *)
(* by token, endpoints grown by the builder calls of HeaderAwareCodec,     *)
(* frames of short texts, and every short buffer.                          *)
(***************************************************************************)
EXTENDS SubjectMatch, Codec, Wire

CONSTANTS Tokens,        \* literal tokens, "" among them
          MaxTokens,     \* bound on the length of pattern and subject
          MaxCodecs,     \* bound on the codecs of an endpoint
          MaxText,       \* bound on the length of a subject, payload, key, value
          MaxHeaders,    \* bound on the headers of a frame
          BufferCells,   \* what a cell of a buffer of unknown origin may hold
          MaxBuffer      \* bound on the cells of such a buffer

\* '*' and '>' are added where a pattern grows; '#' means nothing to the local router.
ASSUME TokensAssumption == Tokens \intersect {"*", ">", "#"} = {}

\* A cell that is read as a length is a u32.
ASSUME CellsAssumption == BufferCells \subseteq 0..(LengthMod - 1) /\ MaxBuffer \in Nat

VARIABLE input

-----------------------------------------------------------------------------
(* Inputs *)

Names == [type : {"json", "cbor", "msgpack", "x-msgpack", "text"},
          written : {"canonical", "other"}]

\* A user may register the built-in codecs and codecs of its own; each is
\* honest: it writes the format its content type names.
Codecs == {JsonCodec, CborCodec, MsgPackCodec,
           CodecOf("x-msgpack", "msgpack"), CodecOf("text", "text")}

Texts == BoundedSeq(TextBytes, MaxText)
Headers == [key : {<<>>} \union {<<b>> : b \in TextBytes}, value : Texts]
Listings == {hs \in BoundedSeq(Headers, MaxHeaders) :
               \A i, j \in DOMAIN hs : hs[i].key = hs[j].key => i = j}

FirstInput ==
  \/ \E p \in Tokens \union {"*", ">"}, s \in Tokens :
       input = [table |-> "subject", pattern |-> <<p>>, subject |-> <<s>>]
  \/ \E e \in {New(c) : c \in Codecs} \union {Default} :
       input = [table |-> "codec", endpoint |-> e]
  \/ \E s \in Texts, hs \in Listings, p \in Texts :
       input = [table |-> "frame", subject |-> s, headers |-> hs, payload |-> p]
  \/ \E b \in BoundedSeq(BufferCells, MaxBuffer) : input = [table |-> "buffer", buffer |-> b]

GrowPattern == /\ input.table = "subject" /\ Len(input.pattern) < MaxTokens
               /\ \E t \in Tokens \union {"*", ">"} :
                    input' = [input EXCEPT !.pattern = Append(@, t)]

GrowSubject == /\ input.table = "subject" /\ Len(input.subject) < MaxTokens
               /\ \E t \in Tokens : input' = [input EXCEPT !.subject = Append(@, t)]

GrowEndpoint == /\ input.table = "codec" /\ Len(input.endpoint.codecs) < MaxCodecs
                /\ \E c \in Codecs : input' = [input EXCEPT !.endpoint = Register(@, c)]

SetDefault == /\ input.table = "codec"
              /\ \E name \in Names :
                   input' = [input EXCEPT !.endpoint = WithDefaultContentType(@, name)]

NextInput == GrowPattern \/ GrowSubject \/ GrowEndpoint \/ SetDefault
Inputs == FirstInput /\ [][NextInput]_input

-----------------------------------------------------------------------------
(* Subjects *)

\* The token loop of wildcard_match computes what the README's table says of
\* patterns whose '>' is last, and differs from it on exactly one pair: ">"
\* takes the empty subject, where README.md:724 says "any non-empty subject"
\* (routing.rs:34-55).
MatchesTable ==
  input.table = "subject" => FollowsTable(input.pattern, input.subject)

\* A pattern RabbitMQ accepts selects the same subjects there as in the local
\* router: moving a route between backends does not change what it receives,
\* except that "*" takes the empty subject in the local router only, since the
\* broker finds no word in an empty routing key (rabbitmq_bus.rs:215-247 against
\* routing.rs:34-55).
BackendsAgree ==
  input.table = "subject" => SelectsAlike(input.pattern, input.subject)

-----------------------------------------------------------------------------
(* Codecs *)

Readers == {Default} \union {Register(Default, c) : c \in Codecs}
             \union {Register(New(JsonCodec), c) : c \in Codecs}

AnyValue == [is |-> "any"]

\* The label an endpoint puts on its bytes leads every endpoint that knows the
\* label to them, the endpoint itself first of all, whatever was registered
\* before or after the default was chosen and however a proxy rewrote the
\* label; an endpoint that does not know it refuses and never guesses
\* (codec.rs:207-245).
LabelsAgree ==
  input.table = "codec" =>
    \A written \in {"canonical", "other"}, reader \in Readers \union {input.endpoint} :
      LabelLeads(input.endpoint, reader, written, AnyValue)

-----------------------------------------------------------------------------
(* Frames *)

\* What was framed is read back, in whatever order the header map was iterated
\* (wire.rs:17-58).
FramesSurvive ==
  input.table = "frame" => Survives(input.subject, input.headers, input.payload)

\* What a frame of at most MaxBuffer cells can list: the two lengths and the count
\* take three cells, and every header takes two more than its texts.
BufferListings ==
  LET texts == BoundedSeq(TextBytes, MaxBuffer - 5)
  IN BoundedSeq([key : texts, value : texts], (MaxBuffer - 3) \div 2)

\* Every cell of a buffer that decode accepts is accounted for: it is the frame
\* of the subject and payload that were read and of a listing of headers that
\* reads as the map that was returned.  So no length leads past the buffer, no
\* cell of lengths, subject or headers is skipped or read twice, and no field is
\* taken for part of another.  The listing may repeat a key, which encode never
\* does; its last value counts.  The payload has no length: a frame cut or padded
\* within it passes for another frame (wire.rs:32-130).
OnlyFramesAccepted ==
  input.table = "buffer" =>
    IsFrame(input.buffer, BufferListings)
=============================================================================
