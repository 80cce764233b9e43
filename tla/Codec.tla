------------------------------- MODULE Codec --------------------------------
(***************************************************************************)
(* HeaderAwareCodec (src/src/bus/codec.rs): codecs registered in code, one *)
(* of which a content type selects.  A codec is its content_type() and the *)
(* format it writes; encoded bytes are the format and the value in it.  A  *)
(* content type in a header is [type, written]: the media type and the way *)
(* it is written there (case, parameters), which selection ignores.        *)
(***************************************************************************)
EXTENDS SequencesExt

CodecOf(type, format) == [type |-> type, format |-> format]

JsonCodec == CodecOf("json", "json")
CborCodec == CodecOf("cbor", "cbor")
MsgPackCodec == CodecOf("msgpack", "msgpack")

EncodeWith(codec, value) == [format |-> codec.format, value |-> value]

\* Every error of this module is BusError::Serialization: in place of a value,
\* and in place of bytes.
SerializationError == [is |-> "error"]
NoBytes == [format |-> "none", value |-> SerializationError]

DecodeWith(codec, bytes) ==
  IF bytes.format = codec.format THEN bytes.value ELSE SerializationError

MediaType(name) == name.type

Plain(type) == [type |-> type, written |-> "canonical"]

\* matches_content_type: MessagePack has a second name.
Matches(canonical, name) ==
  \/ canonical = MediaType(name)
  \/ canonical = "msgpack" /\ MediaType(name) = "x-msgpack"

-----------------------------------------------------------------------------
(* CodecCollection: a nest of pairs, the codec registered last outermost *)

Registered(codecs, name) == \E i \in DOMAIN codecs : Matches(codecs[i].type, name)

\* Every operation of a collection takes the first codec that matches.
Selected(codecs, name) == codecs[SelectInSeq(codecs, LAMBDA c : Matches(c.type, name))]

EncodeSelected(codecs, name, value) ==
  IF Registered(codecs, name) THEN EncodeWith(Selected(codecs, name), value)
                              ELSE NoBytes

DecodeSelected(codecs, name, bytes) ==
  IF Registered(codecs, name) THEN DecodeWith(Selected(codecs, name), bytes)
                              ELSE SerializationError

NoType == "none"

CanonicalType(codecs, name) ==
  IF Registered(codecs, name) THEN Selected(codecs, name).type ELSE NoType

-----------------------------------------------------------------------------
(* HeaderAwareCodec *)

New(codec) == [codecs |-> <<codec>>, default |-> codec.type]

Default == [codecs |-> <<MsgPackCodec, CborCodec, JsonCodec>>, default |-> "json"]

Register(endpoint, codec) == [endpoint EXCEPT !.codecs = <<codec>> \o @]

\* Mutant of WithDefaultContentType: any name is taken as it is.
WithAnyContentType(endpoint, name) == [endpoint EXCEPT !.default = MediaType(name)]

\* A name nobody registered is an error; the caller has moved its endpoint in,
\* and what it keeps is an endpoint built anew.
WithDefaultContentType(endpoint, name) ==
  IF CanonicalType(endpoint.codecs, name) = NoType THEN endpoint
  ELSE [endpoint EXCEPT !.default = CanonicalType(endpoint.codecs, name)]

\* Encoding always uses the default, which is also the label of the bytes.
Encode(endpoint, value) == EncodeSelected(endpoint.codecs, Plain(endpoint.default), value)

ContentType(endpoint) == endpoint.default

Decode(endpoint, bytes) == DecodeSelected(endpoint.codecs, Plain(endpoint.default), bytes)

NoName == [type |-> NoType, written |-> NoType]

\* decode_with_content_type: bytes without a label are taken for the default's.
DecodeWithContentType(endpoint, bytes, name) ==
  IF name = NoName THEN Decode(endpoint, bytes)
                   ELSE DecodeSelected(endpoint.codecs, name, bytes)

-----------------------------------------------------------------------------
(* What a label is for *)

\* Whoever knows the label that an endpoint puts on its bytes, however a proxy
\* has rewritten it, reads the value from them; whoever does not, refuses them.
LabelLeads(endpoint, reader, written, value) ==
  LET label == [type |-> ContentType(endpoint), written |-> written]
      bytes == Encode(endpoint, value)
  IN /\ bytes # NoBytes
     /\ DecodeWithContentType(reader, bytes, label) =
          IF reader = endpoint \/ Registered(reader.codecs, label)
          THEN value ELSE SerializationError
=============================================================================
