-------------------------------- MODULE Wire --------------------------------
(***************************************************************************)
(* The frame of NngBus and RedisBus (src/src/bus/wire.rs).  A buffer is a  *)
(* sequence of cells: a u32 field is one cell, a byte of text or payload   *)
(* is one cell.  Lengths keep their width: they count modulo LengthMod.    *)
(* Headers are a sequence of [key, value], in the order in which the map   *)
(* happens to be iterated; none and no map at all make the same bytes.     *)
(***************************************************************************)
EXTENDS SequencesExt, Integers

CONSTANTS LengthMod,   \* 2^32
          TextBytes    \* the bytes that are UTF-8

ASSUME WidthAssumption == LengthMod \in Nat \ {0}

Length(s) == Len(s) % LengthMod

IsText(s) == ToSet(s) \subseteq TextBytes

EncodeHeader(h) == <<Length(h.key), Length(h.value)>> \o h.key \o h.value

\* Mutant of EncodeHeaders: a frame without headers has no count.
EncodeHeadersOrNothing(hs) ==
  IF hs = <<>> THEN <<>>
  ELSE <<Length(hs)>> \o FlattenSeq([i \in DOMAIN hs |-> EncodeHeader(hs[i])])

EncodeHeaders(hs) == <<Length(hs)>> \o FlattenSeq([i \in DOMAIN hs |-> EncodeHeader(hs[i])])

EncodeFrame(subject, hs, payload) ==
  LET headers == EncodeHeaders(hs)
  IN <<Length(subject), Length(headers)>> \o subject \o headers \o payload

-----------------------------------------------------------------------------
Refused == [refused |-> TRUE]

\* The cells of a buffer after `from` up to `to`.
Slice(buf, from, to) == SubSeq(buf, from + 1, IF to < Len(buf) THEN to ELSE Len(buf))

Inserted(map, key, value) ==
  [k \in DOMAIN map \union {key} |-> IF k = key THEN value ELSE map[k]]

\* The loop body of decode_headers: a key met twice keeps its last value.
DecodeHeader(buf, read) ==
  IF read = Refused \/ (read # Refused /\ Len(buf) < read.cursor + 2) THEN Refused
  ELSE LET keyStart == read.cursor + 2
           keyEnd == keyStart + buf[read.cursor + 1]
           valueEnd == keyEnd + buf[read.cursor + 2]
           key == Slice(buf, keyStart, keyEnd)
           value == Slice(buf, keyEnd, valueEnd)
       IN IF Len(buf) < valueEnd \/ ~IsText(key) \/ ~IsText(value) THEN Refused
          ELSE [cursor |-> valueEnd, headers |-> Inserted(read.headers, key, value)]

NoHeaders == <<>>

\* A header takes two cells at least: a count above that is refused unread.
DecodeHeaders(buf) ==
  IF Len(buf) < 1 THEN Refused
  ELSE IF buf[1] = 0 THEN IF Len(buf) = 1 THEN [headers |-> NoHeaders] ELSE Refused
  ELSE IF buf[1] > (Len(buf) - 1) \div 2 THEN Refused
  ELSE LET read[i \in 0..buf[1]] ==
             IF i = 0 THEN [cursor |-> 1, headers |-> NoHeaders]
                      ELSE DecodeHeader(buf, read[i - 1])
           all == read[buf[1]]
       IN IF all = Refused \/ (all # Refused /\ all.cursor # Len(buf)) THEN Refused
          ELSE [headers |-> all.headers]

PayloadStart(buf) == 2 + buf[1] + buf[2]

\* Mutant of Complete: the lengths are believed.
Believed(buf) == Len(buf) >= 2
Complete(buf) == Len(buf) >= 2 /\ Len(buf) >= PayloadStart(buf)

DecodeFrame(buf) ==
  IF ~Complete(buf) THEN Refused
  ELSE LET subject == Slice(buf, 2, 2 + buf[1])
           decoded == DecodeHeaders(Slice(buf, 2 + buf[1], PayloadStart(buf)))
       IN IF ~IsText(subject) \/ decoded = Refused THEN Refused
          ELSE [subject |-> subject, headers |-> decoded.headers,
                payload |-> Slice(buf, PayloadStart(buf), Len(buf))]

-----------------------------------------------------------------------------
(* What a frame is for *)

\* The map that the listed headers are entries of.
MapOf(hs) == [k \in {hs[i].key : i \in DOMAIN hs} |->
                hs[CHOOSE i \in DOMAIN hs : hs[i].key = k].value]

\* Lengths that do not fit their field are not what the format is for.
Fits(subject, hs) == Len(EncodeHeaders(hs)) < LengthMod /\ Len(subject) < LengthMod

\* What was framed is read back.
Survives(subject, hs, payload) ==
  Fits(subject, hs) =>
    DecodeFrame(EncodeFrame(subject, hs, payload)) =
      [subject |-> subject, headers |-> MapOf(hs), payload |-> payload]

\* The map that a reader makes of a listing: of a key met twice, the last value.
ReadAs(hs, map) ==
  /\ DOMAIN map = {hs[i].key : i \in DOMAIN hs}
  /\ \A i \in DOMAIN hs : (\A j \in DOMAIN hs : hs[j].key = hs[i].key => j <= i)
                             => map[hs[i].key] = hs[i].value

\* What is not refused is the frame of what was read, with one of these listings
\* of the headers that were read.
IsFrame(buf, listings) ==
  LET read == DecodeFrame(buf)
  IN read = Refused \/ \E hs \in listings : /\ buf = EncodeFrame(read.subject, hs, read.payload)
                                            /\ ReadAs(hs, read.headers)
=============================================================================
