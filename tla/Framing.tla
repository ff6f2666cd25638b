------------------------------- MODULE Framing -------------------------------
(***************************************************************************)
(* How messages are framed as bytes: the CDR payloads of the zenoh backend *)
(* (src/zenoh_backend/cdr.rs), the raw topics and the raw action server of *)
(* the DDS backend (src/pubsub.rs, src/action/raw_server.rs), the gids     *)
(* (src/gid.rs), and the wire form of parameter values (src/parameters.rs).*)
(* A message body is two octets in the order of its endianness; that       *)
(* stands for the whole of CDR, which is a library's.                      *)
(***************************************************************************)
EXTENDS Naturals, Sequences

CONSTANTS GuidLength, GidLength

ASSUME FramingAssumption ==
  GuidLength \in Nat /\ GidLength \in Nat /\ GidLength >= GuidLength

\* The CDR library: the octets of a value, and the value of enough octets.
Body(value, order) == IF order = "LE" THEN value ELSE <<value[2], value[1]>>
Decoded(body, order) ==
  IF Len(body) < 2 THEN << >>
  ELSE << Body(<<body[1], body[2]>>, order) >>

Header(order) == IF order = "BE" THEN <<0, 0, 0, 0>> ELSE <<0, 1, 0, 0>>
AfterHeader(message) == SubSeq(message, 5, Len(message))

-----------------------------------------------------------------------------
(* zenoh: to_cdr and from_cdr.  Only the low bit of the second octet says  *)
(* the order.                                                              *)

ToCdr(value) == Header("LE") \o Body(value, "LE")
FromCdr(bytes) ==
  IF Len(bytes) < 4 THEN << >>
  ELSE Decoded(AfterHeader(bytes), IF bytes[2] % 2 = 1 THEN "LE" ELSE "BE")

-----------------------------------------------------------------------------
(* DDS raw topics.  A sample on the wire has its body and its encoding.    *)

Sample(body, encoding) == [body |-> body, encoding |-> encoding]
NewRaw(message) == Sample(IF Len(message) >= 4 THEN AfterHeader(message) ELSE message, "LE")
UnwrapRaw(sample) == Header(sample.encoding) \o sample.body

\* The writers: a typed one serializes, and both announce CDR_LE.
TypedPublish(value) == Sample(Body(value, "LE"), "LE")
RawPublish(message) == NewRaw(message)
TypedTake(sample) == Decoded(sample.body, sample.encoding)
RawTake(sample) == UnwrapRaw(sample)

-----------------------------------------------------------------------------
(* The DDS raw action server: its fixed messages are framed here.          *)

ToStandaloneCdr(value) == <<0, 1, 0, 0>> \o Body(value, "LE")
RepId(message) ==
  IF Len(message) < 2 THEN << >>
  ELSE CASE <<message[1], message[2]>> = <<0, 0>> -> <<"BE">>
         [] <<message[1], message[2]>> = <<0, 1>> -> <<"LE">>
         [] <<message[1], message[2]>> \notin {<<0, 0>>, <<0, 1>>} -> << >>
StripHeader(message) == IF Len(message) < 4 THEN << >> ELSE <<AfterHeader(message)>>
\* receive_result_request of the octets a raw server hands over.
ReceiveFixed(message) ==
  IF StripHeader(message) = << >> \/ RepId(message) = << >> THEN << >>
  ELSE Decoded(StripHeader(message)[1], RepId(message)[1])

-----------------------------------------------------------------------------
(* Gids, and parameter values.  A raw value has a type code and a field    *)
(* for every type, of which only the one of its type counts.               *)

ToGid(guid) == [i \in 1 .. GidLength |-> IF i <= Len(guid) THEN guid[i] ELSE 0]
ToGuid(gid) == SubSeq(gid, 1, GuidLength)

TypeCode == [NotSet |-> 0, Boolean |-> 1, Integer |-> 2, Double |-> 3, String |-> 4, ByteArray |-> 5,
             BooleanArray |-> 6, IntegerArray |-> 7, DoubleArray |-> 8, StringArray |-> 9]
Kinds == DOMAIN TypeCode
\* A parameter value is its kind and its content; NotSet has the content 0,
\* and 0 stands for the empty or zero value of every field.
ToRaw(value) ==
  [ptype |-> TypeCode[value.kind],
   fields |-> [k \in Kinds \ {"NotSet"} |-> IF k = value.kind THEN value.content ELSE 0]]
FromRaw(raw) ==
  IF \E k \in Kinds \ {"NotSet"} : TypeCode[k] = raw.ptype
  THEN LET kind == CHOOSE k \in Kinds : TypeCode[k] = raw.ptype IN
       [kind |-> kind, content |-> raw.fields[kind]]
  ELSE [kind |-> "NotSet", content |-> 0]

-----------------------------------------------------------------------------
(* What must hold of a value, of the octets of a message, and of a gid.    *)

\* Every pair of a writer and a reader agrees on the value, typed or raw, in
\* either byte order of the writer, and raw octets cross a raw topic unchanged
\* when they are what the raw publisher takes: a whole CDR_LE message.
ValueArrives(value) ==
  /\ FromCdr(ToCdr(value)) = <<value>>
  /\ FromCdr(Header("BE") \o Body(value, "BE")) = <<value>>
  /\ TypedTake(RawPublish(ToCdr(value))) = <<value>>
  /\ FromCdr(RawTake(TypedPublish(value))) = <<value>>
  /\ FromCdr(RawTake(Sample(Body(value, "BE"), "BE"))) = <<value>>
  /\ RawTake(RawPublish(ToCdr(value))) = ToCdr(value)
  /\ ReceiveFixed(ToStandaloneCdr(value)) = <<value>>
  /\ ReceiveFixed(RawTake(Sample(Body(value, "BE"), "BE"))) = <<value>>

\* Any octets: the raw action server reads what from_cdr reads, or refuses,
\* and refuses whatever from_cdr refuses.
OctetsRead(message) ==
  /\ ReceiveFixed(message) # << >> => FromCdr(message) = ReceiveFixed(message)
  /\ (FromCdr(message) # << >> /\ message[1] = 0 /\ message[2] \in {0, 1})
       => ReceiveFixed(message) # << >>

GidKeepsGuid(guid) == ToGuid(ToGid(guid)) = guid
ParameterArrives(value) ==
  /\ FromRaw(ToRaw(value)) = value
  \* A raw value of another sender may fill fields of other types.
  /\ FromRaw([ToRaw(value) EXCEPT !.fields = [k \in Kinds \ {"NotSet"} |-> value.content]]) = value
  /\ FromRaw([ToRaw(value) EXCEPT !.ptype = 10]).kind = "NotSet"
=============================================================================
