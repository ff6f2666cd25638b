-------------------------- MODULE ServiceRpc_proofs --------------------------
(***************************************************************************)
(* Proofs about ServiceRpc for any number of clients, callers and calls:   *)
(* types in every mapping, and that answers go to the calls that asked in  *)
(* the Enhanced mapping, whoever shares a Client and whoever gives up.     *)
(***************************************************************************)
EXTENDS ServiceRpc, TLAPS

\* In the mappings that put a header in front of the body there always is one, so that
\* there is something to decode an identity from.
HeadersOK ==
  Mapping # "Enhanced" =>
    /\ \A m \in requests : m.header \in Ids
    /\ \A c \in Clients : \A i \in DOMAIN responses[c] : responses[c][i].header \in Ids
    /\ \A k \in Callers : pc[k] = "write" => gen[k] \in Ids

TypeInv == TypeOK /\ HeadersOK

\* The GUIDs of the clients and the server are GUIDs.
LEMMA GuidType == \A x \in Clients \cup {Server} : Guid(x) \in Guids
BY DEF Guid, Guids

\* A request that was written has an identity and a payload the server can use.
LEMMA UnwrapRequest ==
  ASSUME TypeInv, NEW m \in requests
  PROVE  RequestId(m) \in Ids /\ Body(m) \in Payloads
<1>1. m \in Request /\ (Mapping # "Enhanced" => m.header \in Ids)
  BY DEF TypeInv, TypeOK, HeadersOK
<1>2. m.writer \in Guids /\ m.sn \in Nat /\ m.related \in Ids \cup {None} /\ m.body \in Payloads
  BY <1>1 DEF Request
<1>3. EnhancedId(m) \in Ids
  <2>1. CASE m.related = None
    BY <1>2, <2>1 DEF EnhancedId, Ids
  <2>2. CASE m.related # None
    <3>1. m.related \in Ids
      BY <1>2, <2>2
    <3> QED BY <1>2, <2>2, <3>1 DEF EnhancedId, Ids
  <2> QED BY <2>1, <2>2
<1>4. Body(m) \in Payloads
  BY <1>1, <1>2 DEF Body, Payloads
<1>5. Mapping = "Cyclone" => <<m.writer, m.header[2]>> \in Ids
  BY <1>1, <1>2 DEF Ids
<1>6. CASE Mapping = "Enhanced"
  <2>1. Mapping # "Basic" /\ Mapping # "Cyclone"
    BY <1>6
  <2> QED BY <1>3, <1>4, <1>6, <2>1, Zenon DEF RequestId
<1>7. CASE Mapping = "Basic"
  <2>1. Mapping # "Enhanced" /\ Mapping # "Cyclone"
    BY <1>7
  <2> QED BY <1>1, <1>4, <1>7, <2>1, Zenon DEF RequestId
<1>8. CASE Mapping = "Cyclone"
  <2>1. Mapping # "Enhanced" /\ Mapping # "Basic"
    BY <1>8
  <2> QED BY <1>4, <1>5, <1>8, <2>1, Zenon DEF RequestId
<1> QED BY <1>6, <1>7, <1>8, ConstantsAssumption

\* What waits in a reader has a payload the client can use.
LEMMA UnwrapResponse ==
  ASSUME TypeInv, NEW c \in Clients, responses[c] # << >>
  PROVE  Body(Head(responses[c])) \in Payloads
<1>1. responses[c] \in Seq(Response) /\ 1 \in DOMAIN responses[c]
  BY DEF TypeInv, TypeOK
<1>2. Head(responses[c]) = responses[c][1] /\ responses[c][1] \in Response
  BY <1>1
<1>3. Mapping # "Enhanced" => responses[c][1].header \in Ids
  BY <1>1 DEF TypeInv, HeadersOK
<1> QED BY <1>2, <1>3 DEF Body, Response, Payloads

\* Nothing has been sent at first.
LEMMA InitType == Init => TypeInv
BY ConstantsAssumption DEF Init, TypeInv, TypeOK, HeadersOK

\* A call begins: its numbers stay numbers.
LEMMA BeginType ==
  ASSUME TypeInv, NEW k \in Callers, IncrementSequenceNumber(k) \/ LoadSequenceNumber(k)
  PROVE  TypeInv'
<1> USE ConstantsAssumption
<1>1. CASE IncrementSequenceNumber(k)
  BY <1>1 DEF IncrementSequenceNumber, TypeInv, TypeOK, HeadersOK
<1>2. CASE LoadSequenceNumber(k)
  <2>1. <<Guid(ClientOf[k]), seqGen[ClientOf[k]]>> \in Ids
    BY GuidType DEF Ids, TypeInv, TypeOK
  <2> QED BY <1>2, <2>1 DEF LoadSequenceNumber, TypeInv, TypeOK, HeadersOK
<1> QED BY <1>1, <1>2

\* async_send_request writes a request with the header the mapping asks for.
LEMMA WriteType ==
  ASSUME TypeInv, NEW k \in Callers, WriteRequest(k)
  PROVE  TypeInv'
<1> USE ConstantsAssumption
<1> DEFINE c == ClientOf[k]
           sn == written[c] + 1
           related == IF c \in FastDdsClients THEN <<Guid(c), Unknown>>
                      ELSE IF Mapping = "Enhanced" THEN None ELSE gen[k]
           m == [writer |-> Guid(c), sn |-> sn, related |-> related,
                 header |-> Header(gen[k]), body |-> <<k, calls[k]>>]
<1>1. c \in Clients /\ sn \in Nat /\ Guid(c) \in Guids
  BY GuidType DEF TypeInv, TypeOK
<1>2. gen[k] \in Ids \cup {None} /\ (Mapping # "Enhanced" => gen[k] \in Ids)
  BY DEF TypeInv, TypeOK, HeadersOK, WriteRequest
<1>3. Header(gen[k]) \in Headers /\ (Mapping # "Enhanced" => Header(gen[k]) \in Ids)
  BY <1>2 DEF Header, Headers
<1>4. related \in Ids \cup {None}
  BY <1>1, <1>2 DEF Ids, Unknown
<1>5. <<k, calls[k]>> \in Payloads
  BY DEF Payloads, TypeInv, TypeOK
<1>6. m \in Request
  BY <1>1, <1>3, <1>4, <1>5 DEF Request
<1>7. ReturnedId(k, sn) \in Ids \cup {None}
  BY <1>1, <1>2 DEF ReturnedId, Ids
<1>8. /\ written' = [written EXCEPT ![c] = sn]
      /\ requests' = requests \cup {m}
      /\ reqId' = [reqId EXCEPT ![k] = ReturnedId(k, sn)]
      /\ gen' = [gen EXCEPT ![k] = None]
      /\ pc' = [pc EXCEPT ![k] = "wait"]
      /\ UNCHANGED <<seqGen, pending, responses, calls, got>>
  BY DEF WriteRequest
<1>9. TypeOK'
  BY <1>1, <1>6, <1>7, <1>8 DEF TypeInv, TypeOK
<1>10. HeadersOK'
  <2>1. Mapping # "Enhanced" => \A x \in requests' : x.header \in Ids
    BY <1>3, <1>8 DEF TypeInv, HeadersOK
  <2> QED BY <1>8, <2>1 DEF TypeInv, TypeOK, HeadersOK
<1> QED BY <1>9, <1>10 DEF TypeInv

\* async_send_request fails and leaves nothing behind but, perhaps, a number used up.
LEMMA FailType ==
  ASSUME TypeInv, NEW k \in Callers, FailRequest(k)
  PROVE  TypeInv'
<1>1. written' \in [Clients -> Nat]
  <2>1. PICK used \in {0, 1} : written' = [written EXCEPT ![ClientOf[k]] = @ + used]
    BY DEF FailRequest
  <2>2. ClientOf[k] \in Clients /\ written \in [Clients -> Nat]
    BY ConstantsAssumption DEF TypeInv, TypeOK
  <2>3. written[ClientOf[k]] + used \in Nat
    BY <2>2
  <2> QED BY <2>1, <2>2, <2>3
<1>2. /\ gen' = [gen EXCEPT ![k] = None]
      /\ pc' = [pc EXCEPT ![k] = "idle"]
      /\ UNCHANGED <<seqGen, requests, pending, responses, calls, reqId, got>>
  BY DEF FailRequest
<1> QED BY <1>1, <1>2 DEF TypeInv, TypeOK, HeadersOK

\* The server takes a request and can always answer it.
LEMMA ReceiveType ==
  ASSUME TypeInv, NEW m \in requests, ReceiveRequest(m)
  PROVE  TypeInv'
<1>1. [id |-> RequestId(m), body |-> Body(m)] \in Pending
  BY UnwrapRequest DEF Pending
<1> QED BY <1>1 DEF ReceiveRequest, TypeInv, TypeOK, HeadersOK

\* The answer has the header the mapping asks for, in every reader.
LEMMA SendType ==
  ASSUME TypeInv, NEW p \in pending, SendResponse(p)
  PROVE  TypeInv'
<1> DEFINE r == [writer |-> Guid(Server), related |-> p.id, header |-> Header(p.id), body |-> p.body]
<1>1. p.id \in Ids /\ p.body \in Payloads
  BY DEF TypeInv, TypeOK, Pending
<1>2. r \in Response /\ (Mapping # "Enhanced" => r.header \in Ids)
  BY <1>1, GuidType DEF Response, Header, Headers
<1>3. /\ responses' = [c \in Clients |-> Append(responses[c], r)]
      /\ pending' = pending \ {p}
      /\ UNCHANGED <<seqGen, written, requests, pc, calls, gen, reqId, got>>
  BY DEF SendResponse
<1> HIDE DEF r
<1>4. \A c \in Clients : responses[c] \in Seq(Response)
  BY DEF TypeInv, TypeOK
<1>5. \A c \in Clients : Append(responses[c], r) \in Seq(Response)
  BY <1>2, <1>4
<1>6. TypeOK'
  BY <1>3, <1>5 DEF TypeInv, TypeOK
<1>7. ASSUME Mapping # "Enhanced", NEW c \in Clients, NEW i \in DOMAIN responses'[c]
      PROVE  responses'[c][i].header \in Ids
  <2>1. responses'[c] = Append(responses[c], r)
    BY <1>3
  <2>2. CASE i \in DOMAIN responses[c]
    <3>1. responses'[c][i] = responses[c][i]
      BY <1>4, <2>1, <2>2
    <3> QED BY <1>7, <2>2, <3>1 DEF TypeInv, HeadersOK
  <2>3. CASE i \notin DOMAIN responses[c]
    <3>1. responses'[c][i] = r
      BY <1>4, <1>7, <2>1, <2>3
    <3> QED BY <1>2, <1>7, <3>1
  <2> QED BY <2>2, <2>3
<1>8. HeadersOK'
  BY <1>3, <1>7 DEF TypeInv, HeadersOK
<1> QED BY <1>6, <1>8 DEF TypeInv

\* A call takes a response of its Client, or ends without one.
LEMMA EndType ==
  ASSUME TypeInv, NEW k \in Callers, TakeResponse(k) \/ GiveUp(k)
  PROVE  TypeInv'
<1> USE ConstantsAssumption
<1> DEFINE c == ClientOf[k]
<1>1. CASE TakeResponse(k)
  <2>1. c \in Clients /\ responses[c] \in Seq(Response) /\ responses[c] # << >>
    BY <1>1 DEF TakeResponse, TypeInv, TypeOK
  <2>2. Body(Head(responses[c])) \in Payloads
    BY <2>1, UnwrapResponse
  <2>3. Tail(responses[c]) \in Seq(Response)
    BY <2>1
  <2>4. \A i \in DOMAIN Tail(responses[c]) :
           i + 1 \in DOMAIN responses[c] /\ Tail(responses[c])[i] = responses[c][i + 1]
    BY <2>1
  <2>5. /\ responses' = [responses EXCEPT ![c] = Tail(@)]
        /\ UNCHANGED <<seqGen, written, requests, pending, calls, gen>>
        /\ \/ /\ got' = [got EXCEPT ![k] = Body(Head(responses[c]))]
              /\ reqId' = [reqId EXCEPT ![k] = None]
              /\ pc' = [pc EXCEPT ![k] = "idle"]
           \/ UNCHANGED <<got, reqId, pc>>
           \/ /\ reqId' = [reqId EXCEPT ![k] = None]
              /\ pc' = [pc EXCEPT ![k] = "idle"]
              /\ UNCHANGED got
    BY <1>1, Zenon DEF TakeResponse
  <2>8. /\ pc' \in [Callers -> {"idle", "load", "write", "wait"}]
        /\ reqId' \in [Callers -> Ids \cup {None}]
        /\ got' \in [Callers -> Payloads \cup {None}]
        /\ \A j \in Callers : pc'[j] = "write" => pc[j] = "write"
    <3>1. /\ pc \in [Callers -> {"idle", "load", "write", "wait"}]
          /\ reqId \in [Callers -> Ids \cup {None}]
          /\ got \in [Callers -> Payloads \cup {None}]
      BY DEF TypeInv, TypeOK
    <3>2. CASE UNCHANGED <<got, reqId, pc>>
      BY <3>1, <3>2
    <3>3. CASE /\ got' = [got EXCEPT ![k] = Body(Head(responses[c]))]
               /\ reqId' = [reqId EXCEPT ![k] = None]
               /\ pc' = [pc EXCEPT ![k] = "idle"]
      BY <2>2, <3>1, <3>3
    <3>4. CASE /\ reqId' = [reqId EXCEPT ![k] = None]
               /\ pc' = [pc EXCEPT ![k] = "idle"]
               /\ UNCHANGED got
      BY <3>1, <3>4
    <3> QED BY <2>5, <3>2, <3>3, <3>4
  <2>6. TypeOK'
    BY <2>1, <2>3, <2>5, <2>8 DEF TypeInv, TypeOK
  <2>7. Mapping # "Enhanced" =>
          \A d \in Clients : \A i \in DOMAIN responses'[d] : responses'[d][i].header \in Ids
    BY <2>1, <2>4, <2>5 DEF TypeInv, TypeOK, HeadersOK
  <2> QED BY <2>5, <2>6, <2>7, <2>8 DEF TypeInv, HeadersOK
<1>2. CASE GiveUp(k)
  BY <1>2 DEF GiveUp, TypeInv, TypeOK, HeadersOK
<1> QED BY <1>1, <1>2

\* The types, and in the Basic and Cyclone mappings the headers, in every state.
THEOREM TypeInvariance == Spec => []TypeInv
<1>1. TypeInv /\ [Next]_vars => TypeInv'
  <2> SUFFICES ASSUME TypeInv, [Next]_vars PROVE TypeInv'
    OBVIOUS
  <2>1. CASE UNCHANGED vars
    BY <2>1 DEF vars, TypeInv, TypeOK, HeadersOK
  <2>2. CASE Next
    BY <2>2, BeginType, WriteType, FailType, ReceiveType, SendType, EndType DEF Next
  <2> QED BY <2>1, <2>2
<1> QED BY <1>1, InitType, PTL DEF Spec

\* Every variable has its type in every mapping: the server finds an identity in every
\* request (RequestWrapper::unwrap), and client and server find something to decode.
THEOREM TypeCorrectness == Spec => []TypeOK
<1>1. TypeInv => TypeOK
  BY DEF TypeInv
<1> QED BY <1>1, TypeInvariance, PTL

-----------------------------------------------------------------------------
(* The Enhanced mapping.  An identity is the GUID of a request writer and   *)
(* the number of the sample, and whatever carries it, in either direction   *)
(* or in a caller's hands, is about the call that wrote that sample.        *)

\* The identities in use, each with the question it stands for: of requests on their
\* way, of requests at the server, of responses in the readers, and of calls that wait.
Asked == {<< <<m.writer, m.sn>>, m.body >> : m \in requests}
AtServer == {<<p.id, p.body>> : p \in pending}
Heard(c) == {<<responses[c][i].related, responses[c][i].body>> : i \in DOMAIN responses[c]}
Awaited == {<<reqId[k], <<k, calls[k]>> >> : k \in {j \in Callers : pc[j] = "wait"}}
Sent == Asked \cup AtServer \cup (UNION {Heard(c) : c \in Clients}) \cup Awaited

\* The related identity of a request is missing, or has no number of its own.
RelatedOK == \A m \in requests : m.related \in {None, <<m.writer, Unknown>>}

\* An identity in use is that of a sample that was written ...
WrittenOK == \A x \in Sent : \E c \in Clients : \E n \in 1 .. written[c] : x[1] = <<Guid(c), n>>

\* ... and stands for one question.
OneQuestion == \A x, y \in Sent : x[1] = y[1] => x[2] = y[2]

IdInv == RelatedOK /\ WrittenOK /\ OneQuestion /\ ResponseIsMine

\* The server gives a request the identity its client waits for.
LEMMA EnhancedIdIsSample ==
  ASSUME RelatedOK, NEW m \in requests
  PROVE  EnhancedId(m) = <<m.writer, m.sn>>
<1>1. m.related = None \/ m.related = <<m.writer, Unknown>>
  BY DEF RelatedOK
<1> QED BY <1>1 DEF EnhancedId

\* The identity a call waits for is in use, for the question of the call.
LEMMA AwaitedSent ==
  ASSUME NEW k \in Callers, pc[k] = "wait"
  PROVE  <<reqId[k], <<k, calls[k]>> >> \in Sent
<1>1. k \in {j \in Callers : pc[j] = "wait"}
  OBVIOUS
<1>2. <<reqId[k], <<k, calls[k]>> >> \in Awaited
  BY <1>1 DEF Awaited
<1> QED BY <1>2, Zenon DEF Sent

\* A step that brings no identity into use, or only moves one on, keeps the invariant.
LEMMA NothingNew ==
  ASSUME TypeInv, IdInv, RelatedOK', ResponseIsMine', Sent' \subseteq Sent,
         \A c \in Clients : 1 .. written[c] \subseteq 1 .. written'[c]
  PROVE  IdInv'
<1>1. WrittenOK'
  BY DEF IdInv, WrittenOK
<1>2. OneQuestion'
  BY DEF IdInv, OneQuestion
<1> QED BY <1>1, <1>2 DEF IdInv

\* No identity is in use at first.
LEMMA InitId == Init => IdInv
<1> SUFFICES ASSUME Init PROVE IdInv
  OBVIOUS
<1>1. requests = {} /\ pending = {} /\ \A k \in Callers : pc[k] = "idle"
  BY DEF Init
<1>2. \A c \in Clients : responses[c] = << >>
  BY DEF Init
<1>3. Sent = {}
  BY <1>1, <1>2 DEF Sent, Asked, AtServer, Heard, Awaited
<1>4. RelatedOK /\ WrittenOK /\ OneQuestion
  BY <1>1, <1>3 DEF RelatedOK, WrittenOK, OneQuestion
<1>5. ResponseIsMine
  BY DEF Init, ResponseIsMine
<1> QED BY <1>4, <1>5 DEF IdInv

\* A call that begins forgets what the one before it got.
LEMMA BeginId ==
  ASSUME TypeInv, IdInv, NEW k \in Callers, IncrementSequenceNumber(k) \/ LoadSequenceNumber(k)
  PROVE  IdInv'
<1>1. CASE IncrementSequenceNumber(k)
  <2>1. /\ UNCHANGED <<written, requests, pending, responses, reqId>>
        /\ pc[k] = "idle"
        /\ pc' = [pc EXCEPT ![k] = "load"]
        /\ calls' = [calls EXCEPT ![k] = @ + 1]
        /\ got' = [got EXCEPT ![k] = None]
    BY <1>1 DEF IncrementSequenceNumber
  <2>2. {j \in Callers : pc'[j] = "wait"} = {j \in Callers : pc[j] = "wait"}
    BY <2>1 DEF TypeInv, TypeOK
  <2>3. \A j \in Callers : pc[j] = "wait" => calls'[j] = calls[j]
    BY <2>1 DEF TypeInv, TypeOK
  <2>4. Sent' = Sent
    BY <2>1, <2>2, <2>3 DEF Sent, Asked, AtServer, Heard, Awaited
  <2>5. ResponseIsMine'
    BY <2>1 DEF ResponseIsMine, IdInv, TypeInv, TypeOK
  <2>6. RelatedOK'
    BY <2>1 DEF RelatedOK, IdInv
  <2> QED BY <2>1, <2>4, <2>5, <2>6, NothingNew
<1>2. CASE LoadSequenceNumber(k)
  <2>1. /\ UNCHANGED <<written, requests, pending, responses, calls, reqId, got>>
        /\ pc[k] = "load"
        /\ pc' = [pc EXCEPT ![k] = "write"]
    BY <1>2 DEF LoadSequenceNumber
  <2>2. {j \in Callers : pc'[j] = "wait"} = {j \in Callers : pc[j] = "wait"}
    BY <2>1 DEF TypeInv, TypeOK
  <2>3. Sent' = Sent
    BY <2>1, <2>2 DEF Sent, Asked, AtServer, Heard, Awaited
  <2>4. ResponseIsMine' /\ RelatedOK'
    BY <2>1 DEF ResponseIsMine, RelatedOK, IdInv
  <2> QED BY <2>1, <2>3, <2>4, NothingNew
<1> QED BY <1>1, <1>2

\* The write brings one identity into use, with a number no sample has had.
LEMMA WriteId ==
  ASSUME Mapping = "Enhanced", TypeInv, IdInv, NEW k \in Callers, WriteRequest(k)
  PROVE  IdInv'
<1> USE ConstantsAssumption
<1> DEFINE c == ClientOf[k]
           sn == written[c] + 1
           related == IF c \in FastDdsClients THEN <<Guid(c), Unknown>>
                      ELSE IF Mapping = "Enhanced" THEN None ELSE gen[k]
           m == [writer |-> Guid(c), sn |-> sn, related |-> related,
                 header |-> Header(gen[k]), body |-> <<k, calls[k]>>]
           new == << <<Guid(c), sn>>, <<k, calls[k]>> >>
<1>1. /\ written' = [written EXCEPT ![c] = sn]
      /\ requests' = requests \cup {m}
      /\ reqId' = [reqId EXCEPT ![k] = <<Guid(c), sn>>]
      /\ pc' = [pc EXCEPT ![k] = "wait"]
      /\ UNCHANGED <<pending, responses, calls, got>>
  BY DEF WriteRequest, ReturnedId
<1>2. c \in Clients /\ written \in [Clients -> Nat] /\ sn \in Nat
  BY DEF TypeInv, TypeOK
<1>3. RelatedOK'
  <2>1. m.related \in {None, <<m.writer, Unknown>>}
    OBVIOUS
  <2> QED BY <1>1, <2>1 DEF RelatedOK, IdInv
<1>4. ResponseIsMine'
  BY <1>1 DEF ResponseIsMine, IdInv
<1>5. Sent' \subseteq Sent \cup {new}
  <2>1. Asked' \subseteq Asked \cup {new}
    BY <1>1 DEF Asked
  <2>2. Awaited' \subseteq Awaited \cup {new}
    BY <1>1 DEF Awaited, TypeInv, TypeOK
  <2>3. AtServer' = AtServer /\ \A d \in Clients : Heard(d)' = Heard(d)
    BY <1>1 DEF AtServer, Heard
  <2> HIDE DEF new
  <2> QED BY <2>1, <2>2, <2>3 DEF Sent
<1>6. \A x \in Sent : x[1] # new[1]
  BY <1>2 DEF IdInv, WrittenOK, Guid
<1>7. OneQuestion'
  <2> HIDE DEF new
  <2> QED BY <1>5, <1>6 DEF IdInv, OneQuestion
<1>8. WrittenOK'
  <2>1. \A d \in Clients : 1 .. written[d] \subseteq 1 .. written'[d]
    BY <1>1, <1>2
  <2>2. \A x \in Sent : \E d \in Clients : \E n \in 1 .. written'[d] : x[1] = <<Guid(d), n>>
    BY <2>1 DEF IdInv, WrittenOK
  <2>3. sn \in 1 .. written'[c]
    BY <1>1, <1>2
  <2> QED BY <1>2, <1>5, <2>2, <2>3 DEF WrittenOK
<1> QED BY <1>3, <1>4, <1>7, <1>8 DEF IdInv

\* A request that is not sent takes no identity; a number it used up is nobody's.
LEMMA FailId ==
  ASSUME TypeInv, IdInv, NEW k \in Callers, FailRequest(k)
  PROVE  IdInv'
<1>1. /\ pc[k] = "write" /\ pc' = [pc EXCEPT ![k] = "idle"]
      /\ UNCHANGED <<requests, pending, responses, calls, reqId, got>>
  BY DEF FailRequest
<1>2. \A c \in Clients : 1 .. written[c] \subseteq 1 .. written'[c]
  <2>1. PICK used \in {0, 1} : written' = [written EXCEPT ![ClientOf[k]] = @ + used]
    BY DEF FailRequest
  <2>2. \A c \in Clients : written[c] \in Nat /\ written'[c] \in {written[c], written[c] + 1}
    BY <2>1 DEF TypeInv, TypeOK
  <2> QED BY <2>2
<1>3. {j \in Callers : pc'[j] = "wait"} = {j \in Callers : pc[j] = "wait"}
  BY <1>1 DEF TypeInv, TypeOK
<1>4. Sent' = Sent
  BY <1>1, <1>3 DEF Sent, Asked, AtServer, Heard, Awaited
<1>5. RelatedOK' /\ ResponseIsMine'
  BY <1>1 DEF IdInv, RelatedOK, ResponseIsMine
<1> QED BY <1>2, <1>4, <1>5, NothingNew

\* The server takes a request with its identity and its question.
LEMMA ReceiveId ==
  ASSUME Mapping = "Enhanced", TypeInv, IdInv, NEW m \in requests, ReceiveRequest(m)
  PROVE  IdInv'
<1>1. RequestId(m) = <<m.writer, m.sn>>
  <2>1. EnhancedId(m) = <<m.writer, m.sn>>
    BY EnhancedIdIsSample DEF IdInv
  <2>2. Mapping # "Basic" /\ Mapping # "Cyclone"
    OBVIOUS
  <2> QED BY <2>1, <2>2, Zenon DEF RequestId
<1>2. /\ requests' = requests \ {m}
      /\ pending' = pending \cup {[id |-> <<m.writer, m.sn>>, body |-> m.body]}
      /\ UNCHANGED <<written, responses, pc, calls, reqId, got>>
  BY <1>1 DEF ReceiveRequest, Body
<1>3. AtServer' \subseteq AtServer \cup Asked /\ Asked' \subseteq Asked
  BY <1>2 DEF AtServer, Asked
<1>4. Sent' \subseteq Sent
  <2>1. Awaited' = Awaited /\ \A c \in Clients : Heard(c)' = Heard(c)
    BY <1>2 DEF Awaited, Heard
  <2> QED BY <1>3, <2>1 DEF Sent
<1>5. RelatedOK' /\ ResponseIsMine'
  BY <1>2 DEF IdInv, RelatedOK, ResponseIsMine
<1> QED BY <1>2, <1>4, <1>5, NothingNew

\* Every reader gets the identity the server was asked under, with its question.
LEMMA SendId ==
  ASSUME TypeInv, IdInv, NEW p \in pending, SendResponse(p)
  PROVE  IdInv'
<1> DEFINE r == [writer |-> Guid(Server), related |-> p.id, header |-> Header(p.id), body |-> p.body]
<1>1. /\ responses' = [c \in Clients |-> Append(responses[c], r)]
      /\ pending' = pending \ {p}
      /\ UNCHANGED <<written, requests, pc, calls, reqId, got>>
  BY DEF SendResponse
<1>2. r.related = p.id /\ r.body = p.body
  OBVIOUS
<1> HIDE DEF r
<1>3. ASSUME NEW c \in Clients, NEW i \in DOMAIN responses'[c]
      PROVE  \/ i \in DOMAIN responses[c] /\ responses'[c][i] = responses[c][i]
             \/ responses'[c][i] = r
  <2>1. responses[c] \in Seq(Response)
    BY DEF TypeInv, TypeOK
  <2>2. responses'[c] = Append(responses[c], r)
    BY <1>1
  <2> QED BY <1>3, <2>1, <2>2
<1>4. ASSUME NEW c \in Clients PROVE Heard(c)' \subseteq Heard(c) \cup AtServer
  BY <1>2, <1>3 DEF Heard, AtServer
<1>5. Sent' \subseteq Sent
  <2>1. Asked' = Asked /\ AtServer' \subseteq AtServer /\ Awaited' = Awaited
    BY <1>1 DEF Asked, AtServer, Awaited
  <2> QED BY <1>4, <2>1 DEF Sent
<1>6. RelatedOK' /\ ResponseIsMine'
  BY <1>1 DEF IdInv, RelatedOK, ResponseIsMine
<1> QED BY <1>1, <1>5, <1>6, NothingNew

\* A call returns a response that has its identity, and so an answer to its question.
LEMMA EndId ==
  ASSUME Mapping = "Enhanced", TypeInv, IdInv, NEW k \in Callers, TakeResponse(k) \/ GiveUp(k)
  PROVE  IdInv'
<1> USE ConstantsAssumption
<1> DEFINE c == ClientOf[k]
           m == Head(responses[c])
<1>1. CASE TakeResponse(k)
  <2>1. c \in Clients /\ responses[c] \in Seq(Response) /\ responses[c] # << >>
    BY <1>1 DEF TakeResponse, TypeInv, TypeOK
  <2>2. m = responses[c][1] /\ 1 \in DOMAIN responses[c]
    BY <2>1
  <2>3. \A i \in DOMAIN Tail(responses[c]) :
           i + 1 \in DOMAIN responses[c] /\ Tail(responses[c])[i] = responses[c][i + 1]
    BY <2>1
  <2>4. /\ pc[k] = "wait"
        /\ responses' = [responses EXCEPT ![c] = Tail(@)]
        /\ UNCHANGED <<written, requests, pending, calls>>
        /\ \/ /\ IsMine(k, ResponseId(c, m))
              /\ got' = [got EXCEPT ![k] = Body(m)]
              /\ reqId' = [reqId EXCEPT ![k] = None]
              /\ pc' = [pc EXCEPT ![k] = "idle"]
           \/ UNCHANGED <<got, reqId, pc>>
           \/ /\ reqId' = [reqId EXCEPT ![k] = None]
              /\ pc' = [pc EXCEPT ![k] = "idle"]
              /\ UNCHANGED got
    BY <1>1, Zenon DEF TakeResponse
  <2>5. \A d \in Clients : Heard(d)' \subseteq Heard(d)
    <3>1. ASSUME NEW d \in Clients, NEW i \in DOMAIN responses'[d]
          PROVE  \E j \in DOMAIN responses[d] : responses'[d][i] = responses[d][j]
      <4>1. CASE d = c
        <5>1. responses'[d] = Tail(responses[c])
          BY <2>1, <2>4, <4>1 DEF TypeInv, TypeOK
        <5> QED BY <2>3, <3>1, <4>1, <5>1
      <4>2. CASE d # c
        <5>1. responses'[d] = responses[d]
          BY <2>1, <2>4, <4>2 DEF TypeInv, TypeOK
        <5> QED BY <3>1, <5>1
      <4> QED BY <4>1, <4>2
    <3> QED BY <3>1 DEF Heard
  <2>6. RelatedOK'
    BY <2>4 DEF IdInv, RelatedOK
  <2>7. CASE UNCHANGED <<got, reqId, pc>>
    <3>1. Asked' = Asked /\ AtServer' = AtServer /\ Awaited' = Awaited
      BY <2>4, <2>7 DEF Asked, AtServer, Awaited
    <3>3. Sent' \subseteq Sent
      BY <2>5, <3>1 DEF Sent
    <3>2. ResponseIsMine'
      BY <2>4, <2>7 DEF IdInv, ResponseIsMine
    <3> QED BY <2>4, <2>6, <3>2, <3>3, NothingNew
  <2>8. CASE /\ IsMine(k, ResponseId(c, m))
             /\ got' = [got EXCEPT ![k] = Body(m)]
             /\ reqId' = [reqId EXCEPT ![k] = None]
             /\ pc' = [pc EXCEPT ![k] = "idle"]
    <3>1. Asked' = Asked /\ AtServer' = AtServer /\ Awaited' \subseteq Awaited
      BY <2>4, <2>8 DEF Asked, AtServer, Awaited, TypeInv, TypeOK
    <3>2. Sent' \subseteq Sent
      BY <2>5, <3>1 DEF Sent
    <3>3. ResponseId(c, m) = m.related
      <4>1. Mapping # "Basic" /\ Mapping # "Cyclone"
        OBVIOUS
      <4> QED BY <4>1, Zenon DEF ResponseId
    <3>4. m.related = reqId[k]
      BY <2>8, <3>3 DEF IsMine
    <3>5. <<m.related, m.body>> \in Sent
      <4>1. <<m.related, m.body>> \in Heard(c)
        BY <2>2 DEF Heard
      <4> QED BY <2>1, <4>1 DEF Sent
    <3>6. <<reqId[k], <<k, calls[k]>> >> \in Sent
      BY <2>4, AwaitedSent
    <3>7. m.body = <<k, calls[k]>>
      BY <3>4, <3>5, <3>6 DEF IdInv, OneQuestion
    <3>8. ResponseIsMine'
      BY <2>4, <2>8, <3>7 DEF IdInv, ResponseIsMine, Body, TypeInv, TypeOK
    <3> QED BY <2>4, <2>6, <3>2, <3>8, NothingNew
  <2>9. CASE /\ reqId' = [reqId EXCEPT ![k] = None]
             /\ pc' = [pc EXCEPT ![k] = "idle"]
             /\ UNCHANGED got
    <3>1. Asked' = Asked /\ AtServer' = AtServer /\ Awaited' \subseteq Awaited
      BY <2>4, <2>9 DEF Asked, AtServer, Awaited, TypeInv, TypeOK
    <3>2. Sent' \subseteq Sent
      BY <2>5, <3>1 DEF Sent
    <3>3. ResponseIsMine'
      BY <2>4, <2>9 DEF IdInv, ResponseIsMine
    <3> QED BY <2>4, <2>6, <3>2, <3>3, NothingNew
  <2> QED BY <2>4, <2>7, <2>8, <2>9
<1>2. CASE GiveUp(k)
  <2>1. /\ UNCHANGED <<written, requests, pending, responses, calls, got>>
        /\ pc' = [pc EXCEPT ![k] = "idle"]
        /\ reqId' = [reqId EXCEPT ![k] = None]
    BY <1>2 DEF GiveUp
  <2>2. Asked' = Asked /\ AtServer' = AtServer /\ Awaited' \subseteq Awaited
    BY <2>1 DEF Asked, AtServer, Awaited, TypeInv, TypeOK
  <2>5. \A d \in Clients : Heard(d)' = Heard(d)
    BY <2>1 DEF Heard
  <2>3. Sent' \subseteq Sent
    BY <2>2, <2>5 DEF Sent
  <2>4. RelatedOK' /\ ResponseIsMine'
    BY <2>1 DEF IdInv, RelatedOK, ResponseIsMine
  <2> QED BY <2>1, <2>3, <2>4, NothingNew
<1> QED BY <1>1, <1>2

\* In the Enhanced mapping an identity in use belongs to one sample and one question,
\* on either topic, at the server and in the callers' hands.
THEOREM IdInvariance == ASSUME Mapping = "Enhanced" PROVE Spec => []IdInv
<1>1. TypeInv /\ IdInv /\ [Next]_vars => IdInv'
  <2> SUFFICES ASSUME TypeInv, IdInv, [Next]_vars PROVE IdInv'
    OBVIOUS
  <2>1. CASE UNCHANGED vars
    <3>1. Sent' = Sent /\ RelatedOK' /\ ResponseIsMine' /\ UNCHANGED written
      BY <2>1 DEF vars, IdInv, Sent, Asked, AtServer, Heard, Awaited, RelatedOK, ResponseIsMine
    <3> QED BY <3>1, NothingNew
  <2>2. CASE Next
    BY <2>2, BeginId, WriteId, FailId, ReceiveId, SendId, EndId DEF Next
  <2> QED BY <2>1, <2>2
<1> QED BY <1>1, InitId, TypeInvariance, PTL DEF Spec

\* async_call_service returns the answer to the request it sent, whoever shares its
\* Client, in whatever order the server answers, and whatever it gave up on before.
THEOREM AnswerIsMine == ASSUME Mapping = "Enhanced" PROVE Spec => []ResponseIsMine
<1>1. IdInv => ResponseIsMine
  BY DEF IdInv
<1> QED BY <1>1, IdInvariance, PTL

\* Two calls in progress never wait for the same identity, although the numbers that
\* async_send_request generates may be the same (increment, then load).
THEOREM IdsAreDistinct == ASSUME Mapping = "Enhanced" PROVE Spec => []DistinctIds
<1>1. IdInv => DistinctIds
  <2> SUFFICES ASSUME IdInv, NEW j \in Callers, NEW k \in Callers, j # k,
                      pc[j] = "wait", pc[k] = "wait", reqId[j] = reqId[k]
               PROVE  FALSE
    BY DEF DistinctIds
  <2>1. <<reqId[j], <<j, calls[j]>> >> \in Sent /\ <<reqId[k], <<k, calls[k]>> >> \in Sent
    BY AwaitedSent
  <2>2. <<j, calls[j]>> = <<k, calls[k]>>
    BY <2>1 DEF IdInv, OneQuestion
  <2> QED BY <2>2
<1> QED BY <1>1, IdInvariance, PTL

=============================================================================
