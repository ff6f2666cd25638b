------------------------------ MODULE ServiceRpc ------------------------------
(***************************************************************************)
(* A ROS 2 service over DDS (src/service): Clients that any number of      *)
(* callers share, one Server, and the request and response topics between  *)
(* them.  A response is matched to its request by an RmwRequestId alone,   *)
(* which each ServiceMapping puts on the wire in its own way               *)
(* (src/service/wrappers.rs).                                              *)
(***************************************************************************)
EXTENDS Integers, Sequences, FiniteSets

CONSTANTS
  Clients,        \* Client objects of this crate, and clients of other DDS vendors
  Callers,        \* tasks and threads that call a service
  ClientOf,       \* the Client each caller uses
  FastDdsClients, \* clients whose requests have a related identity without a number
  Server,         \* the Server, whose response writer has a GUID of its own
  Mapping,        \* ServiceMapping
  None,           \* Option::None
  MaxCalls        \* bound: how many calls each caller makes

ASSUME ConstantsAssumption ==
  /\ ClientOf \in [Callers -> Clients]
  /\ FastDdsClients \subseteq Clients
  /\ Server \notin Clients
  /\ Mapping \in {"Basic", "Enhanced", "Cyclone"}
  /\ MaxCalls \in [Callers -> Nat]

VARIABLES
  seqGen,      \* Client.sequence_number_gen
  written,     \* sequence number of the last sample of each request writer
  requests,    \* requests on their way to the server
  pending,     \* requests the server has taken and not answered yet
  responses,   \* the response reader of each Client: everybody gets every response
  pc,          \* idle -> load -> write -> wait -> idle
  calls,       \* calls made so far; <<k, calls[k]>> is what caller k asks
  gen,         \* the identity a call generated
  reqId,       \* the identity async_send_request returned
  got          \* what the last call of a caller returned

vars == <<seqGen, written, requests, pending, responses, pc, calls, gen, reqId, got>>

-----------------------------------------------------------------------------
(* Identities.  A GUID is two halves of eight bytes.                       *)

Guid(x) == <<x, x>>
Guids == (Clients \cup {Server}) \X (Clients \cup {Server})
Unknown == 0      \* SequenceNumber::UNKNOWN: not the number of any sample
Ids == Guids \X Nat
Payloads == (Callers \X Nat) \cup Ids

Headers == Ids \cup {None}
Request == [writer: Guids, sn: Nat, related: Ids \cup {None}, header: Headers, body: Payloads]
Response == [writer: Guids, related: Ids, header: Headers, body: Payloads]
Pending == [id: Ids, body: Payloads]

-----------------------------------------------------------------------------
(* The wrappers.                                                           *)

\* RequestWrapper::new and ResponseWrapper::new: a header goes in front of the
\* body, except in the Enhanced mapping.
Header(id) == IF Mapping = "Enhanced" THEN None ELSE id

\* RequestWrapper::unwrap and ResponseWrapper::unwrap: split_off leaves the
\* header, not the body, in `bytes`, and that is what the body is decoded from.
Body(m) == IF Mapping = "Enhanced" THEN m.body ELSE m.header

\* RequestWrapper::unwrap in the Enhanced mapping: the related identity, or else
\* the sample's own; a number that is unknown is replaced by the sample's own.
EnhancedId_Bug(m) == m.related
EnhancedId_Bug2(m) == IF m.related = None THEN <<m.writer, m.sn>> ELSE m.related
EnhancedId(m) ==
  IF m.related = None THEN <<m.writer, m.sn>>
  ELSE IF m.related[2] = Unknown THEN <<m.related[1], m.sn>> ELSE m.related

\* RequestWrapper::unwrap: cyclone_unwrap gets the GUID of the sample's writer.
RequestId(m) ==
  CASE Mapping = "Enhanced" -> EnhancedId(m)
    [] Mapping = "Basic"    -> m.header
    [] Mapping = "Cyclone"  -> <<m.writer, m.header[2]>>

\* ResponseWrapper::unwrap, in the client c: in the Cyclone mapping, one half of the
\* GUID is the client's and the other that of the sample's writer, the server.
ResponseId(c, m) ==
  CASE Mapping = "Enhanced" -> m.related
    [] Mapping = "Basic"    -> m.header
    [] Mapping = "Cyclone"  -> << <<Guid(c)[1], m.writer[2]>>, m.header[2] >>

-----------------------------------------------------------------------------

Init ==
  /\ seqGen = [c \in Clients |-> 0]
  /\ written = [c \in Clients |-> 0]
  /\ requests = {}
  /\ pending = {}
  /\ responses = [c \in Clients |-> << >>]
  /\ pc = [k \in Callers |-> "idle"]
  /\ calls = [k \in Callers |-> 0]
  /\ gen = [k \in Callers |-> None]
  /\ reqId = [k \in Callers |-> None]
  /\ got = [k \in Callers |-> None]

\* async_send_request begins: increment_sequence_number, and then, in a second
\* atomic operation, sequence_number.
IncrementSequenceNumber(k) ==
  LET c == ClientOf[k] IN
  /\ pc[k] = "idle" /\ calls[k] < MaxCalls[k]
  /\ seqGen' = [seqGen EXCEPT ![c] = @ + 1]
  /\ pc' = [pc EXCEPT ![k] = "load"]
  /\ calls' = [calls EXCEPT ![k] = @ + 1]
  /\ got' = [got EXCEPT ![k] = None]
  /\ UNCHANGED <<written, requests, pending, responses, gen, reqId>>

LoadSequenceNumber(k) ==
  LET c == ClientOf[k] IN
  /\ pc[k] = "load"
  /\ gen' = [gen EXCEPT ![k] = <<Guid(c), seqGen[c]>>]
  /\ pc' = [pc EXCEPT ![k] = "write"]
  /\ UNCHANGED <<seqGen, written, requests, pending, responses, calls, reqId, got>>

\* async_send_request ends: only the Basic and Cyclone mappings send the generated
\* identity; the Enhanced mapping returns the identity of the sample written.
ReturnedId_Bug(k, sn) == gen[k]
ReturnedId(k, sn) == IF Mapping = "Enhanced" THEN <<Guid(ClientOf[k]), sn>> ELSE gen[k]

WriteRequest(k) ==
  LET c == ClientOf[k]
      sn == written[c] + 1
      related == IF c \in FastDdsClients THEN <<Guid(c), Unknown>>
                 ELSE IF Mapping = "Enhanced" THEN None ELSE gen[k]
  IN
  /\ pc[k] = "write"
  /\ written' = [written EXCEPT ![c] = sn]
  /\ requests' = requests \cup
       {[writer |-> Guid(c), sn |-> sn, related |-> related,
         header |-> Header(gen[k]), body |-> <<k, calls[k]>>]}
  /\ reqId' = [reqId EXCEPT ![k] = ReturnedId(k, sn)]
  /\ gen' = [gen EXCEPT ![k] = None]
  /\ pc' = [pc EXCEPT ![k] = "wait"]
  /\ UNCHANGED <<seqGen, pending, responses, calls, got>>

\* async_send_request ends with an error of RequestWrapper::new or of the writer:
\* nothing is sent; the writer may have used up a number.
FailRequest(k) ==
  LET c == ClientOf[k] IN
  /\ pc[k] = "write"
  /\ \E used \in {0, 1} : written' = [written EXCEPT ![c] = @ + used]
  /\ gen' = [gen EXCEPT ![k] = None]
  /\ pc' = [pc EXCEPT ![k] = "idle"]
  /\ UNCHANGED <<seqGen, requests, pending, responses, calls, reqId, got>>

\* Server: async_receive_request.
ReceiveRequest(m) ==
  /\ m \in requests
  /\ requests' = requests \ {m}
  /\ pending' = pending \cup {[id |-> RequestId(m), body |-> Body(m)]}
  /\ UNCHANGED <<seqGen, written, responses, pc, calls, gen, reqId, got>>

\* Server: async_send_response.  The server answers a request with what it was
\* asked, in any order; every client's reader gets the sample.
SendResponse(p) ==
  /\ p \in pending
  /\ pending' = pending \ {p}
  /\ responses' = [c \in Clients |-> Append(responses[c],
       [writer |-> Guid(Server), related |-> p.id, header |-> Header(p.id), body |-> p.body])]
  /\ UNCHANGED <<seqGen, written, requests, pc, calls, gen, reqId, got>>

\* async_receive_response: the next sample of the Client's reader is taken; it is
\* returned if it answers this call's request and thrown away otherwise.  A sample that
\* ResponseWrapper::unwrap cannot decode, whoever it was for, ends the call with an error.
IsMine_Bug(k, id) == TRUE
IsMine(k, id) == id = reqId[k]

TakeResponse(k) ==
  LET c == ClientOf[k]
      m == Head(responses[c])
  IN
  /\ pc[k] = "wait" /\ responses[c] # << >>
  /\ responses' = [responses EXCEPT ![c] = Tail(@)]
  /\ \/ /\ IsMine(k, ResponseId(c, m))
        /\ got' = [got EXCEPT ![k] = Body(m)]
        /\ reqId' = [reqId EXCEPT ![k] = None]
        /\ pc' = [pc EXCEPT ![k] = "idle"]
     \/ /\ ~IsMine(k, ResponseId(c, m))
        /\ UNCHANGED <<got, reqId, pc>>
     \/ /\ reqId' = [reqId EXCEPT ![k] = None]
        /\ pc' = [pc EXCEPT ![k] = "idle"]
        /\ UNCHANGED got
  /\ UNCHANGED <<seqGen, written, requests, pending, calls, gen>>

\* The caller drops the future, for instance after a timeout, or the reader's stream
\* reports an error; the answer may still come.
GiveUp(k) ==
  /\ pc[k] = "wait"
  /\ pc' = [pc EXCEPT ![k] = "idle"]
  /\ reqId' = [reqId EXCEPT ![k] = None]
  /\ UNCHANGED <<seqGen, written, requests, pending, responses, calls, gen, got>>

Next ==
  \/ \E k \in Callers :
       \/ IncrementSequenceNumber(k) \/ LoadSequenceNumber(k)
       \/ WriteRequest(k) \/ FailRequest(k)
       \/ TakeResponse(k) \/ GiveUp(k)
  \/ \E m \in requests : ReceiveRequest(m)
  \/ \E p \in pending : SendResponse(p)

Spec == Init /\ [][Next]_vars

\* The server keeps taking and answering requests, the executor keeps polling a
\* call that waits, and nobody is forced to give up.
Fairness ==
  /\ WF_vars(\E m \in requests : ReceiveRequest(m))
  /\ WF_vars(\E p \in pending : SendResponse(p))
  /\ \A k \in Callers : WF_vars(TakeResponse(k))

LiveSpec == Spec /\ Fairness

-----------------------------------------------------------------------------
(* Properties.                                                             *)

\* Every variable has its type; in particular the server always finds a request
\* identity to answer to.
TypeOK ==
  /\ seqGen \in [Clients -> Nat]
  /\ written \in [Clients -> Nat]
  /\ requests \subseteq Request
  /\ pending \subseteq Pending
  /\ responses \in [Clients -> Seq(Response)]
  /\ pc \in [Callers -> {"idle", "load", "write", "wait"}]
  /\ calls \in [Callers -> Nat]
  /\ gen \in [Callers -> Ids \cup {None}]
  /\ reqId \in [Callers -> Ids \cup {None}]
  /\ got \in [Callers -> Payloads \cup {None}]

\* async_call_service returns the answer to the request it sent: not one to another
\* caller's, another client's or its own earlier request that it gave up on.
ResponseIsMine == \A k \in Callers : got[k] # None => got[k] = <<k, calls[k]>>

\* Two calls in progress never wait for the same identity: what async_send_request
\* returns identifies the response.
DistinctIds ==
  \A j, k \in Callers : j # k /\ pc[j] = "wait" /\ pc[k] = "wait" => reqId[j] # reqId[k]

\* A call on a Client that no other caller uses ends: with its response, or with an
\* error, or because its caller gives up.
CallAnswered ==
  \A k \in Callers :
    (\A j \in Callers \ {k} : ClientOf[j] # ClientOf[k]) => (pc[k] = "wait" ~> pc[k] = "idle")

=============================================================================
