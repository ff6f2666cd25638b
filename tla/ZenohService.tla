----------------------------- MODULE ZenohService -----------------------------
(***************************************************************************)
(* ROS services over zenoh (src/zenoh_backend/service.rs).  A Client issues *)
(* a `get`; every complete queryable of the service gets a Query, which a  *)
(* Server keeps in `pending` under (client gid, sequence number) until the *)
(* application answers.  The first reply ends the call; a `get` ends by    *)
(* itself when every Query of it is dropped, or by its timeout.            *)
(*                                                                         *)
(* The module has the state and the steps; the modules that extend it add  *)
(* the application that calls and answers.                                 *)
(***************************************************************************)
EXTENDS Naturals, Sequences, FiniteSets

CONSTANTS
  Services,
  Servers,      \* Server and RawServer objects
  ServiceOf,    \* the service of each server
  Callers,      \* threads that make calls
  ClientOf,     \* the Client object of each caller; it has one for each service
  Forms,        \* what each caller sends: "ok"; "garbled": undecodable; "bare": no
                \* payload or attachment
  MaxCalls,     \* bound: calls of each caller
  None

ASSUME ServiceAssumption ==
  /\ ServiceOf \in [Servers -> Services]
  /\ Forms \in [Callers -> SUBSET {"ok", "garbled", "bare"}]
  /\ MaxCalls \in [Callers -> Nat]

VARIABLES
  seq,          \* Client.seq
  queue,        \* the queries a queryable has not handed out
  pending,      \* Server.pending: queries without an answer
  hand,         \* requests the application has received and not answered
  get,          \* the call of each caller: [nr, req, form, open, replies]
  calls,        \* calls made so far
  result        \* what the last call of a caller returned

svcVars == <<seq, queue, pending, hand, get, calls, result>>

ServersOf(service) == {s \in Servers : ServiceOf[s] = service}
Clients == {<<ClientOf[k], v>> : k \in Callers, v \in Services}

-----------------------------------------------------------------------------

ServiceInit ==
  /\ seq = [c \in Clients |-> 0]
  /\ queue = [s \in Servers |-> << >>]
  /\ pending = [s \in Servers |-> {}]
  /\ hand = [s \in Servers |-> {}]
  /\ get = [k \in Callers |-> None]
  /\ calls = [k \in Callers |-> 0]
  /\ result = [k \in Callers |-> None]

\* request_bytes: fetch_add makes ids unique, whoever shares the Client.
NextSeq_Bug(n) == 1
NextSeq(n) == n + 1

\* call, async_call: the query goes to all complete queryables of the service.
Call(k, service, req, form) ==
  LET client == <<ClientOf[k], service>>
      n == NextSeq(seq[client])
      query == [caller |-> k, nr |-> calls[k], id |-> <<client, n>>, req |-> req, form |-> form] IN
  /\ get[k] = None /\ calls[k] < MaxCalls[k]
  /\ seq' = [seq EXCEPT ![client] = n]
  /\ queue' = [s \in Servers |->
                IF s \in ServersOf(service) THEN Append(queue[s], query) ELSE queue[s]]
  /\ get' = [get EXCEPT ![k] = [nr |-> calls[k], service |-> service, req |-> req, form |-> form,
                                open |-> ServersOf(service), replies |-> << >>]]
  /\ calls' = [calls EXCEPT ![k] = @ + 1]
  /\ result' = [result EXCEPT ![k] = None]
  /\ UNCHANGED <<pending, hand>>

\* zenoh: a Query of server s belongs to a `get` that still listens.
Listens(s, q) ==
  get[q.caller] # None /\ get[q.caller].nr = q.nr /\ s \in get[q.caller].open

\* zenoh: the queries qs of server s are dropped, after the replies they were given.
Dropped(s, qs, replies) ==
  get' = [k \in Callers |->
    IF \E q \in qs : q.caller = k /\ Listens(s, q)
    THEN [get[k] EXCEPT !.open = @ \ {s}, !.replies = @ \o replies]
    ELSE get[k]]

\* Server::accept and RawServer::accept: a query without payload or attachment is an
\* error; only the typed server decodes, and drops what it cannot.
Accepts_Bug(raw, q) == q.form # "bare"
RawAccepts(q) == q.form # "bare"
Accepts(raw, q) == IF raw THEN RawAccepts(q) ELSE q.form = "ok"

\* try_receive_request, async_receive_request: an insert under an id that is there
\* already drops the older query.
Receive(s, raw, handed) ==
  LET q == Head(queue[s])
      twins == {p \in pending[s] : p.id = q.id} IN
  /\ queue[s] # << >>
  /\ queue' = [queue EXCEPT ![s] = Tail(@)]
  /\ IF Accepts(raw, q)
     THEN /\ pending' = [pending EXCEPT ![s] = (@ \ twins) \cup {q}]
          /\ hand' = [hand EXCEPT ![s] = IF handed THEN @ \cup {q} ELSE @]
          /\ Dropped(s, twins, << >>)
     ELSE /\ Dropped(s, {q}, << >>)
          /\ UNCHANGED <<pending, hand>>
  /\ UNCHANGED <<seq, calls, result>>

Answers(s, id) == {q \in pending[s] : q.id = id}

\* send_response to a request the application was handed: the query is taken out
\* first, so that a response that cannot be encoded loses it.
SendResponse(s, h, value, encodes) ==
  /\ h \in hand[s]
  /\ pending' = [pending EXCEPT ![s] = @ \ Answers(s, h.id)]
  /\ hand' = [hand EXCEPT ![s] = @ \ {h}]
  /\ Dropped(s, Answers(s, h.id),
             IF encodes THEN << [caller |-> h.caller, nr |-> h.nr, value |-> value] >> ELSE << >>)
  /\ UNCHANGED <<seq, queue, calls, result>>

\* call ends: with the first reply, or without one when the `get` has ended.
Return(k) ==
  /\ get[k] # None
  /\ \/ get[k].replies # << >>
     \/ get[k].open = {}
  /\ result' = [result EXCEPT ![k] =
       [nr |-> get[k].nr, service |-> get[k].service, req |-> get[k].req,
        reply |-> IF get[k].replies = << >> THEN None ELSE Head(get[k].replies)]]
  /\ get' = [get EXCEPT ![k] = None]
  /\ UNCHANGED <<seq, queue, pending, hand, calls>>

\* The timeout of the `get`: the servers keep its queries, but nobody listens.
Timeout(k) ==
  /\ get[k] # None /\ get[k].open # {}
  /\ get' = [get EXCEPT ![k].open = {}]
  /\ UNCHANGED <<seq, queue, pending, hand, calls, result>>

-----------------------------------------------------------------------------

\* The types of the variables, for the set Reqs of requests and Values of replies.
ServiceTypeOK(Reqs, Values) ==
  LET AllForms == UNION {Forms[k] : k \in Callers}
      Queries == [caller: Callers, nr: Nat, id: Clients \X Nat, req: Reqs, form: AllForms]
      Replies == [caller: Callers, nr: Nat, value: Values] IN
  /\ seq \in [Clients -> Nat]
  /\ queue \in [Servers -> Seq(Queries)]
  /\ pending \in [Servers -> SUBSET Queries]
  /\ hand \in [Servers -> SUBSET Queries]
  /\ get \in [Callers -> [nr: Nat, service: Services, req: Reqs, form: AllForms,
                          open: SUBSET Servers, replies: Seq(Replies)] \cup {None}]
  /\ calls \in [Callers -> Nat]
  /\ result \in [Callers -> [nr: Nat, service: Services, req: Reqs,
                             reply: Replies \cup {None}] \cup {None}]

\* Client::call returns an answer to its own request: callers share a Client,
\* servers keep queries by id alone, calls time out while they are worked on, and
\* the next call of the same thread must not get what was meant for the last.
ReplyIsMine ==
  \A k \in Callers : result[k] # None /\ result[k].reply # None =>
    result[k].reply.caller = k /\ result[k].reply.nr = result[k].nr
=============================================================================
