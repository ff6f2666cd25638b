-------------------------- MODULE ZenohAction_proofs --------------------------
(***************************************************************************)
(* Proofs about ZenohAction, and the services it is built on, for any      *)
(* number of callers, calls and goals, whatever the callers send and       *)
(* whenever their calls time out.                                          *)
(***************************************************************************)
EXTENDS ZenohAction, TLAPS

-----------------------------------------------------------------------------
(* The types of TypeOK, one by one.                                        *)

AllForms == UNION {Forms[k] : k \in Callers}
Values == {"accepted", "rejected", "unknown", "canceling"} \cup Terminal
Queries == [caller: Callers, nr: Nat, id: Clients \X Nat, req: Requests, form: AllForms]
Replies == [caller: Callers, nr: Nat, value: Values]
Gets == [nr: Nat, service: Services, req: Requests, form: AllForms,
         open: SUBSET Servers, replies: Seq(Replies)]
Results == [nr: Nat, service: Services, req: Requests, reply: Replies \cup {None}]
Msgs == SUBSET (Goals \X (Statuses \cup {"feedback"}))
Samples == [gid: Publishers, seq: Nat, msg: Msgs]

ServiceTypes ==
  /\ seq \in [Clients -> Nat]
  /\ queue \in [Servers -> Seq(Queries)]
  /\ pending \in [Servers -> SUBSET Queries]
  /\ hand \in [Servers -> SUBSET Queries]
  /\ get \in [Callers -> Gets \cup {None}]
  /\ calls \in [Callers -> Nat]
  /\ result \in [Callers -> Results \cup {None}]

TopicTypes ==
  /\ pubSeq \in [Publishers -> Nat]
  /\ sending \in [Threads -> Seq(Samples)] /\ \A t \in Threads : Len(sending[t]) <= 1
  /\ samples \in [Subscriptions -> Seq(Samples)]

AppTypes ==
  /\ raw \in BOOLEAN
  /\ accepted \subseteq DOMAIN goals
  /\ goals \in [DOMAIN goals -> Statuses] /\ DOMAIN goals \subseteq Goals

\* They are TypeOK.
LEMMA Types == TypeOK <=> ServiceTypes /\ TopicTypes /\ AppTypes
<1>1. ServiceTypeOK(Requests, {"accepted", "rejected", "unknown", "canceling"} \cup Terminal)
        <=> ServiceTypes
  BY DEF ServiceTypeOK, ServiceTypes, AllForms, Values, Queries, Replies, Gets, Results
<1>2. TopicTypeOK(SUBSET (Goals \X (Statuses \cup {"feedback"}))) <=> TopicTypes
  BY DEF TopicTypeOK, TopicTypes, Msgs, Samples
<1> QED BY <1>1, <1>2 DEF TypeOK, AppTypes

-----------------------------------------------------------------------------
(* The invariant of the services.                                          *)

\* The queries a server has anything to do with.
Held(s) == {queue[s][i] : i \in DOMAIN queue[s]} \cup pending[s] \cup hand[s]

\* The number of a query was given out, it comes from a call that has begun, and if
\* that is the call its caller still waits in, they agree on the request.
QueriesOK ==
  \A s \in Servers : \A q \in Held(s) :
    /\ q.id[2] <= seq[q.id[1]]
    /\ q.nr < calls[q.caller]
    /\ get[q.caller] # None /\ get[q.caller].nr = q.nr => get[q.caller].req = q.req
    /\ ServiceOf[s] = "send_goal" => q.req \in Goals

\* An id is the id of one query.
OneQuery == \A s \in Servers : \A q, r \in Held(s) : q.id = r.id => q = r

\* The replies of a `get` are to its call, and a goal they accept is a goal.
RepliesOK ==
  \A k \in Callers : get[k] # None =>
    \A i \in DOMAIN get[k].replies :
      /\ get[k].replies[i].caller = k /\ get[k].replies[i].nr = get[k].nr
      /\ get[k].replies[i].value = "accepted" => get[k].req \in DOMAIN goals

\* The services' part of the inductive invariant, and all of it.
ServiceInv == ServiceTypes /\ QueriesOK /\ OneQuery /\ RepliesOK /\ ReplyIsMine
IndInv == ServiceInv /\ TopicTypes /\ AppTypes /\ NotStranded

-----------------------------------------------------------------------------
(* The steps of the services.                                              *)

\* Taking the first element off a sequence leaves elements that were there.
LEMMA TailElements ==
  ASSUME NEW S, NEW x \in Seq(S), x # << >>
  PROVE  /\ Head(x) \in S /\ Tail(x) \in Seq(S)
         /\ 1 \in DOMAIN x /\ Head(x) = x[1]
         /\ \A i \in DOMAIN Tail(x) : i + 1 \in DOMAIN x /\ Tail(x)[i] = x[i + 1]
OBVIOUS

\* The Client a caller uses for a service.
LEMMA ClientType ==
  ASSUME NEW k \in Callers, NEW service \in Services
  PROVE  <<ClientOf[k], service>> \in Clients
BY DEF Clients

\* What a server holds are queries.
LEMMA HeldType ==
  ASSUME ServiceTypes, NEW s \in Servers
  PROVE  Held(s) \subseteq Queries
<1>1. queue[s] \in Seq(Queries) /\ pending[s] \subseteq Queries /\ hand[s] \subseteq Queries
  BY DEF ServiceTypes
<1>2. \A i \in DOMAIN queue[s] : queue[s][i] \in Queries
  BY <1>1
<1> QED BY <1>1, <1>2 DEF Held

\* A call ends or goes on: at most `open` and `replies` of it change.
Continues(k) ==
  get'[k] # None => /\ get[k] # None
                    /\ get'[k].nr = get[k].nr /\ get'[k].req = get[k].req

\* When no query is new and the calls go on, the queries stay right.
LEMMA NothingNew ==
  ASSUME ServiceInv, UNCHANGED <<seq, calls>>,
         \A s \in Servers : Held(s)' \subseteq Held(s),
         \A k \in Callers : Continues(k)
  PROVE  QueriesOK' /\ OneQuery'
<1>1. OneQuery'
  BY DEF ServiceInv, OneQuery
<1>2. ASSUME NEW s \in Servers, NEW q \in Held(s)'
      PROVE  /\ q.id[2] <= seq'[q.id[1]]
             /\ q.nr < calls'[q.caller]
             /\ get'[q.caller] # None /\ get'[q.caller].nr = q.nr => get'[q.caller].req = q.req
             /\ ServiceOf[s] = "send_goal" => q.req \in Goals
  <2>1. q \in Held(s) /\ q.caller \in Callers
    BY <1>2, HeldType DEF ServiceInv, Queries
  <2>2. Continues(q.caller)
    BY <2>1
  <2> QED BY <2>1, <2>2 DEF ServiceInv, QueriesOK, Continues
<1>3. QueriesOK'
  BY <1>2 DEF QueriesOK
<1> QED BY <1>1, <1>3

\* zenoh drops queries: a `get` that listened to one of them gets the replies.
LEMMA DroppedEffect ==
  ASSUME ServiceTypes, NEW s \in Servers, NEW qs \in SUBSET Queries, NEW rs \in Seq(Replies),
         Dropped(s, qs, rs)
  PROVE  /\ get' \in [Callers -> Gets \cup {None}]
         /\ \A k \in Callers : Continues(k)
         /\ \A k \in Callers :
              \/ get'[k] = get[k]
              \/ \E q \in qs : /\ q.caller = k /\ get[k] # None /\ get[k].nr = q.nr
                               /\ get'[k].replies = get[k].replies \o rs
<1>1. ASSUME NEW k \in Callers
      PROVE  /\ get'[k] \in Gets \cup {None}
             /\ Continues(k)
             /\ \/ get'[k] = get[k]
                \/ \E q \in qs : /\ q.caller = k /\ get[k] # None /\ get[k].nr = q.nr
                                 /\ get'[k].replies = get[k].replies \o rs
  <2>1. CASE \E q \in qs : q.caller = k /\ Listens(s, q)
    <3>1. PICK q \in qs : q.caller = k /\ Listens(s, q)
      BY <2>1
    <3>2. get'[k] = [get[k] EXCEPT !.open = @ \ {s}, !.replies = @ \o rs]
      BY <2>1 DEF Dropped
    <3>3. get[k] # None /\ get[k].nr = q.nr /\ get[k] \in Gets
      BY <3>1 DEF Listens, ServiceTypes
    <3>4. get[k].replies \o rs \in Seq(Replies)
      BY <3>3 DEF Gets
    <3>5. get'[k] \in Gets /\ get'[k].nr = get[k].nr /\ get'[k].req = get[k].req
          /\ get'[k].replies = get[k].replies \o rs
      BY <3>2, <3>3, <3>4 DEF Gets
    <3> QED BY <3>1, <3>3, <3>5 DEF Continues
  <2>2. CASE ~ \E q \in qs : q.caller = k /\ Listens(s, q)
    <3>1. get'[k] = get[k]
      BY <2>2 DEF Dropped
    <3> QED BY <3>1 DEF Continues, ServiceTypes
  <2> QED BY <2>1, <2>2
<1>2. get' = [k \in Callers |-> get'[k]]
  BY DEF Dropped
<1> QED BY <1>1, <1>2

\* Calls keep their replies as they were, so they stay answers to their calls.
LEMMA SameReplies ==
  ASSUME ServiceInv, DOMAIN goals \subseteq DOMAIN goals', \A k \in Callers : Continues(k),
         \A k \in Callers : get'[k] # None => get'[k].replies = get[k].replies
  PROVE  RepliesOK'
BY DEF ServiceInv, RepliesOK, Continues

\* A `get` is a call of the Client with a number of its own.
LEMMA CallStep ==
  ASSUME ServiceInv, NEW k \in Callers, NEW service \in Services, NEW req \in Requests,
         service = "send_goal" => req \in Goals,
         NEW form \in Forms[k], Call(k, service, req, form), UNCHANGED goals
  PROVE  ServiceInv'
<1> DEFINE client == <<ClientOf[k], service>>
           n == NextSeq(seq[client])
           query == [caller |-> k, nr |-> calls[k], id |-> <<client, n>>, req |-> req, form |-> form]
           g == [nr |-> calls[k], service |-> service, req |-> req, form |-> form,
                 open |-> ServersOf(service), replies |-> << >>]
<1>1. /\ seq' = [seq EXCEPT ![client] = n]
      /\ queue' = [s \in Servers |-> IF s \in ServersOf(service) THEN Append(queue[s], query)
                                     ELSE queue[s]]
      /\ get' = [get EXCEPT ![k] = g]
      /\ calls' = [calls EXCEPT ![k] = @ + 1]
      /\ result' = [result EXCEPT ![k] = None]
      /\ UNCHANGED <<pending, hand>>
  BY DEF Call
<1>2. client \in Clients /\ n = seq[client] + 1 /\ n \in Nat /\ calls[k] \in Nat
  <2>1. client \in Clients
    BY ClientType
  <2> HIDE DEF client
  <2> QED BY <2>1 DEF NextSeq, ServiceInv, ServiceTypes
<1>3. form \in AllForms
  BY DEF AllForms
<1>4. query \in Queries
  BY <1>2, <1>3 DEF Queries
<1>5. g \in Gets
  BY <1>2, <1>3 DEF Gets, ServersOf
<1>6. /\ query.caller = k /\ query.nr = calls[k] /\ query.id = <<client, n>> /\ query.req = req
      /\ g.nr = calls[k] /\ g.req = req /\ g.replies = << >>
  OBVIOUS
<1> HIDE DEF client, n, query, g
<1>7. ServiceTypes'
  <2>1. \A s \in Servers : Append(queue[s], query) \in Seq(Queries)
    BY <1>4 DEF ServiceInv, ServiceTypes
  <2> QED BY <1>1, <1>2, <1>5, <2>1 DEF ServiceInv, ServiceTypes
<1>8. ASSUME NEW s \in Servers, NEW q \in Held(s)'
      PROVE  q \in Held(s) \/ (q = query /\ ServiceOf[s] = service)
  <2>1. CASE q \in pending'[s] \cup hand'[s]
    BY <1>1, <2>1 DEF Held
  <2>2. CASE q \notin pending'[s] \cup hand'[s]
    <3>1. PICK i \in DOMAIN queue'[s] : q = queue'[s][i]
      BY <1>8, <2>2 DEF Held
    <3>2. queue[s] \in Seq(Queries)
      BY DEF ServiceInv, ServiceTypes
    <3>3. CASE s \in ServersOf(service)
      <4>1. queue'[s] = Append(queue[s], query)
        BY <1>1, <3>3
      <4>2. (i \in DOMAIN queue[s] /\ queue'[s][i] = queue[s][i]) \/ queue'[s][i] = query
        BY <3>1, <3>2, <4>1
      <4> QED BY <3>1, <3>3, <4>2 DEF Held, ServersOf
    <3>4. CASE s \notin ServersOf(service)
      <4>1. queue'[s] = queue[s]
        BY <1>1, <3>4
      <4> QED BY <3>1, <4>1 DEF Held
    <3> QED BY <3>3, <3>4
  <2> QED BY <2>1, <2>2
<1>9. \A c \in Clients : seq[c] <= seq'[c]
  BY <1>1, <1>2 DEF ServiceInv, ServiceTypes
<1>10. \A j \in Callers : calls[j] <= calls'[j]
  BY <1>1 DEF ServiceInv, ServiceTypes
<1>11. ASSUME NEW s \in Servers, NEW q \in Held(s)
       PROVE  /\ q.id # query.id
              /\ q.id[2] <= seq'[q.id[1]]
              /\ q.nr < calls'[q.caller]
              /\ get'[q.caller] # None /\ get'[q.caller].nr = q.nr => get'[q.caller].req = q.req
              /\ ServiceOf[s] = "send_goal" => q.req \in Goals
  <2>1. q.caller \in Callers /\ q.nr \in Nat /\ q.id \in Clients \X Nat
    BY <1>11, HeldType DEF ServiceInv, Queries
  <2>2. /\ q.id[2] <= seq[q.id[1]] /\ q.nr < calls[q.caller]
        /\ get[q.caller] # None /\ get[q.caller].nr = q.nr => get[q.caller].req = q.req
        /\ ServiceOf[s] = "send_goal" => q.req \in Goals
    BY <1>11 DEF ServiceInv, QueriesOK
  <2>3. q.id[2] \in Nat /\ q.id[1] \in Clients /\ seq[q.id[1]] \in Nat /\ seq'[q.id[1]] \in Nat
    BY <1>7, <2>1 DEF ServiceInv, ServiceTypes
  <2>4. calls[q.caller] \in Nat /\ calls'[q.caller] \in Nat
    BY <1>7, <2>1 DEF ServiceInv, ServiceTypes
  <2>5. q.id # query.id
    BY <1>2, <1>6, <2>2, <2>3
  <2>6. q.caller = k => get'[q.caller].nr # q.nr
    BY <1>1, <1>6, <2>1, <2>2, <2>4 DEF ServiceInv, ServiceTypes
  <2>7. q.caller # k => get'[q.caller] = get[q.caller]
    BY <1>1, <2>1 DEF ServiceInv, ServiceTypes
  <2> QED BY <1>9, <1>10, <2>1, <2>2, <2>3, <2>4, <2>5, <2>6, <2>7
<1>12. /\ query.id[2] <= seq'[query.id[1]]
       /\ query.nr < calls'[query.caller]
       /\ get'[query.caller].req = query.req
       /\ service = "send_goal" => query.req \in Goals
  BY <1>1, <1>2, <1>6 DEF ServiceInv, ServiceTypes
<1>13. QueriesOK'
  BY <1>8, <1>11, <1>12 DEF QueriesOK
<1>14. OneQuery'
  BY <1>8, <1>11 DEF ServiceInv, OneQuery
<1>15. RepliesOK'
  BY <1>1, <1>6 DEF ServiceInv, ServiceTypes, RepliesOK
<1>16. ReplyIsMine'
  BY <1>1 DEF ServiceInv, ServiceTypes, ReplyIsMine
<1> QED BY <1>7, <1>13, <1>14, <1>15, <1>16 DEF ServiceInv

\* A server takes a query from its queue, and keeps it or drops it.
LEMMA ReceiveStep ==
  ASSUME ServiceInv, NEW s \in Servers, NEW isRaw, NEW handed,
         Receive(s, isRaw, handed), UNCHANGED goals
  PROVE  ServiceInv'
<1> DEFINE q == Head(queue[s])
           twins == {p \in pending[s] : p.id = q.id}
<1>1. /\ queue[s] # << >>
      /\ queue' = [queue EXCEPT ![s] = Tail(@)]
      /\ UNCHANGED <<seq, calls, result>>
      /\ \/ /\ pending' = [pending EXCEPT ![s] = (@ \ twins) \cup {q}]
            /\ hand' = [hand EXCEPT ![s] = IF handed THEN @ \cup {q} ELSE @]
            /\ Dropped(s, twins, << >>)
         \/ /\ Dropped(s, {q}, << >>)
            /\ UNCHANGED <<pending, hand>>
  BY DEF Receive
<1>2. /\ q \in Queries /\ Tail(queue[s]) \in Seq(Queries)
      /\ 1 \in DOMAIN queue[s] /\ q = queue[s][1]
      /\ \A i \in DOMAIN Tail(queue[s]) :
           i + 1 \in DOMAIN queue[s] /\ Tail(queue[s])[i] = queue[s][i + 1]
  <2>1. queue[s] \in Seq(Queries)
    BY DEF ServiceInv, ServiceTypes
  <2> QED BY <1>1, <2>1, TailElements
<1>3. twins \in SUBSET Queries /\ {q} \in SUBSET Queries
  BY <1>2 DEF ServiceInv, ServiceTypes
<1> HIDE DEF q, twins
<1>4. << >> \in Seq(Replies)
  OBVIOUS
<1>5. PICK qs \in SUBSET Queries : Dropped(s, qs, << >>)
  BY <1>1, <1>3
<1>6. /\ get' \in [Callers -> Gets \cup {None}]
      /\ \A k \in Callers : Continues(k)
      /\ \A k \in Callers : \/ get'[k] = get[k]
                            \/ get[k] # None /\ get'[k].replies = get[k].replies \o << >>
  BY <1>4, <1>5, DroppedEffect DEF ServiceInv
<1>7. \A k \in Callers : get'[k] # None => get'[k].replies = get[k].replies
  <2>1. \A k \in Callers : get[k] # None => get[k].replies \in Seq(Replies)
    BY DEF ServiceInv, ServiceTypes, Gets
  <2> QED BY <1>6, <2>1
<1>8. \A r \in Servers : pending'[r] \subseteq pending[r] \cup (IF r = s THEN {q} ELSE {})
  BY <1>1 DEF ServiceInv, ServiceTypes
<1>9. \A r \in Servers : hand'[r] \subseteq hand[r] \cup (IF r = s THEN {q} ELSE {})
  BY <1>1 DEF ServiceInv, ServiceTypes
<1>10. q \in Held(s)
  BY <1>2 DEF Held
<1>11. \A r \in Servers : Held(r)' \subseteq Held(r)
  <2>1. ASSUME NEW r \in Servers, NEW i \in DOMAIN queue'[r] PROVE queue'[r][i] \in Held(r)
    <3>1. CASE r = s
      <4>1. queue'[r] = Tail(queue[s])
        BY <1>1, <3>1 DEF ServiceInv, ServiceTypes
      <4> QED BY <1>2, <2>1, <3>1, <4>1 DEF Held
    <3>2. CASE r # s
      <4>1. queue'[r] = queue[r]
        BY <1>1, <3>2 DEF ServiceInv, ServiceTypes
      <4> QED BY <2>1, <4>1 DEF Held
    <3> QED BY <3>1, <3>2
  <2> QED BY <1>8, <1>9, <1>10, <2>1 DEF Held
<1>12. ServiceTypes'
  <2>1. queue' \in [Servers -> Seq(Queries)]
    BY <1>1, <1>2 DEF ServiceInv, ServiceTypes
  <2>2. (pending[s] \ twins) \cup {q} \in SUBSET Queries /\ hand[s] \cup {q} \in SUBSET Queries
    BY <1>2 DEF ServiceInv, ServiceTypes
  <2>3. pending' \in [Servers -> SUBSET Queries]
    BY <1>1, <2>2 DEF ServiceInv, ServiceTypes
  <2>4. hand' \in [Servers -> SUBSET Queries]
    <3>1. (IF handed THEN hand[s] \cup {q} ELSE hand[s]) \in SUBSET Queries
      BY <2>2 DEF ServiceInv, ServiceTypes
    <3> QED BY <1>1, <3>1 DEF ServiceInv, ServiceTypes
  <2> QED BY <1>1, <1>6, <2>1, <2>3, <2>4 DEF ServiceInv, ServiceTypes
<1>13. QueriesOK' /\ OneQuery'
  BY <1>1, <1>6, <1>11, NothingNew
<1>14. RepliesOK'
  BY <1>6, <1>7, SameReplies
<1>15. ReplyIsMine'
  BY <1>1 DEF ServiceInv, ReplyIsMine
<1> QED BY <1>12, <1>13, <1>14, <1>15 DEF ServiceInv

\* A response goes to the call its request came from: the id finds no other query.
LEMMA SendResponseStep ==
  ASSUME ServiceInv, NEW s \in Servers, NEW h \in hand[s], NEW value \in Values, NEW encodes,
         SendResponse(s, h, value, encodes),
         DOMAIN goals \subseteq DOMAIN goals', value = "accepted" => h.req \in DOMAIN goals'
  PROVE  ServiceInv'
<1> DEFINE reply == [caller |-> h.caller, nr |-> h.nr, value |-> value]
           rs == IF encodes THEN <<reply>> ELSE << >>
<1>1. /\ pending' = [pending EXCEPT ![s] = @ \ Answers(s, h.id)]
      /\ hand' = [hand EXCEPT ![s] = @ \ {h}]
      /\ Dropped(s, Answers(s, h.id), rs)
      /\ UNCHANGED <<seq, queue, calls, result>>
  BY DEF SendResponse
<1>2. h \in Held(s) /\ h \in Queries /\ h.caller \in Callers /\ h.nr \in Nat
  <2>1. h \in Held(s)
    BY DEF Held
  <2> QED BY <2>1, HeldType DEF ServiceInv, Queries
<1>3. reply \in Replies /\ reply.caller = h.caller /\ reply.nr = h.nr /\ reply.value = value
  BY <1>2 DEF Replies
<1> HIDE DEF reply
<1>4. rs \in Seq(Replies) /\ \A i \in DOMAIN rs : rs[i] = reply
  BY <1>3
<1> HIDE DEF rs
<1>5. Answers(s, h.id) \in SUBSET Queries /\ \A q \in Answers(s, h.id) : q = h
  <2>1. \A q \in Answers(s, h.id) : q \in Held(s) /\ q.id = h.id
    BY DEF Answers, Held
  <2> QED BY <1>2, <2>1 DEF ServiceInv, OneQuery
<1>6. /\ get' \in [Callers -> Gets \cup {None}]
      /\ \A k \in Callers : Continues(k)
      /\ \A k \in Callers :
           \/ get'[k] = get[k]
           \/ \E q \in Answers(s, h.id) : /\ q.caller = k /\ get[k] # None /\ get[k].nr = q.nr
                                          /\ get'[k].replies = get[k].replies \o rs
  BY <1>1, <1>4, <1>5, DroppedEffect DEF ServiceInv
<1>7. \A r \in Servers : Held(r)' \subseteq Held(r)
  <2>1. \A r \in Servers : pending'[r] \subseteq pending[r] /\ hand'[r] \subseteq hand[r]
    BY <1>1 DEF ServiceInv, ServiceTypes
  <2> QED BY <1>1, <2>1 DEF Held
<1>8. ServiceTypes'
  BY <1>1, <1>6 DEF ServiceInv, ServiceTypes
<1>9. QueriesOK' /\ OneQuery'
  BY <1>1, <1>6, <1>7, NothingNew
<1>10. ASSUME NEW k \in Callers, get'[k] # None, NEW i \in DOMAIN get'[k].replies
       PROVE  /\ get'[k].replies[i].caller = k /\ get'[k].replies[i].nr = get'[k].nr
              /\ get'[k].replies[i].value = "accepted" => get'[k].req \in DOMAIN goals'
  <2>1. /\ get[k] # None /\ get'[k].nr = get[k].nr /\ get'[k].req = get[k].req
        /\ get[k].replies \in Seq(Replies)
    BY <1>6, <1>10 DEF Continues, ServiceInv, ServiceTypes, Gets
  <2>2. ASSUME NEW j \in DOMAIN get[k].replies
        PROVE  /\ get[k].replies[j].caller = k /\ get[k].replies[j].nr = get'[k].nr
               /\ get[k].replies[j].value = "accepted" => get'[k].req \in DOMAIN goals'
    BY <2>1, <2>2 DEF ServiceInv, RepliesOK
  <2>3. CASE get'[k] = get[k]
    BY <1>10, <2>2, <2>3
  <2>4. CASE \E q \in Answers(s, h.id) : /\ q.caller = k /\ get[k] # None /\ get[k].nr = q.nr
                                         /\ get'[k].replies = get[k].replies \o rs
    <3>1. h.caller = k /\ get[k].nr = h.nr /\ get'[k].replies = get[k].replies \o rs
      BY <1>5, <2>4
    <3>2. get[k].req = h.req
      BY <1>2, <2>1, <3>1 DEF ServiceInv, QueriesOK
    <3>3. \/ i \in DOMAIN get[k].replies /\ get'[k].replies[i] = get[k].replies[i]
          \/ get'[k].replies[i] = reply
      BY <1>4, <1>10, <2>1, <3>1
    <3> QED BY <1>3, <2>1, <2>2, <3>1, <3>2, <3>3
  <2> QED BY <1>6, <2>3, <2>4
<1>11. RepliesOK'
  BY <1>10 DEF RepliesOK
<1>12. ReplyIsMine'
  BY <1>1 DEF ServiceInv, ReplyIsMine
<1> QED BY <1>8, <1>9, <1>11, <1>12 DEF ServiceInv

\* A call returns with the first reply of its `get`.
LEMMA ReturnStep ==
  ASSUME ServiceInv, NEW k \in Callers, Return(k), UNCHANGED goals
  PROVE  /\ ServiceInv'
         /\ result'[k].reply # None /\ result'[k].reply.value = "accepted" =>
              result'[k].req \in DOMAIN goals
<1> DEFINE first == IF get[k].replies = << >> THEN None ELSE Head(get[k].replies)
           ret == [nr |-> get[k].nr, service |-> get[k].service, req |-> get[k].req, reply |-> first]
<1>1. /\ get[k] # None
      /\ result' = [result EXCEPT ![k] = ret]
      /\ get' = [get EXCEPT ![k] = None]
      /\ UNCHANGED <<seq, queue, pending, hand, calls>>
  BY DEF Return
<1>2. get[k] \in Gets /\ get[k].replies \in Seq(Replies)
  BY <1>1 DEF ServiceInv, ServiceTypes, Gets
<1>3. /\ first \in Replies \cup {None}
      /\ first # None => /\ first.caller = k /\ first.nr = get[k].nr
                         /\ first.value = "accepted" => get[k].req \in DOMAIN goals
  <2>1. CASE get[k].replies = << >>
    BY <2>1
  <2>2. CASE get[k].replies # << >>
    <3>1. first = get[k].replies[1] /\ 1 \in DOMAIN get[k].replies /\ first \in Replies
      BY <1>2, <2>2
    <3> QED BY <1>1, <3>1 DEF ServiceInv, RepliesOK
  <2> QED BY <2>1, <2>2
<1> HIDE DEF first
<1>4. ret \in Results /\ ret.reply = first /\ ret.nr = get[k].nr /\ ret.req = get[k].req
  BY <1>2, <1>3 DEF Results, Gets
<1> HIDE DEF ret
<1>5. result'[k] = ret /\ \A j \in Callers \ {k} : result'[j] = result[j]
  BY <1>1 DEF ServiceInv, ServiceTypes
<1>6. ServiceTypes'
  BY <1>1, <1>4 DEF ServiceInv, ServiceTypes
<1>7. \A j \in Callers : get'[j] = None \/ get'[j] = get[j]
  BY <1>1 DEF ServiceInv, ServiceTypes
<1>8. \A j \in Callers : Continues(j) /\ (get'[j] # None => get'[j].replies = get[j].replies)
  BY <1>7 DEF Continues
<1>9. \A s \in Servers : Held(s)' = Held(s)
  BY <1>1 DEF Held
<1>10. QueriesOK' /\ OneQuery'
  BY <1>1, <1>8, <1>9, NothingNew
<1>11. RepliesOK'
  BY <1>8, SameReplies
<1>12. ReplyIsMine'
  BY <1>3, <1>4, <1>5 DEF ServiceInv, ReplyIsMine
<1> QED BY <1>3, <1>4, <1>5, <1>6, <1>10, <1>11, <1>12 DEF ServiceInv

\* A `get` that times out stops listening; what came before stays.
LEMMA TimeoutStep ==
  ASSUME ServiceInv, NEW k \in Callers, Timeout(k), UNCHANGED goals
  PROVE  ServiceInv'
<1>1. /\ get[k] # None
      /\ get' = [get EXCEPT ![k].open = {}]
      /\ UNCHANGED <<seq, queue, pending, hand, calls, result>>
  BY DEF Timeout
<1>2. get[k] \in Gets
  BY <1>1 DEF ServiceInv, ServiceTypes
<1>3. get'[k] = [get[k] EXCEPT !.open = {}] /\ \A j \in Callers \ {k} : get'[j] = get[j]
  BY <1>1 DEF ServiceInv, ServiceTypes
<1>4. /\ get'[k] \in Gets
      /\ get'[k].nr = get[k].nr /\ get'[k].req = get[k].req /\ get'[k].replies = get[k].replies
  BY <1>2, <1>3 DEF Gets
<1>5. ServiceTypes'
  BY <1>1, <1>3, <1>4 DEF ServiceInv, ServiceTypes
<1>6. \A j \in Callers : Continues(j) /\ (get'[j] # None => get'[j].replies = get[j].replies)
  BY <1>1, <1>3, <1>4 DEF Continues
<1>7. \A s \in Servers : Held(s)' = Held(s)
  BY <1>1 DEF Held
<1>8. QueriesOK' /\ OneQuery'
  BY <1>1, <1>6, <1>7, NothingNew
<1>9. RepliesOK'
  BY <1>6, SameReplies
<1>10. ReplyIsMine'
  BY <1>1 DEF ServiceInv, ReplyIsMine
<1> QED BY <1>5, <1>8, <1>9, <1>10 DEF ServiceInv

\* What the services leave alone they keep, whatever goals are added.
LEMMA ServiceIdle ==
  ASSUME ServiceInv, UNCHANGED svcVars, DOMAIN goals \subseteq DOMAIN goals'
  PROVE  ServiceInv'
<1>1. UNCHANGED <<seq, queue, pending, hand, get, calls, result>>
  BY DEF svcVars
<1>2. \A k \in Callers : Continues(k) /\ get'[k].replies = get[k].replies
  BY <1>1 DEF Continues
<1>3. \A s \in Servers : Held(s)' = Held(s)
  BY <1>1 DEF Held
<1>4. QueriesOK' /\ OneQuery'
  BY <1>1, <1>2, <1>3, NothingNew
<1>5. RepliesOK'
  BY <1>2, SameReplies
<1>6. ServiceTypes' /\ ReplyIsMine'
  BY <1>1 DEF ServiceInv, ServiceTypes, ReplyIsMine
<1> QED BY <1>4, <1>5, <1>6 DEF ServiceInv

-----------------------------------------------------------------------------
(* The steps of the topics.                                                *)

\* A publisher numbers a sample, if it has none in its hands.
LEMMA EncodeStep ==
  ASSUME TopicTypes, NEW p \in Publishers, NEW msg \in Msgs, Encode("application", p, msg)
  PROVE  TopicTypes'
<1> DEFINE x == [gid |-> p, seq |-> pubSeq[p] + 1, msg |-> msg]
<1>1. /\ pubSeq' = [pubSeq EXCEPT ![p] = @ + 1]
      /\ sending' = [sending EXCEPT !["application"] = <<x>>]
      /\ UNCHANGED samples
  BY DEF Encode
<1>2. x \in Samples
  BY DEF Samples, TopicTypes
<1> HIDE DEF x
<1>3. <<x>> \in Seq(Samples) /\ Len(<<x>>) = 1
  BY <1>2
<1>4. pubSeq' \in [Publishers -> Nat]
  BY <1>1 DEF TopicTypes
<1>5. sending' \in [Threads -> Seq(Samples)]
  <2>1. \A t \in Threads : sending'[t] \in Seq(Samples)
    BY <1>1, <1>3 DEF TopicTypes
  <2> QED BY <1>1, <2>1 DEF TopicTypes
<1>6. \A t \in Threads : Len(sending'[t]) <= 1
  BY <1>1, <1>3 DEF TopicTypes
<1> QED BY <1>1, <1>4, <1>5, <1>6 DEF TopicTypes

\* A sample is lost.
LEMMA PublishFailsStep ==
  ASSUME TopicTypes, PublishFails("application")
  PROVE  TopicTypes'
<1>1. << >> \in Seq(Samples) /\ Len(<< >>) = 0
  OBVIOUS
<1> QED BY <1>1, ActionAssumption DEF PublishFails, TopicTypes

\* zenoh hands a sample over.
LEMMA PutStep ==
  ASSUME TopicTypes, Put("application")
  PROVE  TopicTypes'
<1> DEFINE a == "application"
           rest(x) == IF sending[a][1].gid \in Hears[x] THEN samples[x] \o sending[a] ELSE samples[x]
<1>1. /\ samples' = [x \in Subscriptions |-> rest(x)]
      /\ sending' = [sending EXCEPT ![a] = << >>]
      /\ UNCHANGED pubSeq
  BY DEF Put
<1>2. a \in Threads /\ sending[a] \in Seq(Samples)
  BY ActionAssumption DEF TopicTypes
<1>3. \A x \in Subscriptions : rest(x) \in Seq(Samples)
  BY <1>2 DEF TopicTypes
<1> HIDE DEF rest
<1>4. samples' \in [Subscriptions -> Seq(Samples)]
  BY <1>1, <1>3
<1>5. << >> \in Seq(Samples) /\ Len(<< >>) = 0
  OBVIOUS
<1> QED BY <1>1, <1>2, <1>4, <1>5 DEF TopicTypes

\* A subscription takes its oldest sample.
LEMMA TakeStep ==
  ASSUME TopicTypes, NEW x \in Subscriptions, Take(x)
  PROVE  TopicTypes'
<1>1. samples[x] \in Seq(Samples) /\ samples[x] # << >>
  BY DEF TopicTypes, Take
<1>2. Tail(samples[x]) \in Seq(Samples)
  BY <1>1
<1> QED BY <1>2 DEF Take, TopicTypes

\* A topic that is left alone.
LEMMA TopicIdle == ASSUME TopicTypes, UNCHANGED topicVars PROVE TopicTypes'
BY DEF topicVars, TopicTypes

-----------------------------------------------------------------------------
(* The steps of the action.                                                *)

\* Each service has its server.
LEMMA ServerOf ==
  ASSUME NEW service \in Services
  PROVE  Server(service) \in Servers /\ ServiceOf[Server(service)] = service
<1>1. PICK s \in Servers : ServersOf(service) = {s}
  BY ActionAssumption
<1>2. s \in Servers /\ ServiceOf[s] = service
  BY <1>1 DEF ServersOf
<1> QED BY <1>2 DEF Server

\* Goals that begin or go on have a status.
LEMMA BecomeStep ==
  ASSUME AppTypes, NEW gs \in SUBSET Goals, NEW status \in Statuses, Become(gs, status)
  PROVE  /\ goals' \in [DOMAIN goals' -> Statuses] /\ DOMAIN goals' \subseteq Goals
         /\ DOMAIN goals' = DOMAIN goals \cup gs
BY DEF AppTypes, Become

\* A query that is dropped is not stranded.
LEMMA SendStranded ==
  ASSUME ServiceInv, NotStranded, NEW s \in Servers, NEW h, NEW value, NEW encodes,
         SendResponse(s, h, value, encodes), UNCHANGED raw
  PROVE  NotStranded'
<1>1. /\ pending' = [pending EXCEPT ![s] = @ \ Answers(s, h.id)]
      /\ hand' = [hand EXCEPT ![s] = @ \ {h}]
  BY DEF SendResponse
<1>2. ASSUME NEW r \in Servers, NEW q \in pending'[r]
      PROVE  q \in hand'[r] \/ (raw' /\ ServiceOf[r] = "get_result" /\ q.form = "garbled")
  <2>1. CASE r = s
    <3>1. q \in pending[s] /\ q \notin Answers(s, h.id) /\ hand'[s] = hand[s] \ {h}
      BY <1>1, <1>2, <2>1 DEF ServiceInv, ServiceTypes
    <3>2. q # h
      BY <3>1 DEF Answers
    <3> QED BY <2>1, <3>1, <3>2 DEF NotStranded
  <2>2. CASE r # s
    <3>1. q \in pending[r] /\ hand'[r] = hand[r]
      BY <1>1, <1>2, <2>2 DEF ServiceInv, ServiceTypes
    <3> QED BY <3>1 DEF NotStranded
  <2> QED BY <2>1, <2>2
<1> QED BY <1>2 DEF NotStranded

\* ActionServer and RawActionServer hand over what they put into `pending`, but for
\* result requests that RawActionServer cannot decode.
LEMMA TryReceiveStranded ==
  ASSUME IndInv, NEW service \in Services, TryReceive(service)
  PROVE  NotStranded'
<1> DEFINE s == Server(service)
           q == Head(queue[s])
           twins == {p \in pending[s] : p.id = q.id}
           handed == Handed(service, q)
<1>1. s \in Servers /\ ServiceOf[s] = service
  BY ServerOf
<1>2. queue[s] # << >> /\ Receive(s, IsRaw(service), handed) /\ UNCHANGED raw
  BY DEF TryReceive, appVars
<1>3. q \in Queries
  <2>1. queue[s] \in Seq(Queries)
    BY <1>1 DEF IndInv, ServiceInv, ServiceTypes
  <2> QED BY <1>2, <2>1
<1>4. q.form \in {"ok", "garbled", "bare"}
  BY <1>3, ServiceAssumption DEF Queries, AllForms
<1>5. \/ /\ Accepts(IsRaw(service), q)
         /\ pending' = [pending EXCEPT ![s] = (@ \ twins) \cup {q}]
         /\ hand' = [hand EXCEPT ![s] = IF handed THEN @ \cup {q} ELSE @]
      \/ UNCHANGED <<pending, hand>>
  BY <1>2 DEF Receive
<1> HIDE DEF s
<1>6. CASE UNCHANGED <<pending, hand>>
  BY <1>2, <1>6 DEF IndInv, NotStranded
<1>7. CASE /\ Accepts(IsRaw(service), q)
           /\ pending' = [pending EXCEPT ![s] = (@ \ twins) \cup {q}]
           /\ hand' = [hand EXCEPT ![s] = IF handed THEN @ \cup {q} ELSE @]
  <2>1. handed \/ (raw /\ service = "get_result" /\ q.form = "garbled")
    BY <1>4, <1>7, ActionAssumption DEF Accepts, RawAccepts, IsRaw, Handed
  <2> HIDE DEF q, twins, handed
  <2>2. /\ pending'[s] \subseteq pending[s] \cup {q}
        /\ hand[s] \subseteq hand'[s]
        /\ handed => q \in hand'[s]
    BY <1>1, <1>7 DEF IndInv, ServiceInv, ServiceTypes
  <2>3. \A r \in Servers \ {s} : pending'[r] = pending[r] /\ hand'[r] = hand[r]
    BY <1>1, <1>7 DEF IndInv, ServiceInv, ServiceTypes
  <2> QED BY <1>1, <1>2, <2>1, <2>2, <2>3 DEF IndInv, NotStranded
<1> QED BY <1>5, <1>6, <1>7

\* A request leaves the goals alone and goes to its service.
LEMMA CallsStep ==
  ASSUME IndInv, NEW k \in Callers, NEW service \in Services, NEW goal \in Requests,
         service = "send_goal" => goal \in Goals, Calls(k, service, goal)
  PROVE  IndInv'
<1>1. PICK form \in Forms[k] : Call(k, service, goal, form)
  BY DEF Calls
<1>2. UNCHANGED <<topicVars, raw, goals, accepted>>
  BY DEF Calls, appVars
<1>3. UNCHANGED <<pending, hand>>
  BY <1>1 DEF Call
<1>4. ServiceInv'
  BY <1>1, <1>2, CallStep DEF IndInv
<1>5. TopicTypes'
  BY <1>2, TopicIdle DEF IndInv
<1> QED BY <1>2, <1>3, <1>4, <1>5 DEF IndInv, AppTypes, NotStranded

\* The client calls: a new goal, goals that were accepted, or all.
LEMMA ClientStep ==
  ASSUME IndInv, NEW k \in Callers, Client(k)
  PROVE  IndInv'
<1>1. {"send_goal", "get_result", "cancel_goal"} = Services
  BY ActionAssumption
<1>2. ASSUME SendGoal(k) PROVE IndInv'
  <2>1. calls[k] < MaxCalls[k] /\ calls[k] \in Nat /\ MaxCalls[k] \in Nat
    BY <1>2, ServiceAssumption DEF SendGoal, Calls, Call, IndInv, ServiceInv, ServiceTypes
  <2>2. calls[k] \in 0 .. MaxCalls[k]
    BY <2>1
  <2>3. <<k, calls[k]>> \in {k} \X (0 .. MaxCalls[k])
    BY <2>2
  <2>4. <<k, calls[k]>> \in Goals
    BY <2>3, Zenon DEF Goals
  <2> HIDE <2>3
  <2>5. <<k, calls[k]>> \in Requests
    BY <2>4, Zenon DEF Requests
  <2> QED BY <1>1, <1>2, <2>4, <2>5, CallsStep DEF SendGoal
<1>3. ASSUME NEW goal \in accepted, GetResult(k, goal) \/ CancelGoal(k, goal) PROVE IndInv'
  <2>1. goal \in Requests
    BY <1>3 DEF IndInv, AppTypes, Requests
  <2> QED BY <1>1, <1>3, <2>1, CallsStep DEF GetResult, CancelGoal
<1>4. ASSUME CancelAllGoals(k) PROVE IndInv'
  <2>1. ZERO \in Requests
    BY DEF Requests
  <2> QED BY <1>1, <1>4, <2>1, CallsStep DEF CancelAllGoals
<1>5. ASSUME TimesOut(k) PROVE IndInv'
  <2>1. Timeout(k) /\ UNCHANGED <<topicVars, raw, goals, accepted, pending, hand>>
    BY <1>5 DEF TimesOut, Timeout, appVars
  <2>2. ServiceInv' /\ TopicTypes'
    BY <2>1, TimeoutStep, TopicIdle DEF IndInv
  <2> QED BY <2>1, <2>2 DEF IndInv, AppTypes, NotStranded
<1> QED BY <1>2, <1>3, <1>4, <1>5 DEF Client

\* A goal the client learns to be accepted is one the application has.
LEMMA ReturnsStep ==
  ASSUME IndInv, NEW k \in Callers, Returns(k)
  PROVE  IndInv'
<1>1. Return(k) /\ UNCHANGED <<topicVars, raw, goals, pending, hand>>
  BY DEF Returns, Return
<1>2. /\ ServiceInv'
      /\ result'[k].reply # None /\ result'[k].reply.value = "accepted" =>
           result'[k].req \in DOMAIN goals
  BY <1>1, ReturnStep DEF IndInv
<1>3. accepted' \subseteq DOMAIN goals
  BY <1>2 DEF Returns, IndInv, AppTypes
<1>4. TopicTypes'
  BY <1>1, TopicIdle DEF IndInv
<1> QED BY <1>1, <1>2, <1>3, <1>4 DEF IndInv, AppTypes, NotStranded

\* The client takes feedback or a status; the server publishes them.
LEMMA TopicsStep ==
  ASSUME IndInv, TakeFeedback \/ TakeStatus \/ Publish
  PROVE  IndInv'
<1>1. UNCHANGED <<svcVars, raw, goals, accepted, pending, hand>>
  BY DEF TakeFeedback, TakeStatus, Publish, appVars, svcVars
<1>2. "feedback" \in Subscriptions /\ "status" \in Subscriptions
  BY ActionAssumption
<1>3. TopicTypes'
  BY <1>2, TakeStep, PutStep, PublishFailsStep DEF IndInv, TakeFeedback, TakeStatus, Publish
<1>4. ServiceInv'
  BY <1>1, ServiceIdle DEF IndInv
<1> QED BY <1>1, <1>3, <1>4 DEF IndInv, AppTypes, NotStranded

\* The server polls a service.
LEMMA TryReceiveStep ==
  ASSUME IndInv, NEW service \in Services, TryReceive(service)
  PROVE  IndInv'
<1>1. UNCHANGED <<topicVars, raw, goals, accepted>>
  BY DEF TryReceive, appVars
<1>2. ServiceInv'
  BY <1>1, ServerOf, ReceiveStep DEF TryReceive, IndInv
<1>3. TopicTypes'
  BY <1>1, TopicIdle DEF IndInv
<1> QED BY <1>1, <1>2, <1>3, TryReceiveStranded DEF IndInv, AppTypes

\* The application answers a request, and goals begin or are canceled with that.
LEMMA AnswerStep ==
  ASSUME IndInv, NEW s \in Servers, NEW h \in hand[s], NEW value \in Values, NEW encodes,
         SendResponse(s, h, value, encodes), UNCHANGED <<topicVars, raw, accepted>>,
         goals' \in [DOMAIN goals' -> Statuses], DOMAIN goals' \subseteq Goals,
         DOMAIN goals \subseteq DOMAIN goals', value = "accepted" => h.req \in DOMAIN goals'
  PROVE  IndInv'
<1>1. ServiceInv'
  BY SendResponseStep DEF IndInv
<1>2. NotStranded'
  BY SendStranded DEF IndInv
<1>3. TopicTypes'
  BY TopicIdle DEF IndInv
<1> QED BY <1>1, <1>2, <1>3 DEF IndInv, AppTypes

\* respond_goal: a goal that is accepted is one the client can have named.
LEMMA RespondGoalStep ==
  ASSUME IndInv, NEW h \in hand[Server("send_goal")], RespondGoal(h)
  PROVE  IndInv'
<1> DEFINE s == Server("send_goal")
<1>1. s \in Servers /\ ServiceOf[s] = "send_goal"
  BY ServerOf, ActionAssumption
<1>2. h.req \in Goals
  <2>1. h \in Held(s)
    BY DEF Held
  <2> QED BY <1>1, <2>1 DEF IndInv, ServiceInv, QueriesOK
<1>3. "accepted" \in Values /\ "rejected" \in Values /\ "EXECUTING" \in Statuses
  BY DEF Values, Statuses
<1> HIDE DEF s
<1>4. CASE /\ SendResponse(s, h, "accepted", TRUE)
           /\ Become({h.req}, "EXECUTING")
           /\ UNCHANGED <<topicVars, raw, accepted>>
  <2>1. {h.req} \in SUBSET Goals
    BY <1>2
  <2>2. /\ goals' \in [DOMAIN goals' -> Statuses] /\ DOMAIN goals' \subseteq Goals
        /\ DOMAIN goals' = DOMAIN goals \cup {h.req}
    BY <1>3, <1>4, <2>1, BecomeStep DEF IndInv
  <2> QED BY <1>1, <1>3, <1>4, <2>2, AnswerStep DEF s
<1>5. CASE SendResponse(s, h, "rejected", TRUE) /\ UNCHANGED <<topicVars, appVars>>
  <2>1. UNCHANGED <<topicVars, raw, accepted, goals>>
    BY <1>5 DEF appVars
  <2>2. /\ goals' \in [DOMAIN goals' -> Statuses] /\ DOMAIN goals' \subseteq Goals
        /\ DOMAIN goals \subseteq DOMAIN goals'
    BY <2>1 DEF IndInv, AppTypes
  <2> QED BY <1>1, <1>3, <1>5, <2>1, <2>2, AnswerStep DEF s
<1> QED BY <1>4, <1>5 DEF RespondGoal, s

\* respond_result, respond_result_raw: the goals stay as they are.
LEMMA RespondResultStep ==
  ASSUME IndInv, NEW h \in hand[Server("get_result")], RespondResult(h)
  PROVE  IndInv'
<1> DEFINE s == Server("get_result")
           value == IF h.req \in DOMAIN goals THEN goals[h.req] ELSE "unknown"
<1>1. s \in Servers
  BY ServerOf, ActionAssumption
<1>2. PICK encodes \in {raw, TRUE} : SendResponse(s, h, value, encodes)
  BY DEF RespondResult
<1>3. UNCHANGED <<topicVars, raw, accepted, goals>>
  BY DEF RespondResult, appVars
<1>4. value \in Values /\ value # "accepted"
  BY DEF RespondResult, Ended, Values, Terminal
<1>5. /\ goals' \in [DOMAIN goals' -> Statuses] /\ DOMAIN goals' \subseteq Goals
      /\ DOMAIN goals \subseteq DOMAIN goals'
  BY <1>3 DEF IndInv, AppTypes
<1> HIDE DEF value
<1> QED BY <1>1, <1>2, <1>3, <1>4, <1>5, AnswerStep

\* respond_cancel: goals that execute are canceling.
LEMMA RespondCancelStep ==
  ASSUME IndInv, NEW h \in hand[Server("cancel_goal")], RespondCancel(h)
  PROVE  IndInv'
<1> DEFINE s == Server("cancel_goal")
<1>1. s \in Servers
  BY ServerOf, ActionAssumption
<1>2. Selected(h.req) \in SUBSET Goals /\ Selected(h.req) \subseteq DOMAIN goals
  BY DEF Selected, IndInv, AppTypes
<1>3. "canceling" \in Values /\ "CANCELING" \in Statuses
  BY DEF Values, Statuses
<1>4. /\ SendResponse(s, h, "canceling", TRUE)
      /\ Become(Selected(h.req), "CANCELING")
      /\ UNCHANGED <<topicVars, raw, accepted>>
  BY DEF RespondCancel
<1>5. /\ goals' \in [DOMAIN goals' -> Statuses] /\ DOMAIN goals' \subseteq Goals
      /\ DOMAIN goals' = DOMAIN goals \cup Selected(h.req)
  BY <1>2, <1>3, <1>4, BecomeStep DEF IndInv
<1> QED BY <1>1, <1>3, <1>4, <1>5, AnswerStep

\* The application answers a request of any of the three services.
LEMMA RespondStep ==
  ASSUME IndInv, NEW service \in Services, Respond(service)
  PROVE  IndInv'
<1>1. PICK h \in hand[Server(service)] :
        CASE service = "send_goal" -> RespondGoal(h)
          [] service = "get_result" -> RespondResult(h)
          [] OTHER -> RespondCancel(h)
  BY Zenon DEF Respond
<1>2. CASE service = "send_goal"
  <2>1. service # "get_result"
    BY <1>2
  <2>2. RespondGoal(h)
    BY <1>1, <1>2, <2>1, Zenon
  <2> QED BY <1>2, <2>2, RespondGoalStep
<1>3. CASE service = "get_result"
  <2>1. service # "send_goal"
    BY <1>3
  <2>2. RespondResult(h)
    BY <1>1, <1>3, <2>1, Zenon
  <2> QED BY <1>3, <2>2, RespondResultStep
<1>4. CASE service = "cancel_goal"
  <2>1. service # "send_goal" /\ service # "get_result"
    BY <1>4
  <2>2. RespondCancel(h)
    BY <1>1, <2>1, Zenon
  <2> QED BY <1>4, <2>2, RespondCancelStep
<1> QED BY <1>2, <1>3, <1>4, ActionAssumption

\* A goal goes on or ends, and the topics are told.
LEMMA GoalStep ==
  ASSUME IndInv, NEW goal \in DOMAIN goals, PublishFeedback(goal) \/ Finish(goal)
  PROVE  IndInv'
<1>1. "feedback" \in Publishers /\ "status" \in Publishers
  BY ActionAssumption
<1>2. goal \in Goals /\ UNCHANGED <<svcVars, raw, accepted, pending, hand>>
  BY DEF IndInv, AppTypes, PublishFeedback, Finish, appVars, svcVars
<1>3. CASE PublishFeedback(goal)
  <2>1. {<<goal, "feedback">>} \in Msgs
    BY <1>2 DEF Msgs
  <2>2. TopicTypes'
    BY <1>1, <1>3, <2>1, EncodeStep DEF IndInv, PublishFeedback
  <2>3. UNCHANGED goals
    BY <1>3 DEF PublishFeedback, appVars
  <2>4. ServiceInv'
    BY <1>2, <2>3, ServiceIdle DEF IndInv
  <2> QED BY <1>2, <2>2, <2>3, <2>4 DEF IndInv, AppTypes, NotStranded
<1>4. CASE Finish(goal)
  <2> DEFINE status == IF goals[goal] = "CANCELING" THEN "CANCELED" ELSE "SUCCEEDED"
             msg == {<<g, goals'[g]>> : g \in DOMAIN goals}
  <2>1. Become({goal}, status) /\ Encode("application", "status", msg)
    BY <1>4 DEF Finish
  <2>2. status \in Statuses /\ {goal} \in SUBSET Goals
    BY <1>2 DEF Statuses, Terminal
  <2> HIDE DEF status
  <2>3. /\ goals' \in [DOMAIN goals' -> Statuses] /\ DOMAIN goals' \subseteq Goals
        /\ DOMAIN goals' = DOMAIN goals
    BY <2>1, <2>2, BecomeStep DEF IndInv
  <2>4. msg \in Msgs
    BY <2>3 DEF Msgs
  <2> HIDE DEF msg
  <2>5. TopicTypes'
    BY <1>1, <2>1, <2>4, EncodeStep DEF IndInv
  <2>6. ServiceInv'
    BY <1>2, <2>3, ServiceIdle DEF IndInv
  <2> QED BY <1>2, <2>3, <2>5, <2>6 DEF IndInv, AppTypes, NotStranded
<1> QED BY <1>3, <1>4

\* Nothing has been asked at first.
LEMMA InitInv == Init => IndInv
<1> SUFFICES ASSUME Init PROVE IndInv
  OBVIOUS
<1>1. \A s \in Servers : queue[s] = << >> /\ pending[s] = {} /\ hand[s] = {}
  BY DEF Init, ServiceInit
<1>2. \A s \in Servers : Held(s) = {}
  BY <1>1 DEF Held
<1>3. ServiceTypes
  BY DEF Init, ServiceInit, ServiceTypes
<1>4. QueriesOK /\ OneQuery
  BY <1>2 DEF QueriesOK, OneQuery
<1>5. RepliesOK /\ ReplyIsMine
  BY DEF Init, ServiceInit, RepliesOK, ReplyIsMine
<1>6. TopicTypes
  BY DEF Init, TopicInit, TopicTypes
<1>7. AppTypes
  BY DEF Init, AppTypes
<1>8. NotStranded
  BY <1>1 DEF NotStranded
<1> QED BY <1>3, <1>4, <1>5, <1>6, <1>7, <1>8 DEF IndInv, ServiceInv

\* The inductive invariant: types, queries with ids of their own, replies that belong
\* to their calls, and no stranded query.
THEOREM Invariance == Spec => []IndInv
<1>1. IndInv /\ [Next]_vars => IndInv'
  <2> SUFFICES ASSUME IndInv, [Next]_vars PROVE IndInv'
    OBVIOUS
  <2>1. CASE UNCHANGED vars
    <3>1. UNCHANGED <<svcVars, topicVars, raw, goals, accepted, pending, hand>>
      BY <2>1 DEF vars, appVars, svcVars
    <3>2. ServiceInv' /\ TopicTypes'
      BY <3>1, ServiceIdle, TopicIdle DEF IndInv
    <3> QED BY <3>1, <3>2 DEF IndInv, AppTypes, NotStranded
  <2>2. CASE Next
    BY <2>2, ClientStep, ReturnsStep, TopicsStep, TryReceiveStep, RespondStep, GoalStep DEF Next
  <2> QED BY <2>1, <2>2
<1> QED BY <1>1, InitInv, PTL DEF Spec

\* Types; in particular the client knows no accepted goal that the application has not.
THEOREM TypeCorrectness == Spec => []TypeOK
<1>1. IndInv => TypeOK
  BY Types DEF IndInv, ServiceInv
<1> QED BY <1>1, Invariance, PTL

\* A call of a zenoh Client returns an answer to its own request (Client::call), whoever
\* shares the Client, and however calls time out, end and are followed by others.
THEOREM ReplyToCaller == Spec => []ReplyIsMine
<1>1. IndInv => ReplyIsMine
  BY DEF IndInv, ServiceInv
<1> QED BY <1>1, Invariance, PTL

\* What is in Server.pending can still be answered (but for result requests that a
\* RawActionServer cannot decode): the application has each request or has answered it.
THEOREM NothingStranded == Spec => []NotStranded
<1>1. IndInv => NotStranded
  BY DEF IndInv
<1> QED BY <1>1, Invariance, PTL

=============================================================================
