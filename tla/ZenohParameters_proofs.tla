------------------------ MODULE ZenohParameters_proofs ------------------------
(***************************************************************************)
(* Proofs about ZenohParameters for any number of threads and callers, any *)
(* names and values and any number of changes.                             *)
(***************************************************************************)
EXTENDS ZenohParameters, TLAPS

-----------------------------------------------------------------------------
(* The events.                                                             *)

\* The event a thread has made and not put yet.
InHand(t) == IF notify[t] # << >> THEN notify[t][1] ELSE sending[t][1].msg

\* A thread has no event, one it has not numbered, or one it has numbered.
OneEvent ==
  /\ DOMAIN notify = Threads /\ DOMAIN sending = Threads
  /\ \A t \in Threads :
       /\ notify[t] = << >> \/ (notify[t] = <<notify[t][1]>> /\ sending[t] = << >>)
       /\ sending[t] = << >> \/ (sending[t] = <<sending[t][1]>> /\ sending[t][1].gid = "events")

\* What the listener has is a sequence.
IsSeq(x) == \E n \in Nat : x = [i \in 1 .. n |-> x[i]]
ListenerOK == samples = [x \in {"listener"} |-> samples[x]] /\ IsSeq(samples["listener"])

\* Of a name whose last change is told, at most one thread has an event, and it tells the store.
InHandOK ==
  \A n \in Names \ untold :
    /\ \A t, u \in Threads : Busy(t, n) /\ Busy(u, n) => t = u
    /\ \A t \in Threads : Busy(t, n) => n \in DOMAIN store /\ InHand(t).value = store[n]

\* The last event about n in a list of samples tells what the store db has.
Shows(n, list, db) ==
  \/ /\ \A i \in DOMAIN list : list[i].msg.name # n
     /\ (n \in DOMAIN db) <=> (n \in DOMAIN NewStore)
     /\ n \in DOMAIN db => db[n] = NewStore[n]
  \/ \E i \in DOMAIN list :
       /\ list[i].msg.name = n
       /\ \A j \in DOMAIN list : list[j].msg.name = n => j <= i
       /\ n \in DOMAIN db /\ db[n] = list[i].msg.value

\* If no thread has an event about it, the listener has heard the last.
HeardOK ==
  \A n \in Names \ untold :
    (\A t \in Threads : ~Busy(t, n)) => Shows(n, samples["listener"], store)

EventInv == OneEvent /\ ListenerOK /\ InHandOK /\ HeardOK

\* A sequence is a sequence of its elements.
LEMMA SeqOfElements ==
  ASSUME NEW x, NEW S, IsSeq(x), \A i \in DOMAIN x : x[i] \in S
  PROVE  x \in Seq(S)
<1>1. PICK n \in Nat : x = [i \in 1 .. n |-> x[i]]
  BY DEF IsSeq
<1>2. x \in [1 .. n -> S]
  BY <1>1
<1> QED BY <1>1, <1>2

\* A list y is x, which has n elements, and then e.
OneMore(x, e, y, n) ==
  /\ DOMAIN x = 1 .. n /\ IsSeq(y) /\ DOMAIN y = 1 .. (n + 1) /\ y[n + 1] = e
  /\ \A i \in 1 .. n : y[i] = x[i]

\* What `put` does to the list of a subscription.
LEMMA AppendOne ==
  ASSUME NEW x, NEW e, NEW y, IsSeq(x), y = x \o <<e>>
  PROVE  \E n \in Nat : OneMore(x, e, y, n)
<1>1. PICK n \in Nat : x = [i \in 1 .. n |-> x[i]]
  BY DEF IsSeq
<1> DEFINE S == {x[i] : i \in 1 .. n} \cup {e}
<1>2. x \in Seq(S) /\ <<e>> \in Seq(S)
  <2>1. \A i \in DOMAIN x : x[i] \in S
    BY <1>1
  <2>2. e \in S
    OBVIOUS
  <2> HIDE DEF S
  <2> QED BY <2>1, <2>2, SeqOfElements
<1> HIDE DEF S
<1>3. DOMAIN x = 1 .. n /\ Len(x) = n
  BY <1>1, <1>2
<1>4. y \in Seq(S) /\ Len(y) = n + 1 /\ y[n + 1] = e /\ \A i \in 1 .. n : y[i] = x[i]
  BY <1>2, <1>3
<1>5. DOMAIN y = 1 .. (n + 1) /\ y = [i \in 1 .. (n + 1) |-> y[i]]
  BY <1>4
<1>6. IsSeq(y)
  BY <1>5 DEF IsSeq
<1>7. OneMore(x, e, y, n)
  BY <1>3, <1>4, <1>5, <1>6 DEF OneMore
<1> QED BY <1>7

\* A new server has told nobody anything.
LEMMA InitEvents == Init => EventInv
<1> SUFFICES ASSUME Init PROVE EventInv
  OBVIOUS
<1>1. OneEvent
  BY DEF Init, TopicInit, OneEvent
<1>2. ListenerOK /\ samples["listener"] = << >>
  <2>1. samples = [x \in {"listener"} |-> << >>]
    BY ParametersAssumption DEF Init, TopicInit
  <2>2. IsSeq(<< >>)
    BY DEF IsSeq
  <2> QED BY <2>1, <2>2 DEF ListenerOK
<1>3. \A t \in Threads : \A n \in Names : ~Busy(t, n)
  BY DEF Init, TopicInit, Busy
<1>4. InHandOK
  BY <1>3 DEF InHandOK
<1>5. HeardOK
  BY <1>2 DEF HeardOK, Shows, Init
<1> QED BY <1>1, <1>2, <1>4, <1>5 DEF EventInv

\* A thread changes a parameter: the event it has now tells the store, and if no other
\* thread has one about the same name, the race, if there was one, is over.
LEMMA InsertEvents ==
  ASSUME EventInv, NEW t \in Threads, Quiet(t), NEW name, NEW value, Insert(t, name, value),
         UNCHANGED topicVars
  PROVE  EventInv'
<1> DEFINE e == Event(name, value)
<1>1. /\ store' = [n \in DOMAIN store \cup {name} |-> IF n = name THEN value ELSE store[n]]
      /\ notify' = [notify EXCEPT ![t] = <<e>>]
      /\ UNCHANGED <<sending, samples>>
      /\ notify[t] = << >> /\ sending[t] = << >>
  BY DEF Insert, Put1, topicVars, Quiet
<1>2. e.name = name /\ e.value = value
  BY DEF Event
<1>3. \A n \in Names \ {name} : n \in untold' <=> n \in untold
  BY DEF Insert
<1>4. name \notin untold' => \A u \in Threads \ {t} : ~Busy(u, name)
  BY DEF Insert
<1> HIDE DEF e
<1>5. OneEvent'
  BY <1>1 DEF EventInv, OneEvent
<1>6. ListenerOK'
  BY <1>1 DEF EventInv, ListenerOK
<1>7. /\ \A u \in Threads \ {t} : notify'[u] = notify[u] /\ sending'[u] = sending[u]
      /\ notify'[t] = <<e>> /\ sending'[t] = << >>
  BY <1>1 DEF EventInv, OneEvent
<1>8. \A u \in Threads \ {t} : \A n \in Names : Busy(u, n)' <=> Busy(u, n)
  BY <1>7 DEF Busy
<1>9. \A u \in Threads \ {t} : InHand(u)' = InHand(u)
  BY <1>7 DEF InHand
<1>10. \A n \in Names : Busy(t, n)' <=> n = name
  BY <1>2, <1>7 DEF Busy
<1>11. InHand(t)' = e
  BY <1>7 DEF InHand
<1>12. /\ name \in DOMAIN store' /\ store'[name] = value
       /\ \A n \in Names \ {name} : /\ n \in DOMAIN store' <=> n \in DOMAIN store
                                    /\ n \in DOMAIN store => store'[n] = store[n]
  BY <1>1
<1>13. \A n \in Names : ~Busy(t, n)
  BY <1>1 DEF Busy
<1>14. ASSUME NEW n \in Names, n \notin untold'
       PROVE  /\ \A u, v \in Threads : Busy(u, n)' /\ Busy(v, n)' => u = v
              /\ \A u \in Threads : Busy(u, n)' => n \in DOMAIN store' /\ InHand(u)'.value = store'[n]
              /\ (\A u \in Threads : ~Busy(u, n)') => Shows(n, samples["listener"], store)'
  <2>1. CASE n = name
    <3>1. \A u \in Threads : Busy(u, n)' <=> u = t
      BY <1>4, <1>8, <1>10, <1>14, <2>1
    <3> QED BY <1>2, <1>11, <1>12, <2>1, <3>1
  <2>2. CASE n # name
    <3>1. n \notin untold
      BY <1>3, <1>14, <2>2
    <3>2. \A u \in Threads : Busy(u, n)' <=> Busy(u, n)
      BY <1>8, <1>10, <1>13, <2>2
    <3>3. \A u \in Threads : Busy(u, n) => u # t
      BY <1>13
    <3>4. /\ \A u, v \in Threads : Busy(u, n) /\ Busy(v, n) => u = v
          /\ \A u \in Threads : Busy(u, n) => n \in DOMAIN store /\ InHand(u).value = store[n]
      BY <3>1 DEF EventInv, InHandOK
    <3>5. \A u \in Threads : Busy(u, n)' => n \in DOMAIN store' /\ InHand(u)'.value = store'[n]
      BY <1>9, <1>12, <2>2, <3>2, <3>3, <3>4
    <3>6. ASSUME \A u \in Threads : ~Busy(u, n)' PROVE Shows(n, samples["listener"], store)'
      <4>1. Shows(n, samples["listener"], store)
        BY <3>1, <3>2, <3>6 DEF EventInv, HeardOK
      <4> QED BY <1>1, <1>12, <2>2, <4>1 DEF Shows
    <3> QED BY <3>2, <3>4, <3>5, <3>6
  <2> QED BY <2>1, <2>2
<1>15. InHandOK'
  BY <1>14 DEF InHandOK
<1>16. HeardOK'
  BY <1>14 DEF HeardOK
<1> QED BY <1>5, <1>6, <1>15, <1>16 DEF EventInv

\* publish_event numbers the event, and then puts it at the end of what the listener has.
LEMMA PublishEvents ==
  ASSUME EventInv, NEW t \in Threads, PublishEvent(t)
  PROVE  EventInv'
<1>1. UNCHANGED store
  BY DEF PublishEvent
<1>2. CASE /\ notify[t] # << >>
           /\ Encode(t, "events", notify[t][1])
           /\ notify' = [notify EXCEPT ![t] = << >>]
           /\ UNCHANGED untold
  <2> DEFINE x == [gid |-> "events", seq |-> pubSeq["events"] + 1, msg |-> notify[t][1]]
  <2>1. /\ sending[t] = << >> /\ UNCHANGED samples
        /\ sending' = [sending EXCEPT ![t] = <<x>>]
    BY <1>2 DEF Encode
  <2>2. x.gid = "events" /\ x.msg = notify[t][1]
    OBVIOUS
  <2> HIDE DEF x
  <2>3. /\ DOMAIN notify' = Threads /\ DOMAIN sending' = Threads
        /\ notify'[t] = << >> /\ sending'[t] = <<x>> /\ sending'[t][1] = x
        /\ \A u \in Threads \ {t} : notify'[u] = notify[u] /\ sending'[u] = sending[u]
    BY <1>2, <2>1 DEF EventInv, OneEvent
  <2>4. OneEvent'
    BY <2>2, <2>3 DEF EventInv, OneEvent
  <2>5. \A u \in Threads : \A n \in Names : Busy(u, n)' <=> Busy(u, n)
    <3>1. \A n \in Names : Busy(t, n)' <=> Busy(t, n)
      BY <1>2, <2>1, <2>2, <2>3 DEF Busy
    <3> QED BY <2>3, <3>1 DEF Busy
  <2>6. \A u \in Threads : InHand(u)' = InHand(u)
    BY <1>2, <2>1, <2>2, <2>3 DEF InHand
  <2>7. InHandOK'
    BY <1>1, <1>2, <2>5, <2>6 DEF EventInv, InHandOK
  <2>8. HeardOK' /\ ListenerOK'
    BY <1>1, <1>2, <2>1, <2>5 DEF EventInv, HeardOK, ListenerOK
  <2> QED BY <2>4, <2>7, <2>8 DEF EventInv
<1>3. CASE Put(t) /\ UNCHANGED <<notify, untold>>
  <2> DEFINE e == sending[t][1]
             old == samples["listener"]
  <2>1. /\ sending[t] = <<e>> /\ e.gid = "events" /\ notify[t] = << >>
        /\ sending' = [sending EXCEPT ![t] = << >>]
    BY <1>3 DEF Put, EventInv, OneEvent
  <2>2. /\ samples'["listener"] = old \o <<e>>
        /\ samples' = [x \in {"listener"} |-> samples'[x]]
    BY <1>3, <2>1, ParametersAssumption DEF Put
  <2> HIDE DEF e, old
  <2>3. PICK k \in Nat :
           /\ DOMAIN old = 1 .. k /\ IsSeq(samples'["listener"])
           /\ DOMAIN samples'["listener"] = 1 .. (k + 1) /\ samples'["listener"][k + 1] = e
           /\ \A i \in 1 .. k : samples'["listener"][i] = old[i]
    <3>1. IsSeq(old)
      BY DEF EventInv, ListenerOK, old
    <3>2. PICK k \in Nat : OneMore(old, e, samples'["listener"], k)
      BY <2>2, <3>1, AppendOne
    <3> QED BY <3>2 DEF OneMore
  <2>4. /\ DOMAIN sending' = Threads /\ sending'[t] = << >> /\ notify'[t] = << >>
        /\ \A u \in Threads \ {t} : notify'[u] = notify[u] /\ sending'[u] = sending[u]
    BY <1>3, <2>1 DEF EventInv, OneEvent
  <2>5. OneEvent'
    BY <1>3, <2>4 DEF EventInv, OneEvent
  <2>6. ListenerOK'
    BY <2>2, <2>3 DEF ListenerOK
  <2>7. \A n \in Names : ~Busy(t, n)' /\ (Busy(t, n) <=> e.msg.name = n)
    BY <2>1, <2>4 DEF Busy, e
  <2>8. \A u \in Threads \ {t} : \A n \in Names : Busy(u, n)' <=> Busy(u, n)
    BY <2>4 DEF Busy
  <2>9. InHand(t) = e.msg
    BY <2>1 DEF InHand, e
  <2>10. \A u \in Threads \ {t} : InHand(u)' = InHand(u)
    BY <2>4 DEF InHand
  <2>11. InHandOK'
    BY <1>1, <1>3, <2>7, <2>8, <2>10 DEF EventInv, InHandOK
  <2>12. ASSUME NEW n \in Names \ untold, \A u \in Threads : ~Busy(u, n)'
         PROVE  Shows(n, samples'["listener"], store)
    <3>1. CASE e.msg.name = n
      <4>1. n \in DOMAIN store /\ e.msg.value = store[n]
        BY <2>7, <2>9, <2>12, <3>1 DEF EventInv, InHandOK
      <4>2. k + 1 \in DOMAIN samples'["listener"] /\ \A j \in DOMAIN samples'["listener"] : j <= k + 1
        BY <2>3
      <4> QED BY <2>3, <3>1, <4>1, <4>2 DEF Shows
    <3>2. CASE e.msg.name # n
      <4>1. \A u \in Threads : ~Busy(u, n)
        BY <2>7, <2>8, <2>12, <3>2
      <4>2. Shows(n, old, store)
        BY <2>12, <4>1 DEF EventInv, HeardOK, old
      <4>3. \A i \in 1 .. (k + 1) : i \in 1 .. k \/ i = k + 1
        OBVIOUS
      <4>4. 1 .. k \subseteq 1 .. (k + 1)
        OBVIOUS
      <4> QED BY <2>3, <3>2, <4>2, <4>3, <4>4 DEF Shows
    <3> QED BY <3>1, <3>2
  <2>13. HeardOK'
    BY <1>1, <1>3, <2>12 DEF HeardOK
  <2> QED BY <2>5, <2>6, <2>11, <2>13 DEF EventInv
<1>4. CASE /\ \E n \in Names : Busy(t, n) /\ untold' = untold \cup {n}
           /\ PublishFails(t)
           /\ notify' = [notify EXCEPT ![t] = << >>]
  <2>1. PICK n \in Names : Busy(t, n) /\ untold' = untold \cup {n}
    BY <1>4
  <2>2. /\ UNCHANGED samples /\ sending' = [sending EXCEPT ![t] = << >>]
        /\ notify' = [notify EXCEPT ![t] = << >>]
    BY <1>4 DEF PublishFails
  <2>3. /\ DOMAIN notify' = Threads /\ DOMAIN sending' = Threads
        /\ notify'[t] = << >> /\ sending'[t] = << >>
        /\ \A u \in Threads \ {t} : notify'[u] = notify[u] /\ sending'[u] = sending[u]
    BY <2>2 DEF EventInv, OneEvent
  <2>4. OneEvent' /\ ListenerOK'
    BY <2>2, <2>3 DEF EventInv, OneEvent, ListenerOK
  <2>5. \A m \in Names : ~Busy(t, m)' /\ (Busy(t, m) => m = n)
    BY <2>1, <2>3 DEF Busy, EventInv, OneEvent
  <2>6. \A u \in Threads \ {t} : \A m \in Names : Busy(u, m)' <=> Busy(u, m)
    BY <2>3 DEF Busy
  <2>7. \A u \in Threads \ {t} : InHand(u)' = InHand(u)
    BY <2>3 DEF InHand
  <2>8. \A m \in Names \ untold' : m \in Names \ untold /\ ~Busy(t, m)
    BY <2>1, <2>5
  <2>9. InHandOK'
    BY <1>1, <2>5, <2>6, <2>7, <2>8 DEF EventInv, InHandOK
  <2>10. HeardOK'
    BY <1>1, <2>2, <2>5, <2>6, <2>8 DEF EventInv, HeardOK
  <2> QED BY <2>4, <2>9, <2>10 DEF EventInv
<1> QED BY <1>2, <1>3, <1>4 DEF PublishEvent

\* Every other step leaves the store and the events alone.
LEMMA EventsIdle ==
  ASSUME EventInv, UNCHANGED <<topicVars, store, notify, untold>>
  PROVE  EventInv'
BY DEF topicVars, EventInv, OneEvent, ListenerOK, InHandOK, HeardOK, Busy, InHand

\* The store and the events a listener hears, at every moment and for every name whose
\* last event could be published and was not set by two threads at the same time.
THEOREM EventInvariance == Spec => []EventInv
<1>1. EventInv /\ [Next]_vars => EventInv'
  <2> SUFFICES ASSUME EventInv, [Next]_vars PROVE EventInv'
    OBVIOUS
  <2>1. CASE UNCHANGED vars
    BY <2>1, EventsIdle DEF vars, paramVars
  <2>2. CASE TryReceive \/ Empty \/ Collect \/ Respond
    BY <2>2, EventsIdle DEF TryReceive, Empty, Collect, Respond
  <2>3. CASE SetNext
    BY <2>3, InsertEvents, ParametersAssumption DEF SetNext
  <2>4. ASSUME NEW t \in Setters, NEW w \in LocalWrites, SetParameter(t, w) PROVE EventInv'
    BY <2>4, InsertEvents DEF SetParameter, Setters
  <2>5. ASSUME NEW t \in Threads, PublishEvent(t) PROVE EventInv'
    BY <2>5, PublishEvents
  <2>6. ASSUME NEW k \in Callers, ParameterCall(k) \/ Returns(k) \/ TimesOut(k) PROVE EventInv'
    BY <2>6, EventsIdle DEF ParameterCall, Returns, TimesOut, paramVars
  <2>7. "spin" \in Threads /\ Setters \subseteq Threads
    BY ParametersAssumption DEF Setters
  <2> QED BY <2>1, <2>2, <2>3, <2>4, <2>5, <2>6, <2>7 DEF Next, Spin
<1> QED BY <1>1, InitEvents, PTL DEF Spec

\* parameter_events tell the truth (set_and_notify): once all events are published, the
\* last one about a name tells its value, unless it could not be published or two threads
\* last set the name together.
THEOREM EventsTellStore == Spec => []EventsAgree
<1>1. EventInv => EventsAgree
  <2> SUFFICES ASSUME EventInv, \A t \in Threads : Quiet(t), NEW n \in Names \ untold
               PROVE  LET about == {i \in DOMAIN samples["listener"] : samples["listener"][i].msg.name = n}
                          last == CHOOSE i \in about : \A j \in about : j <= i IN
                      IF about = {}
                      THEN /\ (n \in DOMAIN store) = (n \in DOMAIN NewStore)
                           /\ n \in DOMAIN store => store[n] = NewStore[n]
                      ELSE n \in DOMAIN store /\ store[n] = samples["listener"][last].msg.value
    BY DEF EventsAgree
  <2> DEFINE list == samples["listener"]
             about == {i \in DOMAIN list : list[i].msg.name = n}
             last == CHOOSE i \in about : \A j \in about : j <= i
  <2>1. \A t \in Threads : ~Busy(t, n)
    BY DEF Quiet, Busy
  <2>2. Shows(n, list, store)
    BY <2>1 DEF EventInv, HeardOK
  <2>3. DOMAIN list \subseteq Nat
    <3>1. PICK k \in Nat : list = [i \in 1 .. k |-> list[i]]
      BY DEF EventInv, ListenerOK, IsSeq
    <3>2. DOMAIN list = 1 .. k
      BY <3>1
    <3> QED BY <3>2
  <2> HIDE DEF list
  <2>4. CASE about = {}
    BY <2>2, <2>4 DEF Shows, list
  <2>5. CASE about # {}
    <3>1. PICK i \in about : (\A j \in about : j <= i) /\ n \in DOMAIN store /\ store[n] = list[i].msg.value
      BY <2>2, <2>5 DEF Shows
    <3>2. last \in about /\ \A j \in about : j <= last
      BY <3>1
    <3>3. last = i
      BY <2>3, <3>1, <3>2
    <3> HIDE DEF last, about
    <3> QED BY <2>5, <3>1, <3>3 DEF list, about, last
  <2> QED BY <2>4, <2>5
<1> QED BY <1>1, EventInvariance, PTL

-----------------------------------------------------------------------------
(* The replies.                                                            *)

Queries == [caller: Callers, nr: Nat, id: Clients \X Nat, req: Requests, form: {"ok", "garbled", "bare"}]

\* What the call of a caller is made of.
IsGet(g) == g = [nr |-> g.nr, service |-> g.service, req |-> g.req, form |-> g.form,
                 open |-> g.open, replies |-> g.replies]

\* The types of the services' state, as far as the argument needs them.
Shapes ==
  /\ seq \in [Clients -> Nat] /\ calls \in [Callers -> Nat]
  /\ queue \in [Servers -> Seq(Queries)]
  /\ pending \in [Servers -> SUBSET Queries] /\ hand \in [Servers -> SUBSET Queries]
  /\ DOMAIN get = Callers /\ DOMAIN result = Callers /\ DOMAIN seen = Callers
  /\ \A k \in Callers : get[k] # None => IsGet(get[k])

\* The queries a server has anything to do with, and whether the call still waits.
Held(s) == {queue[s][i] : i \in DOMAIN queue[s]} \cup pending[s] \cup hand[s]
Waits(q) == get[q.caller] # None /\ get[q.caller].nr = q.nr

\* The number of a query was given out, it comes from a call that has begun, and if
\* that call still waits, they agree on the service and the request.
QueriesOK ==
  \A s \in Servers : \A q \in Held(s) :
    /\ q.id[2] <= seq[q.id[1]]
    /\ q.nr < calls[q.caller]
    /\ Waits(q) => get[q.caller].service = s /\ get[q.caller].req = q.req
    /\ s = "set_parameters" => q.req \in Writes

\* An id is the id of one query.
OneQuery == \A s \in Servers : \A q, r \in Held(s) : q.id = r.id => q = r

\* A call has seen the store as it is, and the one reply it may have is true.
GetsOK ==
  \A k \in Callers : get[k] # None =>
    /\ get[k].open \subseteq {get[k].service}
    /\ store \in seen[k]
    /\ \/ get[k].replies = << >>
       \/ /\ get[k].replies = <<get[k].replies[1]>> /\ get[k].open = {}
          /\ TrueOf(get[k].service, get[k].req, get[k].replies[1].value, seen[k])

\* A parameter was set in one of the stores.
SetIn(w, dbs) == \E db \in dbs : w[1] \in DOMAIN db /\ db[w[1]] = w[2]

\* Of what set_parameters is asked, a first part is done, and the call has seen it.
DoneOK(req, todo, waits, dbs) ==
  /\ todo \in Seq(Names \X DOMAIN TypeOf) /\ Len(todo) <= Len(req)
  /\ \A i \in 1 .. Len(todo) : todo[i] = req[Len(req) - Len(todo) + i]
  /\ waits => \A i \in 1 .. (Len(req) - Len(todo)) : SetIn(req[i], dbs)

\* The handler works on a query of its server, and what it has collected is true.
WorkOK(s, w) ==
  /\ w = [query |-> w.query, todo |-> w.todo, answer |-> w.answer]
  /\ w.query \in hand[s]
  /\ s # "set_parameters" =>
       \/ w.answer = << >>
       \/ /\ w.answer = <<w.answer[1]>>
          /\ Waits(w.query) => TrueOf(s, w.query.req, w.answer[1], seen[w.query.caller])
  /\ s = "set_parameters" =>
       DoneOK(w.query.req, w.todo, Waits(w.query), seen[w.query.caller])

HandlerOK ==
  /\ at \in DOMAIN Order
  /\ got = << >> \/ (got = <<got[1]>> /\ WorkOK(Order[at], got[1]))

ReplyInv == Shapes /\ QueriesOK /\ OneQuery /\ GetsOK /\ HandlerOK /\ RepliesTrue

\* What is true of some stores is true of more.
LEMMA TrueOfMore ==
  ASSUME NEW service, NEW req, NEW answer, NEW dbs, NEW more,
         dbs \subseteq more, TrueOf(service, req, answer, dbs)
  PROVE  TrueOf(service, req, answer, more)
BY DEF TrueOf

\* The handlers in their order.
LEMMA Handlers ==
  /\ DOMAIN Order = 1 .. 6
  /\ \A i \in DOMAIN Order : Order[i] \in Servers /\ NextHandler(i) \in DOMAIN Order
  /\ \A i \in DOMAIN Order : Order[i] \in {"get_parameters", "get_parameter_types", "set_parameters",
                               "set_parameters_atomically", "list_parameters", "describe_parameters"}
<1>1. DOMAIN Order = 1 .. 6 /\ Len(Order) = 6
  BY DEF Order
<1>2. \A i \in DOMAIN Order : NextHandler(i) \in DOMAIN Order
  BY <1>1 DEF NextHandler
<1>3. \A i \in DOMAIN Order : Order[i] \in Servers
  BY ParametersAssumption
<1>4. \A i \in 1 .. 6 : i = 1 \/ i = 2 \/ i = 3 \/ i = 4 \/ i = 5 \/ i = 6
  OBVIOUS
<1>5. \A i \in DOMAIN Order : Order[i] \in {"get_parameters", "get_parameter_types", "set_parameters",
                               "set_parameters_atomically", "list_parameters", "describe_parameters"}
  BY <1>1, <1>4 DEF Order
<1> QED BY <1>1, <1>2, <1>3, <1>5

\* What a handler collects is true of the store it reads.
LEMMA AnswerTrue ==
  ASSUME NEW service \in {"get_parameters", "get_parameter_types", "set_parameters_atomically",
                          "list_parameters", "describe_parameters"},
         NEW req, NEW dbs, NEW db \in dbs
  PROVE  TrueOf(service, req, Answer(service, db, req), dbs)
<1> DEFINE a == Answer(service, db, req)
<1>1. CASE service = "get_parameters"
  <2>1. a = [i \in DOMAIN req |-> Lookup(db, req[i][1])]
    BY <1>1, Zenon DEF Answer
  <2> HIDE DEF a
  <2>2. \A i \in DOMAIN req : a[i] = IF req[i][1] \in DOMAIN db THEN db[req[i][1]] ELSE "NotSet"
    BY <2>1 DEF Lookup
  <2> QED BY <1>1, <2>2 DEF TrueOf, a
<1>2. CASE service = "get_parameter_types"
  <2>1. service # "get_parameters"
    BY <1>2
  <2>2. a = [i \in DOMAIN req |-> TypeOf[Lookup(db, req[i][1])]]
    BY <1>2, <2>1, Zenon DEF Answer
  <2> HIDE DEF a
  <2>3. \A i \in DOMAIN req :
          a[i] = IF req[i][1] \in DOMAIN db THEN TypeOf[db[req[i][1]]] ELSE TypeOf["NotSet"]
    BY <2>2 DEF Lookup
  <2> QED BY <1>2, <2>3 DEF TrueOf, a
<1>3. CASE service = "set_parameters_atomically"
  <2>1. service # "get_parameters" /\ service # "get_parameter_types"
    BY <1>3
  <2>2. a = [i \in DOMAIN req |-> "failed"]
    BY <1>3, <2>1, Zenon DEF Answer
  <2> HIDE DEF a
  <2> QED BY <1>3, <2>2 DEF TrueOf, a
<1>4. CASE service = "list_parameters"
  <2>1. /\ service # "get_parameters" /\ service # "get_parameter_types"
        /\ service # "set_parameters_atomically"
    BY <1>4
  <2>2. a = {n \in DOMAIN db : req = << >> \/ \E i \in DOMAIN req : n \in StartsWith[req[i][1]]}
    BY <1>4, <2>1, Zenon DEF Answer
  <2> HIDE DEF a
  <2>3. a = {n \in DOMAIN db : req # << >> => \E i \in DOMAIN req : n \in StartsWith[req[i][1]]}
    BY <2>2
  <2> QED BY <1>4, <2>3 DEF TrueOf, a
<1>5. CASE service = "describe_parameters"
  <2>1. /\ service # "get_parameters" /\ service # "get_parameter_types"
        /\ service # "set_parameters_atomically" /\ service # "list_parameters"
    BY <1>5
  <2>2. a = [i \in DOMAIN req |-> IF req[i][1] \in DOMAIN db THEN TypeOf[db[req[i][1]]] ELSE "unknown"]
    BY <1>5, <2>1, Zenon DEF Answer
  <2> HIDE DEF a
  <2>3. \A i \in DOMAIN req :
          a[i] = IF req[i][1] \in DOMAIN db THEN TypeOf[db[req[i][1]]] ELSE "unknown"
    BY <2>2
  <2> QED BY <1>5, <2>3 DEF TrueOf, a
<1> QED BY <1>1, <1>2, <1>3, <1>4, <1>5

\* What a server holds are queries.
LEMMA HeldType ==
  ASSUME Shapes, NEW s \in Servers
  PROVE  Held(s) \subseteq Queries
<1>1. queue[s] \in Seq(Queries) /\ pending[s] \subseteq Queries /\ hand[s] \subseteq Queries
  BY DEF Shapes
<1>2. \A i \in DOMAIN queue[s] : queue[s][i] \in Queries
  BY <1>1
<1> QED BY <1>1, <1>2 DEF Held

\* A call ends or goes on with what it asked.
Continues(k) ==
  get'[k] # None =>
    /\ get[k] # None /\ IsGet(get'[k])
    /\ get'[k].nr = get[k].nr /\ get'[k].service = get[k].service /\ get'[k].req = get[k].req

\* When no query is new and the calls go on, the queries stay right.
LEMMA NothingNew ==
  ASSUME ReplyInv, UNCHANGED <<seq, calls>>,
         \A s \in Servers : Held(s)' \subseteq Held(s), \A k \in Callers : Continues(k)
  PROVE  QueriesOK' /\ OneQuery'
<1>1. OneQuery'
  BY DEF ReplyInv, OneQuery
<1>2. ASSUME NEW s \in Servers, NEW q \in Held(s)'
      PROVE  /\ q.id[2] <= seq'[q.id[1]]
             /\ q.nr < calls'[q.caller]
             /\ Waits(q)' => get'[q.caller].service = s /\ get'[q.caller].req = q.req
             /\ s = "set_parameters" => q.req \in Writes
  <2>1. q \in Held(s) /\ q.caller \in Callers
    BY <1>2, HeldType DEF ReplyInv, Queries
  <2>2. Continues(q.caller)
    BY <2>1
  <2> QED BY <2>1, <2>2 DEF ReplyInv, QueriesOK, Continues, Waits
<1>3. QueriesOK'
  BY <1>2 DEF QueriesOK
<1> QED BY <1>1, <1>3

\* The handler's work stays right while its call goes on, and sees more stores.
LEMMA WorkGoesOn ==
  ASSUME ReplyInv, NEW s \in Servers, NEW w, WorkOK(s, w), w.query \in hand'[s],
         Waits(w.query)' => Waits(w.query),
         Waits(w.query)' => seen[w.query.caller] \subseteq seen'[w.query.caller]
  PROVE  WorkOK(s, w)'
<1>1. CASE s # "set_parameters"
  <2>1. TrueOf(s, w.query.req, w.answer[1], seen[w.query.caller]) /\ Waits(w.query)'
          => TrueOf(s, w.query.req, w.answer[1], seen'[w.query.caller])
    BY TrueOfMore
  <2> QED BY <1>1, <2>1 DEF WorkOK
<1>2. CASE s = "set_parameters"
  <2>1. DoneOK(w.query.req, w.todo, Waits(w.query), seen[w.query.caller])
    BY <1>2 DEF WorkOK
  <2>2. DoneOK(w.query.req, w.todo, Waits(w.query)', seen'[w.query.caller])
    BY <2>1 DEF DoneOK, SetIn
  <2> QED BY <1>2, <2>2 DEF WorkOK
<1> QED BY <1>1, <1>2

\* The same for the handler of `spin` when it does nothing itself.
LEMMA HandlerGoesOn ==
  ASSUME ReplyInv, UNCHANGED <<at, got>>,
         \A s \in Servers : hand[s] \subseteq hand'[s],
         \A k \in Callers : Continues(k) /\ seen[k] \subseteq seen'[k]
  PROVE  HandlerOK'
<1>1. CASE got = << >>
  BY <1>1 DEF ReplyInv, HandlerOK
<1>2. CASE got # << >>
  <2> DEFINE s == Order[at]
             w == got[1]
  <2>1. s \in Servers /\ WorkOK(s, w) /\ at \in DOMAIN Order /\ got = <<w>>
    BY <1>2, Handlers DEF ReplyInv, HandlerOK
  <2>2. w.query \in hand[s] /\ w.query.caller \in Callers
    BY <2>1 DEF WorkOK, ReplyInv, Shapes, Queries
  <2>3. Waits(w.query)' => Waits(w.query)
    BY <2>2 DEF Waits, Continues
  <2> HIDE DEF s, w
  <2>4. WorkOK(s, w)'
    BY <2>1, <2>2, <2>3, WorkGoesOn DEF s, w
  <2> QED BY <2>1, <2>4 DEF HandlerOK, s, w
<1> QED BY <1>1, <1>2

\* Taking the first element off a sequence leaves elements that were there.
LEMMA TailElements ==
  ASSUME NEW S, NEW x \in Seq(S), x # << >>
  PROVE  /\ Head(x) \in S /\ Tail(x) \in Seq(S) /\ Len(Tail(x)) = Len(x) - 1 /\ Len(x) \in Nat
         /\ 1 \in DOMAIN x /\ Head(x) = x[1]
         /\ \A i \in DOMAIN Tail(x) : i + 1 \in DOMAIN x /\ Tail(x)[i] = x[i + 1]
OBVIOUS

\* The Client a caller uses for a service.
LEMMA ClientType ==
  ASSUME NEW k \in Callers, NEW service \in Services
  PROVE  <<ClientOf[k], service>> \in Clients
BY DEF Clients

\* A server is the only one of its service.
LEMMA OneServer ==
  ASSUME NEW service \in Services
  PROVE  ServersOf(service) = {service}
BY ParametersAssumption DEF ServersOf

\* Nothing has been asked at first.
LEMMA InitReplies == Init => ReplyInv
<1> SUFFICES ASSUME Init PROVE ReplyInv
  OBVIOUS
<1>1. \A s \in Servers : queue[s] = << >> /\ pending[s] = {} /\ hand[s] = {}
  BY DEF Init, ServiceInit
<1>2. \A s \in Servers : Held(s) = {}
  BY <1>1 DEF Held
<1>3. Shapes
  BY DEF Init, ServiceInit, Shapes
<1>4. QueriesOK /\ OneQuery
  BY <1>2 DEF QueriesOK, OneQuery
<1>5. GetsOK /\ RepliesTrue
  BY DEF Init, ServiceInit, GetsOK, RepliesTrue
<1>6. HandlerOK
  BY Handlers DEF Init, HandlerOK
<1> QED BY <1>3, <1>4, <1>5, <1>6 DEF ReplyInv

\* A call begins with the store as it is, and a number of its own.
LEMMA CallReplies ==
  ASSUME ReplyInv, NEW k \in Callers, ParameterCall(k)
  PROVE  ReplyInv'
<1>1. PICK ask \in Asks[k] :
        \E req \in IF ask[1] \in {"set_parameters", "set_parameters_atomically"} THEN Writes
                   ELSE Requests \ Writes :
          Call(k, ask[1], req, ask[2])
  BY DEF ParameterCall
<1> DEFINE service == ask[1]
           form == ask[2]
<1>2. PICK req \in IF service \in {"set_parameters", "set_parameters_atomically"} THEN Writes
                   ELSE Requests \ Writes :
        Call(k, service, req, form)
  BY <1>1
<1>3. /\ service \in Services /\ service \in Servers /\ req \in Requests
      /\ form \in {"ok", "garbled", "bare"}
      /\ service = "set_parameters" => req \in Writes
  BY ParametersAssumption, ServiceAssumption DEF Requests
<1>4. /\ UNCHANGED <<store, at, got>> /\ seen' = [seen EXCEPT ![k] = {store}]
  BY DEF ParameterCall, paramVars
<1> HIDE DEF service, form
<1> DEFINE client == <<ClientOf[k], service>>
           n == NextSeq(seq[client])
           query == [caller |-> k, nr |-> calls[k], id |-> <<client, n>>, req |-> req, form |-> form]
           g == [nr |-> calls[k], service |-> service, req |-> req, form |-> form,
                 open |-> ServersOf(service), replies |-> << >>]
<1>5. /\ get[k] = None
      /\ seq' = [seq EXCEPT ![client] = n]
      /\ queue' = [s \in Servers |-> IF s \in ServersOf(service) THEN Append(queue[s], query)
                                     ELSE queue[s]]
      /\ get' = [get EXCEPT ![k] = g]
      /\ calls' = [calls EXCEPT ![k] = @ + 1]
      /\ result' = [result EXCEPT ![k] = None]
      /\ UNCHANGED <<pending, hand>>
  BY <1>2 DEF Call
<1>6. client \in Clients /\ n = seq[client] + 1 /\ n \in Nat /\ calls[k] \in Nat
  <2>1. client \in Clients
    BY <1>3, ClientType
  <2> HIDE DEF client
  <2> QED BY <2>1 DEF NextSeq, ReplyInv, Shapes
<1>7. query \in Queries
  BY <1>3, <1>6 DEF Queries
<1>8. /\ query.caller = k /\ query.nr = calls[k] /\ query.id = <<client, n>> /\ query.req = req
      /\ g.nr = calls[k] /\ g.req = req /\ g.service = service /\ g.replies = << >>
      /\ g.open = {service} /\ IsGet(g)
  BY <1>3, OneServer DEF IsGet
<1> HIDE DEF client, n, query, g
<1>9. /\ get'[k] = g /\ seen'[k] = {store} /\ result'[k] = None
      /\ \A j \in Callers \ {k} : get'[j] = get[j] /\ seen'[j] = seen[j] /\ result'[j] = result[j]
  BY <1>4, <1>5 DEF ReplyInv, Shapes
<1>10. Shapes'
  <2>1. \A s \in Servers : Append(queue[s], query) \in Seq(Queries)
    BY <1>7 DEF ReplyInv, Shapes
  <2>2. queue' \in [Servers -> Seq(Queries)]
    BY <1>5, <2>1 DEF ReplyInv, Shapes
  <2>3. /\ seq' \in [Clients -> Nat] /\ calls' \in [Callers -> Nat]
        /\ DOMAIN get' = Callers /\ DOMAIN result' = Callers /\ DOMAIN seen' = Callers
    BY <1>4, <1>5, <1>6 DEF ReplyInv, Shapes
  <2>4. \A j \in Callers : get'[j] # None => IsGet(get'[j])
    BY <1>8, <1>9 DEF ReplyInv, Shapes
  <2> QED BY <1>5, <2>2, <2>3, <2>4 DEF ReplyInv, Shapes
<1>11. ASSUME NEW s \in Servers, NEW q \in Held(s)'
       PROVE  q \in Held(s) \/ (q = query /\ s = service)
  <2>1. CASE q \in pending'[s] \cup hand'[s]
    BY <1>5, <2>1 DEF Held
  <2>2. CASE q \notin pending'[s] \cup hand'[s]
    <3>1. PICK i \in DOMAIN queue'[s] : q = queue'[s][i]
      BY <1>11, <2>2 DEF Held
    <3>2. queue[s] \in Seq(Queries)
      BY DEF ReplyInv, Shapes
    <3>3. CASE s = service
      <4>1. queue'[s] = Append(queue[s], query)
        BY <1>3, <1>5, <3>3, OneServer
      <4>2. (i \in DOMAIN queue[s] /\ queue'[s][i] = queue[s][i]) \/ queue'[s][i] = query
        BY <3>1, <3>2, <4>1
      <4> QED BY <3>1, <3>3, <4>2 DEF Held
    <3>4. CASE s # service
      <4>1. queue'[s] = queue[s]
        BY <1>3, <1>5, <3>4, OneServer
      <4> QED BY <3>1, <4>1 DEF Held
    <3> QED BY <3>3, <3>4
  <2> QED BY <2>1, <2>2
<1>12. ASSUME NEW s \in Servers, NEW q \in Held(s)
       PROVE  /\ q.id # query.id
              /\ q.id[2] <= seq'[q.id[1]]
              /\ q.nr < calls'[q.caller]
              /\ Waits(q)' => Waits(q) /\ q.caller # k
              /\ q.caller \in Callers
  <2>1. q.caller \in Callers /\ q.nr \in Nat /\ q.id \in Clients \X Nat
    BY <1>12, HeldType DEF ReplyInv, Queries
  <2>2. q.id[2] <= seq[q.id[1]] /\ q.nr < calls[q.caller]
    BY <1>12 DEF ReplyInv, QueriesOK
  <2>3. q.id[2] \in Nat /\ q.id[1] \in Clients /\ seq[q.id[1]] \in Nat
    BY <2>1 DEF ReplyInv, Shapes
  <2>4. calls[q.caller] \in Nat
    BY <2>1 DEF ReplyInv, Shapes
  <2>5. q.id # query.id
    BY <1>6, <1>8, <2>2, <2>3
  <2>6. q.id[2] <= seq'[q.id[1]]
    BY <1>5, <1>6, <2>2, <2>3 DEF ReplyInv, Shapes
  <2>7. q.nr < calls'[q.caller]
    BY <1>5, <2>1, <2>2, <2>4 DEF ReplyInv, Shapes
  <2>8. q.caller = k => get'[q.caller].nr # q.nr
    BY <1>8, <1>9, <2>1, <2>2, <2>4
  <2> QED BY <1>9, <2>1, <2>5, <2>6, <2>7, <2>8 DEF Waits
<1>13. QueriesOK'
  <2>1. /\ query.id[2] <= seq'[query.id[1]]
        /\ query.nr < calls'[query.caller]
        /\ get'[query.caller].service = service /\ get'[query.caller].req = query.req
        /\ service = "set_parameters" => query.req \in Writes
    BY <1>3, <1>5, <1>6, <1>8, <1>9 DEF ReplyInv, Shapes
  <2>2. ASSUME NEW s \in Servers, NEW q \in Held(s)
        PROVE  /\ Waits(q)' => get'[q.caller].service = s /\ get'[q.caller].req = q.req
               /\ s = "set_parameters" => q.req \in Writes
    <3>1. Waits(q)' => Waits(q) /\ q.caller \in Callers \ {k}
      BY <1>12, <2>2
    <3> QED BY <1>9, <2>2, <3>1 DEF ReplyInv, QueriesOK
  <2> QED BY <1>11, <1>12, <2>1, <2>2 DEF QueriesOK
<1>14. OneQuery'
  BY <1>11, <1>12 DEF ReplyInv, OneQuery
<1>15. GetsOK'
  BY <1>4, <1>8, <1>9 DEF ReplyInv, GetsOK
<1>16. RepliesTrue'
  BY <1>9 DEF ReplyInv, RepliesTrue
<1>17. HandlerOK'
  <2>1. CASE got = << >>
    BY <1>4, <2>1 DEF ReplyInv, HandlerOK
  <2>2. CASE got # << >>
    <3> DEFINE s == Order[at]
               w == got[1]
    <3>1. s \in Servers /\ WorkOK(s, w) /\ at \in DOMAIN Order /\ got = <<w>>
      BY <2>2, Handlers DEF ReplyInv, HandlerOK
    <3>2. w.query \in hand[s] /\ w.query \in Held(s) /\ w.query \in hand'[s]
      BY <1>5, <3>1 DEF WorkOK, Held
    <3>3. Waits(w.query)' => Waits(w.query) /\ w.query.caller \in Callers \ {k}
      BY <1>4, <1>12, <3>1, <3>2
    <3>4. Waits(w.query)' => seen[w.query.caller] \subseteq seen'[w.query.caller]
      BY <1>9, <3>3
    <3> HIDE DEF s, w
    <3>5. WorkOK(s, w)'
      BY <1>4, <3>1, <3>2, <3>3, <3>4, WorkGoesOn DEF s, w
    <3> QED BY <1>4, <3>1, <3>5 DEF HandlerOK, s, w
  <2> QED BY <2>1, <2>2
<1> QED BY <1>10, <1>13, <1>14, <1>15, <1>16, <1>17 DEF ReplyInv

\* A call returns with its reply, or without.
LEMMA ReturnReplies ==
  ASSUME ReplyInv, NEW k \in Callers, Returns(k)
  PROVE  ReplyInv'
<1> DEFINE first == IF get[k].replies = << >> THEN None ELSE Head(get[k].replies)
           ret == [nr |-> get[k].nr, service |-> get[k].service, req |-> get[k].req, reply |-> first]
<1>1. /\ get[k] # None
      /\ result' = [result EXCEPT ![k] = ret]
      /\ get' = [get EXCEPT ![k] = None]
      /\ UNCHANGED <<seq, queue, pending, hand, calls, store, at, got, seen>>
  BY DEF Returns, Return, paramVars
<1>2. first # None => TrueOf(get[k].service, get[k].req, first.value, seen[k])
  <2>1. CASE get[k].replies = << >>
    BY <2>1
  <2>2. CASE get[k].replies # << >>
    <3>1. /\ get[k].replies = <<get[k].replies[1]>>
          /\ TrueOf(get[k].service, get[k].req, get[k].replies[1].value, seen[k])
      BY <1>1, <2>2 DEF ReplyInv, GetsOK
    <3>2. first = get[k].replies[1]
      BY <2>2, <3>1
    <3> QED BY <3>1, <3>2
  <2> QED BY <2>1, <2>2
<1> HIDE DEF first
<1>3. ret.reply = first /\ ret.service = get[k].service /\ ret.req = get[k].req
  OBVIOUS
<1> HIDE DEF ret
<1>4. result'[k] = ret /\ \A j \in Callers \ {k} : result'[j] = result[j]
  BY <1>1 DEF ReplyInv, Shapes
<1>5. \A j \in Callers : get'[j] = None \/ get'[j] = get[j]
  BY <1>1 DEF ReplyInv, Shapes
<1>6. Shapes'
  BY <1>1, <1>5 DEF ReplyInv, Shapes
<1>7. \A j \in Callers : Continues(j)
  BY <1>5 DEF Continues, ReplyInv, Shapes
<1>8. \A s \in Servers : Held(s)' = Held(s)
  BY <1>1 DEF Held
<1>9. QueriesOK' /\ OneQuery'
  BY <1>1, <1>7, <1>8, NothingNew
<1>10. GetsOK'
  BY <1>1, <1>5 DEF ReplyInv, GetsOK
<1>11. HandlerOK'
  BY <1>1, <1>7, HandlerGoesOn
<1>12. RepliesTrue'
  BY <1>1, <1>2, <1>3, <1>4 DEF ReplyInv, RepliesTrue
<1> QED BY <1>6, <1>9, <1>10, <1>11, <1>12 DEF ReplyInv

\* A `get` that times out stops listening.
LEMMA TimeoutReplies ==
  ASSUME ReplyInv, NEW k \in Callers, TimesOut(k)
  PROVE  ReplyInv'
<1>1. /\ get[k] # None
      /\ get' = [get EXCEPT ![k].open = {}]
      /\ UNCHANGED <<seq, queue, pending, hand, calls, result, store, at, got, seen>>
  BY DEF TimesOut, Timeout, paramVars
<1>2. IsGet(get[k])
  BY <1>1 DEF ReplyInv, Shapes
<1>3. get'[k] = [get[k] EXCEPT !.open = {}] /\ \A j \in Callers \ {k} : get'[j] = get[j]
  BY <1>1 DEF ReplyInv, Shapes
<1>4. get'[k] = [nr |-> get[k].nr, service |-> get[k].service, req |-> get[k].req,
                 form |-> get[k].form, open |-> {}, replies |-> get[k].replies]
  BY <1>2, <1>3 DEF IsGet
<1>5. /\ IsGet(get'[k]) /\ get'[k].open = {}
      /\ get'[k].nr = get[k].nr /\ get'[k].service = get[k].service
      /\ get'[k].req = get[k].req /\ get'[k].replies = get[k].replies
  BY <1>4 DEF IsGet
<1>6. Shapes'
  BY <1>1, <1>3, <1>5 DEF ReplyInv, Shapes
<1>7. \A j \in Callers : Continues(j)
  BY <1>1, <1>3, <1>5 DEF Continues, ReplyInv, Shapes
<1>8. \A s \in Servers : Held(s)' = Held(s)
  BY <1>1 DEF Held
<1>9. QueriesOK' /\ OneQuery'
  BY <1>1, <1>7, <1>8, NothingNew
<1>10. GetsOK'
  BY <1>1, <1>3, <1>5 DEF ReplyInv, GetsOK
<1>11. HandlerOK'
  BY <1>1, <1>7, HandlerGoesOn
<1>12. RepliesTrue'
  BY <1>1 DEF ReplyInv, RepliesTrue
<1> QED BY <1>6, <1>9, <1>10, <1>11, <1>12 DEF ReplyInv

\* Nothing after a reply, or after none, is the same.
LEMMA NothingAfter ==
  ASSUME NEW x, x = << >> \/ x = <<x[1]>>
  PROVE  x \o << >> = x
<1>1. CASE x = << >>
  BY <1>1
<1>2. CASE x = <<x[1]>>
  <2>1. \A y : <<y>> \o << >> = <<y>>
    OBVIOUS
  <2> QED BY <1>2, <2>1
<1> QED BY <1>1, <1>2

\* A call whose queries are dropped without a reply goes on as it was, or ends.
LEMMA DroppedNothing ==
  ASSUME ReplyInv, NEW s \in Servers, NEW qs, Dropped(s, qs, << >>)
  PROVE  /\ DOMAIN get' = Callers
         /\ \A k \in Callers :
              /\ Continues(k)
              /\ get'[k] # None => get'[k].replies = get[k].replies /\ get'[k].open \subseteq get[k].open
<1>1. DOMAIN get' = Callers
  BY DEF Dropped
<1>2. ASSUME NEW k \in Callers
      PROVE  /\ Continues(k)
             /\ get'[k] # None => get'[k].replies = get[k].replies /\ get'[k].open \subseteq get[k].open
  <2>1. CASE \E q \in qs : q.caller = k /\ Listens(s, q)
    <3>1. get[k] # None
      BY <2>1 DEF Listens
    <3>2. get'[k] = [get[k] EXCEPT !.open = @ \ {s}, !.replies = @ \o << >>]
      BY <2>1 DEF Dropped
    <3>3. IsGet(get[k])
      BY <3>1 DEF ReplyInv, Shapes
    <3>4. get[k].replies \o << >> = get[k].replies
      BY <3>1, NothingAfter DEF ReplyInv, GetsOK
    <3>5. get'[k] = [nr |-> get[k].nr, service |-> get[k].service, req |-> get[k].req,
                     form |-> get[k].form, open |-> get[k].open \ {s}, replies |-> get[k].replies]
      BY <3>2, <3>3, <3>4 DEF IsGet
    <3> QED BY <3>1, <3>5 DEF Continues, IsGet
  <2>2. CASE ~ \E q \in qs : q.caller = k /\ Listens(s, q)
    <3>1. get'[k] = get[k]
      BY <2>2 DEF Dropped
    <3> QED BY <3>1 DEF Continues, ReplyInv, Shapes
  <2> QED BY <2>1, <2>2
<1> QED BY <1>1, <1>2

\* The handler takes a request from its queue, or drops it and gives way to the next.
LEMMA TryReceiveReplies ==
  ASSUME ReplyInv, TryReceive
  PROVE  ReplyInv'
<1>0. PICK s, q, twins : /\ s = Order[at] /\ q = Head(queue[s])
                         /\ twins = {p \in pending[s] : p.id = q.id}
  OBVIOUS
<1>1. s \in Servers /\ at \in DOMAIN Order
  BY <1>0, Handlers DEF ReplyInv, HandlerOK
<1>2. /\ got = << >> /\ queue[s] # << >> /\ queue' = [queue EXCEPT ![s] = Tail(@)]
      /\ UNCHANGED <<seq, calls, result, store, seen>>
  BY <1>0 DEF TryReceive, Receive
<1>3. IF Accepts(FALSE, q)
      THEN /\ pending' = [pending EXCEPT ![s] = (@ \ twins) \cup {q}]
           /\ hand' = [hand EXCEPT ![s] = @ \cup {q}]
           /\ Dropped(s, twins, << >>)
           /\ got' = << [query |-> q, todo |-> q.req, answer |-> << >>] >> /\ UNCHANGED at
      ELSE /\ Dropped(s, {q}, << >>)
           /\ UNCHANGED <<pending, hand>>
           /\ at' = NextHandler(at) /\ UNCHANGED got
  BY <1>0 DEF TryReceive, Receive
<1>4. queue[s] \in Seq(Queries)
  BY <1>1 DEF ReplyInv, Shapes
<1>5. /\ q \in Queries /\ Tail(queue[s]) \in Seq(Queries)
      /\ 1 \in DOMAIN queue[s] /\ q = queue[s][1]
      /\ \A i \in DOMAIN Tail(queue[s]) : i + 1 \in DOMAIN queue[s] /\ Tail(queue[s])[i] = queue[s][i + 1]
  BY <1>0, <1>2, <1>4, TailElements
<1>6. q \in Held(s)
  BY <1>5 DEF Held
<1>7. /\ DOMAIN get' = Callers
      /\ \A k \in Callers :
           /\ Continues(k)
           /\ get'[k] # None => get'[k].replies = get[k].replies /\ get'[k].open \subseteq get[k].open
  BY <1>1, <1>3, DroppedNothing
<1>8. /\ queue' \in [Servers -> Seq(Queries)]
      /\ queue'[s] = Tail(queue[s]) /\ \A r \in Servers \ {s} : queue'[r] = queue[r]
  BY <1>1, <1>2, <1>5 DEF ReplyInv, Shapes
<1>9. /\ pending' \in [Servers -> SUBSET Queries] /\ hand' \in [Servers -> SUBSET Queries]
      /\ pending'[s] \subseteq pending[s] \cup {q} /\ hand'[s] \subseteq hand[s] \cup {q}
      /\ \A r \in Servers \ {s} : pending'[r] = pending[r] /\ hand'[r] = hand[r]
  <2>1. CASE Accepts(FALSE, q)
    <3>1. (pending[s] \ twins) \cup {q} \subseteq Queries /\ hand[s] \cup {q} \subseteq Queries
      BY <1>1, <1>5 DEF ReplyInv, Shapes
    <3>2. /\ pending' = [pending EXCEPT ![s] = (@ \ twins) \cup {q}]
          /\ hand' = [hand EXCEPT ![s] = @ \cup {q}]
      BY <1>3, <2>1
    <3>3. /\ pending' \in [Servers -> SUBSET Queries]
          /\ pending'[s] \subseteq pending[s] \cup {q}
          /\ \A r \in Servers \ {s} : pending'[r] = pending[r]
      BY <1>1, <3>1, <3>2 DEF ReplyInv, Shapes
    <3>4. /\ hand' \in [Servers -> SUBSET Queries]
          /\ hand'[s] \subseteq hand[s] \cup {q}
          /\ \A r \in Servers \ {s} : hand'[r] = hand[r]
      BY <1>1, <3>1, <3>2 DEF ReplyInv, Shapes
    <3> QED BY <3>3, <3>4
  <2>2. CASE ~Accepts(FALSE, q)
    BY <1>1, <1>3, <2>2 DEF ReplyInv, Shapes
  <2> QED BY <2>1, <2>2
<1>10. Shapes'
  <2>1. \A k \in Callers : get'[k] # None => IsGet(get'[k])
    BY <1>7 DEF Continues
  <2> QED BY <1>2, <1>7, <1>8, <1>9, <2>1 DEF ReplyInv, Shapes
<1>11. \A r \in Servers : Held(r)' \subseteq Held(r)
  <2>1. Held(s)' \subseteq Held(s)
    BY <1>1, <1>5, <1>6, <1>8, <1>9 DEF Held
  <2>2. \A r \in Servers \ {s} : Held(r)' \subseteq Held(r)
    BY <1>8, <1>9 DEF Held
  <2> QED BY <2>1, <2>2
<1>12. QueriesOK' /\ OneQuery'
  BY <1>2, <1>7, <1>11, NothingNew
<1>13. GetsOK'
  BY <1>2, <1>7 DEF ReplyInv, GetsOK, Continues
<1>14. RepliesTrue'
  BY <1>2 DEF ReplyInv, RepliesTrue
<1>15. HandlerOK'
  <2>1. CASE Accepts(FALSE, q)
    <3>0. PICK w : w = [query |-> q, todo |-> q.req, answer |-> << >>]
      OBVIOUS
    <3>1. got' = <<w>> /\ at' = at /\ q \in hand'[s]
      BY <1>1, <1>3, <2>1, <3>0 DEF ReplyInv, Shapes
    <3>2. w.query = q /\ w.todo = q.req /\ w.answer = << >>
          /\ w = [query |-> w.query, todo |-> w.todo, answer |-> w.answer]
      BY <3>0
    <3>3. s = "set_parameters" => DoneOK(q.req, q.req, Waits(q)', seen'[q.caller])
      <4>1. s = "set_parameters" => q.req \in Seq(Names \X DOMAIN TypeOf)
        BY <1>1, <1>6, ParametersAssumption DEF ReplyInv, QueriesOK
      <4>2. ASSUME NEW x \in Seq(Names \X DOMAIN TypeOf), NEW b, NEW dbs
            PROVE  DoneOK(x, x, b, dbs)
        BY DEF DoneOK
      <4> QED BY <4>1, <4>2
    <3>4. WorkOK(s, w)'
      BY <3>1, <3>2, <3>3 DEF WorkOK
    <3> QED BY <1>0, <1>1, <3>1, <3>4 DEF HandlerOK
  <2>2. CASE ~Accepts(FALSE, q)
    BY <1>1, <1>2, <1>3, <2>2, Handlers DEF HandlerOK
  <2> QED BY <2>1, <2>2
<1> QED BY <1>10, <1>12, <1>13, <1>14, <1>15 DEF ReplyInv

\* The parts of ReplyInv that tell of the services and not of the handler.
ServicesOK == Shapes /\ QueriesOK /\ OneQuery /\ GetsOK /\ RepliesTrue

\* A step that leaves the services alone.
LEMMA ServicesIdle ==
  ASSUME ReplyInv, UNCHANGED <<svcVars, store, seen>>
  PROVE  ServicesOK' /\ \A k \in Callers : Continues(k)
<1>1. \A s \in Servers : Held(s)' = Held(s)
  BY DEF Held, svcVars
<1>2. \A k \in Callers : Continues(k)
  BY DEF Continues, ReplyInv, Shapes, svcVars
<1>3. QueriesOK' /\ OneQuery'
  BY <1>1, <1>2, NothingNew DEF svcVars
<1>4. Shapes'
  BY DEF ReplyInv, Shapes, svcVars
<1>5. GetsOK' /\ RepliesTrue'
  BY DEF ReplyInv, GetsOK, RepliesTrue, svcVars
<1> QED BY <1>2, <1>3, <1>4, <1>5 DEF ServicesOK

\* A step that leaves the handler alone too.
LEMMA RepliesIdle ==
  ASSUME ReplyInv, UNCHANGED <<svcVars, store, seen, at, got>>
  PROVE  ReplyInv'
<1>1. ServicesOK' /\ \A k \in Callers : Continues(k)
  BY ServicesIdle
<1>2. HandlerOK'
  BY <1>1, HandlerGoesOn DEF svcVars
<1> QED BY <1>1, <1>2 DEF ReplyInv, ServicesOK

\* The handler finds its queue empty.
LEMMA EmptyReplies ==
  ASSUME ReplyInv, Empty
  PROVE  ReplyInv'
<1>1. ServicesOK'
  BY ServicesIdle DEF Empty
<1>2. HandlerOK'
  BY Handlers DEF ReplyInv, HandlerOK, Empty
<1> QED BY <1>1, <1>2 DEF ReplyInv, ServicesOK

\* What the handler works on, with more of it done.
LEMMA NewParts ==
  ASSUME NEW w, w = [query |-> w.query, todo |-> w.todo, answer |-> w.answer], NEW x
  PROVE  [w EXCEPT !.todo = x] = [query |-> w.query, todo |-> x, answer |-> w.answer]
OBVIOUS

\* The handler collects its answer from the store as it is now, which the call has seen.
LEMMA CollectReplies ==
  ASSUME ReplyInv, Collect
  PROVE  ReplyInv'
<1>0. PICK s, w, a, new : /\ s = Order[at] /\ w = got[1] /\ a = Answer(s, store, w.query.req)
                          /\ new = [query |-> w.query, todo |-> << >>, answer |-> <<a>>]
  OBVIOUS
<1>1. /\ s \in Servers /\ WorkOK(s, w) /\ at \in DOMAIN Order /\ s # "set_parameters"
      /\ s \in {"get_parameters", "get_parameter_types", "set_parameters_atomically",
                "list_parameters", "describe_parameters"}
  BY <1>0, Handlers DEF ReplyInv, HandlerOK, Collect
<1>2. /\ got' = << [w EXCEPT !.todo = << >>, !.answer = <<a>>] >>
      /\ UNCHANGED <<svcVars, store, at, seen>>
  BY <1>0 DEF Collect
<1>3. w = [query |-> w.query, todo |-> w.todo, answer |-> w.answer] /\ w.query \in hand[s]
  BY <1>1 DEF WorkOK
<1>4. got' = <<new>>
  <2>1. [w EXCEPT !.todo = << >>, !.answer = <<a>>] = new
    <3>1. PICK x, y : x = << >> /\ y = <<a>>
      OBVIOUS
    <3>2. [w EXCEPT !.todo = x, !.answer = y] = [query |-> w.query, todo |-> x, answer |-> y]
      <4>1. PICK v : v = [w EXCEPT !.todo = x]
        OBVIOUS
      <4>2. v = [query |-> w.query, todo |-> x, answer |-> w.answer]
        BY <1>3, <4>1, NewParts
      <4>3. [v EXCEPT !.answer = y] = [query |-> w.query, todo |-> x, answer |-> y]
        BY <4>2
      <4> QED BY <4>1, <4>3
    <3> QED BY <1>0, <3>1, <3>2, Zenon
  <2> QED BY <1>2, <2>1
<1>5. /\ new.query = w.query /\ new.answer = <<a>> /\ new.answer[1] = a
      /\ new = [query |-> new.query, todo |-> new.todo, answer |-> new.answer]
  BY <1>0
<1>6. w.query.caller \in Callers
  BY <1>1, <1>3 DEF ReplyInv, Shapes, Queries
<1>7. Waits(w.query) => TrueOf(s, w.query.req, a, seen[w.query.caller])
  <2>1. Waits(w.query) => store \in seen[w.query.caller]
    BY <1>6 DEF ReplyInv, GetsOK, Waits
  <2> QED BY <1>0, <1>1, <2>1, AnswerTrue
<1>8. WorkOK(s, new)'
  <2>1. Waits(w.query)' <=> Waits(w.query)
    BY <1>2 DEF Waits, svcVars
  <2>2. new.query \in hand'[s]
    BY <1>2, <1>3, <1>5 DEF svcVars
  <2>3. Waits(new.query)' => TrueOf(s, new.query.req, new.answer[1], seen'[new.query.caller])
    BY <1>2, <1>5, <1>7, <2>1
  <2> QED BY <1>1, <1>5, <2>2, <2>3 DEF WorkOK
<1>9. HandlerOK'
  BY <1>0, <1>1, <1>2, <1>4, <1>8 DEF HandlerOK
<1>10. ServicesOK'
  BY <1>2, ServicesIdle
<1> QED BY <1>9, <1>10 DEF ReplyInv, ServicesOK

\* A change of the store is a store that every call there is has seen.
LEMMA InsertServices ==
  ASSUME ReplyInv, NEW t, NEW name, NEW value, Insert(t, name, value), UNCHANGED svcVars
  PROVE  /\ ServicesOK' /\ \A k \in Callers : Continues(k) /\ seen[k] \subseteq seen'[k]
         /\ \A k \in Callers : get[k] # None => store' \in seen'[k]
         /\ name \in DOMAIN store' /\ store'[name] = value
<1>1. /\ store' = [n \in DOMAIN store \cup {name} |-> IF n = name THEN value ELSE store[n]]
      /\ seen' = [k \in Callers |-> IF get[k] = None THEN seen[k] ELSE seen[k] \cup {store'}]
  BY DEF Insert, Put1
<1>2. name \in DOMAIN store' /\ store'[name] = value
  BY <1>1
<1>3. \A k \in Callers : seen[k] \subseteq seen'[k] /\ (get[k] # None => store' \in seen'[k])
  BY <1>1
<1>4. \A s \in Servers : Held(s)' = Held(s)
  BY DEF Held, svcVars
<1>5. \A k \in Callers : Continues(k)
  BY DEF Continues, ReplyInv, Shapes, svcVars
<1>6. QueriesOK' /\ OneQuery'
  BY <1>4, <1>5, NothingNew DEF svcVars
<1>7. Shapes'
  BY <1>1 DEF ReplyInv, Shapes, svcVars
<1>8. GetsOK'
  BY <1>3, TrueOfMore DEF ReplyInv, GetsOK, svcVars
<1>9. RepliesTrue'
  BY <1>3, TrueOfMore DEF ReplyInv, RepliesTrue, svcVars
<1> QED BY <1>2, <1>3, <1>5, <1>6, <1>7, <1>8, <1>9 DEF ServicesOK

\* A thread of the application sets a parameter while the handler works.
LEMMA SetParameterReplies ==
  ASSUME ReplyInv, NEW t, NEW w, SetParameter(t, w)
  PROVE  ReplyInv'
<1>1. Insert(t, w[1], w[2]) /\ UNCHANGED <<svcVars, at, got>>
  BY DEF SetParameter
<1>2. ServicesOK' /\ \A k \in Callers : Continues(k) /\ seen[k] \subseteq seen'[k]
  BY <1>1, InsertServices
<1>3. HandlerOK'
  BY <1>1, <1>2, HandlerGoesOn DEF svcVars
<1> QED BY <1>2, <1>3 DEF ReplyInv, ServicesOK

\* What is done of a request when its next parameter has been set.
LEMMA DoneNext ==
  ASSUME NEW req, req \in Seq(Names \X DOMAIN TypeOf), NEW todo, todo # << >>, NEW waits, NEW dbs, NEW more,
         DoneOK(req, todo, waits, dbs), dbs \subseteq more, waits => SetIn(Head(todo), more)
  PROVE  DoneOK(req, Tail(todo), waits, more)
<1>1. todo \in Seq(Names \X DOMAIN TypeOf) /\ Len(todo) <= Len(req)
  BY DEF DoneOK
<1>2. /\ Tail(todo) \in Seq(Names \X DOMAIN TypeOf) /\ Len(Tail(todo)) = Len(todo) - 1
      /\ Len(todo) \in Nat /\ Len(req) \in Nat /\ Len(todo) > 0 /\ Head(todo) = todo[1]
      /\ \A i \in 1 .. Len(Tail(todo)) : Tail(todo)[i] = todo[i + 1]
  BY <1>1
<1>3. \A i \in 1 .. Len(todo) : todo[i] = req[Len(req) - Len(todo) + i]
  BY DEF DoneOK
<1>4. ASSUME NEW i \in 1 .. Len(Tail(todo))
      PROVE  Tail(todo)[i] = req[Len(req) - Len(Tail(todo)) + i]
  <2>1. i + 1 \in 1 .. Len(todo) /\ Len(req) - Len(Tail(todo)) + i = Len(req) - Len(todo) + (i + 1)
    BY <1>2
  <2> QED BY <1>2, <1>3, <2>1
<1>5. ASSUME waits, NEW i \in 1 .. (Len(req) - Len(Tail(todo)))
      PROVE  SetIn(req[i], more)
  <2>1. CASE i \in 1 .. (Len(req) - Len(todo))
    BY <1>5, <2>1 DEF DoneOK, SetIn
  <2>2. CASE i \notin 1 .. (Len(req) - Len(todo))
    <3>1. i = Len(req) - Len(todo) + 1 /\ 1 \in 1 .. Len(todo)
      <4>1. i \in 1 .. (Len(req) - Len(todo) + 1)
        BY <1>2, <1>5
      <4>2. \A m \in Nat : i \in 1 .. (m + 1) /\ i \notin 1 .. m => i = m + 1
        OBVIOUS
      <4>3. Len(req) - Len(todo) \in Nat
        BY <1>1, <1>2
      <4> QED BY <1>2, <2>2, <4>1, <4>2, <4>3
    <3>2. req[i] = Head(todo)
      BY <1>2, <1>3, <3>1
    <3> QED BY <1>5, <3>2
  <2> QED BY <2>1, <2>2
<1>6. Len(Tail(todo)) <= Len(req)
  BY <1>1, <1>2
<1> QED BY <1>2, <1>4, <1>5, <1>6 DEF DoneOK

\* handle_set_parameters sets the next parameter, and the call has seen it set.
LEMMA SetNextReplies ==
  ASSUME ReplyInv, SetNext
  PROVE  ReplyInv'
<1>0. PICK s, w, p, new : /\ s = Order[at] /\ w = got[1] /\ p = Head(w.todo)
                          /\ new = [query |-> w.query, todo |-> Tail(w.todo), answer |-> w.answer]
  OBVIOUS
<1>1. s \in Servers /\ WorkOK(s, w) /\ at \in DOMAIN Order /\ s = "set_parameters"
  BY <1>0, Handlers DEF ReplyInv, HandlerOK, SetNext
<1>2. /\ got' = << [w EXCEPT !.todo = Tail(@)] >> /\ w.todo # << >>
      /\ Insert("spin", p[1], p[2]) /\ UNCHANGED <<svcVars, at>>
  BY <1>0 DEF SetNext
<1>3. /\ w = [query |-> w.query, todo |-> w.todo, answer |-> w.answer] /\ w.query \in hand[s]
      /\ DoneOK(w.query.req, w.todo, Waits(w.query), seen[w.query.caller])
  BY <1>1 DEF WorkOK
<1>4. got' = <<new>>
  <2>1. [w EXCEPT !.todo = Tail(@)] = new
    BY <1>0, <1>3, NewParts
  <2> QED BY <1>2, <2>1
<1>5. /\ new.query = w.query /\ new.todo = Tail(w.todo)
      /\ new = [query |-> new.query, todo |-> new.todo, answer |-> new.answer]
  BY <1>0
<1>6. /\ ServicesOK' /\ \A k \in Callers : seen[k] \subseteq seen'[k]
      /\ \A k \in Callers : get[k] # None => store' \in seen'[k]
      /\ p[1] \in DOMAIN store' /\ store'[p[1]] = p[2]
  BY <1>2, InsertServices
<1>7. w.query.caller \in Callers /\ w.query \in Held(s)
  BY <1>1, <1>3 DEF ReplyInv, Shapes, Queries, Held
<1>8. w.query.req \in Seq(Names \X DOMAIN TypeOf)
  BY <1>1, <1>7, ParametersAssumption DEF ReplyInv, QueriesOK
<1>9. Waits(w.query) => SetIn(p, seen'[w.query.caller])
  BY <1>6, <1>7 DEF Waits, SetIn
<1>10. DoneOK(w.query.req, Tail(w.todo), Waits(w.query), seen'[w.query.caller])
  BY <1>0, <1>2, <1>3, <1>6, <1>7, <1>8, <1>9, DoneNext
<1>11. WorkOK(s, new)'
  <2>1. Waits(w.query)' <=> Waits(w.query)
    BY <1>2 DEF Waits, svcVars
  <2>2. new.query \in hand'[s]
    BY <1>2, <1>3, <1>5 DEF svcVars
  <2>3. DoneOK(new.query.req, new.todo, Waits(new.query)', seen'[new.query.caller])
    BY <1>5, <1>10, <2>1 DEF DoneOK
  <2> QED BY <1>1, <1>5, <2>2, <2>3 DEF WorkOK
<1>12. HandlerOK'
  <2>1. at' = at /\ got'[1] = new /\ got' = <<got'[1]>>
    BY <1>2, <1>4
  <2> QED BY <1>0, <1>1, <1>11, <2>1 DEF HandlerOK
<1> QED BY <1>6, <1>12 DEF ReplyInv, ServicesOK

\* The answer the handler has is true of the stores its call has seen.
LEMMA WorkDone ==
  ASSUME NEW s, NEW w, NEW value, WorkOK(s, w), w.todo = << >>, Waits(w.query),
         s # "set_parameters" => w.answer # << >> /\ value = w.answer[1],
         s = "set_parameters" => w.query.req \in Seq(Names \X DOMAIN TypeOf)
  PROVE  TrueOf(s, w.query.req, value, seen[w.query.caller])
<1>1. CASE s # "set_parameters"
  BY <1>1 DEF WorkOK
<1>2. CASE s = "set_parameters"
  <2>1. PICK req, dbs : req = w.query.req /\ dbs = seen[w.query.caller]
    OBVIOUS
  <2>2. req \in Seq(Names \X DOMAIN TypeOf) /\ DoneOK(req, << >>, TRUE, dbs)
    BY <1>2, <2>1 DEF WorkOK, DoneOK
  <2>3. \A i \in DOMAIN req : SetIn(req[i], dbs)
    <3>1. Len(<< >>) = 0 /\ Len(req) - 0 = Len(req) /\ DOMAIN req = 1 .. Len(req)
      BY <2>2
    <3> QED BY <2>2, <3>1 DEF DoneOK
  <2>4. TrueOf("set_parameters", req, value, dbs)
    BY <2>3 DEF TrueOf, SetIn
  <2> QED BY <1>2, <2>1, <2>4
<1> QED BY <1>1, <1>2

\* A query that is answered: its call, if it still listens, gets this one reply.
LEMMA Answered ==
  ASSUME ReplyInv, NEW s \in Servers, NEW h \in hand[s], NEW reply,
         Dropped(s, Answers(s, h.id), <<reply>>)
  PROVE  /\ DOMAIN get' = Callers
         /\ \A k \in Callers :
              /\ Continues(k)
              /\ \/ get'[k] = get[k]
                 \/ /\ h.caller = k /\ Waits(h) /\ get[k].service = s /\ get[k].req = h.req
                    /\ get'[k].open = {} /\ get'[k].replies = <<reply>>
<1>1. DOMAIN get' = Callers
  BY DEF Dropped
<1>2. ASSUME NEW k \in Callers
      PROVE  /\ Continues(k)
             /\ \/ get'[k] = get[k]
                \/ /\ h.caller = k /\ Waits(h) /\ get[k].service = s /\ get[k].req = h.req
                   /\ get'[k].open = {} /\ get'[k].replies = <<reply>>
  <2>1. CASE \E q \in Answers(s, h.id) : q.caller = k /\ Listens(s, q)
    <3>1. PICK q \in Answers(s, h.id) : q.caller = k /\ Listens(s, q)
      BY <2>1
    <3>2. q \in Held(s) /\ h \in Held(s) /\ q.id = h.id
      BY <3>1 DEF Answers, Held
    <3>3. q = h
      BY <3>2 DEF ReplyInv, OneQuery
    <3>4. get[k] # None /\ Waits(h) /\ h.caller = k /\ s \in get[k].open
      BY <3>1, <3>3 DEF Listens, Waits
    <3>5. get[k].service = s /\ get[k].req = h.req
      BY <3>2, <3>4 DEF ReplyInv, QueriesOK
    <3>6. get[k].open \ {s} = {} /\ get[k].replies = << >> /\ IsGet(get[k])
      BY <3>4, <3>5 DEF ReplyInv, GetsOK, Shapes
    <3>7. << >> \o <<reply>> = <<reply>>
      OBVIOUS
    <3>8. get'[k] = [get[k] EXCEPT !.open = @ \ {s}, !.replies = @ \o <<reply>>]
      BY <2>1 DEF Dropped
    <3>9. get'[k] = [get[k] EXCEPT !.open = {}, !.replies = <<reply>>]
      BY <3>6, <3>7, <3>8
    <3>10. get'[k] = [nr |-> get[k].nr, service |-> get[k].service, req |-> get[k].req,
                      form |-> get[k].form, open |-> {}, replies |-> <<reply>>]
      BY <3>6, <3>9 DEF IsGet
    <3> QED BY <3>4, <3>5, <3>10 DEF Continues, IsGet
  <2>2. CASE ~ \E q \in Answers(s, h.id) : q.caller = k /\ Listens(s, q)
    <3>1. get'[k] = get[k]
      BY <2>2 DEF Dropped
    <3> QED BY <3>1 DEF Continues, ReplyInv, Shapes
  <2> QED BY <2>1, <2>2
<1> QED BY <1>1, <1>2

\* send_response: the call gets what the handler has collected or done.
LEMMA RespondReplies ==
  ASSUME ReplyInv, Respond
  PROVE  ReplyInv'
<1>0. PICK s, w, h, value, reply :
        /\ s = Order[at] /\ w = got[1] /\ h = w.query
        /\ value = IF s = "set_parameters" THEN [i \in DOMAIN h.req |-> "ok"] ELSE w.answer[1]
        /\ reply = [caller |-> h.caller, nr |-> h.nr, value |-> value]
  OBVIOUS
<1>1. /\ s \in Servers /\ WorkOK(s, w) /\ at \in DOMAIN Order /\ h \in hand[s]
      /\ w.todo = << >> /\ (s # "set_parameters" => w.answer # << >>)
  BY <1>0, Handlers DEF ReplyInv, HandlerOK, Respond, WorkOK
<1>2. /\ got' = << >> /\ UNCHANGED <<store, at, seen>>
      /\ SendResponse(s, h, value, TRUE)
  BY <1>0 DEF Respond
<1>3. /\ pending' = [pending EXCEPT ![s] = @ \ Answers(s, h.id)]
      /\ hand' = [hand EXCEPT ![s] = @ \ {h}]
      /\ Dropped(s, Answers(s, h.id), <<reply>>)
      /\ UNCHANGED <<seq, queue, calls, result>>
  BY <1>0, <1>2 DEF SendResponse
<1>4. /\ DOMAIN get' = Callers
      /\ \A k \in Callers :
           /\ Continues(k)
           /\ \/ get'[k] = get[k]
              \/ /\ h.caller = k /\ Waits(h) /\ get[k].service = s /\ get[k].req = h.req
                 /\ get'[k].open = {} /\ get'[k].replies = <<reply>>
  BY <1>1, <1>3, Answered
<1>5. /\ pending' \in [Servers -> SUBSET Queries]
      /\ \A r \in Servers : pending'[r] \subseteq pending[r]
  BY <1>1, <1>3 DEF ReplyInv, Shapes
<1>6. /\ hand' \in [Servers -> SUBSET Queries]
      /\ \A r \in Servers : hand'[r] \subseteq hand[r]
  BY <1>1, <1>3 DEF ReplyInv, Shapes
<1>7. Shapes'
  <2>1. \A k \in Callers : get'[k] # None => IsGet(get'[k])
    BY <1>4 DEF Continues
  <2> QED BY <1>2, <1>3, <1>4, <1>5, <1>6, <2>1 DEF ReplyInv, Shapes
<1>8. \A r \in Servers : Held(r)' \subseteq Held(r)
  BY <1>3, <1>5, <1>6 DEF Held
<1>9. QueriesOK' /\ OneQuery'
  BY <1>3, <1>4, <1>8, NothingNew
<1>10. RepliesTrue'
  BY <1>2, <1>3 DEF ReplyInv, RepliesTrue
<1>11. HandlerOK'
  BY <1>1, <1>2 DEF HandlerOK
<1>12. Waits(h) => TrueOf(s, h.req, reply.value, seen[h.caller])
  <2>1. s = "set_parameters" => h.req \in Seq(Names \X DOMAIN TypeOf)
    BY <1>1, ParametersAssumption DEF ReplyInv, QueriesOK, Held
  <2>2. reply.value = value /\ (s # "set_parameters" => value = w.answer[1])
    BY <1>0
  <2> QED BY <1>0, <1>1, <2>1, <2>2, WorkDone
<1>13. GetsOK'
  <2> SUFFICES ASSUME NEW k \in Callers, get'[k] # None
               PROVE  /\ get'[k].open \subseteq {get'[k].service}
                      /\ store' \in seen'[k]
                      /\ \/ get'[k].replies = << >>
                         \/ /\ get'[k].replies = <<get'[k].replies[1]>> /\ get'[k].open = {}
                            /\ TrueOf(get'[k].service, get'[k].req, get'[k].replies[1].value, seen'[k])
    BY DEF GetsOK
  <2>1. get[k] # None /\ get'[k].service = get[k].service /\ get'[k].req = get[k].req
    BY <1>4 DEF Continues
  <2>2. CASE get'[k] = get[k]
    BY <1>2, <2>1, <2>2 DEF ReplyInv, GetsOK
  <2>3. CASE get'[k] # get[k]
    <3>1. /\ h.caller = k /\ Waits(h) /\ get[k].service = s /\ get[k].req = h.req
          /\ get'[k].open = {} /\ get'[k].replies = <<reply>>
      BY <1>4, <2>3
    <3>2. get'[k].replies[1] = reply /\ store \in seen[k]
      BY <2>1, <3>1 DEF ReplyInv, GetsOK
    <3> QED BY <1>2, <1>12, <2>1, <3>1, <3>2
  <2> QED BY <2>2, <2>3
<1> QED BY <1>7, <1>9, <1>10, <1>11, <1>13 DEF ReplyInv

\* Queries, calls, replies and the work of the handler fit together at every moment.
THEOREM ReplyInvariance == Spec => []ReplyInv
<1>1. ReplyInv /\ [Next]_vars => ReplyInv'
  <2> SUFFICES ASSUME ReplyInv, [Next]_vars PROVE ReplyInv'
    OBVIOUS
  <2>1. CASE UNCHANGED vars
    BY <2>1, RepliesIdle DEF vars, paramVars
  <2>2. CASE TryReceive \/ Empty \/ Collect \/ SetNext \/ Respond
    BY <2>2, TryReceiveReplies, EmptyReplies, CollectReplies, SetNextReplies, RespondReplies
  <2>3. ASSUME NEW t \in Setters, NEW w \in LocalWrites, SetParameter(t, w) PROVE ReplyInv'
    BY <2>3, SetParameterReplies
  <2>4. ASSUME NEW t, PublishEvent(t) PROVE ReplyInv'
    BY <2>4, RepliesIdle DEF PublishEvent
  <2>5. ASSUME NEW k \in Callers, ParameterCall(k) \/ Returns(k) \/ TimesOut(k) PROVE ReplyInv'
    BY <2>5, CallReplies, ReturnReplies, TimeoutReplies
  <2> QED BY <2>1, <2>2, <2>3, <2>4, <2>5 DEF Next, Spin
<1> QED BY <1>1, InitReplies, PTL DEF Spec

\* What a ParameterClient is told is true of stores there were during its call, however
\* the handlers, other callers, timeouts and the application's threads interleave.
THEOREM RepliesTellStore == Spec => []RepliesTrue
<1>1. ReplyInv => RepliesTrue
  BY DEF ReplyInv
<1> QED BY <1>1, ReplyInvariance, PTL
=============================================================================
