---------------------------- MODULE ZenohParameters ----------------------------
(***************************************************************************)
(* The ParameterServer of the zenoh backend                                *)
(* (src/zenoh_backend/parameters.rs): a store behind a mutex, six services *)
(* that the thread in `spin` answers, and an event for every change.  The  *)
(* application sets parameters from threads of its own.  A change is in    *)
(* the store before its event is published, and the lock is not held in    *)
(* between; an event that cannot be published is lost.                     *)
(***************************************************************************)
EXTENDS ZenohService, ZenohTopic

CONSTANTS
  Initial,        \* the parameters `new` is given
  Names,          \* all names of parameters
  TypeOf,         \* the type of each value
  StartsWith,     \* str::starts_with: the names each prefix is a prefix of
  Asks,           \* the services each caller calls, and how: <<service, form>>
  Impatient,      \* callers whose calls may time out
  Reads,          \* names or prefixes a caller asks for, each a sequence
  Writes,         \* what set_parameters sets: sequences of <<name, value>>
  LocalWrites,    \* what a thread of the application sets: <<name, value>>
  MaxSets         \* bound: set_parameter calls of the application

Order == << "get_parameters", "get_parameter_types", "set_parameters",
            "set_parameters_atomically", "list_parameters", "describe_parameters" >>
Setters == Threads \ {"spin"}
Requests == {[i \in DOMAIN r |-> <<r[i], "NotSet">>] : r \in Reads} \cup Writes

ASSUME ParametersAssumption ==
  /\ "spin" \in Threads /\ "use_sim_time" \in Names
  /\ Services = {Order[i] : i \in DOMAIN Order} /\ Servers = Services
  /\ ServiceOf = [s \in Servers |-> s]
  /\ Publishers = {"events"} /\ Subscriptions = {"listener"}
  /\ Hears = [x \in Subscriptions |-> Publishers]
  /\ \A k \in Callers : \A ask \in Asks[k] : ask[1] \in Services /\ ask[2] \in Forms[k]
  /\ Impatient \subseteq Callers
  /\ Writes \subseteq Seq(Names \X DOMAIN TypeOf)
  /\ MaxSets \in Nat

VARIABLES
  store,          \* ParameterServer.store
  at,             \* the handler spin_once is in
  got,            \* the request it works on: << >> or <<[query, todo, answer]>>
  notify,         \* of each thread: the change it has made and not numbered, or << >>
  sets,           \* set_parameter calls so far
  untold,         \* history: names whose last change the events may not tell
  seen            \* history: the stores there were during the call of each caller

paramVars == <<store, at, got, notify, sets, untold>>
vars == <<svcVars, topicVars, paramVars, seen>>

-----------------------------------------------------------------------------

Put1(db, name, value) == [n \in DOMAIN db \cup {name} |-> IF n = name THEN value ELSE db[n]]

\* ParameterServer::new: every node carries use_sim_time.
NewStore == IF "use_sim_time" \in DOMAIN Initial THEN Initial
            ELSE Put1(Initial, "use_sim_time", "false")

Init ==
  /\ ServiceInit /\ TopicInit
  /\ store = NewStore
  /\ at = 1 /\ got = << >>
  /\ notify = [t \in Threads |-> << >>]
  /\ sets = 0
  /\ untold = {}
  /\ seen = [k \in Callers |-> {}]

-----------------------------------------------------------------------------
(* set_and_notify                                                          *)

Busy(t, name) ==
  \/ notify[t] # << >> /\ notify[t][1].name = name
  \/ sending[t] # << >> /\ sending[t][1].msg.name = name

\* The event carries what was set, as new or as changed.
Event_Bug(name, value) == [kind |-> IF value = "NotSet" THEN "deleted" ELSE "changed", name |-> name,
                           value |-> IF name \in DOMAIN store THEN store[name] ELSE value]
Event(name, value) == [kind |-> IF name \in DOMAIN store THEN "changed" ELSE "new",
                       name |-> name, value |-> value]

\* Under the lock: was it there, and insert.  `untold` and `seen` are history: the events
\* may not tell this change if another thread is about to publish an older one.
Insert(t, name, value) ==
  /\ store' = Put1(store, name, value)
  /\ notify' = [notify EXCEPT ![t] = << Event(name, value) >>]
  /\ untold' = IF \E u \in Threads \ {t} : Busy(u, name) THEN untold \cup {name} ELSE untold \ {name}
  /\ seen' = [k \in Callers |-> IF get[k] = None THEN seen[k] ELSE seen[k] \cup {store'}]

\* publish_event: number the event, and then `put` it.  If either fails, that is logged
\* and the event is lost.
PublishEvent(t) ==
  /\ \/ /\ notify[t] # << >>
        /\ Encode(t, "events", notify[t][1])
        /\ notify' = [notify EXCEPT ![t] = << >>]
        /\ UNCHANGED untold
     \/ Put(t) /\ UNCHANGED <<notify, untold>>
     \/ /\ \E n \in Names : Busy(t, n) /\ untold' = untold \cup {n}
        /\ PublishFails(t)
        /\ notify' = [notify EXCEPT ![t] = << >>]
  /\ UNCHANGED <<svcVars, store, at, got, sets, seen>>

Quiet(t) == notify[t] = << >> /\ sending[t] = << >>

\* set_parameter, from a thread of the application.
SetParameter(t, w) ==
  /\ t \in Setters /\ Quiet(t) /\ sets < MaxSets
  /\ Insert(t, w[1], w[2])
  /\ sets' = sets + 1
  /\ UNCHANGED <<svcVars, topicVars, at, got>>

-----------------------------------------------------------------------------
(* spin_once: the six handlers in turn, each `while let Ok(Some(..))`.     *)

NextHandler_Bug(i) == IF i = Len(Order) - 1 THEN 1 ELSE i + 1
NextHandler(i) == IF i = Len(Order) THEN 1 ELSE i + 1

\* The next request of the handler; a malformed one ends its loop like an empty queue.
TryReceive ==
  LET s == Order[at]
      q == Head(queue[s]) IN
  /\ got = << >> /\ queue[s] # << >>
  /\ Receive(s, FALSE, TRUE)
  /\ IF Accepts(FALSE, q)
     THEN got' = << [query |-> q, todo |-> q.req, answer |-> << >>] >> /\ UNCHANGED at
     ELSE at' = NextHandler(at) /\ UNCHANGED got
  /\ UNCHANGED <<topicVars, store, notify, sets, untold, seen>>

Empty ==
  /\ got = << >> /\ queue[Order[at]] = << >>
  /\ \E s \in Servers : queue[s] # << >>      \* otherwise spin goes round with nothing to do
  /\ at' = NextHandler(at)
  /\ UNCHANGED <<svcVars, topicVars, store, got, notify, sets, untold, seen>>

\* db.get(name), or NotSet
Lookup_Bug(db, name) == IF name \in DOMAIN NewStore THEN NewStore[name] ELSE "NotSet"
Lookup(db, name) == IF name \in DOMAIN db THEN db[name] ELSE "NotSet"

\* What a handler collects under one lock.  The names that list_parameters tells come in
\* the order of the BTreeMap: the set says all.  Setting atomically is not implemented.
Answer(service, db, req) ==
  CASE service = "get_parameters" -> [i \in DOMAIN req |-> Lookup(db, req[i][1])]
    [] service = "get_parameter_types" -> [i \in DOMAIN req |-> TypeOf[Lookup(db, req[i][1])]]
    [] service = "set_parameters_atomically" -> [i \in DOMAIN req |-> "failed"]
    [] service = "list_parameters" ->
         {n \in DOMAIN db : req = << >> \/ \E i \in DOMAIN req : n \in StartsWith[req[i][1]]}
    [] service = "describe_parameters" ->
         [i \in DOMAIN req |-> IF req[i][1] \in DOMAIN db THEN TypeOf[db[req[i][1]]] ELSE "unknown"]

\* handle_get_parameters and the four others that set nothing: read, then respond.
Collect ==
  /\ got # << >> /\ got[1].answer = << >>
  /\ Order[at] # "set_parameters"
  /\ got' = << [got[1] EXCEPT !.todo = << >>,
                              !.answer = <<Answer(Order[at], store, got[1].query.req)>>] >>
  /\ UNCHANGED <<svcVars, topicVars, store, at, notify, sets, untold, seen>>

\* handle_set_parameters: set_and_notify for each parameter in turn.
SetNext ==
  /\ got # << >> /\ Order[at] = "set_parameters" /\ Quiet("spin")
  /\ got[1].todo # << >>
  /\ LET w == Head(got[1].todo) IN Insert("spin", w[1], w[2])
  /\ got' = << [got[1] EXCEPT !.todo = Tail(@)] >>
  /\ UNCHANGED <<svcVars, topicVars, at, sets>>

Respond ==
  /\ got # << >> /\ got[1].todo = << >> /\ Quiet("spin")
  /\ Order[at] # "set_parameters" => got[1].answer # << >>
  /\ SendResponse(Order[at], got[1].query,
       IF Order[at] = "set_parameters" THEN [i \in DOMAIN got[1].query.req |-> "ok"]
       ELSE got[1].answer[1], TRUE)
  /\ got' = << >>
  /\ UNCHANGED <<topicVars, store, at, notify, sets, untold, seen>>

Spin == TryReceive \/ Empty \/ Collect \/ SetNext \/ Respond \/ PublishEvent("spin")

-----------------------------------------------------------------------------
(* ParameterClient, and other clients of the services.                     *)

ParameterCall(k) ==
  /\ \E ask \in Asks[k] :
       \E req \in IF ask[1] \in {"set_parameters", "set_parameters_atomically"} THEN Writes
                  ELSE Requests \ Writes :
         Call(k, ask[1], req, ask[2])
  /\ seen' = [seen EXCEPT ![k] = {store}]
  /\ UNCHANGED <<topicVars, paramVars>>

Returns(k) == Return(k) /\ UNCHANGED <<topicVars, paramVars, seen>>
TimesOut(k) == k \in Impatient /\ Timeout(k) /\ UNCHANGED <<topicVars, paramVars, seen>>

Next ==
  \/ Spin
  \/ \E t \in Setters : (\E w \in LocalWrites : SetParameter(t, w)) \/ PublishEvent(t)
  \/ \E k \in Callers : ParameterCall(k) \/ Returns(k) \/ TimesOut(k)

\* `spin` polls until it is stopped.  Nothing is assumed of timeouts.
Fairness == WF_vars(Spin) /\ \A k \in Callers : WF_vars(Returns(k))
Spec == Init /\ [][Next]_vars /\ Fairness

-----------------------------------------------------------------------------
(* Properties.                                                             *)

\* An answer to a request is true of stores in dbs: of one of them, if it tells values,
\* types, descriptions or names; of one for each parameter, if it says that it is set.
TrueOf(service, req, answer, dbs) ==
  LET named(db, i) == req[i][1] \in DOMAIN db
      value(db, i) == db[req[i][1]] IN
  /\ service = "get_parameters" => \E db \in dbs : \A i \in DOMAIN req :
       answer[i] = IF named(db, i) THEN value(db, i) ELSE "NotSet"
  /\ service = "get_parameter_types" => \E db \in dbs : \A i \in DOMAIN req :
       answer[i] = IF named(db, i) THEN TypeOf[value(db, i)] ELSE TypeOf["NotSet"]
  /\ service = "describe_parameters" => \E db \in dbs : \A i \in DOMAIN req :
       answer[i] = IF named(db, i) THEN TypeOf[value(db, i)] ELSE "unknown"
  /\ service = "list_parameters" => \E db \in dbs :
       answer = {n \in DOMAIN db : req # << >> => \E i \in DOMAIN req : n \in StartsWith[req[i][1]]}
  /\ service = "set_parameters" => \A i \in DOMAIN req : \E db \in dbs :
       named(db, i) /\ value(db, i) = req[i][2]
  /\ service = "set_parameters_atomically" => \A i \in DOMAIN req : answer[i] = "failed"

\* What a ParameterClient is told is true.  The values, types, descriptions and names
\* it gets are those of one store that there was between its call and the reply,
\* whatever other threads set in between; a parameter it was told is set was in the
\* store with that value.
RepliesTrue ==
  \A k \in Callers : result[k] # None /\ result[k].reply # None =>
    TrueOf(result[k].service, result[k].req, result[k].reply.value, seen[k])

\* parameter_events tell the truth: a listener that has taken all events in the order
\* they came, when nobody is about to publish one, has the store, but for names of which
\* the last event could not be published (a warning is logged) and names that two threads
\* last set at the same time (their events come after the lock is released).
EventsAgree ==
  (\A t \in Threads : Quiet(t)) =>
    \A n \in Names \ untold :
      LET about == {i \in DOMAIN samples["listener"] : samples["listener"][i].msg.name = n}
          last == CHOOSE i \in about : \A j \in about : j <= i IN
      IF about = {}
      THEN (n \in DOMAIN store) = (n \in DOMAIN NewStore) /\ (n \in DOMAIN store => store[n] = NewStore[n])
      ELSE n \in DOMAIN store /\ store[n] = samples["listener"][last].msg.value

\* "Await and answer parameter requests" (spin): every call returns, without its
\* timeout, also when a malformed request is in front of it.
SpinAnswers == \A k \in Callers : get[k] # None ~> get[k] = None
=============================================================================
