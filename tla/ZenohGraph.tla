------------------------------ MODULE ZenohGraph ------------------------------
(***************************************************************************)
(* The ROS graph of the zenoh backend.  Nodes and their entities have       *)
(* liveliness tokens (src/zenoh_backend/node.rs); every Context has a       *)
(* liveliness subscriber whose callback keeps a GraphCache and announces    *)
(* each change to the streams that subscribed (graph_cache.rs, context.rs). *)
(* wait_for_publisher and wait_for_subscription wait on such a stream.      *)
(***************************************************************************)
EXTENDS ZenohEntities, FiniteSets

CONSTANTS
  Contexts,      \* zenoh sessions, one for each Context
  Observers,     \* the Contexts whose GraphCache is modelled
  NodeNames,     \* fully qualified names of nodes
  Requests,      \* what create_* calls declare, each a sequence of entities
  Tasks,         \* threads that call create_*
  Waits,         \* calls of wait_for
  WaitsIn,       \* the Context of each wait
  WaitsFor,      \* the kind and the name each wait is about
  TokensFail,    \* whether declaring a token may fail
  MaxNodes,      \* bound: nodes each Context makes
  MaxMade,       \* bound: nodes and entities made
  MaxLosses,     \* bound: how often zenoh loses a connection
  None

Entities == {NodeEntity} \cup UNION {{r[i] : i \in DOMAIN r} : r \in Requests}
Ids == 0..(MaxMade - 1)
Keys == [zid: Contexts, node: Ids, id: Ids, fqn: NodeNames, entity: Entities]
Samples == [op: {"put", "delete"}, keys: (SUBSET Keys) \ {{}}]
Events == [event: {"EntityDeclared", "EntityUndeclared"}, key: Keys]

ASSUME ConstantsAssumption ==
  /\ Requests \subseteq Seq(Entities \ {NodeEntity}) \ {<< >>}
  /\ None \notin Events
  /\ Observers \subseteq Contexts
  /\ WaitsIn \in [Waits -> Observers]
  /\ WaitsFor \in [Waits -> [kind: {"Publisher", "Subscription"}, name: {e.name : e \in Entities \ {NodeEntity}}]]
  /\ TokensFail \in BOOLEAN
  /\ MaxNodes \in [Contexts -> Nat] /\ MaxMade \in Nat /\ MaxLosses \in Nat

VARIABLES
  nextNodeId,    \* ContextInner.next_node_id
  nodes,         \* the Nodes the application holds: [zid, node, fqn]
  nextEntityId,  \* Node.next_entity_id
  live,          \* nodes and entities that exist: [key, nr, token]
  made,          \* how many were ever made; gives each its nr
  call,          \* the create_* call of each task, or None
  linked,        \* the sessions a session is connected with
  losses,        \* how often a connection was lost
  inbox,         \* liveliness samples on their way to a Context, from each session in order
  cache,         \* GraphCache.entities, by key
  announcing,    \* the change a callback has applied and not broadcast yet
  subscribers,   \* GraphCache.subscribers
  channel,       \* the events a stream has not taken
  wait           \* idle -> subscribed -> receiving -> done; dropped at any time

nodeVars == <<nextNodeId, nodes, nextEntityId, live, made, call>>
netVars == <<linked, losses, inbox>>
cacheVars == <<cache, announcing>>
waitVars == <<subscribers, channel, wait>>
vars == <<nodeVars, netVars, cacheVars, waitVars>>

-----------------------------------------------------------------------------
(* zenoh: a token that is declared or dropped is told to the subscribers of *)
(* every session that is connected.                                        *)

\* The samples of several tokens may come in any order: one entry of the queue.
With(queue, op, keys) == IF keys = {} THEN queue ELSE Append(queue, [op |-> op, keys |-> keys])
TokenKeys(es) == {e.key : e \in {x \in es : x.token}}
Tell(c, op, es) ==
  inbox' = [o \in Observers |->
             IF c \in linked[o] THEN [inbox[o] EXCEPT ![c] = With(@, op, TokenKeys(es))]
             ELSE inbox[o]]

\* declare_liveliness: a token that cannot be declared is only logged.
TokenResults == IF TokensFail THEN BOOLEAN ELSE {TRUE}
Declare(e) == Tell(e.key.zid, "put", {e})
Undeclare(c, es) == Tell(c, "delete", es)

\* AtomicU64::fetch_add on next_node_id and next_entity_id.
FetchAdd_Bug(n) == n
FetchAdd(n) == n + 1

-----------------------------------------------------------------------------

Init ==
  /\ nextNodeId = [c \in Contexts |-> 0]
  /\ nodes = {}
  /\ nextEntityId = [n \in Contexts \X Ids |-> 0]
  /\ live = {}
  /\ made = 0
  /\ call = [t \in Tasks |-> None]
  /\ linked = [o \in Observers |-> Contexts]
  /\ losses = 0
  /\ inbox = [o \in Observers |-> [c \in Contexts |-> << >>]]
  /\ cache = [o \in Observers |-> {}]
  /\ announcing = [o \in Observers |-> [c \in Contexts |-> None]]
  /\ subscribers = [o \in Observers |-> {}]
  /\ channel = [w \in Waits |-> << >>]
  /\ wait = [w \in Waits |-> "idle"]

-----------------------------------------------------------------------------
(* Nodes and entities.                                                     *)

\* Context::new_node, Node::new: the token of a node has the node's id twice.
NewNode(c, fqn) ==
  /\ made < MaxMade /\ nextNodeId[c] < MaxNodes[c]
  /\ \E token \in TokenResults :
       LET id == nextNodeId[c]
           e == [key |-> [zid |-> c, node |-> id, id |-> id, fqn |-> fqn, entity |-> NodeEntity],
                 nr |-> made, token |-> token] IN
       /\ live' = live \cup {e}
       /\ nodes' = nodes \cup {[zid |-> c, node |-> id, fqn |-> fqn]}
       /\ Declare(e)
  /\ nextNodeId' = [nextNodeId EXCEPT ![c] = FetchAdd(@)]
  /\ made' = made + 1
  /\ UNCHANGED <<nextEntityId, call, linked, losses, cacheVars, waitVars>>

\* A create_* method begins; it borrows the Node.
BeginCreate(t, n, r) ==
  /\ call[t] = None
  /\ call' = [call EXCEPT ![t] = [node |-> n, todo |-> r, done |-> {}]]
  /\ UNCHANGED <<nextNodeId, nodes, nextEntityId, live, made, netVars, cacheVars, waitVars>>

IsLast(todo) == Len(todo) = 1

\* The next entity of the method: its data endpoint, an id from
\* next_entity_id, its token.  With the last one, the method returns.
DeclareEntity(t) ==
  LET n == call[t].node
      id == nextEntityId[<<n.zid, n.node>>] IN
  /\ call[t] # None
  /\ made < MaxMade
  /\ \E token \in TokenResults :
       LET e == [key |-> [zid |-> n.zid, node |-> n.node, id |-> id, fqn |-> n.fqn,
                          entity |-> Head(call[t].todo)],
                 nr |-> made, token |-> token] IN
       /\ live' = live \cup {e}
       /\ Declare(e)
       /\ call' = [call EXCEPT ![t] =
                     IF IsLast(@.todo) THEN None
                     ELSE [node |-> n, todo |-> Tail(@.todo), done |-> @.done \cup {e}]]
  /\ nextEntityId' = [nextEntityId EXCEPT ![<<n.zid, n.node>>] = FetchAdd(@)]
  /\ made' = made + 1
  /\ UNCHANGED <<nextNodeId, nodes, linked, losses, cacheVars, waitVars>>

\* The data endpoint cannot be declared: the method returns with `?`, and the
\* entities it has made are dropped, with their tokens.  A client declares none.
CreateFails(t) ==
  /\ call[t] # None
  /\ Head(call[t].todo).kind # "ServiceClient"
  /\ live' = live \ call[t].done
  /\ Undeclare(call[t].node.zid, call[t].done)
  /\ call' = [call EXCEPT ![t] = None]
  /\ UNCHANGED <<nextNodeId, nodes, nextEntityId, made, linked, losses, cacheVars, waitVars>>

InCalls == UNION {call[t].done : t \in {u \in Tasks : call[u] # None}}

\* The application drops a publisher, subscription, client or server.
DropEntity(e) ==
  /\ e.key.entity # NodeEntity /\ e \notin InCalls
  /\ live' = live \ {e}
  /\ Undeclare(e.key.zid, {e})
  /\ UNCHANGED <<nextNodeId, nodes, nextEntityId, made, call, linked, losses, cacheVars, waitVars>>

\* The application drops a Node, when no method runs on it.  Only the token of the
\* node itself goes: its entities live on by themselves.
DropNode(n) ==
  LET gone == {e \in live : /\ e.key.entity = NodeEntity
                            /\ e.key.zid = n.zid /\ e.key.node = n.node} IN
  /\ \A t \in Tasks : call[t] # None => call[t].node # n
  /\ nodes' = nodes \ {n}
  /\ live' = live \ gone
  /\ Undeclare(n.zid, gone)
  /\ UNCHANGED <<nextNodeId, nextEntityId, made, call, linked, losses, cacheVars, waitVars>>

-----------------------------------------------------------------------------
(* zenoh: connections.                                                     *)

TokensOf(c) == TokenKeys({e \in live : e.key.zid = c})
Also(o, c, op) == inbox' = [inbox EXCEPT ![o][c] = With(@, op, TokensOf(c))]

\* with_options: a subscriber with history gets the tokens that are there, and so
\* it does when a connection comes back.
Link(o, c) ==
  /\ c \notin linked[o]
  /\ linked' = [linked EXCEPT ![o] = @ \cup {c}]
  /\ Also(o, c, "put")
  /\ UNCHANGED <<nodeVars, losses, cacheVars, waitVars>>

\* The tokens of a session that is lost, or crashed, are deleted.
Unlink(o, c) ==
  /\ c \in linked[o] /\ c # o /\ losses < MaxLosses
  /\ linked' = [linked EXCEPT ![o] = @ \ {c}]
  /\ losses' = losses + 1
  /\ Also(o, c, "delete")
  /\ UNCHANGED <<nodeVars, cacheVars, waitVars>>

-----------------------------------------------------------------------------
(* The callback of the liveliness subscriber.                              *)

\* The callback takes the next sample of the session c, when it is done with the last.
Sample(o, c, k, op) ==
  LET queue == inbox[o][c] IN
  /\ queue # << >> /\ Head(queue).op = op /\ k \in Head(queue).keys
  /\ announcing[o][c] = None
  /\ inbox' = [inbox EXCEPT ![o][c] =
                 IF Head(queue).keys = {k} THEN Tail(queue) ELSE [queue EXCEPT ![1].keys = @ \ {k}]]

Announce(event, k) == [event |-> event, key |-> k]

\* apply_put: into the map, under its lock; the broadcast comes after.
ApplyPut(o, c, k) ==
  /\ Sample(o, c, k, "put")
  /\ cache' = [cache EXCEPT ![o] = @ \cup {k}]
  /\ announcing' = [announcing EXCEPT ![o][c] = Announce("EntityDeclared", k)]
  /\ UNCHANGED <<nodeVars, linked, losses, waitVars>>

\* apply_delete: a key that is not in the map is not announced.
ApplyDelete(o, c, k) ==
  /\ Sample(o, c, k, "delete")
  /\ cache' = [cache EXCEPT ![o] = @ \ {k}]
  /\ announcing' = [announcing EXCEPT ![o][c] =
                      IF k \in cache[o] THEN Announce("EntityUndeclared", k) ELSE None]
  /\ UNCHANGED <<nodeVars, linked, losses, waitVars>>

\* A receiver is closed when its wait is over.
Open_Bug(w) == wait[w] = "receiving"
Open(w) == wait[w] \in {"subscribed", "receiving"}

\* broadcast: closed receivers are forgotten, all others get the event.
Broadcast(o, c) ==
  LET subs == {w \in subscribers[o] : Open(w)} IN
  /\ announcing[o][c] # None
  /\ subscribers' = [subscribers EXCEPT ![o] = subs]
  /\ channel' = [w \in Waits |->
                   IF w \in subs THEN Append(channel[w], announcing[o][c]) ELSE channel[w]]
  /\ announcing' = [announcing EXCEPT ![o][c] = None]
  /\ UNCHANGED <<nodeVars, netVars, cache, wait>>

-----------------------------------------------------------------------------
(* wait_for_publisher, wait_for_subscription.                              *)

Matches(w, entity) ==
  /\ entity # NodeEntity
  /\ entity.kind = WaitsFor[w].kind /\ entity.name = WaitsFor[w].name

\* count_kind_on_topic(kind, topic) > 0
Found(w) == \E k \in cache[WaitsIn[w]] : Matches(w, k.entity)

Ends(w, how) ==
  /\ wait' = [wait EXCEPT ![w] = how]
  /\ channel' = [channel EXCEPT ![w] = << >>]

\* wait_for: subscribes before it looks.
Subscribe(w) ==
  /\ wait[w] = "idle"
  /\ wait' = [wait EXCEPT ![w] = "subscribed"]
  /\ subscribers' = [subscribers EXCEPT ![WaitsIn[w]] = @ \cup {w}]
  /\ UNCHANGED <<nodeVars, netVars, cacheVars, channel>>

Check(w) ==
  /\ wait[w] = "subscribed"
  /\ \/ Found(w) /\ Ends(w, "done")
     \/ ~Found(w) /\ wait' = [wait EXCEPT ![w] = "receiving"] /\ UNCHANGED channel
  /\ UNCHANGED <<nodeVars, netVars, cacheVars, subscribers>>

\* Only a declared entity of the kind and name ends the wait.
IsAwaited(w, a) == a.event = "EntityDeclared" /\ Matches(w, a.key.entity)

Receive(w) ==
  /\ wait[w] = "receiving" /\ channel[w] # << >>
  /\ \/ IsAwaited(w, Head(channel[w])) /\ Ends(w, "done")
     \/ /\ ~IsAwaited(w, Head(channel[w]))
        /\ channel' = [channel EXCEPT ![w] = Tail(@)]
        /\ UNCHANGED wait
  /\ UNCHANGED <<nodeVars, netVars, cacheVars, subscribers>>

\* The application drops the future.
DropWait(w) ==
  /\ Open(w)
  /\ Ends(w, "dropped")
  /\ UNCHANGED <<nodeVars, netVars, cacheVars, subscribers>>

-----------------------------------------------------------------------------

Create ==
  \/ \E c \in Contexts, fqn \in NodeNames : NewNode(c, fqn)
  \/ \E t \in Tasks, n \in nodes, r \in Requests : BeginCreate(t, n, r)
  \/ \E t \in Tasks : DeclareEntity(t)
  \/ \E t \in Tasks : CreateFails(t)
Drop ==
  \/ \E e \in live : DropEntity(e)
  \/ \E n \in nodes : DropNode(n)
Connect == \E o \in Observers, c \in Contexts : Link(o, c) \/ Unlink(o, c)
Callback(o, c) ==
  \/ \E k \in UNION {inbox[o][c][i].keys : i \in {1} \cap DOMAIN inbox[o][c]} :
       ApplyPut(o, c, k) \/ ApplyDelete(o, c, k)
  \/ Broadcast(o, c)
WaitFor(w) == Subscribe(w) \/ Check(w) \/ Receive(w)

Next ==
  \/ Create \/ Drop \/ Connect
  \/ \E o \in Observers, c \in Contexts : Callback(o, c)
  \/ \E w \in Waits : WaitFor(w) \/ DropWait(w)

\* zenoh runs the callbacks, and the executor a wait that can go on.
Fairness ==
  /\ \A o \in Observers, c \in Contexts : WF_vars(Callback(o, c))
  /\ \A w \in Waits : WF_vars(Check(w) \/ Receive(w))
Spec == Init /\ [][Next]_vars /\ Fairness

-----------------------------------------------------------------------------
(* Properties.                                                             *)

\* The types of the variables.
TypeOK ==
  /\ nextNodeId \in [Contexts -> Nat]
  /\ nodes \subseteq [zid: Contexts, node: Ids, fqn: NodeNames]
  /\ nextEntityId \in [Contexts \X Ids -> Nat]
  /\ live \subseteq [key: Keys, nr: Ids, token: BOOLEAN]
  /\ made \in 0..MaxMade
  /\ \A t \in Tasks : call[t] # None =>
       /\ call[t].node \in nodes
       /\ call[t].todo \in Seq(Entities) \ {<< >>}
       /\ call[t].done \subseteq live
  /\ linked \in [Observers -> SUBSET Contexts]
  /\ losses \in 0..MaxLosses
  /\ inbox \in [Observers -> [Contexts -> Seq(Samples)]]
  /\ cache \in [Observers -> SUBSET Keys]
  /\ announcing \in [Observers -> [Contexts -> Events \cup {None}]]
  /\ subscribers \in [Observers -> SUBSET Waits]
  /\ channel \in [Waits -> Seq(Events)]
  /\ wait \in [Waits -> {"idle", "subscribed", "receiving", "done", "dropped"}]

Visible(o) == {e \in live : e.token /\ e.key.zid \in linked[o]}

\* publisher_count, subscription_count and node_names are right: once the
\* samples of its peers are in, a GraphCache has each entity with a token that is
\* reachable, once, and nothing else.  It has only their keys to tell them apart,
\* and the entities of a create_* call that failed half-way must be gone.
CacheIsGraph ==
  \A o \in Observers : (\A c \in Contexts : inbox[o][c] = << >>) =>
    /\ cache[o] = {e.key : e \in Visible(o)}
    /\ \A e, f \in Visible(o) : e.key = f.key => e = f

\* "Subscribe *before* checking the current count, so an entity that appears
\* between the check and the subscription is not missed" (wait_for): as long as
\* there is such an entity, a wait that goes on waiting has the event that ends it, or
\* a callback is about to send it.
NoMissedEntity ==
  \A w \in Waits : wait[w] = "receiving" /\ Found(w) =>
    \/ \E i \in DOMAIN channel[w] : IsAwaited(w, channel[w][i])
    \/ /\ w \in subscribers[WaitsIn[w]]
       /\ \E c \in Contexts : LET a == announcing[WaitsIn[w]][c] IN a # None /\ IsAwaited(w, a)

\* A wait_for ends, or is dropped, if an entity it waits for stays reachable.
Available(w) == \E e \in Visible(WaitsIn[w]) : Matches(w, e.key.entity)
WaitResolves ==
  \A w \in Waits : <>[]Available(w) => (wait[w] = "receiving" ~> wait[w] # "receiving")
=============================================================================
