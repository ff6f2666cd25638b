--------------------------- MODULE ZenohGraph_proofs ---------------------------
(***************************************************************************)
(* Proofs about ZenohGraph: its types, that a GraphCache is the graph once *)
(* its samples are in, and that wait_for misses no entity, for all sets of *)
(* Contexts, nodes, requests, tasks and waits.                             *)
(***************************************************************************)
EXTENDS ZenohGraph, TLAPS

LiveSet == [key: Keys, nr: Ids, token: BOOLEAN]
CallSet == [node: [zid: Contexts, node: Ids, fqn: NodeNames],
            todo: Seq(Entities \ {NodeEntity}), done: SUBSET LiveSet]

\* What a create_* call in progress has made is its own, and is no node.
CallsOK ==
  /\ call \in [Tasks -> CallSet \cup {None}]
  /\ \A t \in Tasks : call[t] # None =>
       \A e \in call[t].done : e.key.entity # NodeEntity /\ e.key.zid = call[t].node.zid
  /\ \A t, u \in Tasks : t # u /\ call[t] # None /\ call[u] # None => call[t].done \cap call[u].done = {}

\* The counters are ahead of everything they numbered.
IdsOK ==
  /\ \A c \in Contexts : nextNodeId[c] <= made
  /\ \A p \in Contexts \X Ids : nextEntityId[p] <= made
  /\ \A e \in live : e.nr < made
  /\ \A n \in nodes : n.node < nextNodeId[n.zid]
  /\ \A e \in live :
       IF e.key.entity = NodeEntity THEN e.key.id = e.key.node /\ e.key.node < nextNodeId[e.key.zid]
       ELSE e.key.id < nextEntityId[<<e.key.zid, e.key.node>>]

\* So keys tell entities apart.
KeysOK == \A e, f \in live : e.key = f.key => e = f

\* A wait that is open is subscribed.
WaitsOK ==
  /\ \A w \in Waits : Open(w) => w \in subscribers[WaitsIn[w]]
  /\ NoMissedEntity

\* The last sample on its way about a key, or the cache if there is none, is right.
Shown(o) == {e.key : e \in Visible(o)}
Agrees(q, k, cached, shown) ==
  /\ (\A i \in DOMAIN q : k \notin q[i].keys) => (k \in cached <=> k \in shown)
  /\ \A i \in DOMAIN q :
       /\ k \in q[i].keys
       /\ \A j \in DOMAIN q : j > i => k \notin q[j].keys
       => (q[i].op = "put" <=> k \in shown)
QueueOK ==
  /\ \A o \in Observers, c \in Contexts : \A i \in DOMAIN inbox[o][c] : \A k \in inbox[o][c][i].keys : k.zid = c
  /\ \A o \in Observers, k \in Keys : Agrees(inbox[o][k.zid], k, cache[o], Shown(o))

IndInv == TypeOK /\ CallsOK /\ IdsOK /\ KeysOK /\ WaitsOK /\ QueueOK

USE DEF nodeVars, netVars, cacheVars, waitVars

-----------------------------------------------------------------------------
(* Facts about the operators.                                              *)

\* With keeps the type of a queue.
LEMMA WithType ==
  ASSUME NEW q \in Seq(Samples), NEW op \in {"put", "delete"}, NEW keys \in SUBSET Keys
  PROVE  With(q, op, keys) \in Seq(Samples)
<1>1. keys # {} => [op |-> op, keys |-> keys] \in Samples
  BY DEF Samples
<1> QED BY <1>1 DEF With

\* A sample about other keys changes nothing for k.
LEMMA WithOther ==
  ASSUME NEW q \in Seq(Samples), NEW op \in {"put", "delete"}, NEW keys \in SUBSET Keys,
         NEW k \in Keys, k \notin keys, NEW cached, NEW shown,
         Agrees(q, k, cached, shown)
  PROVE  Agrees(With(q, op, keys), k, cached, shown)
<1>1. CASE keys = {}
  BY <1>1 DEF With
<1>2. CASE keys # {}
  <2> DEFINE s == [op |-> op, keys |-> keys]
             r == Append(q, s)
  <2>1. /\ s \in Samples /\ s.keys = keys
        /\ With(q, op, keys) = r
        /\ DOMAIN r = 1..(Len(q) + 1) /\ DOMAIN q = 1..Len(q) /\ Len(q) \in Nat
        /\ \A i \in DOMAIN q : r[i] = q[i]
        /\ r[Len(q) + 1] = s
    BY <1>2 DEF With, Samples
  <2> HIDE DEF r, s
  <2>2. Agrees(r, k, cached, shown)
    <3>1. ASSUME \A i \in DOMAIN r : k \notin r[i].keys PROVE k \in cached <=> k \in shown
      <4>1. \A i \in DOMAIN q : k \notin q[i].keys
        BY <2>1, <3>1
      <4> QED BY <4>1 DEF Agrees
    <3>2. ASSUME NEW i \in DOMAIN r, k \in r[i].keys, \A j \in DOMAIN r : j > i => k \notin r[j].keys
          PROVE  r[i].op = "put" <=> k \in shown
      <4>1. i \in DOMAIN q /\ k \in q[i].keys /\ r[i] = q[i]
        BY <2>1, <3>2
      <4>2. \A j \in DOMAIN q : j > i => k \notin q[j].keys
        BY <2>1, <3>2
      <4> QED BY <4>1, <4>2 DEF Agrees
    <3> QED BY <3>1, <3>2 DEF Agrees
  <2> QED BY <2>1, <2>2
<1> QED BY <1>1, <1>2

\* A sample about k settles what is shown of k.
LEMMA WithThis ==
  ASSUME NEW q \in Seq(Samples), NEW op \in {"put", "delete"}, NEW keys \in SUBSET Keys,
         NEW k \in keys, NEW cached, NEW shown,
         k \in shown <=> op = "put"
  PROVE  Agrees(With(q, op, keys), k, cached, shown)
<1> DEFINE s == [op |-> op, keys |-> keys]
           r == Append(q, s)
<1>1. /\ s \in Samples /\ s.keys = keys /\ s.op = op
      /\ With(q, op, keys) = r
      /\ DOMAIN r = 1..(Len(q) + 1) /\ Len(q) \in Nat
      /\ r[Len(q) + 1] = s
  BY DEF With, Samples
<1> HIDE DEF r, s
<1>2. Len(q) + 1 \in DOMAIN r /\ k \in r[Len(q) + 1].keys
  BY <1>1
<1>3. ASSUME NEW i \in DOMAIN r, \A j \in DOMAIN r : j > i => k \notin r[j].keys
      PROVE  i = Len(q) + 1
  BY <1>1, <1>2, <1>3
<1>4. Agrees(r, k, cached, shown)
  BY <1>1, <1>2, <1>3 DEF Agrees
<1> QED BY <1>1, <1>4

\* Taking the sample about k at the head of the queue.
Taken(q, k) == IF Head(q).keys = {k} THEN Tail(q) ELSE [q EXCEPT ![1].keys = @ \ {k}]

\* A queue whose first sample has lost a key is a queue.
LEMMA TakenType ==
  ASSUME NEW q \in Seq(Samples), q # << >>, NEW k \in Head(q).keys
  PROVE  Taken(q, k) \in Seq(Samples)
<1>1. CASE Head(q).keys = {k}
  BY <1>1 DEF Taken
<1>2. CASE Head(q).keys # {k}
  <2>1. Len(q) \in Nat /\ 1 \in 1..Len(q) /\ DOMAIN q = 1..Len(q) /\ q[1] = Head(q) /\ q[1] \in Samples
    OBVIOUS
  <2>2. [q[1] EXCEPT !.keys = @ \ {k}] \in Samples
    BY <1>2, <2>1 DEF Samples
  <2>3. Taken(q, k) = [q EXCEPT ![1] = [q[1] EXCEPT !.keys = @ \ {k}]]
    BY <1>2 DEF Taken
  <2> QED BY <2>1, <2>2, <2>3
<1> QED BY <1>1, <1>2

\* Taking the only or the last word about k from the head puts it into the cache.
LEMMA TakenThis ==
  ASSUME NEW q \in Seq(Samples), q # << >>, NEW k \in Head(q).keys,
         NEW cached, NEW shown, NEW now,
         Agrees(q, k, cached, shown), k \in now <=> Head(q).op = "put"
  PROVE  Agrees(Taken(q, k), k, now, shown)
<1> DEFINE r == Taken(q, k)
<1>1. Len(q) \in Nat /\ 1 \in 1..Len(q) /\ DOMAIN q = 1..Len(q) /\ q[1] = Head(q)
  OBVIOUS
<1>2. CASE Head(q).keys = {k}
  <2>1. /\ DOMAIN r = 1..(Len(q) - 1)
        /\ \A i \in DOMAIN r : i + 1 \in DOMAIN q /\ r[i] = q[i + 1]
        /\ \A j \in DOMAIN q : j > 1 => j - 1 \in DOMAIN r /\ r[j - 1] = q[j]
    BY <1>1, <1>2 DEF Taken
  <2> HIDE DEF r
  <2>2. ASSUME \A i \in DOMAIN r : k \notin r[i].keys PROVE k \in now <=> k \in shown
    <3>1. \A j \in DOMAIN q : j > 1 => k \notin q[j].keys
      BY <2>1, <2>2
    <3> QED BY <1>1, <3>1 DEF Agrees
  <2>3. ASSUME NEW i \in DOMAIN r, k \in r[i].keys, \A j \in DOMAIN r : j > i => k \notin r[j].keys
        PROVE  r[i].op = "put" <=> k \in shown
    <3>1. i + 1 \in DOMAIN q /\ r[i] = q[i + 1] /\ i \in Nat
      BY <1>1, <2>1
    <3>2. \A j \in DOMAIN q : j > i + 1 => k \notin q[j].keys
      <4>1. ASSUME NEW j \in DOMAIN q, j > i + 1 PROVE k \notin q[j].keys
        <5>1. j - 1 \in DOMAIN r /\ r[j - 1] = q[j] /\ j - 1 > i
          BY <1>1, <2>1, <3>1, <4>1
        <5> QED BY <5>1, <2>3
      <4> QED BY <4>1
    <3> QED BY <2>3, <3>1, <3>2 DEF Agrees
  <2> QED BY <2>2, <2>3 DEF Agrees, r
<1>3. CASE Head(q).keys # {k}
  <2>1. /\ DOMAIN r = DOMAIN q
        /\ k \notin r[1].keys
        /\ \A i \in DOMAIN q : i # 1 => r[i] = q[i]
    BY <1>1, <1>3 DEF Taken, Samples
  <2> HIDE DEF r
  <2>2. ASSUME \A i \in DOMAIN r : k \notin r[i].keys PROVE k \in now <=> k \in shown
    <3>1. \A j \in DOMAIN q : j > 1 => k \notin q[j].keys
      BY <1>1, <2>1, <2>2
    <3> QED BY <1>1, <3>1 DEF Agrees
  <2>3. ASSUME NEW i \in DOMAIN r, k \in r[i].keys, \A j \in DOMAIN r : j > i => k \notin r[j].keys
        PROVE  r[i].op = "put" <=> k \in shown
    <3>1. i \in DOMAIN q /\ i # 1 /\ r[i] = q[i]
      BY <2>1, <2>3
    <3>2. \A j \in DOMAIN q : j > i => k \notin q[j].keys
      BY <1>1, <2>1, <2>3, <3>1
    <3> QED BY <2>3, <3>1, <3>2 DEF Agrees
  <2> QED BY <2>2, <2>3 DEF Agrees, r
<1> QED BY <1>2, <1>3

\* Taking a key from the head changes nothing for the others.
LEMMA TakenOther ==
  ASSUME NEW q \in Seq(Samples), q # << >>, NEW k \in Head(q).keys, NEW x \in Keys, x # k,
         NEW cached, NEW shown, Agrees(q, x, cached, shown)
  PROVE  Agrees(Taken(q, k), x, cached, shown)
<1> DEFINE r == Taken(q, k)
<1>1. Len(q) \in Nat /\ 1 \in 1..Len(q) /\ DOMAIN q = 1..Len(q) /\ q[1] = Head(q)
  OBVIOUS
<1>2. CASE Head(q).keys = {k}
  <2>1. /\ DOMAIN r = 1..(Len(q) - 1)
        /\ \A i \in DOMAIN r : i + 1 \in DOMAIN q /\ r[i] = q[i + 1]
        /\ \A j \in DOMAIN q : j > 1 => j - 1 \in DOMAIN r /\ r[j - 1] = q[j]
    BY <1>1, <1>2 DEF Taken
  <2>2. x \notin q[1].keys
    BY <1>1, <1>2
  <2> HIDE DEF r
  <2>3. ASSUME \A i \in DOMAIN r : x \notin r[i].keys PROVE x \in cached <=> x \in shown
    <3>1. \A j \in DOMAIN q : x \notin q[j].keys
      BY <1>1, <2>1, <2>2, <2>3
    <3> QED BY <3>1 DEF Agrees
  <2>4. ASSUME NEW i \in DOMAIN r, x \in r[i].keys, \A j \in DOMAIN r : j > i => x \notin r[j].keys
        PROVE  r[i].op = "put" <=> x \in shown
    <3>1. i + 1 \in DOMAIN q /\ r[i] = q[i + 1] /\ i \in Nat
      BY <1>1, <2>1
    <3>2. \A j \in DOMAIN q : j > i + 1 => x \notin q[j].keys
      <4>1. ASSUME NEW j \in DOMAIN q, j > i + 1 PROVE x \notin q[j].keys
        <5>1. j - 1 \in DOMAIN r /\ r[j - 1] = q[j] /\ j - 1 > i
          BY <1>1, <2>1, <3>1, <4>1
        <5> QED BY <5>1, <2>4
      <4> QED BY <4>1
    <3> QED BY <2>4, <3>1, <3>2 DEF Agrees
  <2> QED BY <2>3, <2>4 DEF Agrees, r
<1>3. CASE Head(q).keys # {k}
  <2>1. /\ DOMAIN r = DOMAIN q
        /\ \A i \in DOMAIN q : r[i].op = q[i].op /\ (x \in r[i].keys <=> x \in q[i].keys)
    BY <1>1, <1>3 DEF Taken, Samples
  <2> HIDE DEF r
  <2> QED BY <2>1 DEF Agrees, r
<1> QED BY <1>2, <1>3

\* The keys of a longer queue.
LEMMA WithElements ==
  ASSUME NEW q \in Seq(Samples), NEW op \in {"put", "delete"}, NEW keys \in SUBSET Keys,
         NEW i \in DOMAIN With(q, op, keys), NEW k \in With(q, op, keys)[i].keys
  PROVE  k \in keys \/ \E j \in DOMAIN q : k \in q[j].keys
BY DEF With, Samples

\* The keys of a shorter queue.
LEMMA TakenElements ==
  ASSUME NEW q \in Seq(Samples), q # << >>, NEW k \in Head(q).keys,
         NEW i \in DOMAIN Taken(q, k), NEW x \in Taken(q, k)[i].keys
  PROVE  \E j \in DOMAIN q : x \in q[j].keys
<1>1. Len(q) \in Nat /\ 1 \in 1..Len(q) /\ DOMAIN q = 1..Len(q) /\ q[1] = Head(q)
  OBVIOUS
<1>2. CASE Head(q).keys = {k}
  <2>1. i + 1 \in DOMAIN q /\ Taken(q, k)[i] = q[i + 1]
    BY <1>1, <1>2 DEF Taken
  <2> QED BY <2>1
<1>3. CASE Head(q).keys # {k}
  <2>1. i \in DOMAIN q /\ x \in q[i].keys
    BY <1>1, <1>3 DEF Taken, Samples
  <2> QED BY <2>1
<1> QED BY <1>2, <1>3

-----------------------------------------------------------------------------
(* What steps that leave some variables alone keep.                        *)

\* Steps that leave nodes and entities alone.
LEMMA NodesFrame ==
  ASSUME CallsOK, IdsOK, KeysOK, UNCHANGED nodeVars
  PROVE  CallsOK' /\ IdsOK' /\ KeysOK'
BY DEF CallsOK, IdsOK, KeysOK

\* Steps that leave the waits, their streams and the cache alone.
LEMMA WaitsFrame ==
  ASSUME WaitsOK, UNCHANGED <<cacheVars, waitVars>>
  PROVE  WaitsOK'
BY DEF WaitsOK, NoMissedEntity, Found, Open

\* Steps that leave the samples, the cache and the graph alone.
LEMMA QueueFrame ==
  ASSUME QueueOK, UNCHANGED <<live, netVars, cache>>
  PROVE  QueueOK'
BY DEF QueueOK, Shown, Visible, Agrees

-----------------------------------------------------------------------------
(* Declaring and dropping.                                                 *)

\* Tokens have keys.
LEMMA TokenKeysType ==
  ASSUME NEW es \in SUBSET LiveSet
  PROVE  /\ TokenKeys(es) \in SUBSET Keys
         /\ \A k : k \in TokenKeys(es) <=> \E e \in es : e.token /\ e.key = k
BY DEF TokenKeys, LiveSet

\* Telling observers keeps the type of their queues.
LEMMA TellType ==
  ASSUME TypeOK, NEW c \in Contexts, NEW op \in {"put", "delete"}, NEW es \in SUBSET LiveSet,
         Tell(c, op, es)
  PROVE  inbox' \in [Observers -> [Contexts -> Seq(Samples)]]
<1>1. ASSUME NEW o \in Observers
      PROVE  (IF c \in linked[o] THEN [inbox[o] EXCEPT ![c] = With(@, op, TokenKeys(es))] ELSE inbox[o])
               \in [Contexts -> Seq(Samples)]
  <2>1. inbox[o] \in [Contexts -> Seq(Samples)] /\ inbox[o][c] \in Seq(Samples)
    BY DEF TypeOK
  <2>2. With(inbox[o][c], op, TokenKeys(es)) \in Seq(Samples)
    BY <2>1, TokenKeysType, WithType
  <2> QED BY <2>1, <2>2
<1> QED BY <1>1 DEF Tell

\* Telling an observer what changed keeps its queue right.
LEMMA TellQueue ==
  ASSUME TypeOK, QueueOK, NEW c \in Contexts, NEW op \in {"put", "delete"}, NEW es \in SUBSET LiveSet,
         \A e \in es : e.key.zid = c,
         Tell(c, op, es), linked' = linked, cache' = cache,
         \A o \in Observers, k \in Keys : k \notin TokenKeys(es) => (k \in Shown(o)' <=> k \in Shown(o)),
         \A o \in Observers, k \in TokenKeys(es) : c \in linked[o] => (k \in Shown(o)' <=> op = "put")
  PROVE  QueueOK'
<1>1. TokenKeys(es) \in SUBSET Keys /\ \A k \in TokenKeys(es) : k.zid = c
  BY TokenKeysType
<1>2. \A o \in Observers, d \in Contexts : inbox[o][d] \in Seq(Samples)
  BY DEF TypeOK
<1>3. \A o \in Observers, d \in Contexts :
        inbox'[o][d] = IF c \in linked[o] /\ d = c THEN With(inbox[o][c], op, TokenKeys(es)) ELSE inbox[o][d]
  BY DEF Tell, TypeOK
<1>4. ASSUME NEW o \in Observers, NEW d \in Contexts, NEW i \in DOMAIN inbox'[o][d],
             NEW k \in inbox'[o][d][i].keys
      PROVE  k.zid = d
  <2>1. CASE c \in linked[o] /\ d = c
    <3>1. k \in TokenKeys(es) \/ \E j \in DOMAIN inbox[o][c] : k \in inbox[o][c][j].keys
      BY <1>1, <1>2, <1>3, <1>4, <2>1, WithElements
    <3> QED BY <1>1, <2>1, <3>1 DEF QueueOK
  <2>2. CASE ~(c \in linked[o] /\ d = c)
    BY <1>3, <1>4, <2>2 DEF QueueOK
  <2> QED BY <2>1, <2>2
<1>5. ASSUME NEW o \in Observers, NEW k \in Keys
      PROVE  Agrees(inbox'[o][k.zid], k, cache'[o], Shown(o)')
  <2>1. k.zid \in Contexts
    BY DEF Keys
  <2>2. Agrees(inbox[o][k.zid], k, cache[o], Shown(o))
    BY DEF QueueOK
  <2>4. CASE c \in linked[o] /\ k \in TokenKeys(es)
    <3>1. inbox'[o][k.zid] = With(inbox[o][c], op, TokenKeys(es))
      BY <1>1, <1>3, <2>4
    <3>2. k \in Shown(o)' <=> op = "put"
      BY <2>4
    <3>3. Agrees(With(inbox[o][c], op, TokenKeys(es)), k, cache[o], Shown(o)')
      BY <1>1, <1>2, <2>4, <3>2, WithThis
    <3> QED BY <3>1, <3>3
  <2>5. CASE c \in linked[o] /\ k.zid = c /\ k \notin TokenKeys(es)
    <3>1. inbox'[o][k.zid] = With(inbox[o][c], op, TokenKeys(es))
      BY <1>3, <2>5
    <3>2. k \in Shown(o)' <=> k \in Shown(o)
      BY <2>5
    <3>3. Agrees(With(inbox[o][c], op, TokenKeys(es)), k, cache[o], Shown(o))
      BY <1>1, <1>2, <2>2, <2>5, WithOther
    <3> QED BY <3>1, <3>2, <3>3 DEF Agrees
  <2>6. CASE c \notin linked[o] \/ k.zid # c
    <3>1. inbox'[o][k.zid] = inbox[o][k.zid]
      BY <1>3, <2>1, <2>6
    <3>2. k \in Shown(o)' <=> k \in Shown(o)
      <4>1. CASE k \in TokenKeys(es)
        BY <1>1, <2>6, <4>1 DEF Shown, Visible
      <4>2. CASE k \notin TokenKeys(es)
        BY <4>2
      <4> QED BY <4>1, <4>2
    <3> QED BY <2>2, <3>1, <3>2 DEF Agrees
  <2> QED BY <1>1, <2>4, <2>5, <2>6
<1> QED BY <1>4, <1>5 DEF QueueOK

\* A token that is declared.
LEMMA DeclareQueue ==
  ASSUME TypeOK, QueueOK, KeysOK, NEW e \in LiveSet, \A f \in live : f.key # e.key,
         live' = live \cup {e}, Declare(e), linked' = linked, cache' = cache
  PROVE  QueueOK' /\ KeysOK' /\ inbox' \in [Observers -> [Contexts -> Seq(Samples)]]
<1>1. e.key.zid \in Contexts /\ {e} \in SUBSET LiveSet
  BY DEF LiveSet, Keys
<1>2. Tell(e.key.zid, "put", {e})
  BY DEF Declare
<1>3. \A o \in Observers, k \in Keys : k \notin TokenKeys({e}) => (k \in Shown(o)' <=> k \in Shown(o))
  BY <1>1, TokenKeysType DEF Shown, Visible
<1>4. \A o \in Observers, k \in TokenKeys({e}) : e.key.zid \in linked[o] => (k \in Shown(o)' <=> "put" = "put")
  BY <1>1, TokenKeysType DEF Shown, Visible
<1>5. QueueOK'
  BY <1>1, <1>2, <1>3, <1>4, TellQueue
<1>6. inbox' \in [Observers -> [Contexts -> Seq(Samples)]]
  BY <1>1, <1>2, TellType
<1> QED BY <1>5, <1>6 DEF KeysOK

\* Tokens that are dropped.
LEMMA UndeclareQueue ==
  ASSUME TypeOK, QueueOK, KeysOK, NEW c \in Contexts, NEW es \in SUBSET live,
         \A e \in es : e.key.zid = c,
         live' = live \ es, Undeclare(c, es), linked' = linked, cache' = cache
  PROVE  QueueOK' /\ KeysOK' /\ inbox' \in [Observers -> [Contexts -> Seq(Samples)]]
<1>1. es \in SUBSET LiveSet
  BY DEF TypeOK, LiveSet
<1>2. Tell(c, "delete", es)
  BY DEF Undeclare
<1>3. \A o \in Observers, k \in Keys : k \notin TokenKeys(es) => (k \in Shown(o)' <=> k \in Shown(o))
  BY <1>1, TokenKeysType DEF Shown, Visible
<1>4. \A o \in Observers, k \in TokenKeys(es) : c \in linked[o] => (k \in Shown(o)' <=> "delete" = "put")
  BY <1>1, TokenKeysType DEF Shown, Visible, KeysOK
<1>5. QueueOK'
  BY <1>1, <1>2, <1>3, <1>4, TellQueue
<1>6. inbox' \in [Observers -> [Contexts -> Seq(Samples)]]
  BY <1>1, <1>2, TellType
<1> QED BY <1>5, <1>6 DEF KeysOK

\* Entities other than nodes are entities.
LEMMA SubSeqs == \A s \in Seq(Entities \ {NodeEntity}) : s \in Seq(Entities)
OBVIOUS

-----------------------------------------------------------------------------
(* One lemma for each action.                                              *)

\* The initial state.
LEMMA InitIndInv == Init => IndInv
<1> SUFFICES ASSUME Init PROVE IndInv
  OBVIOUS
<1> USE ConstantsAssumption
<1>1. TypeOK
  BY DEF Init, TypeOK
<1>2. CallsOK /\ IdsOK /\ KeysOK
  BY DEF Init, CallsOK, IdsOK, KeysOK
<1>3. WaitsOK
  BY DEF Init, WaitsOK, NoMissedEntity, Open
<1>4. QueueOK
  BY DEF Init, QueueOK, Agrees, Shown, Visible, Keys
<1> QED BY <1>1, <1>2, <1>3, <1>4 DEF IndInv

\* Node::new.
LEMMA NewNodeKeeps ==
  ASSUME IndInv, NEW c \in Contexts, NEW fqn \in NodeNames, NewNode(c, fqn)
  PROVE  IndInv'
<1> DEFINE id == nextNodeId[c]
           key == [zid |-> c, node |-> id, id |-> id, fqn |-> fqn, entity |-> NodeEntity]
<1> USE DEF IndInv
<1>1. PICK token \in TokenResults :
        LET e == [key |-> key, nr |-> made, token |-> token] IN
        /\ live' = live \cup {e}
        /\ nodes' = nodes \cup {[zid |-> c, node |-> id, fqn |-> fqn]}
        /\ Declare(e)
  BY DEF NewNode
<1> DEFINE e == [key |-> key, nr |-> made, token |-> token]
<1>2. made \in Nat /\ made < MaxMade /\ MaxMade \in Nat /\ made \in Ids /\ made' = made + 1
  BY ConstantsAssumption DEF NewNode, TypeOK, Ids
<1>3. id \in Ids /\ id \in Nat
  BY <1>2 DEF TypeOK, IdsOK, Ids
<1>4. nextNodeId' = [nextNodeId EXCEPT ![c] = id + 1] /\ UNCHANGED <<nextEntityId, call>>
  BY DEF NewNode, FetchAdd
<1>5. key \in Keys /\ token \in BOOLEAN /\ e \in LiveSet /\ key.zid = c /\ key.entity = NodeEntity
  BY <1>2, <1>3 DEF Keys, LiveSet, TokenResults, Entities
<1>6. \A f \in live : f.key # e.key
  <2>1. SUFFICES ASSUME NEW f \in live, f.key = key PROVE FALSE
    OBVIOUS
  <2>2. f.key.entity = NodeEntity /\ f.key.node = id /\ f.key.zid = c
    BY <2>1
  <2>3. f.key.node < nextNodeId[f.key.zid]
    BY <2>2 DEF IdsOK
  <2> QED BY <1>3, <2>2, <2>3
<1>7. UNCHANGED <<linked, losses, cacheVars, waitVars>>
  BY DEF NewNode
<1> HIDE DEF key, id
<1>8. QueueOK' /\ KeysOK' /\ inbox' \in [Observers -> [Contexts -> Seq(Samples)]]
  BY <1>1, <1>5, <1>6, <1>7, DeclareQueue
<1>9. TypeOK'
  BY <1>1, <1>2, <1>3, <1>4, <1>5, <1>7, <1>8 DEF TypeOK, LiveSet
<1>10. CallsOK'
  BY <1>4 DEF CallsOK
<1>11. IdsOK'
  <2>1. \A d \in Contexts : nextNodeId'[d] <= made'
    BY <1>2, <1>3, <1>4 DEF IdsOK, TypeOK, id
  <2>2. \A p \in Contexts \X Ids : nextEntityId'[p] <= made'
    BY <1>2, <1>4 DEF IdsOK, TypeOK
  <2>3. \A f \in live' : f.nr < made'
    BY <1>1, <1>2 DEF IdsOK, TypeOK, Ids
  <2>4. \A d \in Contexts : nextNodeId[d] <= nextNodeId'[d] /\ nextNodeId[d] \in Nat
    BY <1>3, <1>4 DEF TypeOK, id
  <2>5. \A n \in nodes' : n.node < nextNodeId'[n.zid]
    <3>1. \A n \in nodes : n.zid \in Contexts /\ n.node \in Nat
      BY DEF TypeOK, Ids
    <3>2. nextNodeId'[c] = id + 1
      BY <1>4 DEF TypeOK
    <3> QED BY <1>1, <1>3, <2>4, <3>1, <3>2, <1>4 DEF IdsOK, TypeOK
  <2>6. ASSUME NEW f \in live'
        PROVE  IF f.key.entity = NodeEntity THEN f.key.id = f.key.node /\ f.key.node < nextNodeId'[f.key.zid]
               ELSE f.key.id < nextEntityId'[<<f.key.zid, f.key.node>>]
    <3>1. CASE f \in live
      <4>1. f.key.zid \in Contexts /\ f.key.node \in Nat
        BY <3>1 DEF TypeOK, Keys, Ids
      <4>2. nextNodeId[f.key.zid] <= nextNodeId'[f.key.zid] /\ nextNodeId[f.key.zid] \in Nat
            /\ nextNodeId'[f.key.zid] \in Nat
        BY <1>9, <2>4, <4>1 DEF TypeOK
      <4>3. IF f.key.entity = NodeEntity THEN f.key.id = f.key.node /\ f.key.node < nextNodeId[f.key.zid]
            ELSE f.key.id < nextEntityId[<<f.key.zid, f.key.node>>]
        BY <3>1 DEF IdsOK
      <4> QED BY <1>4, <4>1, <4>2, <4>3
    <3>2. CASE f = e
      BY <1>3, <1>4, <3>2 DEF TypeOK, key, id
    <3> QED BY <1>1, <3>1, <3>2
  <2> QED BY <2>1, <2>2, <2>3, <2>5, <2>6 DEF IdsOK
<1>12. WaitsOK'
  BY <1>7, WaitsFrame
<1> QED BY <1>8, <1>9, <1>10, <1>11, <1>12

\* A create_* call begins.
LEMMA BeginCreateKeeps ==
  ASSUME IndInv, NEW t \in Tasks, NEW n \in nodes, NEW r \in Requests, BeginCreate(t, n, r)
  PROVE  IndInv'
<1> USE DEF IndInv
<1>1. r \in Seq(Entities \ {NodeEntity}) /\ r # << >> /\ r \in Seq(Entities)
  BY ConstantsAssumption
<1>2. UNCHANGED <<nextNodeId, nodes, nextEntityId, live, made, netVars, cacheVars, waitVars>>
  BY DEF BeginCreate
<1> DEFINE new == [node |-> n, todo |-> r, done |-> {}]
<1>3. call[t] = None /\ call' = [call EXCEPT ![t] = new]
  BY DEF BeginCreate
<1>4. new \in CallSet /\ new.node = n /\ new.todo = r /\ new.done = {}
  BY <1>1 DEF CallSet, TypeOK
<1> HIDE DEF new
<1>5. call \in [Tasks -> CallSet \cup {None}] /\ \A u \in Tasks : call'[u] = IF u = t THEN new ELSE call[u]
  BY <1>3 DEF CallsOK
<1>6. CallsOK'
  BY <1>3, <1>4, <1>5 DEF CallsOK
<1>7. TypeOK'
  BY <1>1, <1>2, <1>4, <1>5 DEF TypeOK
<1>8. IdsOK' /\ KeysOK'
  BY <1>2 DEF IdsOK, KeysOK
<1> QED BY <1>2, <1>6, <1>7, <1>8, WaitsFrame, QueueFrame

\* A create_* call declares its next entity, the last one included.
LEMMA DeclareEntityKeeps ==
  ASSUME IndInv, NEW t \in Tasks, DeclareEntity(t)
  PROVE  IndInv'
<1> DEFINE n == call[t].node
           p == <<n.zid, n.node>>
           id == nextEntityId[p]
           entity == Head(call[t].todo)
           key == [zid |-> n.zid, node |-> n.node, id |-> id, fqn |-> n.fqn, entity |-> entity]
<1> USE DEF IndInv
<1>1. PICK token \in TokenResults :
        LET e == [key |-> key, nr |-> made, token |-> token] IN
        /\ live' = live \cup {e}
        /\ Declare(e)
        /\ call' = [call EXCEPT ![t] = IF IsLast(@.todo) THEN None
                                       ELSE [node |-> n, todo |-> Tail(@.todo), done |-> @.done \cup {e}]]
  BY DEF DeclareEntity
<1> DEFINE e == [key |-> key, nr |-> made, token |-> token]
           next == [node |-> n, todo |-> Tail(call[t].todo), done |-> call[t].done \cup {e}]
           after == IF IsLast(call[t].todo) THEN None ELSE next
<1>a. call' = [call EXCEPT ![t] = after]
  BY <1>1
<1>2. made \in Nat /\ made < MaxMade /\ MaxMade \in Nat /\ made \in Ids /\ made' = made + 1
  BY ConstantsAssumption DEF DeclareEntity, TypeOK, Ids
<1>3. /\ call[t] # None /\ call[t] \in CallSet
      /\ n \in nodes /\ n.zid \in Contexts /\ n.node \in Ids /\ n.fqn \in NodeNames
      /\ call[t].todo \in Seq(Entities \ {NodeEntity}) /\ call[t].todo # << >>
      /\ call[t].done \subseteq live
  BY DEF DeclareEntity, CallsOK, CallSet, TypeOK
<1>4. p \in Contexts \X Ids /\ id \in Nat /\ id \in Ids
  BY <1>2, <1>3 DEF TypeOK, IdsOK, Ids
<1>5. entity \in Entities /\ entity # NodeEntity
  BY <1>3
<1>6. nextEntityId' = [nextEntityId EXCEPT ![p] = id + 1] /\ UNCHANGED <<nextNodeId, nodes>>
  BY DEF DeclareEntity, FetchAdd
<1>7. UNCHANGED <<linked, losses, cacheVars, waitVars>>
  BY DEF DeclareEntity
<1>8. key \in Keys /\ token \in BOOLEAN /\ e \in LiveSet
  BY <1>2, <1>3, <1>4, <1>5 DEF Keys, LiveSet, TokenResults
<1>9. \A f \in live : f.key # e.key
  <2>1. SUFFICES ASSUME NEW f \in live, f.key = key PROVE FALSE
    OBVIOUS
  <2>2. f.key.entity # NodeEntity /\ f.key.id = id /\ <<f.key.zid, f.key.node>> = p
    BY <1>5, <2>1
  <2>3. f.key.id < nextEntityId[<<f.key.zid, f.key.node>>]
    BY <2>2 DEF IdsOK
  <2> QED BY <1>4, <2>2, <2>3
<1>10. e.key = key /\ e.key.entity # NodeEntity /\ e.nr = made /\ e \notin live
  BY <1>5, <1>9
<1>11. key.zid = n.zid /\ key.node = n.node /\ key.id = id
  OBVIOUS
<1> HIDE DEF key, id, p, entity
<1>12. QueueOK' /\ KeysOK' /\ inbox' \in [Observers -> [Contexts -> Seq(Samples)]]
  BY <1>1, <1>7, <1>8, <1>9, DeclareQueue
<1>13. ~IsLast(call[t].todo) =>
         /\ next \in CallSet /\ next.node = n /\ next.todo # << >> /\ next.done = call[t].done \cup {e}
         /\ next.todo \in Seq(Entities)
  <2>1. ASSUME ~IsLast(call[t].todo)
        PROVE Tail(call[t].todo) \in Seq(Entities \ {NodeEntity}) /\ Tail(call[t].todo) # << >>
              /\ Tail(call[t].todo) \in Seq(Entities)
    <3> DEFINE todo == call[t].todo
    <3>1. todo \in Seq(Entities \ {NodeEntity}) /\ todo # << >> /\ Len(todo) # 1
      BY <1>3, <2>1 DEF IsLast
    <3> HIDE DEF todo
    <3>2. Len(todo) \in Nat /\ Len(todo) # 0
      BY <3>1
    <3>3. Tail(todo) \in Seq(Entities \ {NodeEntity}) /\ Len(Tail(todo)) = Len(todo) - 1
      BY <3>1
    <3>4. Tail(todo) # << >>
      <4>1. Len(Tail(todo)) # 0
        BY <3>1, <3>2, <3>3
      <4>2. Len(<< >>) = 0
        OBVIOUS
      <4>3. SUFFICES ASSUME Tail(todo) = << >> PROVE FALSE
        OBVIOUS
      <4>4. Len(Tail(todo)) = Len(<< >>)
        BY ONLY <4>3, Zenon
      <4> QED BY <4>1, <4>2, <4>4
    <3>5. Tail(todo) \in Seq(Entities)
      BY <3>3, SubSeqs
    <3> QED BY <3>3, <3>4, <3>5 DEF todo
  <2> QED BY <1>3, <1>8, <2>1 DEF CallSet
<1>b. after \in CallSet \cup {None}
  BY <1>13
<1> HIDE DEF e, next, after
<1>15. call' \in [Tasks -> CallSet \cup {None}] /\ \A u \in Tasks : call'[u] = IF u = t THEN after ELSE call[u]
  BY <1>a, <1>b DEF CallsOK
<1>14. \A u \in Tasks : call'[u] = IF u # t THEN call[u] ELSE IF IsLast(call[t].todo) THEN None ELSE next
  BY <1>15 DEF after
<1>16. live' = live \cup {e}
  BY <1>1 DEF e
<1>17. CallsOK'
  <2>1. \A u \in Tasks : call'[u] # None =>
          IF u # t THEN call'[u] = call[u] ELSE call'[u].done = call[t].done \cup {e} /\ call'[u].node = n
    BY <1>13, <1>14
  <2>2. \A u \in Tasks : call[u] # None => call[u].done \subseteq live /\ e \notin call[u].done
    BY <1>10 DEF TypeOK
  <2>3. \A u \in Tasks : call'[u] # None => \A f \in call'[u].done :
          f.key.entity # NodeEntity /\ f.key.zid = call'[u].node.zid
    BY <1>3, <1>10, <1>11, <2>1 DEF CallsOK
  <2>4. ASSUME NEW u \in Tasks, NEW v \in Tasks, u # v, call'[u] # None, call'[v] # None
        PROVE  call'[u].done \cap call'[v].done = {}
    <3>1. \A x, y \in Tasks : x # y /\ call[x] # None /\ call[y] # None => call[x].done \cap call[y].done = {}
      BY DEF CallsOK
    <3>2. \A x \in Tasks : x # t => call'[x] = call[x]
      BY <1>14
    <3> QED BY <1>3, <2>1, <2>2, <2>4, <3>1, <3>2
  <2> QED BY <1>15, <2>3, <2>4 DEF CallsOK
<1>18. TypeOK'
  <2>1. \A u \in Tasks : call'[u] # None =>
          call'[u].node \in nodes' /\ call'[u].todo \in Seq(Entities) \ {<< >>} /\ call'[u].done \subseteq live'
    <3> SUFFICES ASSUME NEW u \in Tasks, call'[u] # None
                 PROVE  /\ call'[u].node \in nodes' /\ call'[u].todo \in Seq(Entities) \ {<< >>}
                        /\ call'[u].done \subseteq live'
      OBVIOUS
    <3>1. CASE u # t
      BY <1>6, <1>14, <1>16, <3>1 DEF TypeOK
    <3>2. CASE u = t
      BY <1>3, <1>6, <1>13, <1>14, <1>16, <3>2
    <3> QED BY <3>1, <3>2
  <2>2. nextEntityId' \in [Contexts \X Ids -> Nat]
    BY <1>4, <1>6 DEF TypeOK
  <2> QED BY <1>2, <1>6, <1>7, <1>8, <1>12, <1>16, <2>1, <2>2 DEF TypeOK, LiveSet
<1>19. IdsOK'
  <2>1. \A q \in Contexts \X Ids : nextEntityId[q] \in Nat /\ nextEntityId'[q] \in Nat
                                   /\ nextEntityId'[q] = IF q = p THEN id + 1 ELSE nextEntityId[q]
    BY <1>4, <1>6 DEF TypeOK
  <2>2. \A c \in Contexts : nextNodeId'[c] <= made'
    BY <1>2, <1>6 DEF IdsOK, TypeOK
  <2>3. \A q \in Contexts \X Ids : nextEntityId'[q] <= made'
    BY <1>2, <1>4, <2>1 DEF IdsOK, id
  <2>4. \A f \in live' : f.nr < made'
    BY <1>2, <1>10, <1>16 DEF IdsOK, TypeOK, Ids
  <2>5. ASSUME NEW f \in live'
        PROVE  IF f.key.entity = NodeEntity THEN f.key.id = f.key.node /\ f.key.node < nextNodeId'[f.key.zid]
               ELSE f.key.id < nextEntityId'[<<f.key.zid, f.key.node>>]
    <3>1. CASE f \in live
      <4>1. <<f.key.zid, f.key.node>> \in Contexts \X Ids /\ f.key.id \in Nat
        BY <3>1 DEF TypeOK, Keys, Ids
      <4>2. IF f.key.entity = NodeEntity THEN f.key.id = f.key.node /\ f.key.node < nextNodeId[f.key.zid]
            ELSE f.key.id < nextEntityId[<<f.key.zid, f.key.node>>]
        BY <3>1 DEF IdsOK
      <4>3. f.key.id < nextEntityId[<<f.key.zid, f.key.node>>] =>
              f.key.id < nextEntityId'[<<f.key.zid, f.key.node>>]
        BY <1>4, <2>1, <4>1 DEF id
      <4> QED BY <1>6, <4>2, <4>3
    <3>2. CASE f = e
      <4>1. <<f.key.zid, f.key.node>> = p /\ f.key.id = id
        BY <1>10, <1>11, <3>2 DEF p
      <4> QED BY <1>4, <1>10, <2>1, <3>2, <4>1
    <3> QED BY <1>16, <3>1, <3>2
  <2> QED BY <1>6, <2>2, <2>3, <2>4, <2>5 DEF IdsOK
<1>20. WaitsOK'
  BY <1>7, WaitsFrame
<1> QED BY <1>12, <1>17, <1>18, <1>19, <1>20

\* Dropping entities of one session.
LEMMA DropKeeps ==
  ASSUME IndInv, NEW c \in Contexts, NEW es \in SUBSET live, \A e \in es : e.key.zid = c,
         live' = live \ es, Undeclare(c, es), nodes' \subseteq nodes,
         UNCHANGED <<nextNodeId, nextEntityId, made, linked, losses, cacheVars, waitVars>>,
         \A t \in Tasks : call'[t] = call[t] \/ call'[t] = None,
         call' \in [Tasks -> CallSet \cup {None}],
         \A t \in Tasks : call'[t] # None => call'[t].node \in nodes' /\ call'[t].done \cap es = {}
  PROVE  IndInv'
<1> USE DEF IndInv
<1>1. QueueOK' /\ KeysOK' /\ inbox' \in [Observers -> [Contexts -> Seq(Samples)]]
  BY UndeclareQueue
<1>2. CallsOK'
  BY DEF CallsOK
<1>3. TypeOK'
  <2>1. \A u \in Tasks : call'[u] # None =>
          call'[u].node \in nodes' /\ call'[u].todo \in Seq(Entities) \ {<< >>} /\ call'[u].done \subseteq live'
    BY DEF TypeOK
  <2> QED BY <1>1, <2>1 DEF TypeOK
<1>4. IdsOK'
  BY DEF IdsOK
<1>5. WaitsOK'
  BY WaitsFrame
<1> QED BY <1>1, <1>2, <1>3, <1>4, <1>5

\* A create_* call returns with `?` and drops what it has made.
LEMMA CreateFailsKeeps == ASSUME IndInv, NEW t \in Tasks, CreateFails(t) PROVE IndInv'
<1> USE DEF IndInv
<1>1. /\ call[t] # None /\ call[t].node.zid \in Contexts /\ call[t].done \in SUBSET live
      /\ \A e \in call[t].done : e.key.zid = call[t].node.zid
  BY DEF CreateFails, CallsOK, TypeOK
<1>2. /\ call' \in [Tasks -> CallSet \cup {None}]
      /\ \A u \in Tasks : call'[u] = IF u = t THEN None ELSE call[u]
  BY DEF CreateFails, CallsOK
<1>3. \A u \in Tasks : call'[u] # None => call'[u].node \in nodes' /\ call'[u].done \cap call[t].done = {}
  BY <1>1, <1>2 DEF CreateFails, CallsOK, TypeOK
<1>4. /\ live' = live \ call[t].done /\ Undeclare(call[t].node.zid, call[t].done) /\ nodes' \subseteq nodes
      /\ UNCHANGED <<nextNodeId, nextEntityId, made, linked, losses, cacheVars, waitVars>>
  BY DEF CreateFails
<1> QED BY <1>1, <1>2, <1>3, <1>4, DropKeeps

\* The application drops an entity.
LEMMA DropEntityKeeps == ASSUME IndInv, NEW e \in live, DropEntity(e) PROVE IndInv'
<1> USE DEF IndInv
<1>1. e.key.zid \in Contexts /\ {e} \in SUBSET live
  BY DEF TypeOK, Keys
<1>2. \A u \in Tasks : call[u] # None => e \notin call[u].done
  BY DEF DropEntity, InCalls
<1>3. call' = call /\ call' \in [Tasks -> CallSet \cup {None}]
  BY DEF DropEntity, CallsOK
<1>4. \A u \in Tasks : call'[u] # None => call'[u].node \in nodes' /\ call'[u].done \cap {e} = {}
  BY <1>2, <1>3 DEF DropEntity, TypeOK
<1>5. /\ live' = live \ {e} /\ Undeclare(e.key.zid, {e}) /\ nodes' \subseteq nodes
      /\ UNCHANGED <<nextNodeId, nextEntityId, made, linked, losses, cacheVars, waitVars>>
  BY DEF DropEntity
<1>6. \A f \in {e} : f.key.zid = e.key.zid
  OBVIOUS
<1> QED BY <1>1, <1>3, <1>4, <1>5, <1>6, DropKeeps

\* The application drops a node.
LEMMA DropNodeKeeps == ASSUME IndInv, NEW n \in nodes, DropNode(n) PROVE IndInv'
<1> USE DEF IndInv
<1> DEFINE gone == {e \in live : /\ e.key.entity = NodeEntity
                                 /\ e.key.zid = n.zid /\ e.key.node = n.node}
<1>1. n.zid \in Contexts /\ gone \in SUBSET live /\ \A e \in gone : e.key.zid = n.zid
  BY DEF TypeOK
<1>2. call' = call /\ call' \in [Tasks -> CallSet \cup {None}]
  BY DEF DropNode, CallsOK
<1>3. \A u \in Tasks : call'[u] # None => call'[u].node \in nodes' /\ call'[u].done \cap gone = {}
  <2> SUFFICES ASSUME NEW u \in Tasks, call[u] # None
               PROVE call[u].node \in nodes' /\ call[u].done \cap gone = {}
    BY <1>2
  <2>1. call[u].node \in nodes /\ call[u].node # n /\ nodes' = nodes \ {n}
    BY DEF DropNode, TypeOK
  <2>2. \A e \in call[u].done : e.key.entity # NodeEntity
    BY DEF CallsOK
  <2> QED BY <2>1, <2>2
<1>4. /\ live' = live \ gone /\ Undeclare(n.zid, gone) /\ nodes' \subseteq nodes
      /\ UNCHANGED <<nextNodeId, nextEntityId, made, linked, losses, cacheVars, waitVars>>
  BY DEF DropNode
<1> HIDE DEF gone
<1> QED BY <1>1, <1>2, <1>3, <1>4, DropKeeps

\* A connection that comes or goes.
LEMMA AlsoKeeps ==
  ASSUME IndInv, NEW o \in Observers, NEW c \in Contexts, NEW op \in {"put", "delete"},
         Also(o, c, op), losses' \in 0..MaxLosses,
         linked' = [linked EXCEPT ![o] = IF op = "put" THEN @ \cup {c} ELSE @ \ {c}],
         c \in linked[o] <=> op = "delete",
         UNCHANGED <<nodeVars, cacheVars, waitVars>>
  PROVE  IndInv'
<1> USE DEF IndInv
<1> DEFINE es == {e \in live : e.key.zid = c}
           keys == TokenKeys(es)
<1>1. es \in SUBSET LiveSet /\ TokensOf(c) = keys
  BY DEF TokensOf, TypeOK, LiveSet
<1>2. keys \in SUBSET Keys /\ \A k : k \in keys <=> \E e \in live : e.key.zid = c /\ e.token /\ e.key = k
  BY <1>1, TokenKeysType
<1> HIDE DEF keys, es
<1>3. inbox \in [Observers -> [Contexts -> Seq(Samples)]] /\ linked \in [Observers -> SUBSET Contexts]
  BY DEF TypeOK
<1>4. With(inbox[o][c], op, keys) \in Seq(Samples)
  BY <1>2, <1>3, WithType
<1>5. inbox' = [inbox EXCEPT ![o][c] = With(inbox[o][c], op, keys)]
  BY <1>1 DEF Also
<1>6. /\ inbox' \in [Observers -> [Contexts -> Seq(Samples)]]
      /\ \A p \in Observers, d \in Contexts :
           inbox'[p][d] = IF p = o /\ d = c THEN With(inbox[o][c], op, keys) ELSE inbox[p][d]
  BY <1>3, <1>4, <1>5
<1>7. /\ linked' \in [Observers -> SUBSET Contexts]
      /\ \A p \in Observers, d \in Contexts :
           d \in linked'[p] <=> IF p = o /\ d = c THEN op = "put" ELSE d \in linked[p]
  BY <1>3
<1>8. TypeOK'
  BY <1>6, <1>7 DEF TypeOK
<1>9. CallsOK' /\ IdsOK' /\ KeysOK' /\ WaitsOK'
  BY NodesFrame, WaitsFrame
<1>10. ASSUME NEW p \in Observers, NEW d \in Contexts, NEW i \in DOMAIN inbox'[p][d],
              NEW k \in inbox'[p][d][i].keys
       PROVE  k.zid = d
  <2>1. CASE p = o /\ d = c
    <3> DEFINE q == inbox[o][c]
               r == With(q, op, keys)
    <3>a. q \in Seq(Samples) /\ i \in DOMAIN r /\ k \in r[i].keys
      BY <1>3, <1>6, <1>10, <2>1
    <3> HIDE DEF q
    <3>b. k \in keys \/ \E j \in DOMAIN q : k \in q[j].keys
      BY <1>2, <3>a, WithElements
    <3>1. k \in keys \/ \E j \in DOMAIN inbox[o][c] : k \in inbox[o][c][j].keys
      BY <3>b DEF q
    <3> QED BY <1>2, <2>1, <3>1 DEF QueueOK
  <2>2. CASE ~(p = o /\ d = c)
    BY <1>6, <1>10, <2>2 DEF QueueOK
  <2> QED BY <2>1, <2>2
<1>11. ASSUME NEW p \in Observers, NEW k \in Keys
       PROVE  Agrees(inbox'[p][k.zid], k, cache'[p], Shown(p)')
  <2>1. k.zid \in Contexts
    BY DEF Keys
  <2>2. Agrees(inbox[p][k.zid], k, cache[p], Shown(p))
    BY DEF QueueOK
  <2>3. CASE p = o /\ k \in keys
    <3>1. k.zid = c /\ inbox'[p][k.zid] = With(inbox[o][c], op, keys)
      BY <1>2, <1>6, <2>3
    <3>2. k \in Shown(p)' <=> op = "put"
      BY <1>2, <1>7, <2>3 DEF Shown, Visible
    <3>3. Agrees(With(inbox[o][c], op, keys), k, cache[o], Shown(p)')
      BY <1>2, <1>3, <2>3, <3>2, WithThis
    <3> QED BY <2>3, <3>1, <3>3
  <2>4. CASE p = o /\ k.zid = c /\ k \notin keys
    <3>1. inbox'[p][k.zid] = With(inbox[o][c], op, keys)
      BY <1>6, <2>4
    <3>2. k \notin Shown(p)' /\ k \notin Shown(p)
      BY <1>2, <2>4 DEF Shown, Visible
    <3>a. inbox[o][c] \in Seq(Samples) /\ Agrees(inbox[o][c], k, cache[p], Shown(p))
      BY <1>3, <2>2, <2>4
    <3>3. Agrees(With(inbox[o][c], op, keys), k, cache[p], Shown(p))
      BY <1>2, <2>4, <3>a, WithOther
    <3> QED BY <3>1, <3>2, <3>3 DEF Agrees
  <2>5. CASE ~(p = o /\ k.zid = c)
    <3>1. inbox'[p][k.zid] = inbox[p][k.zid]
      BY <1>6, <2>1, <2>5
    <3>2. k \in Shown(p)' <=> k \in Shown(p)
      BY <1>7, <2>1, <2>5 DEF Shown, Visible
    <3> QED BY <2>2, <3>1, <3>2 DEF Agrees
  <2> QED BY <1>2, <2>3, <2>4, <2>5
<1>12. QueueOK'
  BY <1>10, <1>11 DEF QueueOK
<1> QED BY <1>8, <1>9, <1>12

\* zenoh loses or finds a connection.
LEMMA LinkKeeps ==
  ASSUME IndInv, NEW o \in Observers, NEW c \in Contexts, Link(o, c) \/ Unlink(o, c)
  PROVE  IndInv'
<1>1. CASE Link(o, c)
  <2>1. /\ Also(o, c, "put") /\ losses' \in 0..MaxLosses /\ c \notin linked[o]
        /\ linked' = [linked EXCEPT ![o] = IF "put" = "put" THEN @ \cup {c} ELSE @ \ {c}]
        /\ UNCHANGED <<nodeVars, cacheVars, waitVars>>
    BY <1>1 DEF Link, IndInv, TypeOK
  <2>2. c \in linked[o] <=> "put" = "delete"
    BY <2>1
  <2> QED BY <2>1, <2>2, AlsoKeeps
<1>2. CASE Unlink(o, c)
  <2>1. /\ Also(o, c, "delete") /\ losses' \in 0..MaxLosses /\ c \in linked[o]
        /\ linked' = [linked EXCEPT ![o] = IF "delete" = "put" THEN @ \cup {c} ELSE @ \ {c}]
        /\ UNCHANGED <<nodeVars, cacheVars, waitVars>>
    BY <1>2, ConstantsAssumption DEF Unlink, IndInv, TypeOK
  <2>2. c \in linked[o] <=> "delete" = "delete"
    BY <2>1
  <2> QED BY <2>1, <2>2, AlsoKeeps
<1> QED BY <1>1, <1>2

\* A sample that the callback takes.
LEMMA SampleKeeps ==
  ASSUME IndInv, NEW o \in Observers, NEW c \in Contexts, NEW k, NEW op \in {"put", "delete"},
         Sample(o, c, k, op), NEW a \in Events \cup {None},
         k \in Keys /\ op = "put" => a = Announce("EntityDeclared", k),
         cache' = [cache EXCEPT ![o] = IF op = "put" THEN @ \cup {k} ELSE @ \ {k}],
         announcing' = [announcing EXCEPT ![o][c] = a],
         UNCHANGED <<nodeVars, linked, losses, waitVars>>
  PROVE  IndInv'
<1> USE DEF IndInv
<1> DEFINE q == inbox[o][c]
<1>1. q \in Seq(Samples) /\ q # << >> /\ k \in Head(q).keys /\ Head(q).op = op
  BY DEF Sample, TypeOK
<1>2. 1 \in DOMAIN q /\ q[1] = Head(q)
  BY <1>1
<1>3. k \in Keys /\ k.zid = c
  <2>1. Head(q) \in Samples
    BY <1>1
  <2>2. k \in Keys
    BY <1>1, <2>1 DEF Samples
  <2>3. \A i \in DOMAIN q : \A x \in q[i].keys : x.zid = c
    BY DEF QueueOK
  <2> QED BY <1>1, <1>2, <2>2, <2>3
<1>4. inbox' = [inbox EXCEPT ![o][c] = Taken(q, k)]
  BY DEF Sample, Taken
<1>5. Taken(q, k) \in Seq(Samples)
  BY <1>1, TakenType
<1>6. /\ inbox' \in [Observers -> [Contexts -> Seq(Samples)]]
      /\ \A p \in Observers, d \in Contexts : inbox'[p][d] = IF p = o /\ d = c THEN Taken(q, k) ELSE inbox[p][d]
  BY <1>4, <1>5 DEF TypeOK
<1> HIDE DEF q
<1>7. /\ cache' \in [Observers -> SUBSET Keys]
      /\ \A p \in Observers : cache'[p] = IF p # o THEN cache[p] ELSE IF op = "put" THEN cache[o] \cup {k} ELSE cache[o] \ {k}
  BY <1>3 DEF TypeOK
<1>8. /\ announcing' \in [Observers -> [Contexts -> Events \cup {None}]]
      /\ \A p \in Observers, d \in Contexts : announcing'[p][d] = IF p = o /\ d = c THEN a ELSE announcing[p][d]
  BY DEF TypeOK
<1>9. TypeOK'
  BY <1>6, <1>7, <1>8 DEF TypeOK
<1>10. CallsOK' /\ IdsOK' /\ KeysOK'
  BY NodesFrame
<1>11. QueueOK'
  <2>1. ASSUME NEW p \in Observers, NEW d \in Contexts, NEW i \in DOMAIN inbox'[p][d],
               NEW x \in inbox'[p][d][i].keys
        PROVE  x.zid = d
    <3>1. CASE p = o /\ d = c
      <4>1. i \in DOMAIN Taken(q, k) /\ x \in Taken(q, k)[i].keys
        BY <1>6, <2>1, <3>1
      <4>2. \E j \in DOMAIN q : x \in q[j].keys
        BY <1>1, <4>1, TakenElements
      <4> QED BY <3>1, <4>2 DEF QueueOK, q
    <3>2. CASE ~(p = o /\ d = c)
      <4>1. inbox'[p][d] = inbox[p][d]
        BY <1>6, <3>2
      <4>2. \A j \in DOMAIN inbox[p][d] : \A y \in inbox[p][d][j].keys : y.zid = d
        BY DEF QueueOK
      <4> QED BY <2>1, <4>1, <4>2
    <3> QED BY <3>1, <3>2
  <2>2. ASSUME NEW p \in Observers, NEW x \in Keys
        PROVE  Agrees(inbox'[p][x.zid], x, cache'[p], Shown(p)')
    <3>1. x.zid \in Contexts /\ Shown(p)' = Shown(p)
      BY DEF Keys, Shown, Visible
    <3>2. Agrees(inbox[p][x.zid], x, cache[p], Shown(p))
      BY DEF QueueOK
    <3>3. CASE p = o /\ x = k
      <4>1. Agrees(q, k, cache[o], Shown(o)) /\ inbox'[p][x.zid] = Taken(q, k)
        BY <1>3, <1>6, <3>2, <3>3 DEF q
      <4>2. k \in cache'[o] <=> Head(q).op = "put"
        BY <1>1, <1>7
      <4>3. Agrees(Taken(q, k), k, cache'[o], Shown(o))
        BY <1>1, <4>1, <4>2, TakenThis
      <4> QED BY <3>1, <3>3, <4>1, <4>3
    <3>4. CASE p = o /\ x # k /\ x.zid = c
      <4>1. Agrees(q, x, cache[o], Shown(o)) /\ inbox'[p][x.zid] = Taken(q, k)
        BY <1>6, <3>2, <3>4 DEF q
      <4>2. Agrees(Taken(q, k), x, cache[o], Shown(o))
        BY <1>1, <3>4, <4>1, TakenOther
      <4>3. x \in cache'[o] <=> x \in cache[o]
        BY <1>7, <3>4
      <4> QED BY <3>1, <3>4, <4>1, <4>2, <4>3 DEF Agrees
    <3>5. CASE ~(p = o /\ x.zid = c)
      <4>1. inbox'[p][x.zid] = inbox[p][x.zid] /\ (x \in cache'[p] <=> x \in cache[p])
        BY <1>3, <1>6, <1>7, <3>1, <3>5
      <4> QED BY <3>1, <3>2, <4>1 DEF Agrees
    <3> QED BY <1>3, <3>3, <3>4, <3>5
  <2> QED BY <2>1, <2>2 DEF QueueOK
<1>12. WaitsOK'
  <2>1. \A w \in Waits : Open(w)' => w \in subscribers'[WaitsIn[w]]
    BY DEF WaitsOK, Open
  <2>2. ASSUME NEW w \in Waits, wait'[w] = "receiving", Found(w)'
        PROVE  \/ \E i \in DOMAIN channel'[w] : IsAwaited(w, channel'[w][i])
               \/ /\ w \in subscribers'[WaitsIn[w]]
                  /\ \E d \in Contexts : announcing'[WaitsIn[w]][d] # None /\ IsAwaited(w, announcing'[WaitsIn[w]][d])
    <3>1. PICK x \in cache'[WaitsIn[w]] : Matches(w, x.entity)
      BY <2>2 DEF Found
    <3>2. WaitsIn[w] \in Observers /\ w \in subscribers[WaitsIn[w]] /\ UNCHANGED <<channel, subscribers, wait>>
      BY <2>2, ConstantsAssumption DEF WaitsOK, Open
    <3>3. announcing[o][c] = None
      BY DEF Sample
    <3>4. CASE x \in cache[WaitsIn[w]]
      <4>1. \/ \E i \in DOMAIN channel[w] : IsAwaited(w, channel[w][i])
            \/ \E d \in Contexts : announcing[WaitsIn[w]][d] # None /\ IsAwaited(w, announcing[WaitsIn[w]][d])
        BY <2>2, <3>1, <3>2, <3>4 DEF WaitsOK, NoMissedEntity, Found
      <4> QED BY <1>8, <3>2, <3>3, <4>1
    <3>5. CASE x \notin cache[WaitsIn[w]]
      <4>1. WaitsIn[w] = o /\ x = k /\ op = "put"
        BY <1>7, <3>1, <3>2, <3>5
      <4>2. a = Announce("EntityDeclared", k) /\ a \in Events
        BY <1>3, <4>1 DEF Announce, Events
      <4>3. a # None /\ IsAwaited(w, a)
        BY <3>1, <4>1, <4>2, ConstantsAssumption DEF IsAwaited, Announce
      <4>4. announcing'[WaitsIn[w]][c] = a
        BY <1>8, <4>1
      <4> QED BY <3>2, <4>3, <4>4
    <3> QED BY <3>4, <3>5
  <2> QED BY <2>1, <2>2 DEF WaitsOK, NoMissedEntity
<1> QED BY <1>9, <1>10, <1>11, <1>12

\* apply_put and apply_delete.
LEMMA ApplyKeeps ==
  ASSUME IndInv, NEW o \in Observers, NEW c \in Contexts, NEW k, ApplyPut(o, c, k) \/ ApplyDelete(o, c, k)
  PROVE  IndInv'
<1>1. \A op \in {"put", "delete"} : Sample(o, c, k, op) => k \in Keys
  <2> SUFFICES ASSUME NEW op \in {"put", "delete"}, Sample(o, c, k, op) PROVE k \in Keys
    OBVIOUS
  <2>1. inbox[o][c] \in Seq(Samples) /\ inbox[o][c] # << >> /\ k \in Head(inbox[o][c]).keys
    BY DEF Sample, IndInv, TypeOK
  <2>2. Head(inbox[o][c]) \in Samples
    BY <2>1
  <2> QED BY <2>1, <2>2 DEF Samples
<1>2. CASE ApplyPut(o, c, k)
  <2> DEFINE a == Announce("EntityDeclared", k)
  <2>1. /\ Sample(o, c, k, "put")
        /\ cache' = [cache EXCEPT ![o] = IF "put" = "put" THEN @ \cup {k} ELSE @ \ {k}]
        /\ announcing' = [announcing EXCEPT ![o][c] = a]
        /\ UNCHANGED <<nodeVars, linked, losses, waitVars>>
    BY <1>2 DEF ApplyPut
  <2>2. a \in Events \cup {None}
    BY <1>1, <2>1 DEF Announce, Events
  <2> QED BY <2>1, <2>2, SampleKeeps
<1>3. CASE ApplyDelete(o, c, k)
  <2> DEFINE a == IF k \in cache[o] THEN Announce("EntityUndeclared", k) ELSE None
  <2>1. /\ Sample(o, c, k, "delete")
        /\ cache' = [cache EXCEPT ![o] = IF "delete" = "put" THEN @ \cup {k} ELSE @ \ {k}]
        /\ announcing' = [announcing EXCEPT ![o][c] = a]
        /\ UNCHANGED <<nodeVars, linked, losses, waitVars>>
    BY <1>3 DEF ApplyDelete
  <2>2. a \in Events \cup {None}
    BY <1>1, <2>1 DEF Announce, Events
  <2>3. k \in Keys /\ "delete" = "put" => a = Announce("EntityDeclared", k)
    OBVIOUS
  <2> HIDE DEF a
  <2> QED BY <2>1, <2>2, <2>3, SampleKeeps
<1> QED BY <1>2, <1>3

\* broadcast.
LEMMA BroadcastKeeps ==
  ASSUME IndInv, NEW o \in Observers, NEW c \in Contexts, Broadcast(o, c)
  PROVE  IndInv'
<1> USE DEF IndInv
<1> DEFINE subs == {w \in subscribers[o] : Open(w)}
           a == announcing[o][c]
<1>1. a \in Events /\ a # None
  BY DEF Broadcast, TypeOK
<1>2. /\ subscribers' \in [Observers -> SUBSET Waits]
      /\ \A p \in Observers : subscribers'[p] = IF p = o THEN subs ELSE subscribers[p]
  BY DEF Broadcast, TypeOK
<1>3. /\ announcing' \in [Observers -> [Contexts -> Events \cup {None}]]
      /\ \A p \in Observers, d \in Contexts : announcing'[p][d] = IF p = o /\ d = c THEN None ELSE announcing[p][d]
  BY DEF Broadcast, TypeOK
<1>4. /\ channel' \in [Waits -> Seq(Events)]
      /\ \A w \in Waits : channel'[w] = IF w \in subs THEN Append(channel[w], a) ELSE channel[w]
  <2>1. \A w \in Waits : channel[w] \in Seq(Events) /\ Append(channel[w], a) \in Seq(Events)
    BY <1>1 DEF TypeOK
  <2> QED BY <2>1 DEF Broadcast
<1>5. UNCHANGED <<nodeVars, netVars, cache, wait>>
  BY DEF Broadcast
<1> HIDE DEF a
<1>6. TypeOK'
  BY <1>2, <1>3, <1>4, <1>5 DEF TypeOK
<1>7. CallsOK' /\ IdsOK' /\ KeysOK' /\ QueueOK'
  BY <1>5, NodesFrame, QueueFrame
<1>8. \A w \in Waits : WaitsIn[w] \in Observers /\ (Open(w)' <=> Open(w)) /\ (Found(w)' <=> Found(w))
  BY <1>5, ConstantsAssumption DEF Open, Found
<1>9. \A w \in Waits : Open(w) => w \in subscribers'[WaitsIn[w]]
  BY <1>2, <1>8 DEF WaitsOK
<1>10. ASSUME NEW w \in Waits, wait'[w] = "receiving", Found(w)'
       PROVE  \/ \E i \in DOMAIN channel'[w] : IsAwaited(w, channel'[w][i])
              \/ /\ w \in subscribers'[WaitsIn[w]]
                 /\ \E d \in Contexts : announcing'[WaitsIn[w]][d] # None /\ IsAwaited(w, announcing'[WaitsIn[w]][d])
  <2>1. Open(w) /\ wait[w] = "receiving" /\ Found(w) /\ w \in subscribers'[WaitsIn[w]] /\ channel[w] \in Seq(Events)
    BY <1>5, <1>8, <1>9, <1>10 DEF Open, TypeOK
  <2>2. \/ \E i \in DOMAIN channel[w] : IsAwaited(w, channel[w][i])
        \/ \E d \in Contexts : announcing[WaitsIn[w]][d] # None /\ IsAwaited(w, announcing[WaitsIn[w]][d])
    BY <2>1 DEF WaitsOK, NoMissedEntity
  <2>3. \A i \in DOMAIN channel[w] : i \in DOMAIN channel'[w] /\ channel'[w][i] = channel[w][i]
    <3> DEFINE q == channel[w]
    <3> HIDE DEF q
    <3>1. ASSUME q \in Seq(Events)
          PROVE \A i \in DOMAIN q : i \in DOMAIN Append(q, a) /\ Append(q, a)[i] = q[i]
      BY <1>1, <3>1
    <3> QED BY <1>4, <2>1, <3>1 DEF q
  <2>4. CASE \E i \in DOMAIN channel[w] : IsAwaited(w, channel[w][i])
    BY <2>3, <2>4
  <2>5. CASE \E d \in Contexts : announcing[WaitsIn[w]][d] # None /\ IsAwaited(w, announcing[WaitsIn[w]][d])
    <3>1. PICK d \in Contexts : announcing[WaitsIn[w]][d] # None /\ IsAwaited(w, announcing[WaitsIn[w]][d])
      BY <2>5
    <3>2. CASE WaitsIn[w] = o /\ d = c
      <4>1. w \in subs /\ IsAwaited(w, a)
        BY <1>2, <2>1, <3>1, <3>2 DEF a
      <4>2. channel'[w] = Append(channel[w], a)
        BY <1>4, <4>1
      <4>3. Len(channel[w]) + 1 \in DOMAIN channel'[w] /\ channel'[w][Len(channel[w]) + 1] = a
        BY <1>1, <2>1, <4>2
      <4> QED BY <4>1, <4>3
    <3>3. CASE ~(WaitsIn[w] = o /\ d = c)
      <4>1. announcing'[WaitsIn[w]][d] = announcing[WaitsIn[w]][d]
        BY <1>3, <1>8, <3>3
      <4> QED BY <2>1, <3>1, <4>1
    <3> QED BY <3>2, <3>3
  <2> QED BY <2>2, <2>4, <2>5
<1>11. WaitsOK'
  BY <1>8, <1>9, <1>10 DEF WaitsOK, NoMissedEntity
<1> QED BY <1>6, <1>7, <1>11

\* A step of one wait: what it must see to.
LEMMA WaitKeeps ==
  ASSUME IndInv, NEW w \in Waits, UNCHANGED <<nodeVars, netVars, cacheVars>>,
         subscribers' \in [Observers -> SUBSET Waits],
         \A p \in Observers : subscribers[p] \subseteq subscribers'[p],
         channel' \in [Waits -> Seq(Events)],
         wait' \in [Waits -> {"idle", "subscribed", "receiving", "done", "dropped"}],
         \A v \in Waits : v # w => channel'[v] = channel[v] /\ wait'[v] = wait[v],
         Open(w)' => w \in subscribers'[WaitsIn[w]],
         wait'[w] = "receiving" /\ Found(w) =>
            \/ \E i \in DOMAIN channel'[w] : IsAwaited(w, channel'[w][i])
            \/ \E d \in Contexts : announcing[WaitsIn[w]][d] # None /\ IsAwaited(w, announcing[WaitsIn[w]][d])
  PROVE  IndInv'
<1> USE DEF IndInv
<1>1. TypeOK'
  BY DEF TypeOK
<1>2. CallsOK' /\ IdsOK' /\ KeysOK' /\ QueueOK'
  BY NodesFrame, QueueFrame
<1>3. \A v \in Waits : WaitsIn[v] \in Observers /\ (Found(v)' <=> Found(v))
  BY ConstantsAssumption DEF Found
<1>4. \A v \in Waits : Open(v)' => v \in subscribers'[WaitsIn[v]]
  BY <1>3 DEF WaitsOK, Open
<1>5. ASSUME NEW v \in Waits, wait'[v] = "receiving", Found(v)'
      PROVE  \/ \E i \in DOMAIN channel'[v] : IsAwaited(v, channel'[v][i])
             \/ /\ v \in subscribers'[WaitsIn[v]]
                /\ \E d \in Contexts : announcing'[WaitsIn[v]][d] # None /\ IsAwaited(v, announcing'[WaitsIn[v]][d])
  <2>1. v \in subscribers'[WaitsIn[v]] /\ Found(v)
    BY <1>3, <1>4, <1>5 DEF Open
  <2>2. CASE v = w
    BY <1>5, <2>1, <2>2
  <2>3. CASE v # w
    BY <1>5, <2>1, <2>3 DEF WaitsOK, NoMissedEntity
  <2> QED BY <2>2, <2>3
<1>6. WaitsOK'
  BY <1>4, <1>5 DEF WaitsOK, NoMissedEntity
<1> QED BY <1>1, <1>2, <1>6

\* Every step of wait_for, and dropping it.
LEMMA WaitForKeeps ==
  ASSUME IndInv, NEW w \in Waits, WaitFor(w) \/ DropWait(w)
  PROVE  IndInv'
<1>1. /\ WaitsIn[w] \in Observers /\ channel \in [Waits -> Seq(Events)] /\ channel[w] \in Seq(Events)
      /\ wait \in [Waits -> {"idle", "subscribed", "receiving", "done", "dropped"}]
      /\ subscribers \in [Observers -> SUBSET Waits]
  BY ConstantsAssumption DEF IndInv, TypeOK
<1>2. Open(w) => w \in subscribers[WaitsIn[w]]
  BY DEF IndInv, WaitsOK
<1>3. ASSUME NEW how \in {"done", "dropped"}, Ends(w, how), UNCHANGED <<nodeVars, netVars, cacheVars, subscribers>>
      PROVE  IndInv'
  <2>1. << >> \in Seq(Events)
    OBVIOUS
  <2>2. channel' \in [Waits -> Seq(Events)] /\ \A v \in Waits : v # w => channel'[v] = channel[v] /\ wait'[v] = wait[v]
    BY <1>1, <1>3, <2>1 DEF Ends
  <2>3. wait' \in [Waits -> {"idle", "subscribed", "receiving", "done", "dropped"}] /\ wait'[w] = how
    BY <1>1, <1>3 DEF Ends
  <2>4. ~Open(w)' /\ wait'[w] # "receiving"
    BY <2>3 DEF Open
  <2>5. /\ subscribers' \in [Observers -> SUBSET Waits]
        /\ \A p \in Observers : subscribers[p] \subseteq subscribers'[p]
    BY <1>1, <1>3
  <2> QED BY <1>3, <2>2, <2>3, <2>4, <2>5, WaitKeeps
<1>4. CASE Subscribe(w)
  <2>1. /\ subscribers' \in [Observers -> SUBSET Waits] /\ w \in subscribers'[WaitsIn[w]]
        /\ \A p \in Observers : subscribers[p] \subseteq subscribers'[p]
    BY <1>1, <1>4 DEF Subscribe
  <2>2. /\ wait' \in [Waits -> {"idle", "subscribed", "receiving", "done", "dropped"}]
        /\ wait'[w] = "subscribed" /\ channel' = channel
        /\ \A v \in Waits : v # w => wait'[v] = wait[v]
        /\ UNCHANGED <<nodeVars, netVars, cacheVars>>
    BY <1>1, <1>4 DEF Subscribe
  <2> QED BY <1>1, <2>1, <2>2, WaitKeeps
<1>5. CASE Check(w) /\ Found(w)
  BY <1>3, <1>5 DEF Check
<1>6. CASE Check(w) /\ ~Found(w)
  <2>1. /\ wait' \in [Waits -> {"idle", "subscribed", "receiving", "done", "dropped"}]
        /\ channel' = channel /\ subscribers' = subscribers
        /\ \A v \in Waits : v # w => wait'[v] = wait[v]
        /\ UNCHANGED <<nodeVars, netVars, cacheVars>>
    BY <1>1, <1>6 DEF Check
  <2>2. w \in subscribers'[WaitsIn[w]]
    BY <1>2, <1>6, <2>1 DEF Check, Open
  <2> QED BY <1>1, <1>6, <2>1, <2>2, WaitKeeps
<1>7. CASE Receive(w) /\ IsAwaited(w, Head(channel[w]))
  BY <1>3, <1>7 DEF Receive
<1>8. CASE Receive(w) /\ ~IsAwaited(w, Head(channel[w]))
  <2> DEFINE q == channel[w]
  <2>1. /\ wait[w] = "receiving" /\ q # << >>
        /\ channel' = [channel EXCEPT ![w] = Tail(q)]
        /\ UNCHANGED <<wait, subscribers, nodeVars, netVars, cacheVars>>
    BY <1>8 DEF Receive
  <2>2. Tail(q) \in Seq(Events)
    BY <1>1, <2>1
  <2>3. channel' \in [Waits -> Seq(Events)] /\ channel'[w] = Tail(q)
        /\ \A v \in Waits : v # w => channel'[v] = channel[v]
    BY <1>1, <2>1, <2>2
  <2>4. w \in subscribers'[WaitsIn[w]]
    BY <1>2, <2>1 DEF Open
  <2>5. ASSUME Found(w)
        PROVE  \/ \E i \in DOMAIN channel'[w] : IsAwaited(w, channel'[w][i])
               \/ \E d \in Contexts : announcing[WaitsIn[w]][d] # None /\ IsAwaited(w, announcing[WaitsIn[w]][d])
    <3>1. \/ \E i \in DOMAIN q : IsAwaited(w, q[i])
          \/ \E d \in Contexts : announcing[WaitsIn[w]][d] # None /\ IsAwaited(w, announcing[WaitsIn[w]][d])
      BY <2>1, <2>5 DEF IndInv, WaitsOK, NoMissedEntity
    <3>2. ASSUME NEW i \in DOMAIN q, IsAwaited(w, q[i])
          PROVE  \E j \in DOMAIN Tail(q) : IsAwaited(w, Tail(q)[j])
      <4>1. i # 1
        BY <1>1, <1>8, <2>1, <3>2
      <4>2. i - 1 \in DOMAIN Tail(q) /\ Tail(q)[i - 1] = q[i]
        BY <1>1, <2>1, <4>1
      <4> QED BY <3>2, <4>2
    <3> QED BY <2>3, <3>1, <3>2
  <2> HIDE DEF q
  <2> QED BY <1>1, <2>1, <2>3, <2>4, <2>5, WaitKeeps
<1>9. CASE DropWait(w)
  BY <1>3, <1>9 DEF DropWait
<1> QED BY <1>4, <1>5, <1>6, <1>7, <1>8, <1>9 DEF WaitFor

-----------------------------------------------------------------------------

\* The inductive invariant: every key has its last word in the queue or in the
\* cache, ids are given once, and open waits are subscribed.
THEOREM Invariance == Spec => []IndInv
<1>1. ASSUME IndInv, [Next]_vars PROVE IndInv'
  <2>1. CASE UNCHANGED vars
    <3>1. TypeOK'
      BY <1>1, <2>1 DEF vars, IndInv, TypeOK
    <3> QED BY <1>1, <2>1, <3>1, NodesFrame, WaitsFrame, QueueFrame DEF vars, IndInv
  <2>2. CASE Create
    BY <1>1, <2>2, NewNodeKeeps, BeginCreateKeeps, DeclareEntityKeeps, CreateFailsKeeps DEF Create
  <2>3. CASE Drop
    BY <1>1, <2>3, DropEntityKeeps, DropNodeKeeps DEF Drop
  <2>4. CASE Connect
    BY <1>1, <2>4, LinkKeeps DEF Connect
  <2>5. ASSUME NEW o \in Observers, NEW c \in Contexts, Callback(o, c) PROVE IndInv'
    BY <1>1, <2>5, ApplyKeeps, BroadcastKeeps DEF Callback
  <2>6. ASSUME NEW w \in Waits, WaitFor(w) \/ DropWait(w) PROVE IndInv'
    BY <1>1, <2>6, WaitForKeeps
  <2> QED BY <1>1, <2>1, <2>2, <2>3, <2>4, <2>5, <2>6 DEF Next
<1> QED BY InitIndInv, <1>1, PTL DEF Spec

\* Whatever is created, dropped, lost and awaited, the variables keep their types;
\* in particular a create_* call never runs out of entities to declare, and what it
\* has declared stays its own until it returns (Node::create_*).
THEOREM TypeCorrectness == Spec => []TypeOK
<1>1. IndInv => TypeOK
  BY DEF IndInv
<1> QED BY Invariance, <1>1, PTL

\* A GraphCache whose samples are in has every reachable entity with a token, once,
\* and nothing else (GraphCache::apply_put, apply_delete).
THEOREM CacheRight == Spec => []CacheIsGraph
<1>1. ASSUME IndInv, NEW o \in Observers, \A c \in Contexts : inbox[o][c] = << >>
      PROVE  /\ cache[o] = {e.key : e \in Visible(o)}
             /\ \A e, f \in Visible(o) : e.key = f.key => e = f
  <2>1. \A e, f \in Visible(o) : e.key = f.key => e = f
    BY <1>1 DEF Visible, IndInv, KeysOK
  <2>2. cache[o] \subseteq Keys /\ Shown(o) \subseteq Keys
    BY <1>1 DEF IndInv, TypeOK, Shown, Visible
  <2>3. ASSUME NEW k \in Keys PROVE k \in cache[o] <=> k \in Shown(o)
    <3>1. k.zid \in Contexts /\ Agrees(inbox[o][k.zid], k, cache[o], Shown(o))
      BY <1>1, <2>3 DEF IndInv, QueueOK, Keys
    <3>2. DOMAIN inbox[o][k.zid] = {}
      BY <1>1, <3>1
    <3> QED BY <3>1, <3>2 DEF Agrees
  <2>4. cache[o] = Shown(o)
    BY <2>2, <2>3
  <2> QED BY <2>1, <2>4 DEF Shown
<1>2. IndInv => CacheIsGraph
  BY <1>1 DEF CacheIsGraph
<1> QED BY Invariance, <1>2, PTL

\* wait_for misses no entity, however its subscription, its look at the cache and the
\* callbacks interleave (Context::wait_for, GraphCache::broadcast).
THEOREM NothingMissed == Spec => []NoMissedEntity
<1>1. IndInv => NoMissedEntity
  BY DEF IndInv, WaitsOK
<1> QED BY Invariance, <1>1, PTL
=============================================================================
