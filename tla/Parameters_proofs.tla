-------------------------- MODULE Parameters_proofs --------------------------
(***************************************************************************)
(* Proofs about the parameters of a node, in two parts.                    *)
(*                                                                         *)
(* The first is about Parameters: for every set of names, values and       *)
(* application tasks, every validator, every bound, and any interleaving   *)
(* of calls.                                                               *)
(*                                                                         *)
(* The second is about Conversions, the pure algorithms that parameters,   *)
(* their services and all other traffic go through: for all times, texts,  *)
(* numbers, profiles, bytes and orders of types.  The two parts share no   *)
(* state.                                                                  *)
(***************************************************************************)
EXTENDS Parameters, Conversions, TLAPS, SequenceTheorems, FiniteSetTheorems,
        WellFoundedInduction

\* Two calls are about the same parameter only if it counts as overlapped.
AloneOK ==
  \A c, d \in Callers :
    c # d /\ pc[c] # "idle" /\ pc[d] # "idle" /\ name[c] = name[d] => name[c] \in overlapped

\* A call of set_parameter has a value, which past the validator is a valid one.
CheckedOK ==
  \A c \in Callers :
    /\ pc[c] \in {"validate", "act", "insert", "notify"} => value[c] \in Values
    /\ pc[c] \in {"act", "insert", "notify"} => Accepts(name[c], value[c])

\* Where a call stands that has its parameter for itself: what the table, the set
\* action and the listener have seen of it.
SyncAt(c) ==
  LET n == name[c] IN
  /\ pc[c] \in {"validate", "act"} =>
       listener[n] = parameters[n] /\ (parameters[n] # Undeclared => effect[n] = parameters[n])
  /\ pc[c] = "insert" => listener[n] = parameters[n] /\ effect[n] = value[c]
  /\ pc[c] = "notify" => parameters[n] = value[c] /\ effect[n] = value[c]
  /\ pc[c] = "forget" => parameters[n] = Undeclared
  /\ pc[c] \in {"validate", "act", "insert", "notify"} =>
       (alreadySet[c] <=> listener[n] # Undeclared)
  /\ pc[c] \in {"validate", "act", "insert"} => allowUndeclared \/ alreadySet[c]

SyncOK == \A c \in Callers : name[c] \notin overlapped => SyncAt(c)

IndInv ==
  /\ TypeOK
  /\ OnlyValidated
  /\ AloneOK
  /\ CheckedOK
  /\ SyncOK
  /\ ListenerAgrees
  /\ EffectAgrees

USE DEF call, spin, Goto, AfterError, BusyWith, Quiet

-----------------------------------------------------------------------------

\* A new Node satisfies the inductive invariant.
LEMMA InitIndInv == Init => IndInv
<1> SUFFICES ASSUME Init PROVE IndInv
  OBVIOUS
<1>1. TypeOK
  <2>1. parameters \in [Names -> Entries]
    BY DEF Init
  <2>2. event \in [kind: {"none", "new", "changed", "deleted"}, name: Names]
    BY ConstantsAssumption DEF Init, NoEvent
  <2>3. pc \in [Callers -> {"idle", "validate", "act", "insert", "notify", "forget"}]
    BY DEF Init
  <2>4. name \in [Callers -> Names] /\ value \in [Callers -> Entries]
    BY ConstantsAssumption DEF Init, Entries
  <2>5. alreadySet \in [Callers -> BOOLEAN]
    BY DEF Init
  <2>6. calls \in [Tasks -> 0 .. MaxCalls] /\ sent \in 0 .. MaxRequests
    BY ConstantsAssumption DEF Init
  <2>7. requests \in Seq(Seq(Names \X Values)) /\ rest \in Seq(Names \X Values)
    BY DEF Init
  <2> QED BY <2>1, <2>2, <2>3, <2>4, <2>5, <2>6, <2>7 DEF Init, TypeOK
<1>2. OnlyValidated
  BY ConstantsAssumption DEF Init, OnlyValidated
<1>3. AloneOK /\ CheckedOK /\ SyncOK
  BY DEF Init, AloneOK, CheckedOK, SyncOK, SyncAt
<1>4. ListenerAgrees /\ EffectAgrees
  BY DEF Init, ListenerAgrees, EffectAgrees
<1> QED BY <1>1, <1>2, <1>3, <1>4 DEF IndInv

\* The look into the table with which set_parameter begins, in Node or Spinner.
LEMMA BeginSetKeeps ==
  ASSUME IndInv, NEW c \in Callers, NEW n \in Names, NEW v \in Values, BeginSet(c, n, v),
         calls' \in [Tasks -> 0 .. MaxCalls], requests' = requests, sent' = sent,
         serving' = serving, rest' \in Seq(Names \X Values)
  PROVE  IndInv'
<1>1. TypeOK'
  BY DEF IndInv, TypeOK, BeginSet, Enters, Entries
<1>2. OnlyValidated'
  BY DEF IndInv, OnlyValidated, BeginSet
<1>3. AloneOK'
  BY DEF IndInv, TypeOK, AloneOK, BeginSet, Enters
<1>4. CheckedOK'
  BY DEF IndInv, TypeOK, CheckedOK, BeginSet, Enters, Accepts
<1>5. SyncOK'
  <2> SUFFICES ASSUME NEW d \in Callers, name'[d] \notin overlapped' PROVE SyncAt(d)'
    BY DEF SyncOK
  <2>1. CASE d = c
    <3>1. n \notin overlapped /\ \A e \in Callers \ {c} : ~BusyWith(e, n)
      BY <2>1 DEF IndInv, TypeOK, BeginSet, Enters
    <3>2. Quiet(n)
      BY <3>1 DEF BeginSet, Enters
    <3>3. listener[n] = parameters[n] /\ (parameters[n] # Undeclared => effect[n] = parameters[n])
      BY <3>2 DEF IndInv, ListenerAgrees, EffectAgrees
    <3> QED
      BY <2>1, <3>3 DEF IndInv, TypeOK, SyncAt, BeginSet, Enters, MaySet
  <2>2. CASE d # c
    BY <2>2 DEF IndInv, TypeOK, SyncOK, SyncAt, BeginSet, Enters
  <2> QED BY <2>1, <2>2
<1>6. ListenerAgrees' /\ EffectAgrees'
  BY DEF IndInv, TypeOK, ListenerAgrees, EffectAgrees, BeginSet, Enters
<1> QED BY <1>1, <1>2, <1>3, <1>4, <1>5, <1>6 DEF IndInv

\* The validator only decides where the call goes on.
LEMMA ValidateKeeps == ASSUME IndInv, NEW c \in Callers, Validate(c) PROVE IndInv'
<1>1. TypeOK'
  BY DEF IndInv, TypeOK, Validate
<1>2. OnlyValidated'
  BY DEF IndInv, OnlyValidated, Validate
<1>3. AloneOK'
  BY DEF IndInv, TypeOK, AloneOK, Validate
<1>4. CheckedOK'
  BY DEF IndInv, TypeOK, CheckedOK, Validate
<1>5. SyncOK'
  BY DEF IndInv, TypeOK, SyncOK, SyncAt, Validate
<1>6. ListenerAgrees' /\ EffectAgrees'
  BY DEF IndInv, TypeOK, ListenerAgrees, EffectAgrees, SyncOK, SyncAt, Validate, AloneOK
<1> QED BY <1>1, <1>2, <1>3, <1>4, <1>5, <1>6 DEF IndInv

\* The set action has an effect with a value that was validated, or none.
LEMMA ActKeeps == ASSUME IndInv, NEW c \in Callers, Act(c) PROVE IndInv'
<1>1. TypeOK'
  BY DEF IndInv, TypeOK, CheckedOK, Act, Entries
<1>2. OnlyValidated'
  <2>1. /\ effect' = [effect EXCEPT ![name[c]] = value[c]] \/ effect' = effect
        /\ UNCHANGED <<parameters, listener>> /\ pc[c] = "act"
    BY DEF Act
  <2>2. Accepts(name[c], value[c])
    BY <2>1 DEF IndInv, CheckedOK
  <2>3. \A n \in Names : effect'[n] = effect[n] \/ (n = name[c] /\ effect'[n] = value[c])
    BY <2>1 DEF IndInv, TypeOK
  <2> QED BY <2>1, <2>2, <2>3 DEF IndInv, OnlyValidated, Accepts
<1>3. AloneOK'
  BY DEF IndInv, TypeOK, AloneOK, Act
<1>4. CheckedOK'
  BY DEF IndInv, TypeOK, CheckedOK, Act, Accepts
<1>5. SyncOK'
  <2> SUFFICES ASSUME NEW d \in Callers, name'[d] \notin overlapped' PROVE SyncAt(d)'
    BY DEF SyncOK
  <2>1. SyncAt(d) /\ name[d] \in Names /\ name[c] \in Names
    BY DEF IndInv, TypeOK, SyncOK, Act
  <2>2. CASE d = c
    BY <2>1, <2>2 DEF IndInv, TypeOK, SyncAt, Act
  <2>3. CASE d # c
    <3>1. pc[d] = "idle" \/ name[d] # name[c]
      BY <2>3 DEF IndInv, AloneOK, Act
    <3> QED BY <2>1, <2>3, <3>1 DEF IndInv, TypeOK, SyncAt, Act
  <2> QED BY <2>2, <2>3
<1>6. ListenerAgrees' /\ EffectAgrees'
  BY DEF IndInv, TypeOK, ListenerAgrees, EffectAgrees, SyncOK, SyncAt, AloneOK, Act
<1> QED BY <1>1, <1>2, <1>3, <1>4, <1>5, <1>6 DEF IndInv

\* The table gets the value that the set action was run with.
LEMMA InsertKeeps == ASSUME IndInv, NEW c \in Callers, Insert(c) PROVE IndInv'
<1>1. TypeOK'
  BY DEF IndInv, TypeOK, CheckedOK, Insert, Entries
<1>2. OnlyValidated'
  BY DEF IndInv, TypeOK, OnlyValidated, CheckedOK, Insert, Accepts
<1>3. AloneOK'
  BY DEF IndInv, TypeOK, AloneOK, Insert
<1>4. CheckedOK'
  BY DEF IndInv, TypeOK, CheckedOK, Insert, Accepts
<1>5. SyncOK'
  BY DEF IndInv, TypeOK, SyncOK, SyncAt, AloneOK, Insert
<1>6. ListenerAgrees' /\ EffectAgrees'
  BY DEF IndInv, TypeOK, ListenerAgrees, EffectAgrees, Insert
<1> QED BY <1>1, <1>2, <1>3, <1>4, <1>5, <1>6 DEF IndInv

\* The listener gets the value that is in the table.
LEMMA NotifyKeeps == ASSUME IndInv, NEW c \in Callers, Notify(c) PROVE IndInv'
<1>1. TypeOK'
  BY DEF IndInv, TypeOK, CheckedOK, Notify, Entries, EventKind
<1>2. OnlyValidated'
  BY DEF IndInv, TypeOK, OnlyValidated, CheckedOK, Notify, Accepts
<1>3. AloneOK'
  BY DEF IndInv, TypeOK, AloneOK, Notify
<1>4. CheckedOK'
  BY DEF IndInv, TypeOK, CheckedOK, Notify, Accepts
<1>5. SyncOK'
  BY DEF IndInv, TypeOK, SyncOK, SyncAt, AloneOK, Notify
<1>6. ListenerAgrees' /\ EffectAgrees'
  BY DEF IndInv, TypeOK, ListenerAgrees, EffectAgrees, SyncOK, SyncAt, AloneOK, Notify
<1> QED BY <1>1, <1>2, <1>3, <1>4, <1>5, <1>6 DEF IndInv

\* undeclare_parameter removes an entry.
LEMMA UndeclareKeeps ==
  ASSUME IndInv, NEW t \in Tasks, NEW n \in Names, UndeclareParameter(t, n) PROVE IndInv'
<1>0. t \in Callers
  BY DEF Callers
<1>1. TypeOK'
  BY <1>0, ConstantsAssumption
     DEF IndInv, TypeOK, UndeclareParameter, CountCall, Enters, Entries
<1>2. OnlyValidated'
  BY DEF IndInv, TypeOK, OnlyValidated, UndeclareParameter
<1>3. AloneOK'
  BY <1>0 DEF IndInv, TypeOK, AloneOK, UndeclareParameter, Enters
<1>4. CheckedOK'
  BY <1>0 DEF IndInv, TypeOK, CheckedOK, UndeclareParameter, Enters, Accepts
<1>5. SyncOK'
  BY <1>0 DEF IndInv, TypeOK, SyncOK, SyncAt, UndeclareParameter, Enters
<1>6. ListenerAgrees' /\ EffectAgrees'
  BY <1>0 DEF IndInv, TypeOK, ListenerAgrees, EffectAgrees, UndeclareParameter, Enters
<1> QED BY <1>1, <1>2, <1>3, <1>4, <1>5, <1>6 DEF IndInv

\* The listener hears of the removal.
LEMMA AnnounceDeletedKeeps ==
  ASSUME IndInv, NEW t \in Tasks, AnnounceDeleted(t) PROVE IndInv'
<1>0. t \in Callers
  BY DEF Callers
<1>1. TypeOK'
  BY <1>0 DEF IndInv, TypeOK, AnnounceDeleted, Entries
<1>2. OnlyValidated'
  BY <1>0 DEF IndInv, TypeOK, OnlyValidated, AnnounceDeleted
<1>3. AloneOK'
  BY <1>0 DEF IndInv, TypeOK, AloneOK, AnnounceDeleted
<1>4. CheckedOK'
  BY <1>0 DEF IndInv, TypeOK, CheckedOK, AnnounceDeleted, Accepts
<1>5. SyncOK'
  BY <1>0 DEF IndInv, TypeOK, SyncOK, SyncAt, AloneOK, AnnounceDeleted
<1>6. ListenerAgrees' /\ EffectAgrees'
  BY <1>0 DEF IndInv, TypeOK, ListenerAgrees, EffectAgrees, SyncOK, SyncAt, AloneOK, AnnounceDeleted
<1> QED BY <1>1, <1>2, <1>3, <1>4, <1>5, <1>6 DEF IndInv

\* A step that only moves requests about, or none at all, keeps everything else.
LEMMA FrameKeeps ==
  ASSUME IndInv, TypeOK',
         UNCHANGED <<allowUndeclared, parameters, effect, listener, call, overlapped>>
  PROVE  IndInv'
BY DEF IndInv, OnlyValidated, AloneOK, CheckedOK, SyncOK, SyncAt, ListenerAgrees, EffectAgrees,
       Accepts

\* A remote client sends a request.
LEMMA RequestSetKeeps ==
  ASSUME IndInv, NEW ps \in ParameterLists, RequestSet(ps) PROVE IndInv'
<1>1. ps \in Seq(Names \X Values)
  <2>1. PICK k \in 1 .. 2 : ps \in [1 .. k -> Names \X Values]
    BY DEF ParameterLists
  <2> QED BY <2>1
<1>2. TypeOK'
  BY <1>1, ConstantsAssumption DEF IndInv, TypeOK, RequestSet
<1> QED BY <1>2, FrameKeeps DEF RequestSet

\* The Spinner takes a request.
LEMMA TakeRequestKeeps == ASSUME IndInv, TakeRequest PROVE IndInv'
<1>1. Head(requests) \in Seq(Names \X Values) /\ Tail(requests) \in Seq(Seq(Names \X Values))
  BY DEF IndInv, TypeOK, TakeRequest
<1>2. TypeOK'
  BY <1>1 DEF IndInv, TypeOK, TakeRequest
<1> QED BY <1>2, FrameKeeps DEF TakeRequest

\* The Spinner sets the next parameter of its request.
LEMMA SetNextKeeps == ASSUME IndInv, SetNext PROVE IndInv'
<1> DEFINE n == Head(rest)[1]  v == Head(rest)[2]
<1>1. Head(rest) \in Names \X Values /\ Tail(rest) \in Seq(Names \X Values)
  BY DEF IndInv, TypeOK, SetNext
<1>2. n \in Names /\ v \in Values
  BY <1>1
<1>3. BeginSet(Spinner, n, v)
  BY DEF SetNext
<1>4. calls' \in [Tasks -> 0 .. MaxCalls]
  BY DEF IndInv, TypeOK, SetNext
<1>5. /\ requests' = requests /\ sent' = sent /\ serving' = serving
      /\ rest' \in Seq(Names \X Values)
  BY <1>1 DEF SetNext
<1>6. Spinner \in Callers
  BY DEF Callers
<1> HIDE DEF n, v
<1> QED BY <1>2, <1>3, <1>4, <1>5, <1>6, BeginSetKeeps

\* The Spinner answers.
LEMMA RespondKeeps == ASSUME IndInv, Respond PROVE IndInv'
<1>1. TypeOK'
  BY DEF IndInv, TypeOK, Respond
<1> QED BY <1>1, FrameKeeps DEF Respond

\* A task of the application calls set_parameter.
LEMMA SetParameterKeeps ==
  ASSUME IndInv, NEW t \in Tasks, NEW n \in Names, NEW v \in Values, SetParameter(t, n, v)
  PROVE  IndInv'
<1>1. calls' \in [Tasks -> 0 .. MaxCalls]
  BY ConstantsAssumption DEF IndInv, TypeOK, SetParameter, CountCall
<1>2. t \in Callers /\ BeginSet(t, n, v)
  BY DEF Callers, SetParameter
<1>3. /\ requests' = requests /\ sent' = sent /\ serving' = serving
      /\ rest' \in Seq(Names \X Values)
  BY DEF IndInv, TypeOK, SetParameter
<1> QED BY <1>1, <1>2, <1>3, BeginSetKeeps

\* Every step of the application, the Spinner and the clients keeps the invariant.
LEMMA NextIndInv == IndInv /\ [Next]_vars => IndInv'
<1> SUFFICES ASSUME IndInv, [Next]_vars PROVE IndInv'
  OBVIOUS
<1>1. ASSUME NEW c \in Callers, ContinueSet(c) PROVE IndInv'
  BY <1>1, ValidateKeeps, ActKeeps, InsertKeeps, NotifyKeeps DEF ContinueSet
<1>2. CASE \E ps \in ParameterLists : RequestSet(ps)
  BY <1>2, RequestSetKeeps
<1>3. CASE SpinnerStep
  BY <1>1, <1>3, TakeRequestKeeps, SetNextKeeps, RespondKeeps DEF SpinnerStep, Callers
<1>4. ASSUME NEW t \in Tasks, TaskStep(t) PROVE IndInv'
  BY <1>1, <1>4, SetParameterKeeps, UndeclareKeeps, AnnounceDeletedKeeps DEF TaskStep, Callers
<1>5. CASE UNCHANGED vars
  <2>1. TypeOK'
    BY <1>5 DEF IndInv, TypeOK, vars
  <2> QED BY <1>5, <2>1, FrameKeeps DEF vars
<1> QED BY <1>2, <1>3, <1>4, <1>5 DEF Next

\* The inductive invariant holds in every state: a call that has its parameter for
\* itself knows what the table, the set action and the listener have seen of it.
THEOREM Invariance == Spec => []IndInv
BY InitIndInv, NextIndInv, PTL DEF Spec

\* However calls interleave, only validated values get into the table, to the
\* application's set action and to listeners.
THEOREM NothingUnvalidated == Spec => []OnlyValidated
<1>1. IndInv => OnlyValidated
  BY DEF IndInv
<1> QED BY <1>1, Invariance, PTL

\* Listeners of /parameter_events know the value of every parameter that no two
\* calls were about at once, whenever no call is about it.
THEOREM ListenerInSync == Spec => []ListenerAgrees
<1>1. IndInv => ListenerAgrees
  BY DEF IndInv
<1> QED BY <1>1, Invariance, PTL

\* For such a parameter the last set action was run with the value in the table:
\* the use_sim_time flag is the use_sim_time parameter.
THEOREM EffectInSync == Spec => []EffectAgrees
<1>1. IndInv => EffectAgrees
  BY DEF IndInv
<1> QED BY <1>1, Invariance, PTL

\* Where undeclared parameters are not allowed, set_parameter never brings one back,
\* unless it was undeclared while it was being set.
THEOREM DeclaredOnly == Spec => UndeclaredStays
<1> DEFINE A == ~allowUndeclared => \A n \in Names \ overlapped :
                  parameters[n] = Undeclared => parameters'[n] = Undeclared
<1>1. IndInv /\ [Next]_vars => [A]_vars
  <2> SUFFICES ASSUME IndInv, Next, ~allowUndeclared,
                      NEW n \in Names \ overlapped, parameters[n] = Undeclared
               PROVE  parameters'[n] = Undeclared
    OBVIOUS
  <2>1. ASSUME NEW c \in Callers, Insert(c) PROVE parameters'[n] = Undeclared
    <3>1. CASE name[c] = n
      BY <2>1, <3>1 DEF IndInv, SyncOK, SyncAt, Insert
    <3>2. CASE name[c] # n
      BY <2>1, <3>2 DEF IndInv, TypeOK, Insert
    <3> QED BY <3>1, <3>2
  <2>2. ASSUME NEW t \in Tasks, NEW m \in Names, UndeclareParameter(t, m)
        PROVE  parameters'[n] = Undeclared
    BY <2>2 DEF IndInv, TypeOK, UndeclareParameter
  <2>3. CASE UNCHANGED parameters
    BY <2>3
  <2> QED
    BY <2>1, <2>2, <2>3 DEF Next, SpinnerStep, TaskStep, ContinueSet, Callers, RequestSet,
       TakeRequest, SetNext, BeginSet, Respond, SetParameter, Validate, Act, Notify,
       AnnounceDeleted
<1> QED BY <1>1, Invariance, PTL DEF Spec, UndeclaredStays

\* set_parameter announces a parameter as new exactly if listeners do not know it.
THEOREM KindRight == Spec => EventKindRight
<1> DEFINE A == \A n \in Names \ overlapped :
                  listener'[n] # listener[n] => (event'.kind = "new" <=> listener[n] = Undeclared)
<1>1. IndInv /\ [Next]_vars => [A]_vars
  <2> SUFFICES ASSUME IndInv, Next, NEW n \in Names \ overlapped, listener'[n] # listener[n]
               PROVE  event'.kind = "new" <=> listener[n] = Undeclared
    OBVIOUS
  <2>1. ASSUME NEW c \in Callers, Notify(c)
        PROVE  event'.kind = "new" <=> listener[n] = Undeclared
    <3>1. name[c] = n
      BY <2>1 DEF IndInv, TypeOK, Notify
    <3>2. alreadySet[c] <=> listener[n] # Undeclared
      BY <2>1, <3>1 DEF IndInv, SyncOK, SyncAt, Notify
    <3> QED BY <2>1, <3>1, <3>2 DEF Notify, EventKind
  <2>2. ASSUME NEW t \in Tasks, AnnounceDeleted(t)
        PROVE  event'.kind = "new" <=> listener[n] = Undeclared
    <3>1. listener'[n] = Undeclared
      BY <2>2 DEF IndInv, TypeOK, AnnounceDeleted
    <3> QED BY <2>2, <3>1 DEF AnnounceDeleted
  <2>3. CASE UNCHANGED listener
    BY <2>3
  <2> QED
    BY <2>1, <2>2, <2>3 DEF Next, SpinnerStep, TaskStep, ContinueSet, Callers, RequestSet,
       TakeRequest, SetNext, BeginSet, Respond, SetParameter, Validate, Act, Insert,
       UndeclareParameter
<1> QED BY <1>1, Invariance, PTL DEF Spec, EventKindRight

\* Whatever is set and undeclared by whom, the variables keep their types; calls and
\* requests stay within their bounds and the Spinner never runs past the end of a request
\* (Node::set_parameter, Spinner::spin).
THEOREM TypeCorrectness == Spec => []TypeOK
<1>1. IndInv => TypeOK
  BY DEF IndInv
<1> QED
  BY Invariance, <1>1, PTL

-----------------------------------------------------------------------------
(* Times and durations (Times).                                            *)

\* Division by a positive number: quotient and remainder.
LEMMA DivMod == ASSUME NEW n \in Int, NEW d \in Nat \ {0}
  PROVE /\ n \div d \in Int /\ n % d \in Int
        /\ n = d * (n \div d) + (n % d)
        /\ 0 <= n % d /\ n % d < d
  OBVIOUS
\* The quotient is the only number of its kind.
LEMMA DivUnique == ASSUME NEW n \in Int, NEW d \in Nat \ {0}, NEW q \in Int, NEW r \in Int,
   n = d * q + r, 0 <= r, r < d
  PROVE n \div d = q /\ n % d = r
<1>1. PICK p \in Int : p = n \div d
  BY DivMod
<1>2. PICK s \in Int : s = n % d
  BY DivMod
<1>3. n = d * p + s /\ 0 <= s /\ s < d
  BY <1>1, <1>2, DivMod
<1>4. d * (p - q) = r - s
  BY <1>3
<1>5. p - q < 1
  BY <1>3, <1>4
<1>6. p - q > -1
  BY <1>3, <1>4
<1> QED BY <1>1, <1>2, <1>3, <1>5, <1>6

\* Multiplying by a positive number keeps the order.
LEMMA MulMono == ASSUME NEW a \in Int, NEW b \in Int, NEW d \in Nat \ {0}
  PROVE /\ a <= b <=> a * d <= b * d
        /\ a < b <=> a * d < b * d
        /\ a * d \in Int
  OBVIOUS

\* Rust's division: quotient and remainder are towards zero (Quot, Rem).
LEMMA QuotRem == ASSUME NEW n \in Int
  PROVE /\ Quot(n) \in Int /\ Rem(n) \in Int
        /\ n = Giga * Quot(n) + Rem(n)
        /\ n >= 0 => Quot(n) >= 0 /\ 0 <= Rem(n) /\ Rem(n) < Giga
        /\ n < 0 => Quot(n) <= 0 /\ -Giga < Rem(n) /\ Rem(n) <= 0
<1>g. Giga \in Nat \ {0}
  BY TimesAssumption
<1>1. CASE n >= 0
  <2>1. PICK q \in Int : q = n \div Giga
    BY <1>g, DivMod
  <2>2. PICK r \in Int : r = n % Giga
    BY <1>g, DivMod
  <2>3. n = Giga * q + r /\ 0 <= r /\ r < Giga
    BY <2>1, <2>2, <1>g, DivMod
  <2>4. q >= 0
    BY <2>3, <1>1, <1>g
  <2>5. Quot(n) = q
    BY <2>1, <1>1 DEF Quot
  <2>6. Rem(n) = r
    BY <2>3, <2>5, <1>g DEF Rem
  <2> QED BY <2>3, <2>4, <2>5, <2>6, <1>1
<1>2. CASE n < 0
  <2>0. -n \in Int
    OBVIOUS
  <2>1. PICK q \in Int : q = (-n) \div Giga
    BY <1>g, <2>0, DivMod
  <2>2. PICK r \in Int : r = (-n) % Giga
    BY <1>g, <2>0, DivMod
  <2>3. -n = Giga * q + r /\ 0 <= r /\ r < Giga
    BY <2>0, <2>1, <2>2, <1>g, DivMod
  <2>4. q >= 0
    BY <2>3, <1>2, <1>g
  <2>5. Quot(n) = -q
    BY <2>1, <1>2 DEF Quot
  <2>6. PICK p \in Int : p = -q
    OBVIOUS
  <2>7. n = Giga * p - r
    BY <2>3, <2>6, <1>g
  <2>8. Quot(n) = p
    BY <2>5, <2>6
  <2>9. Rem(n) = -r
    BY <2>7, <2>8, <1>g DEF Rem
  <2> QED BY <2>3, <2>4, <2>6, <2>7, <2>8, <2>9, <1>2, <1>g
<1> QED BY <1>1, <1>2

\* A time on the wire's range: where its quotient lies.
LEMMA WireRange == ASSUME NEW n \in Int, OnWire(n)
  PROVE /\ Quot(n) \in SecMin .. SecMax
        /\ Rem(n) < 0 => Quot(n) - 1 \in SecMin .. SecMax
<1>0. Giga \in Nat \ {0, 1} /\ SecMax \in Nat /\ SecMin = -SecMax - 1
  BY TimesAssumption
<1>1. PICK q \in Int : q = Quot(n)
  BY QuotRem
<1>2. PICK r \in Int : r = Rem(n)
  BY QuotRem
<1>3. /\ n = Giga * q + r
      /\ n >= 0 => q >= 0 /\ 0 <= r /\ r < Giga
      /\ n < 0 => q <= 0 /\ -Giga < r /\ r <= 0
  BY <1>1, <1>2, QuotRem
<1>4. n >= SecMin * Giga /\ n < (SecMax + 1) * Giga
  BY DEF OnWire
<1>5. Giga * q < (SecMax + 1) * Giga /\ Giga * (SecMin - 1) < Giga * q
  <2>1. Giga * (SecMin - 1) = SecMin * Giga - Giga
    BY <1>0
  <2>2. Giga * q \in Int /\ SecMin * Giga \in Int /\ (SecMax + 1) * Giga \in Int /\ (SecMax + 1) * Giga >= 0
    BY <1>0
  <2> QED BY <1>0, <1>3, <1>4, <2>1, <2>2
<1>6. q < SecMax + 1 /\ SecMin - 1 < q
  BY <1>0, <1>5, MulMono
<1>7. ASSUME r < 0 PROVE SecMin < q
  <2>1. SecMin * Giga < q * Giga
    BY <1>0, <1>3, <1>4, <1>7
  <2> QED BY <2>1, <1>0, MulMono
<1> QED BY <1>0, <1>1, <1>2, <1>6, <1>7

\* i32 arithmetic leaves a second in range as it is.
LEMMA WrapSecInRange == ASSUME NEW s \in SecMin .. SecMax PROVE WrapSec(s) = s
<1>1. SecMax \in Nat /\ SecMin = -SecMax - 1
  BY TimesAssumption
<1>2. PICK d \in Nat \ {0} : d = SecMax - SecMin + 1
  BY <1>1
<1>3. PICK m \in Int : m = s - SecMin
  BY <1>1
<1>4. m = d * 0 + m /\ 0 <= m /\ m < d
  BY <1>1, <1>2, <1>3
<1>5. m % d = m
  BY <1>4, DivUnique
<1> QED BY <1>1, <1>2, <1>3, <1>5 DEF WrapSec

\* On the wire's range the wire form of a time holds it.
LEMMA TimeReprExact == ASSUME NEW n \in Int, OnWire(n)
  PROVE /\ ReprToTime(TimeToRepr(n)) = n
        /\ TimeToRepr(n).nanosec \in 0 .. Giga - 1
<1>0. Giga \in Nat \ {0, 1} /\ SecMax \in Nat /\ SecMin = -SecMax - 1
  BY TimesAssumption
<1>1. PICK q \in Int : q = Quot(n)
  BY QuotRem
<1>2. PICK r \in Int : r = Rem(n)
  BY QuotRem
<1>3. n = Giga * q + r /\ -Giga < r /\ r < Giga
  <2>1. /\ n = Giga * q + r
        /\ n >= 0 => 0 <= r /\ r < Giga
        /\ n < 0 => -Giga < r /\ r <= 0
    BY <1>1, <1>2, QuotRem
  <2> QED BY <1>0, <2>1
<1>4. Clamp(q) = q /\ (r < 0 => WrapSec(q - 1) = q - 1)
  BY <1>0, <1>1, <1>2, WireRange, WrapSecInRange DEF Clamp
<1>5. CASE r >= 0
  <2>1. TimeToRepr(n) = Wire(q, r)
    BY <1>1, <1>2, <1>4, <1>5 DEF TimeToRepr
  <2>2. ReprToTime(Wire(q, r)) = q * Giga + r /\ Wire(q, r).nanosec = r
    BY DEF ReprToTime, Wire
  <2> QED BY <2>1, <2>2, <1>0, <1>3, <1>5
<1>6. CASE r < 0
  <2>1. TimeToRepr(n) = Wire(q - 1, Giga + r)
    BY <1>1, <1>2, <1>4, <1>6 DEF TimeToRepr
  <2>2. ReprToTime(Wire(q - 1, Giga + r)) = (q - 1) * Giga + (Giga + r)
        /\ Wire(q - 1, Giga + r).nanosec = Giga + r
    BY DEF ReprToTime, Wire
  <2>3. (q - 1) * Giga = Giga * q - Giga
    BY <1>0
  <2> QED BY <2>1, <2>2, <2>3, <1>0, <1>3, <1>6
<1> QED BY <1>3, <1>5, <1>6

\* A whole number of seconds is sent as that number, saturated.
LEMMA WholeSeconds == ASSUME NEW n \in Int, Rem(n) = 0
  PROVE ReprToTime(TimeToRepr(n)) = Clamp(Quot(n)) * Giga /\ n = Giga * Quot(n)
<1>0. Giga \in Nat \ {0, 1} /\ SecMax \in Nat /\ SecMin = -SecMax - 1
  BY TimesAssumption
<1>1. PICK q \in Int : q = Quot(n)
  BY QuotRem
<1>2. TimeToRepr(n) = Wire(Clamp(q), 0)
  BY <1>1 DEF TimeToRepr
<1>3. ReprToTime(Wire(Clamp(q), 0)) = Clamp(q) * Giga + 0
  BY DEF ReprToTime, Wire
<1>4. Clamp(q) * Giga \in Int
  BY <1>0 DEF Clamp
<1> QED BY <1>1, <1>2, <1>3, <1>4, <1>0, QuotRem

\* Any two times: what the wire holds comes back, whole seconds keep their order.
LEMMA TimesRoundTrip == ASSUME NEW a \in Int, NEW b \in Int PROVE TimeRoundTrips(a, b)
<1>1. ASSUME a < b, Rem(a) = 0, Rem(b) = 0
      PROVE ReprToTime(TimeToRepr(a)) <= ReprToTime(TimeToRepr(b))
  <2>0. Giga \in Nat \ {0} /\ SecMax \in Nat /\ SecMin = -SecMax - 1
    BY TimesAssumption
  <2>1. PICK p \in Int : p = Quot(a)
    BY QuotRem
  <2>2. PICK q \in Int : q = Quot(b)
    BY QuotRem
  <2>3. p * Giga < q * Giga
    BY <1>1, <2>0, <2>1, <2>2, WholeSeconds
  <2>4. p < q
    BY <2>0, <2>3, MulMono
  <2>5. Clamp(p) \in Int /\ Clamp(q) \in Int /\ Clamp(p) <= Clamp(q)
    BY <2>0, <2>4 DEF Clamp
  <2>6. Clamp(p) * Giga <= Clamp(q) * Giga
    BY <2>0, <2>5, MulMono
  <2> QED BY <1>1, <2>1, <2>2, <2>6, WholeSeconds
<1> QED BY <1>1, TimeReprExact DEF TimeRoundTrips

\* Any duration: what the wire holds comes back, but for a negative fraction.
LEMMA DurationsRoundTrip == ASSUME NEW n \in Int PROVE DurationRoundTrips(n)
<1>0. Giga \in Nat \ {0, 1} /\ SecMax \in Nat /\ SecMin = -SecMax - 1
  BY TimesAssumption
<1>1. PICK q \in Int : q = Quot(n)
  BY QuotRem
<1>2. PICK r \in Int : r = Rem(n)
  BY QuotRem
<1>3. n = Giga * q + r /\ (n >= 0 => 0 <= r)
  BY <1>1, <1>2, QuotRem
<1>4. ASSUME OnWire(n), n >= 0 \/ r = 0 PROVE DurationFromNanos(n) = Wire(q, r)
  <2>1. q \in SecMin .. SecMax
    BY <1>1, <1>4, WireRange
  <2>2. r >= 0 /\ ~(r < 0)
    BY <1>3, <1>4
  <2>3. CASE q <= SecMin
    <3>1. q = SecMin /\ ~(q > SecMax) /\ ~(q \in SecMin + 1 .. SecMax) /\ ~(q > SecMin)
      BY <2>1, <2>3, <1>0
    <3>2. ~(n >= 0)
      <4>1. ASSUME n >= 0 PROVE q >= 0
        BY <4>1, <1>1, QuotRem
      <4> QED BY <4>1, <3>1, <1>0
    <3>3. r = 0
      BY <3>2, <1>4
    <3>4. DurationFromNanos(n) = Wire(SecMin, 0)
      BY <1>1, <1>2, <2>2, <2>3, <3>1, Zenon DEF DurationFromNanos
    <3> QED BY <3>1, <3>3, <3>4
  <2>4. CASE ~(q <= SecMin)
    <3>1. ~(q > SecMax) /\ q \in SecMin + 1 .. SecMax
      BY <2>1, <2>4, <1>0
    <3> QED BY <1>1, <1>2, <2>2, <2>4, <3>1, Zenon DEF DurationFromNanos
  <2> QED BY <2>3, <2>4
<1>5. DurationToNanos(Wire(q, r)) = Giga * q + r
  BY DEF DurationToNanos, Wire
<1>6. ASSUME OnWire(n), r = 0 PROVE DurationFromNanos(n) = DurationFromSecs(q)
  BY <1>4, <1>6 DEF DurationFromSecs
<1> QED BY <1>1, <1>2, <1>3, <1>4, <1>5, <1>6 DEF DurationRoundTrips

\* Any DDS time stamp becomes the last nanosecond not after it.
LEMMA StampsFloor == ASSUME NEW t \in Nat PROVE StampIsFloor(t)
<1>0. Giga \in Nat \ {0} /\ Ticks \in Nat \ {0}
  BY TimesAssumption
<1>1. PICK q \in Int : q = t \div Ticks
  BY <1>0, DivMod
<1>2. PICK r \in Int : r = t % Ticks
  BY <1>0, DivMod
<1>3. t = Ticks * q + r /\ 0 <= r /\ r < Ticks
  BY <1>0, <1>1, <1>2, DivMod
<1>4. PICK m \in Int : m = r * Giga
  BY <1>0
<1>5. PICK f \in Int : f = m \div Ticks
  BY <1>0, DivMod
<1>6. PICK s \in Int : s = m % Ticks
  BY <1>0, DivMod
<1>7. m = Ticks * f + s /\ 0 <= s /\ s < Ticks
  BY <1>0, <1>5, <1>6, DivMod
<1>8. PICK n \in Int : n = q * Giga + f
  BY <1>0
<1>9. FromTimestamp([mark |-> "Valid", ticks |-> t])[1] = n
  BY <1>1, <1>2, <1>4, <1>5, <1>8 DEF FromTimestamp
<1>10. t * Giga = n * Ticks + s
  <2>1. t * Giga = (Ticks * q) * Giga + m
    BY <1>0, <1>3, <1>4
  <2>2. n * Ticks = (q * Giga) * Ticks + f * Ticks
    BY <1>0, <1>8
  <2>3. (Ticks * q) * Giga = (q * Giga) * Ticks
    BY <1>0
  <2>4. f * Ticks = Ticks * f
    BY <1>0
  <2>5. (q * Giga) * Ticks \in Int /\ Ticks * f \in Int
    BY <1>0
  <2> QED BY <2>1, <2>2, <2>3, <2>4, <2>5, <1>7
<1>11. (n + 1) * Ticks = n * Ticks + Ticks /\ n * Ticks \in Int
  BY <1>0
<1>12. n * Ticks <= t * Giga /\ t * Giga < (n + 1) * Ticks
  BY <1>0, <1>7, <1>10, <1>11
<1> QED BY <1>9, <1>12 DEF StampIsFloor

\* A difference of the steady clock is a sign and a length.
LEMMA DiffOf == ASSUME NEW n \in Int
  PROVE /\ n >= 0 => DiffFromNanos(n) = Diff(n, FALSE)
        /\ n < 0 => DiffFromNanos(n) = Diff(-n, TRUE)
<1>1. ASSUME n >= 0 PROVE DiffFromNanos(n) = Diff(n, FALSE)
  <2>1. Abs(n) = n /\ (n < 0) = FALSE
    BY <1>1 DEF Abs
  <2> QED BY <2>1, Zenon DEF DiffFromNanos
<1>2. ASSUME n < 0 PROVE DiffFromNanos(n) = Diff(-n, TRUE)
  <2>1. Abs(n) = -n
    BY <1>2 DEF Abs
  <2>2. (n < 0) = TRUE
    BY <1>2
  <2> QED BY <2>1, <2>2, Zenon DEF DiffFromNanos
<1> QED BY <1>1, <1>2

\* Two differences are ordered as the numbers they stand for.
LEMMA DiffOrder == ASSUME NEW a \in Int, NEW b \in Int
  PROVE DiffLess(DiffFromNanos(a), DiffFromNanos(b)) <=> a < b
<1>0. ASSUME NEW l, NEW s PROVE Diff(l, s).length = l /\ Diff(l, s).neg = s
  BY DEF Diff
<1>1. CASE a >= 0 /\ b >= 0
  <2> DEFINE x == Diff(a, FALSE)
             y == Diff(b, FALSE)
  <2>1. ~x.neg /\ ~y.neg /\ x.neg = y.neg /\ x.length = a /\ y.length = b
    BY <1>0
  <2>2. DiffLess(x, y) = (a < b)
    <3> HIDE DEF x, y
    <3> QED BY <2>1, Zenon DEF DiffLess
  <2> QED BY <1>1, <2>2, DiffOf
<1>2. CASE a < 0 /\ b < 0
  <2>1. DiffLess(Diff(-a, TRUE), Diff(-b, TRUE)) = (-b < -a)
    BY <1>0, Zenon DEF DiffLess
  <2>2. -b < -a <=> a < b
    OBVIOUS
  <2> QED BY <1>2, <2>1, <2>2, DiffOf
<1>3. CASE a < 0 /\ b >= 0
  <2>1. DiffLess(Diff(-a, TRUE), Diff(b, FALSE))
    BY <1>0, Zenon DEF DiffLess
  <2>2. DiffFromNanos(a) = Diff(-a, TRUE) /\ DiffFromNanos(b) = Diff(b, FALSE)
    BY <1>3, DiffOf
  <2>3. a < b
    BY <1>3
  <2> QED BY <2>1, <2>2, <2>3, Zenon
<1>4. CASE a >= 0 /\ b < 0
  <2>1. ~DiffLess(Diff(a, FALSE), Diff(-b, TRUE))
    BY <1>0, Zenon DEF DiffLess
  <2>2. DiffFromNanos(a) = Diff(a, FALSE) /\ DiffFromNanos(b) = Diff(-b, TRUE)
    BY <1>4, DiffOf
  <2>3. ~(a < b)
    BY <1>4
  <2> QED BY <2>1, <2>2, <2>3, Zenon
<1> QED BY <1>1, <1>2, <1>3, <1>4

\* Differences whose sum is within an i64 behave as integers, but for the sign with
\* which a time and a difference are added.
LEMMA DiffsAgreeInRange ==
  ASSUME NEW a \in Int, NEW b \in Int, Abs(a) + Abs(b) <= LongMax
  PROVE DiffsAgree(a, b)
<1>0. LongMax \in Nat
  BY TimesAssumption
<1>1. ASSUME NEW n \in Int, Abs(n) <= LongMax PROVE AsNanos(DiffFromNanos(n)) = n
  <2>1. CASE n < 0
    <3>1. -n <= LongMax
      BY <1>1, <2>1 DEF Abs
    <3>2. AsNanos(Diff(-n, TRUE)) = n
      BY <1>0, <2>1, <3>1 DEF AsNanos, Diff
    <3> QED BY <2>1, <3>2, DiffOf
  <2>2. CASE n >= 0
    <3>1. n <= LongMax
      BY <1>1, <2>2 DEF Abs
    <3>2. AsNanos(Diff(n, FALSE)) = n
      BY <1>0, <2>2, <3>1 DEF AsNanos, Diff
    <3> QED BY <2>2, <3>2, DiffOf
  <2> QED BY <2>1, <2>2
<1>2. /\ Abs(a) \in Nat /\ Abs(b) \in Nat /\ Abs(a) <= LongMax /\ Abs(b) <= LongMax
      /\ Abs(a + b) <= LongMax /\ Abs(a - b) <= LongMax
  BY <1>0 DEF Abs
<1>3. AsNanos(DiffFromNanos(a)) = a /\ AsNanos(DiffFromNanos(b)) = b
  BY <1>1, <1>2
<1>4. AsNanos(SteadySub(a, b)) = RosSub(a, b)
  BY <1>0, <1>2 DEF AsNanos, SteadySub, Diff, RosSub, Abs
<1>5. DiffLess(DiffFromNanos(a), DiffFromNanos(b)) <=> a < b
  BY DiffOrder
<1>6. /\ AsNanos(DiffAdd(DiffFromNanos(a), DiffFromNanos(b))) = RosAdd(a, b)
      /\ AsNanos(DiffSub(DiffFromNanos(a), DiffFromNanos(b))) = RosSub(a, b)
  BY <1>1, <1>2, <1>3 DEF DiffAdd, DiffSub, RosAdd, RosSub
<1>7. ASSUME NEW n \in Int
      PROVE  SteadyPlus(a, DiffFromNanos(n)) = a - n /\ SteadyMinus(a, DiffFromNanos(n)) = a + n
  <2>1. CASE n < 0
    <3>1. SteadyPlus(a, Diff(-n, TRUE)) = a - n /\ SteadyMinus(a, Diff(-n, TRUE)) = a + n
      BY DEF SteadyMinus, SteadyPlus, Diff
    <3> QED BY <2>1, <3>1, DiffOf
  <2>2. CASE n >= 0
    <3>1. SteadyPlus(a, Diff(n, FALSE)) = a - n /\ SteadyMinus(a, Diff(n, FALSE)) = a + n
      BY DEF SteadyMinus, SteadyPlus, Diff
    <3> QED BY <2>2, <3>1, DiffOf
  <2> QED BY <2>1, <2>2
<1>10. SteadyPlus(a, DiffFromNanos(b)) = RosSub(a, b) /\ SteadyMinus(a, DiffFromNanos(b)) = RosAdd(a, b)
  BY <1>7 DEF RosSub, RosAdd
<1>11. ASSUME a <= b PROVE NowWithUtc(a, b) = a - (b - a) \div 2
  <2>1. AsNanos(SteadySub(b, a)) = b - a
    BY <1>0, <1>2, <1>11 DEF AsNanos, SteadySub, Diff, Abs
  <2>2. (b - a) \div 2 \in Int
    OBVIOUS
  <2>3. SteadyPlus(a, DiffFromNanos((b - a) \div 2)) = a - (b - a) \div 2
    BY <1>7, <2>2
  <2> QED BY <2>1, <2>3 DEF NowWithUtc
<1>8. AsSaturating(DiffFromNanos(a)) =
        (IF AsDuration(DiffFromNanos(a)) = << >> THEN 0 ELSE AsDuration(DiffFromNanos(a))[1])
  BY DEF AsSaturating, AsDuration
<1>9. ToStd(a) # << >> => FromStd(ToStd(a)[1]) = <<a>>
  BY <1>0, <1>2 DEF ToStd, FromStd, Abs
<1> QED BY <1>3, <1>4, <1>5, <1>6, <1>8, <1>9, <1>10, <1>11 DEF DiffsAgree

-----------------------------------------------------------------------------
(* QoS profiles (QosCodec).                                                *)

\* The widths of the integers.
LEMMA Widths ==
  /\ Giga \in Nat \ {0} /\ LongMax \in Nat /\ UlongMax \in Nat /\ UlongMax = 2 * LongMax + 1
  /\ NanoMax \in Nat /\ NanoMax >= Giga
  BY TimesAssumption DEF UlongMax

\* A duration is a count of nanoseconds, fewer than u64::MAX + 1 seconds.
LEMMA DurationParts == ASSUME NEW n \in Durations
  PROVE /\ n \in Nat /\ n \div Giga \in Nat /\ n \div Giga <= UlongMax
        /\ n % Giga \in Nat /\ n % Giga <= NanoMax
        /\ n = (n \div Giga) * Giga + (n % Giga)
<1>0. Giga \in Nat \ {0} /\ UlongMax \in Nat /\ NanoMax \in Nat /\ NanoMax >= Giga
  BY Widths
<1>1. PICK k \in Nat : k = UlongMax + 1
  BY <1>0
<1>2. k * Giga \in Nat
  BY <1>0
<1>3. n \in Nat /\ n < k * Giga
  BY <1>0, <1>1, <1>2 DEF Durations
<1>4. PICK q \in Int : q = n \div Giga
  BY <1>0, <1>3, DivMod
<1>5. PICK r \in Int : r = n % Giga
  BY <1>0, <1>3, DivMod
<1>6. n = Giga * q + r /\ 0 <= r /\ r < Giga
  BY <1>0, <1>3, <1>4, <1>5, DivMod
<1>7. q * Giga < k * Giga /\ (-1) * Giga < q * Giga
  BY <1>0, <1>2, <1>3, <1>6
<1>8. q < k /\ -1 < q
  BY <1>0, <1>7, MulMono
<1> QED BY <1>0, <1>1, <1>3, <1>4, <1>5, <1>6, <1>8

\* A duration comes back from the fields it is written to.
LEMMA DurationBack == ASSUME NEW d \in {<<n>> : n \in Durations} \cup {<< >>}
  PROVE /\ DurationOk(DurationFields(d))
        /\ ParseDuration(DurationFields(d)) = d
<1>1. CASE d = << >>
  BY <1>1 DEF DurationFields, DurationOk, ParseDuration
<1>2. ASSUME NEW n \in Durations, d = <<n>>
      PROVE DurationOk(DurationFields(d)) /\ ParseDuration(DurationFields(d)) = d
  <2>1. PICK q \in Nat : q = n \div Giga
    BY DurationParts
  <2>2. PICK r \in Nat : r = n % Giga
    BY DurationParts
  <2>3. n = q * Giga + r /\ q <= UlongMax /\ r <= NanoMax
    BY <2>1, <2>2, DurationParts
  <2>4. d # << >> /\ d[1] = n
    BY <1>2
  <2>5. DurationFields(d) = << <<q>>, <<r>> >>
    BY <2>1, <2>2, <2>4 DEF DurationFields
  <2> QED BY <1>2, <2>3, <2>5 DEF DurationOk, ParseDuration
<1> QED BY <1>1, <1>2

\* Each policy is read from the code it is written with, or from its default.
LEMMA PolicyBack ==
  /\ \A p \in {"Reliable", "BestEffort"} :
       Policy(ReliabilityCode, Delta(ReliabilityCode, p, "Reliable"), "Reliable") = <<p>>
  /\ \A p \in {"TransientLocal", "Volatile"} :
       Policy(DurabilityCode, Delta(DurabilityCode, p, "Volatile"), "Volatile") = <<p>>
  /\ \A p \in {"Automatic", "ManualByTopic"} :
       Policy(LivelinessCode, Delta(LivelinessCode, p, "Automatic"), "Automatic") = <<p>>
<1>1. Policy(ReliabilityCode, <<2>>, "Reliable") = <<"BestEffort">>
  BY DEF Policy, ReliabilityCode
<1>2. Policy(DurabilityCode, <<1>>, "Volatile") = <<"TransientLocal">>
  BY DEF Policy, DurabilityCode
<1>3. Policy(LivelinessCode, <<3>>, "Automatic") = <<"ManualByTopic">>
  BY DEF Policy, LivelinessCode
<1>4. ASSUME NEW c, NEW p PROVE Policy(c, << >>, p) = <<p>>
  BY DEF Policy
<1>5. ASSUME NEW c, NEW p, NEW q, p # q PROVE Delta(c, p, q) = <<c[p]>> /\ Delta(c, q, q) = << >>
  BY <1>5 DEF Delta
<1>6. ReliabilityCode["BestEffort"] = 2 /\ DurabilityCode["TransientLocal"] = 1
      /\ LivelinessCode["ManualByTopic"] = 3
  BY DEF ReliabilityCode, DurabilityCode, LivelinessCode
<1>7. /\ Delta(ReliabilityCode, "BestEffort", "Reliable") = <<2>>
      /\ Delta(ReliabilityCode, "Reliable", "Reliable") = << >>
      /\ Delta(DurabilityCode, "TransientLocal", "Volatile") = <<1>>
      /\ Delta(DurabilityCode, "Volatile", "Volatile") = << >>
      /\ Delta(LivelinessCode, "ManualByTopic", "Automatic") = <<3>>
      /\ Delta(LivelinessCode, "Automatic", "Automatic") = << >>
  BY <1>5, <1>6
<1> QED BY <1>1, <1>2, <1>3, <1>4, <1>7

\* The profiles a program can make: usize depths, std durations.
StdProfiles == Profiles(0 .. UlongMax, Durations)

\* Any profile a program can make comes back from a token (qos_encoding.rs).
LEMMA QosBack == ASSUME NEW q \in StdProfiles PROVE QosRoundTrips(q)
<1> DEFINE e == EncodeQos(q)
<1>0. /\ q.reliability \in {"Reliable", "BestEffort"} /\ q.durability \in {"TransientLocal", "Volatile"}
      /\ q.history \in {<<d>> : d \in 0 .. UlongMax} \cup {<< >>}
      /\ q.deadline \in {<<d>> : d \in Durations} \cup {<< >>} /\ q.lifespan \in {<<d>> : d \in Durations} \cup {<< >>}
      /\ q.liveliness \in {"Automatic", "ManualByTopic"} /\ q.lease \in {<<d>> : d \in Durations} \cup {<< >>}
      /\ q = [reliability |-> q.reliability, durability |-> q.durability, history |-> q.history,
              deadline |-> q.deadline, lifespan |-> q.lifespan, liveliness |-> q.liveliness, lease |-> q.lease]
  BY DEF Profiles, StdProfiles
<1>1. /\ Policy(ReliabilityCode, e.rel, "Reliable") = <<q.reliability>>
      /\ Policy(DurabilityCode, e.dur, "Volatile") = <<q.durability>>
      /\ Policy(LivelinessCode, e.liv, "Automatic") = <<q.liveliness>>
  BY <1>0, PolicyBack DEF EncodeQos
<1>2. /\ e.deadline = DurationFields(q.deadline) /\ e.lifespan = DurationFields(q.lifespan)
      /\ e.lease = DurationFields(q.lease)
  BY DEF EncodeQos
<1>3. /\ e.hist \in {<< >>, <<1>>, <<2>>}
      /\ (IF e.hist = <<2>> THEN << >> ELSE IF e.depth = << >> THEN <<0>> ELSE e.depth) = q.history
      /\ e.depth # << >> => e.depth[1] <= UlongMax
  BY <1>0, Widths DEF EncodeQos
<1>4. /\ DurationOk(e.deadline) /\ DurationOk(e.lifespan) /\ DurationOk(e.lease)
      /\ ParseDuration(e.deadline) = q.deadline /\ ParseDuration(e.lifespan) = q.lifespan
      /\ ParseDuration(e.lease) = q.lease
  BY <1>0, <1>2, DurationBack
<1>5. ASSUME NEW x PROVE <<x>> # << >> /\ <<x>>[1] = x
  OBVIOUS
<1> HIDE DEF e
<1>6. DecodeQos(e) = << [reliability |-> q.reliability, durability |-> q.durability, history |-> q.history,
              deadline |-> q.deadline, lifespan |-> q.lifespan, liveliness |-> q.liveliness, lease |-> q.lease] >>
  BY <1>1, <1>3, <1>4, <1>5 DEF DecodeQos
<1> QED BY <1>0, <1>6 DEF QosRoundTrips, e

\* `as i64` leaves what fits in an i64 as it is.
LEMMA WrapLongInRange == ASSUME NEW n \in Nat, n <= LongMax PROVE WrapLong(n) = n
<1>1. LongMax \in Nat /\ UlongMax = 2 * LongMax + 1
  BY Widths
<1>2. PICK d \in Nat \ {0} : d = UlongMax + 1
  BY <1>1
<1>3. PICK m \in Int : m = n + LongMax + 1
  BY <1>1
<1>4. m = d * 0 + m /\ 0 <= m /\ m < d
  BY <1>1, <1>2, <1>3
<1>5. m % d = m
  BY <1>4, DivUnique
<1> QED BY <1>1, <1>2, <1>3, <1>5 DEF WrapLong

\* The fraction of a second is never the last tick, which stands for infinity.
LEMMA FractionBelow == ASSUME NEW r \in Int, -Giga < r, r < Giga
  PROVE DdsFraction(r) \in 0 .. Ticks - 2
<1>0. Giga \in Nat \ {0, 1} /\ Ticks \in Nat \ {0} /\ Ticks >= 2 * Giga
  BY TimesAssumption
<1>1. PICK a \in Nat : a = Abs(r) /\ a <= Giga - 1
  BY <1>0 DEF Abs
<1>2. PICK m \in Nat : m = a * Ticks
  BY <1>0
<1>3. PICK x \in Int : x = m \div Giga
  BY <1>0, DivMod
<1>4. PICK s \in Int : s = m % Giga
  BY <1>0, DivMod
<1>5. m = Giga * x + s /\ 0 <= s /\ s < Giga
  BY <1>0, <1>2, <1>3, <1>4, DivMod
<1>6. x <= Ticks - 2
  <2>1. a * Ticks <= (Giga - 1) * Ticks
    BY <1>0, <1>1, MulMono
  <2>2. (Giga - 1) * Ticks = Giga * Ticks - Ticks /\ Giga * Ticks \in Int
    BY <1>0
  <2>3. (Ticks - 2) * Giga = Giga * Ticks - 2 * Giga
    BY <1>0
  <2>4. x * Giga <= (Ticks - 2) * Giga
    BY <1>0, <1>2, <1>5, <2>1, <2>2, <2>3
  <2> QED BY <1>0, <2>4, MulMono
<1>7. a = 0 => x = 0
  BY <1>0, <1>2, <1>3
<1>8. ASSUME a # 0 PROVE x >= 2
  <2>1. 1 * Ticks <= a * Ticks
    BY <1>0, <1>8, MulMono
  <2>2. 1 * Giga < x * Giga
    BY <1>0, <1>2, <1>5, <2>1
  <2>3. 1 < x
    BY <1>0, <2>2, MulMono
  <2> QED BY <2>3
<1>9. CASE r >= 0
  <2>1. x = Ticks * 0 + x /\ 0 <= x /\ x < Ticks
    BY <1>0, <1>6, <1>7, <1>8
  <2>2. x % Ticks = x
    BY <1>0, <2>1, DivUnique
  <2>3. DdsFraction(r) = x % Ticks
    BY <1>1, <1>2, <1>3, <1>9 DEF DdsFraction
  <2> QED BY <1>0, <1>6, <2>1, <2>2, <2>3
<1>10. CASE r < 0
  <2>0. a # 0
    BY <1>1, <1>10 DEF Abs
  <2>1. PICK y \in Int : y = -x
    OBVIOUS
  <2>2. y = Ticks * (-1) + (Ticks - x) /\ 0 <= Ticks - x /\ Ticks - x < Ticks
    BY <1>0, <1>6, <1>8, <2>0, <2>1
  <2>3. y % Ticks = Ticks - x
    BY <1>0, <2>2, DivUnique
  <2>4. DdsFraction(r) = y % Ticks
    BY <1>1, <1>2, <1>3, <1>10, <2>1 DEF DdsFraction
  <2> QED BY <1>0, <1>6, <1>8, <2>0, <2>3, <2>4
<1> QED BY <1>9, <1>10

\* No number of nanoseconds is converted to DDS infinity.
LEMMA NeverInfinite == ASSUME NEW n \in Int
  PROVE DdsFromNanos(n) \in Int /\ DdsFromNanos(n) # DdsInfinite
<1>0. Giga \in Nat \ {0, 1} /\ Ticks \in Nat \ {0} /\ SecMax \in Nat /\ SecMin = -SecMax - 1
  BY TimesAssumption
<1>1. PICK q \in Int : q = Quot(n)
  BY QuotRem
<1>2. PICK r \in Int : r = Rem(n)
  BY QuotRem
<1>3. -Giga < r /\ r < Giga
  <2>1. /\ n >= 0 => 0 <= r /\ r < Giga
        /\ n < 0 => -Giga < r /\ r <= 0
    BY <1>2, QuotRem
  <2> QED BY <1>0, <2>1
<1>4. PICK f \in 0 .. Ticks - 2 : f = DdsFraction(r)
  BY <1>3, FractionBelow
<1>5. PICK w \in Int : w = WrapSec(q)
  <2>1. PICK d \in Nat \ {0} : d = SecMax - SecMin + 1
    BY <1>0
  <2>2. PICK m \in Int : m = q - SecMin
    BY <1>0
  <2>3. m % d \in Int
    BY DivMod
  <2> QED BY <1>0, <2>1, <2>2, <2>3 DEF WrapSec
<1>6. DdsFromNanos(n) = w * Ticks + f
  BY <1>1, <1>2, <1>4, <1>5 DEF DdsFromNanos
<1>7. ASSUME w * Ticks + f = SecMax * Ticks + (Ticks - 1) PROVE FALSE
  <2>1. PICK k \in Int : k = w - SecMax
    BY <1>0
  <2>2. k * Ticks = w * Ticks - SecMax * Ticks
    BY <1>0, <2>1
  <2>3. w * Ticks \in Int /\ SecMax * Ticks \in Int
    BY <1>0
  <2>4. k * Ticks = (Ticks - 1) - f
    BY <1>0, <1>7, <2>2, <2>3
  <2>5. 0 * Ticks < k * Ticks /\ k * Ticks < 1 * Ticks
    BY <1>0, <2>4
  <2>6. 0 < k /\ k < 1
    BY <1>0, <2>5, MulMono
  <2> QED BY <2>6
<1>8. w * Ticks + f \in Int
  BY <1>0
<1> QED BY <1>6, <1>7, <1>8 DEF DdsInfinite

\* Nanoseconds whose seconds fit an i32 are converted to the ticks that are over by then.
LEMMA TicksAreFloor == ASSUME NEW n \in Nat, n < (SecMax + 1) * Giga
  PROVE DdsFromNanos(n) = (n * Ticks) \div Giga
<1>0. Giga \in Nat \ {0, 1} /\ Ticks \in Nat \ {0} /\ SecMax \in Nat /\ SecMin = -SecMax - 1
  BY TimesAssumption
<1>1. PICK q \in Int : q = Quot(n)
  BY QuotRem
<1>2. PICK r \in Int : r = Rem(n)
  BY QuotRem
<1>3. n = Giga * q + r /\ q >= 0 /\ 0 <= r /\ r < Giga
  BY <1>1, <1>2, QuotRem
<1>4. WrapSec(q) = q
  <2>1. PICK k \in Nat : k = SecMax + 1
    BY <1>0
  <2>2. q * Giga < k * Giga
    BY <1>0, <1>3, <2>1
  <2>3. q < k
    BY <1>0, <2>2, MulMono
  <2>4. q \in SecMin .. SecMax
    BY <1>0, <1>3, <2>1, <2>3
  <2> QED BY <2>4, WrapSecInRange
<1>5. PICK m \in Nat : m = r * Ticks
  BY <1>0, <1>3
<1>6. PICK x \in Int : x = m \div Giga
  BY <1>0, DivMod
<1>7. PICK s \in Int : s = m % Giga
  BY <1>0, DivMod
<1>8. m = Giga * x + s /\ 0 <= s /\ s < Giga
  BY <1>0, <1>5, <1>6, <1>7, DivMod
<1>9. x % Ticks = x
  <2>1. Giga * x < Giga * Ticks
    <3>1. r * Ticks < Giga * Ticks
      BY <1>0, <1>3, MulMono
    <3>2. Giga * Ticks \in Int
      BY <1>0
    <3> QED BY <1>0, <1>5, <1>8, <3>1, <3>2
  <2>2. x * Giga < Ticks * Giga /\ (-1) * Giga < x * Giga
    BY <1>0, <1>8, <2>1
  <2>3. x < Ticks /\ -1 < x
    BY <1>0, <2>2, MulMono
  <2>4. x = Ticks * 0 + x /\ 0 <= x /\ x < Ticks
    BY <1>0, <2>3
  <2> QED BY <1>0, <2>4, DivUnique
<1>10. DdsFraction(r) = x
  <2>1. Abs(r) = r
    BY <1>3 DEF Abs
  <2> QED BY <1>3, <1>5, <1>6, <1>9, <2>1 DEF DdsFraction
<1>11. DdsFromNanos(n) = q * Ticks + x
  BY <1>1, <1>2, <1>4, <1>10 DEF DdsFromNanos
<1>12. PICK t \in Int : t = q * Ticks + x
  BY <1>0
<1>13. PICK y \in Nat : y = n * Ticks
  BY <1>0
<1>14. y = Giga * t + s
  <2>1. y = (Giga * q) * Ticks + m
    BY <1>0, <1>3, <1>5, <1>13
  <2>2. Giga * t = Giga * (q * Ticks) + Giga * x
    BY <1>0, <1>12
  <2>3. (Giga * q) * Ticks = Giga * (q * Ticks) /\ Giga * (q * Ticks) \in Int /\ Giga * x \in Int
    BY <1>0
  <2> QED BY <1>8, <2>1, <2>2, <2>3
<1>15. y \div Giga = t
  BY <1>0, <1>8, <1>14, DivUnique
<1> QED BY <1>11, <1>12, <1>13, <1>15

\* A duration comes back from DDS ticks as it was, or a nanosecond shorter, if its
\* seconds fit an i32; infinite comes back as infinite, and only infinite.
LEMMA DdsDurationBack == ASSUME NEW d \in {<<n>> : n \in Durations} \cup {<< >>}
  PROVE SameOrShorter(d, FromDdsDuration(ToDdsDuration(d)))
<1>0. Giga \in Nat \ {0} /\ Ticks \in Nat \ {0} /\ Ticks >= Giga
      /\ LongMax \in Nat /\ LongMax >= (SecMax + 1) * Giga /\ (SecMax + 1) * Giga \in Nat
  BY TimesAssumption
<1>1. CASE d = << >>
  BY <1>1 DEF SameOrShorter, FromDdsDuration, ToDdsDuration
<1>2. ASSUME NEW n \in Durations, d = <<n>> PROVE SameOrShorter(d, FromDdsDuration(ToDdsDuration(d)))
  <2>0. n \in Nat
    BY DurationParts
  <2>1. WrapLong(n) \in Int
    <3>1. PICK k \in Nat \ {0} : k = UlongMax + 1
      BY Widths
    <3>2. PICK m \in Int : m = n + LongMax + 1
      BY <2>0, <1>0
    <3>3. m % k \in Int
      BY DivMod
    <3> QED BY <1>0, <3>1, <3>2, <3>3 DEF WrapLong
  <2>2. PICK t \in Int : t = DdsFromNanos(WrapLong(n)) /\ t # DdsInfinite
    BY <2>1, NeverInfinite
  <2>3. ToDdsDuration(d) = t
    BY <1>2, <2>2 DEF ToDdsDuration
  <2>4. FromDdsDuration(t) = << IF DdsToNanos(t) < 0 THEN 0 ELSE DdsToNanos(t) >>
    BY <2>2 DEF FromDdsDuration
  <2>5. ASSUME n < (SecMax + 1) * Giga PROVE FromDdsDuration(t)[1] \in {n - 1, n}
    <3>0. n <= LongMax
      BY <1>0, <2>0, <2>5
    <3>1. WrapLong(n) = n
      BY <2>0, <3>0, WrapLongInRange
    <3>2. PICK x \in Nat : x = n * Ticks
      BY <1>0, <2>0
    <3>3. t = x \div Giga
      BY <2>0, <2>2, <2>5, <3>1, <3>2, TicksAreFloor
    <3>4. PICK s \in Int : s = x % Giga
      BY <1>0, DivMod
    <3>5. x = Giga * t + s /\ 0 <= s /\ s < Giga
      BY <1>0, <3>3, <3>4, DivMod
    <3>6. PICK y \in Int : y = t * Giga
      BY <1>0
    <3>7. PICK m \in Int : m = y \div Ticks
      BY <1>0, DivMod
    <3>8. PICK u \in Int : u = y % Ticks
      BY <1>0, DivMod
    <3>9. y = Ticks * m + u /\ 0 <= u /\ u < Ticks
      BY <1>0, <3>7, <3>8, DivMod
    <3>10. (n - m) * Ticks = s + u
      BY <1>0, <2>0, <3>2, <3>5, <3>6, <3>9
    <3>11. n - m > -1
      BY <1>0, <2>0, <3>5, <3>9, <3>10
    <3>12. n - m < 2
      BY <1>0, <2>0, <3>5, <3>9, <3>10
    <3>13. t >= 0
      BY <1>0, <3>2, <3>5
    <3>14. y >= 0
      BY <1>0, <3>6, <3>13
    <3>15. m >= 0
      BY <1>0, <3>9, <3>14
    <3>16. FromDdsDuration(t) = <<m>>
      BY <2>4, <3>6, <3>7, <3>15 DEF DdsToNanos
    <3>17. m = n \/ m = n - 1
      BY <2>0, <3>11, <3>12
    <3> QED BY <3>16, <3>17
  <2>6. d # << >> /\ d[1] = n /\ FromDdsDuration(t) # << >>
    BY <1>2, <2>4
  <2> QED BY <2>3, <2>5, <2>6 DEF SameOrShorter
<1> QED BY <1>1, <1>2

\* Any profile a program can make goes through the DDS policies as QosOverDds says (qos.rs).
LEMMA QosByDds == ASSUME NEW q \in StdProfiles PROVE QosOverDds(q)
<1> DEFINE p == ToDds(q)
           r == FromDds(p)
<1>0. /\ q.reliability \in {"Reliable", "BestEffort"} /\ q.durability \in {"TransientLocal", "Volatile"}
      /\ q.history \in {<<d>> : d \in 0 .. UlongMax} \cup {<< >>}
      /\ q.deadline \in {<<d>> : d \in Durations} \cup {<< >>} /\ q.lifespan \in {<<d>> : d \in Durations} \cup {<< >>}
      /\ q.liveliness \in {"Automatic", "ManualByTopic"} /\ q.lease \in {<<d>> : d \in Durations} \cup {<< >>}
      /\ q = [reliability |-> q.reliability, durability |-> q.durability, history |-> q.history,
              deadline |-> q.deadline, lifespan |-> q.lifespan, liveliness |-> q.liveliness, lease |-> q.lease]
  BY DEF Profiles, StdProfiles
<1>1. /\ p.reliability = q.reliability /\ p.durability = q.durability /\ p.liveliness = q.liveliness
      /\ p.deadline = ToDdsDuration(q.deadline) /\ p.lifespan = ToDdsDuration(q.lifespan)
      /\ p.lease = ToDdsDuration(q.lease)
      /\ p.history = IF q.history = << >> THEN [keep |-> "All"]
                     ELSE [keep |-> "Last", depth |-> WrapSec(q.history[1])]
  BY <1>0 DEF ToDds
<1> HIDE DEF p
<1>2. /\ r.deadline = FromDdsDuration(p.deadline) /\ r.lifespan = FromDdsDuration(p.lifespan)
      /\ r.lease = FromDdsDuration(p.lease)
      /\ r.reliability = (IF p.reliability = "Reliable" THEN "Reliable" ELSE "BestEffort")
      /\ r.durability = (IF p.durability \in {"Volatile", "None"} THEN "Volatile" ELSE "TransientLocal")
      /\ r.liveliness = (IF p.liveliness = "ManualByTopic" THEN "ManualByTopic" ELSE "Automatic")
      /\ r.history = CASE p.history.keep = "All" -> << >>
                 [] p.history.keep = "Last" -> << IF p.history.depth < 0 THEN 0 ELSE p.history.depth >>
                 [] p.history.keep = "None" -> <<1>>
  BY Zenon DEF FromDds
<1> HIDE DEF r
<1>3. ASSUME q.history # << >>, q.history[1] <= SecMax PROVE r.history = q.history
  <2>1. PICK d \in Nat : q.history = <<d>>
    BY <1>0, <1>3, Widths
  <2>2. d \in SecMin .. SecMax
    BY <1>3, <2>1, TimesAssumption
  <2>3. WrapSec(d) = d
    BY <2>2, WrapSecInRange
  <2>4. p.history = [keep |-> "Last", depth |-> d]
    BY <1>1, <1>3, <2>1, <2>3
  <2>5. p.history.keep = "Last" /\ p.history.depth = d
    BY <2>4
  <2>6. "Last" # "All" /\ "Last" # "None"
    OBVIOUS
  <2>7. r.history = << IF d < 0 THEN 0 ELSE d >>
    BY <1>2, <2>5, <2>6, Zenon
  <2> QED BY <2>1, <2>7
<1>4. /\ SameOrShorter(q.deadline, r.deadline) /\ SameOrShorter(q.lifespan, r.lifespan)
      /\ SameOrShorter(q.lease, r.lease)
  BY <1>0, <1>1, <1>2, DdsDurationBack
<1>5. r.reliability = q.reliability /\ r.durability = q.durability /\ r.liveliness = q.liveliness
  BY <1>0, <1>1, <1>2
<1> QED BY <1>3, <1>4, <1>5 DEF QosOverDds, p, r

-----------------------------------------------------------------------------
(* Tokens, frames, gids and parameter values (QosCodec, Framing,           *)
(* ParameterReads).                                                        *)

\* A field of a received token: left out, or a number.
Fields == {<<n>> : n \in Nat} \cup {<< >>}

\* Fields that parse, and do not overflow, are a duration.
LEMMA ParsedIsDuration == ASSUME NEW d \in Fields \X Fields, DurationOk(d), ~Overflows(d)
  PROVE ParseDuration(d) \in {<<n>> : n \in Durations} \cup {<< >>}
<1>0. Giga \in Nat \ {0} /\ UlongMax \in Nat /\ NanoMax \in Nat
  BY Widths
<1>1. CASE d[1] = << >>
  BY <1>1 DEF ParseDuration
<1>2. CASE d[1] # << >>
  <2>1. PICK s \in Nat, n \in Nat : d[1] = <<s>> /\ d[2] = <<n>>
    BY <1>2 DEF DurationOk, Fields
  <2>2. PICK q \in Int : q = n \div Giga
    BY <1>0, DivMod
  <2>3. PICK r \in Int : r = n % Giga
    BY <1>0, DivMod
  <2>4. n = Giga * q + r /\ 0 <= r /\ r < Giga
    BY <1>0, <2>2, <2>3, DivMod
  <2>5. s + q <= UlongMax
    BY <1>0, <1>2, <2>1, <2>2 DEF Overflows
  <2>6. (s + q) * Giga <= UlongMax * Giga
    BY <1>0, <2>5, MulMono
  <2>7. (s + q) * Giga = s * Giga + Giga * q /\ (UlongMax + 1) * Giga = UlongMax * Giga + Giga
        /\ UlongMax * Giga \in Nat /\ s * Giga \in Nat /\ Giga * q \in Int
    BY <1>0
  <2>8. s * Giga + n \in 0 .. (UlongMax + 1) * Giga - 1
    BY <1>0, <2>4, <2>6, <2>7
  <2>9. ParseDuration(d) = << s * Giga + n >>
    BY <1>2, <2>1 DEF ParseDuration
  <2> QED BY <2>8, <2>9 DEF Durations
<1> QED BY <1>1, <1>2

\* A decoded token is a profile.
LEMMA DecodedIsProfile ==
  ASSUME NEW f, DecodeQos(f) # << >>, f.hist \in Fields, f.depth \in Fields,
         f.deadline \in Fields \X Fields, f.lifespan \in Fields \X Fields, f.lease \in Fields \X Fields,
         ~Overflows(f.deadline), ~Overflows(f.lifespan), ~Overflows(f.lease)
  PROVE DecodeQos(f) = <<DecodeQos(f)[1]>> /\ DecodeQos(f)[1] \in StdProfiles
<1> DEFINE rel == Policy(ReliabilityCode, f.rel, "Reliable")
           dur == Policy(DurabilityCode, f.dur, "Volatile")
           liv == Policy(LivelinessCode, f.liv, "Automatic")
           hist == IF f.hist = <<2>> THEN << >> ELSE IF f.depth = << >> THEN <<0>> ELSE f.depth
<1>1. /\ rel # << >> => rel[1] \in {"Reliable", "BestEffort"}
      /\ dur # << >> => dur[1] \in {"TransientLocal", "Volatile"}
      /\ liv # << >> => liv[1] \in {"Automatic", "ManualByTopic"}
  <2>1. ASSUME NEW code, NEW field, NEW p, Policy(code, field, p) # << >>
        PROVE Policy(code, field, p)[1] \in DOMAIN code \cup {p}
    BY <2>1 DEF Policy
  <2>2. /\ DOMAIN ReliabilityCode = {"Reliable", "BestEffort"}
        /\ DOMAIN DurabilityCode = {"TransientLocal", "Volatile"}
        /\ DOMAIN LivelinessCode = {"Automatic", "ManualByTopic"}
    BY DEF ReliabilityCode, DurabilityCode, LivelinessCode
  <2> QED BY <2>1, <2>2
<1>2. (f.depth # << >> => f.depth[1] <= UlongMax) => hist \in {<<d>> : d \in 0 .. UlongMax} \cup {<< >>}
  BY Widths DEF Fields
<1> HIDE DEF rel, dur, liv, hist
<1>3. /\ rel # << >> /\ dur # << >> /\ liv # << >> /\ (f.depth # << >> => f.depth[1] <= UlongMax)
      /\ DurationOk(f.deadline) /\ DurationOk(f.lifespan) /\ DurationOk(f.lease)
      /\ DecodeQos(f) =
           << [reliability |-> rel[1], durability |-> dur[1], history |-> hist,
               deadline |-> ParseDuration(f.deadline), lifespan |-> ParseDuration(f.lifespan),
               liveliness |-> liv[1], lease |-> ParseDuration(f.lease)] >>
  BY Zenon DEF DecodeQos, rel, dur, liv, hist
<1>4. /\ ParseDuration(f.deadline) \in {<<n>> : n \in Durations} \cup {<< >>}
      /\ ParseDuration(f.lifespan) \in {<<n>> : n \in Durations} \cup {<< >>}
      /\ ParseDuration(f.lease) \in {<<n>> : n \in Durations} \cup {<< >>}
  BY <1>3, ParsedIsDuration
<1>5. [reliability |-> rel[1], durability |-> dur[1], history |-> hist,
               deadline |-> ParseDuration(f.deadline), lifespan |-> ParseDuration(f.lifespan),
               liveliness |-> liv[1], lease |-> ParseDuration(f.lease)] \in StdProfiles
  BY <1>1, <1>2, <1>3, <1>4 DEF Profiles, StdProfiles
<1> QED BY <1>3, <1>5

\* Re-encoding a foreign token keeps its meaning, whatever numbers are in its fields.
LEMMA TokenBack ==
  ASSUME NEW f, f.hist \in Fields, f.depth \in Fields,
         f.deadline \in Fields \X Fields, f.lifespan \in Fields \X Fields, f.lease \in Fields \X Fields
  PROVE ForeignToken(f)
  BY DecodedIsProfile, QosBack DEF ForeignToken, QosRoundTrips

\* A header and a body of two bytes make one message.
LEMMA Framed == ASSUME NEW a, NEW b, NEW c, NEW d, NEW x, NEW y
  PROVE  <<a, b, c, d>> \o <<x, y>> = <<a, b, c, d, x, y>>
<1> DEFINE V == {a, b, c, d, x, y}
 h == <<a,b,c,d>> 
 t == <<x,y>>
 m == <<a, b, c, d, x, y>>
<1>1. h \in Seq(V) /\ t \in Seq(V) /\ m \in Seq(V) /\ Len(h) = 4 /\ Len(t) = 2 /\ Len(m) = 6
  OBVIOUS
<1>2. h[1] = a /\ h[2] = b /\ h[3] = c /\ h[4] = d /\ t[1] = x /\ t[2] = y
   /\ m[1] = a /\ m[2] = b /\ m[3] = c /\ m[4] = d /\ m[5] = x /\ m[6] = y
  OBVIOUS
<1> HIDE DEF h, t, m, V
<1>3. /\ h \o t \in Seq(V) /\ Len(h \o t) = 6
      /\ \A i \in 1 .. 6 : (h \o t)[i] = IF i <= 4 THEN h[i] ELSE t[i - 4]
  <2>1. /\ h \o t \in Seq(V) /\ Len(h \o t) = Len(h) + Len(t)
        /\ \A i \in 1 .. Len(h) + Len(t) : (h \o t)[i] = IF i <= Len(h) THEN h[i] ELSE t[i - Len(h)]
    BY <1>1, ConcatProperties, Zenon
  <2> QED BY <1>1, <2>1
<1>4. \A i \in 1 .. 6 : (h \o t)[i] = m[i]
  <2>1. /\ (h \o t)[1] = h[1] /\ (h \o t)[2] = h[2] /\ (h \o t)[3] = h[3]
        /\ (h \o t)[4] = h[4] /\ (h \o t)[5] = t[1] /\ (h \o t)[6] = t[2]
    BY <1>3
  <2>2. \A i \in 1 .. 6 : i = 1 \/ i = 2 \/ i = 3 \/ i = 4 \/ i = 5 \/ i = 6
    OBVIOUS
  <2> QED BY <1>2, <2>1, <2>2, Zenon
<1>5. h \o t = m
  BY <1>1, <1>3, <1>4, SeqEqual
<1> QED BY <1>5 DEF h, t, m

\* What follows the header of four bytes.
LEMMA After ==  ASSUME NEW a, NEW b, NEW c, NEW d, NEW x, NEW y
  PROVE  AfterHeader(<<a, b, c, d, x, y>>) = <<x, y>>
<1> DEFINE V == {a, b, c, d, x, y}
 t == <<x,y>>
 m == <<a, b, c, d, x, y>>
<1>1. t \in Seq(V) /\ m \in Seq(V) /\ Len(t) = 2 /\ Len(m) = 6
  OBVIOUS
<1>2. t[1] = x /\ t[2] = y /\ m[5] = x /\ m[6] = y
  OBVIOUS
<1> HIDE DEF t, m, V
<1>3. \A i \in 5 .. 6 : m[i] \in V
  <2>1. \A i \in 1 .. Len(m) : m[i] \in V
    BY <1>1, ElementOfSeq
  <2> QED BY <1>1, <2>1
<1>4. /\ SubSeq(m, 5, 6) \in Seq(V) /\ Len(SubSeq(m, 5, 6)) = 2
      /\ \A i \in 1 .. 2 : SubSeq(m, 5, 6)[i] = m[i + 4]
  <2>1. /\ SubSeq(m, 5, 6) \in Seq(V) /\ Len(SubSeq(m, 5, 6)) = IF 5 <= 6 THEN 6 - 5 + 1 ELSE 0
        /\ \A i \in 1 .. 6 - 5 + 1 : SubSeq(m, 5, 6)[i] = m[5 + i - 1]
    BY <1>3, SubSeqProperties
  <2> QED BY <2>1
<1>5. SubSeq(m, 5, 6)[1] = x /\ SubSeq(m, 5, 6)[2] = y
  BY <1>4, <1>2
<1>6. SubSeq(m, 5, 6) = t
  BY <1>1, <1>2, <1>4, <1>5, SeqEqual
<1> QED BY <1>1, <1>6 DEF AfterHeader, t, m

\* Any value arrives, between typed and raw endpoints and in either byte order.
LEMMA ValuesArrive == ASSUME NEW a, NEW b PROVE ValueArrives(<<a, b>>)
<1> DEFINE v == <<a, b>>
           w == <<b, a>>
           le == <<0, 1, 0, 0, a, b>>
           be == <<0, 0, 0, 0, b, a>>
<1>1. /\ Body(v, "LE") = v /\ Body(v, "BE") = w
      /\ Decoded(v, "LE") = <<v>> /\ Decoded(w, "BE") = <<v>>
  BY DEF Body, Decoded
<1>2. Header("LE") \o v = le /\ Header("BE") \o w = be /\ <<0, 1, 0, 0>> \o v = le
  BY Framed DEF Header
<1>3. AfterHeader(le) = v /\ AfterHeader(be) = w
  BY After
<1>4. Len(le) = 6 /\ Len(be) = 6 /\ le[1] = 0 /\ le[2] = 1 /\ be[1] = 0 /\ be[2] = 0
  OBVIOUS
<1>5. RepId(le) = <<"LE">> /\ RepId(be) = <<"BE">>
  BY DEF RepId
<1> HIDE DEF v, w, le, be
<1>6. ToCdr(v) = le /\ ToStandaloneCdr(v) = le
  BY <1>1, <1>2 DEF ToCdr, ToStandaloneCdr
<1>7. FromCdr(le) = <<v>> /\ FromCdr(be) = <<v>>
  BY <1>1, <1>3, <1>4 DEF FromCdr
<1>8. RawPublish(le) = Sample(v, "LE") /\ TypedPublish(v) = Sample(v, "LE")
  BY <1>1, <1>3, <1>4 DEF RawPublish, NewRaw, TypedPublish
<1>9. /\ TypedTake(Sample(v, "LE")) = <<v>>
      /\ RawTake(Sample(v, "LE")) = le /\ RawTake(Sample(w, "BE")) = be
  BY <1>1, <1>2 DEF TypedTake, RawTake, UnwrapRaw, Sample
<1>10. ReceiveFixed(le) = <<v>> /\ ReceiveFixed(be) = <<v>>
  <2>1. StripHeader(le) = <<v>> /\ StripHeader(be) = <<w>>
    BY <1>3, <1>4 DEF StripHeader
  <2>2. ASSUME NEW x PROVE <<x>> # << >> /\ <<x>>[1] = x
    OBVIOUS
  <2> QED BY <1>1, <1>5, <2>1, <2>2, Zenon DEF ReceiveFixed
<1>11. ValueArrives(v)
  BY <1>1, <1>2, <1>6, <1>7, <1>8, <1>9, <1>10 DEF ValueArrives
<1> QED BY <1>11 DEF v

\* A message of any bytes and any length is read in range, or refused.
LEMMA OctetsAreRead == ASSUME NEW m \in Seq(Nat) PROVE OctetsRead(m)
<1> DEFINE odd == m[2] % 2 = 1
<1>1. CASE Len(m) < 4
  BY <1>1 DEF OctetsRead, ReceiveFixed, StripHeader, FromCdr
<1>2. CASE Len(m) >= 4
  <2>1. m[1] \in Nat /\ m[2] \in Nat
    BY <1>2
  <2>2. StripHeader(m) = <<AfterHeader(m)>> /\ StripHeader(m) # << >>
    BY <1>2 DEF StripHeader
  <2>3. CASE m[1] = 0 /\ m[2] = 0
    <3>1. RepId(m) = <<"BE">>
      <4>1. <<m[1], m[2]>> = <<0, 0>> /\ <<m[1], m[2]>> # <<0, 1>> /\ ~(Len(m) < 2)
        BY <1>2, <2>3
      <4> QED BY <4>1, Zenon DEF RepId
    <3>2. FromCdr(m) = Decoded(AfterHeader(m), "BE")
      BY <1>2, <2>3 DEF FromCdr
    <3> QED BY <2>2, <3>1, <3>2 DEF OctetsRead, ReceiveFixed
  <2>4. CASE m[1] = 0 /\ m[2] = 1
    <3>1. RepId(m) = <<"LE">>
      <4>1. <<m[1], m[2]>> # <<0, 0>> /\ <<m[1], m[2]>> = <<0, 1>> /\ ~(Len(m) < 2)
        BY <1>2, <2>4
      <4> QED BY <4>1, Zenon DEF RepId
    <3>2. FromCdr(m) = Decoded(AfterHeader(m), "LE")
      BY <1>2, <2>4 DEF FromCdr
    <3> QED BY <2>2, <3>1, <3>2 DEF OctetsRead, ReceiveFixed
  <2>5. CASE ~(m[1] = 0 /\ m[2] \in {0, 1})
    <3>1. RepId(m) = << >>
      <4>1. <<m[1], m[2]>> # <<0, 0>> /\ <<m[1], m[2]>> # <<0, 1>> /\ ~(Len(m) < 2)
        BY <1>2, <2>5
      <4> QED BY <4>1, Zenon DEF RepId
    <3> QED BY <2>5, <3>1 DEF OctetsRead, ReceiveFixed
  <2> QED BY <2>3, <2>4, <2>5
<1> QED BY <1>1, <1>2

\* Any guid comes back from the gid that holds it.
LEMMA GidsKeep == ASSUME NEW S, NEW g \in [1 .. GuidLength -> S] PROVE GidKeepsGuid(g)
<1>0. GuidLength \in Nat /\ GidLength \in Nat /\ GidLength >= GuidLength
  BY FramingAssumption
<1>1. Len(g) = GuidLength
  BY <1>0
<1>2. ToGid(g) = [i \in 1 .. GidLength |-> IF i <= GuidLength THEN g[i] ELSE 0]
  BY <1>1 DEF ToGid
<1>3. ToGid(g) \in Seq(S \cup {0}) /\ Len(ToGid(g)) = GidLength
  BY <1>0, <1>2
<1>4. ToGuid(ToGid(g)) = [i \in 1 .. GuidLength |-> ToGid(g)[i]]
  BY <1>0, <1>3 DEF ToGuid
<1>5. \A i \in 1 .. GuidLength : ToGid(g)[i] = g[i]
  BY <1>0, <1>2
<1> QED BY <1>4, <1>5 DEF GidKeepsGuid

\* The kinds of parameter values have codes of their own.
LEMMA KindOf ==
  /\ Kinds = {"NotSet", "Boolean", "Integer", "Double", "String", "ByteArray",
              "BooleanArray", "IntegerArray", "DoubleArray", "StringArray"}
  /\ \A k \in Kinds : TypeCode[k] \in 0 .. 9
  /\ \A j, k \in Kinds : TypeCode[j] = TypeCode[k] => j = k
  /\ \A k \in Kinds : TypeCode[k] = 0 <=> k = "NotSet"
  BY DEF Kinds, TypeCode

\* A raw value whose type is that of a kind is read as that kind.
LEMMA ReadAs == ASSUME NEW raw, NEW k \in Kinds, raw.ptype = TypeCode[k]
  PROVE FromRaw(raw) = IF k = "NotSet" THEN NotSet ELSE [kind |-> k, content |-> raw.fields[k]]
<1>1. CASE k = "NotSet"
  BY <1>1, KindOf DEF FromRaw, NotSet
<1>2. CASE k # "NotSet"
  <2>1. (CHOOSE j \in Kinds : TypeCode[j] = raw.ptype) = k
    BY KindOf
  <2> QED BY <1>2, <2>1, KindOf DEF FromRaw
<1> QED BY <1>1, <1>2

\* Any value of a parameter comes back from the raw message.
LEMMA ValuesKept == ASSUME NEW k \in Kinds, NEW c, k = "NotSet" => c = 0
  PROVE FromRaw(ToRaw([kind |-> k, content |-> c])) = [kind |-> k, content |-> c]
<1> DEFINE v == [kind |-> k, content |-> c]
           raw == ToRaw(v)
<1>1. raw.ptype = TypeCode[k] /\ (k # "NotSet" => raw.fields[k] = c)
  BY DEF ToRaw
<1>2. FromRaw(raw) = IF k = "NotSet" THEN NotSet ELSE [kind |-> k, content |-> raw.fields[k]]
  BY <1>1, ReadAs
<1> QED BY <1>1, <1>2 DEF NotSet

\* Any value of a parameter arrives (parameters.rs).
LEMMA ParametersArrive == ASSUME NEW k \in Kinds, NEW c, k = "NotSet" => c = 0
  PROVE ParameterArrives([kind |-> k, content |-> c])
<1> DEFINE v == [kind |-> k, content |-> c]
           other == [ToRaw(v) EXCEPT !.fields = [j \in Kinds \ {"NotSet"} |-> c]]
           unknown == [ToRaw(v) EXCEPT !.ptype = 10]
<1>1. FromRaw(ToRaw(v)) = v
  BY ValuesKept
<1>2. other.ptype = TypeCode[k] /\ (k # "NotSet" => other.fields[k] = c)
  BY DEF ToRaw
<1>3. FromRaw(other) = v
  <2>1. FromRaw(other) = IF k = "NotSet" THEN NotSet ELSE [kind |-> k, content |-> other.fields[k]]
    BY <1>2, ReadAs
  <2> QED BY <1>2, <2>1 DEF NotSet
<1>4. FromRaw(unknown).kind = "NotSet"
  <2>1. unknown.ptype = 10
    BY DEF ToRaw
  <2>2. ~\E j \in Kinds \ {"NotSet"} : TypeCode[j] = unknown.ptype
    BY <2>1, KindOf
  <2> HIDE DEF unknown
  <2> QED BY <2>2 DEF FromRaw
<1>5. v.content = c
  OBVIOUS
<1> QED BY <1>1, <1>3, <1>4, <1>5 DEF ParameterArrives

\* What a table may hold: values of a kind with a content of its own.
ValuesOfKinds == {v \in [kind : Kinds, content : Nat] : v.kind = "NotSet" => v.content = 0}

\* The read services tell the same of any table, for any names asked.
LEMMA ReadsAreOne ==
  ASSUME NEW D, NEW table \in [D -> ValuesOfKinds], NEW S, NEW names \in Seq(S), NEW prefixes
  PROVE ReadsAgree(table, names, prefixes)
<1> DEFINE values == GetParameters(table, names)
           types == GetParameterTypes(table, names)
           descriptions == DescribeParameters(table, names)
<1>1. ASSUME NEW n PROVE Stored(table, n) \in ValuesOfKinds /\ (n \in D => Stored(table, n) = table[n])
                         /\ (n \notin D => Stored(table, n) = NotSet)
  BY KindOf DEF Stored, ValuesOfKinds, NotSet
<1>2. ASSUME NEW i \in DOMAIN names
      PROVE /\ types[i] = values[i].ptype /\ types[i] = descriptions[i].type
            /\ FromRaw(values[i]) # NotSet => FromRaw(values[i]) = table[names[i]]
            /\ descriptions[i].read_only <=> names[i] \notin ListParameters(table, << >>)
  <2> DEFINE n == names[i]
             s == Stored(table, n)
  <2>1. values[i] = ToRaw(s) /\ types[i] = TypeCode[s.kind]
    BY DEF GetParameters, GetParameterTypes
  <2>2. types[i] = values[i].ptype
    BY <2>1 DEF ToRaw
  <2>3. descriptions[i] = IF n \in D THEN FromValue(n, table[n]) ELSE UnknownDescriptor(n)
    BY DEF DescribeParameters
  <2>4. types[i] = descriptions[i].type
    BY <1>1, <2>1, <2>3 DEF FromValue, UnknownDescriptor, NotSet
  <2>5. FromRaw(values[i]) = s
    <3>1. s \in ValuesOfKinds
      BY <1>1
    <3>2. s = [kind |-> s.kind, content |-> s.content] /\ s.kind \in Kinds
          /\ (s.kind = "NotSet" => s.content = 0)
      BY <3>1 DEF ValuesOfKinds
    <3> QED BY <2>1, <3>2, ValuesKept
  <2>6. ListParameters(table, << >>) = D
    BY DEF ListParameters
  <2>7. descriptions[i].read_only <=> n \notin D
    BY <2>3 DEF FromValue, UnknownDescriptor
  <2> QED BY <1>1, <2>2, <2>4, <2>5, <2>6, <2>7
<1>3. ListParameters(table, prefixes) \subseteq ListParameters(table, << >>)
  BY DEF ListParameters
<1>4. Len(SetAtomically(names)) = Len(names)
  BY DEF SetAtomically
<1> QED BY <1>2, <1>3, <1>4 DEF ReadsAgree

-----------------------------------------------------------------------------
(* Type descriptions (TypeHashes).  Induction is by least counterexample:  *)
(* the natural numbers are well founded.                                   *)

\* A set of numbers that is not empty has a least one: what stands in for
\* induction over the places of a list.
LEMMA LeastNat == ASSUME NEW S, S \subseteq Nat, S # {} PROVE \E m \in S : \A n \in S : m <= n
<1>1. IsWellFoundedOn(OpToRel(<, Nat), Nat)
  BY NatLessThanWellFounded
<1>2. PICK x \in S : \A y \in S : ~(<<y, x>> \in OpToRel(<, Nat))
  BY <1>1, WFMin
<1>3. \A y \in S : ~(y < x)
  BY <1>2 DEF OpToRel
<1>4. \A y \in S : x <= y
  <2> SUFFICES ASSUME NEW y \in S PROVE x <= y
    OBVIOUS
  <2>1. x \in Nat /\ y \in Nat
    OBVIOUS
  <2> QED BY <1>3, <2>1
<1> QED BY <1>4

\* n descriptions with a name each.
Named(refs, n) ==
  /\ n \in Nat /\ DOMAIN refs = 1 .. n
  /\ \A i \in 1 .. n : refs[i].type_name \in Int

\* No two of them have the same name.
Distinct(refs, n) ==
  \A i, j \in 1 .. n : refs[i].type_name = refs[j].type_name => i = j

\* The order of the sort is total.
LEMMA OrderIsTotal == ASSUME NEW refs, NEW n, Named(refs, n)
  PROVE /\ \A i \in 1 .. n : ~ComesBefore(refs, i, i)
        /\ \A i, j \in 1 .. n : i # j => ComesBefore(refs, i, j) \/ ComesBefore(refs, j, i)
        /\ \A i, j, k \in 1 .. n :
             ComesBefore(refs, i, j) /\ ComesBefore(refs, j, k) => ComesBefore(refs, i, k)
  BY DEF Named, ComesBefore

\* The descriptions before one, and how many there are.
Earlier(refs, n, i) == {j \in 1 .. n : ComesBefore(refs, j, i)}

\* At most n - 1 descriptions come before any of them.
LEMMA RankBound == ASSUME NEW refs, NEW n, Named(refs, n), NEW i \in 1 .. n
  PROVE /\ IsFiniteSet(Earlier(refs, n, i))
        /\ Cardinality(Earlier(refs, n, i)) \in 0 .. n - 1
<1> DEFINE E == Earlier(refs, n, i)
<1>0. n \in Nat
  BY DEF Named
<1>1. IsFiniteSet(1 .. n) /\ Cardinality(1 .. n) = n
  BY <1>0, FS_Interval
<1>2. E \in SUBSET (1 .. n) /\ i \notin E
  BY OrderIsTotal DEF Earlier
<1> HIDE DEF E
<1>3. IsFiniteSet(E) /\ Cardinality(E) <= Cardinality(1 .. n)
      /\ (Cardinality(1 .. n) = Cardinality(E) => 1 .. n = E)
  BY <1>1, <1>2, FS_Subset
<1>4. Cardinality(E) \in Nat
  BY <1>3, FS_CardinalityType
<1>5. Cardinality(E) # n
  BY <1>1, <1>2, <1>3
<1> QED BY <1>0, <1>1, <1>3, <1>4, <1>5 DEF E

\* A description that comes earlier has fewer before it.
LEMMA RankMonotone ==
  ASSUME NEW refs, NEW n, Named(refs, n), NEW i \in 1 .. n, NEW j \in 1 .. n, ComesBefore(refs, i, j)
  PROVE Cardinality(Earlier(refs, n, i)) < Cardinality(Earlier(refs, n, j))
<1> DEFINE E == Earlier(refs, n, i)
           F == Earlier(refs, n, j)
<1>1. E \in SUBSET F /\ i \in F /\ i \notin E
  BY OrderIsTotal DEF Earlier
<1>2. IsFiniteSet(F) /\ Cardinality(F) \in Int /\ Cardinality(E) \in Int
  BY RankBound DEF Named
<1> HIDE DEF E, F
<1>3. Cardinality(E) <= Cardinality(F) /\ (Cardinality(F) = Cardinality(E) => F = E)
  BY <1>1, <1>2, FS_Subset
<1> QED BY <1>1, <1>2, <1>3 DEF E, F

\* The sort puts every description in a place of its own, in the order.
LEMMA SortIsPermutation == ASSUME NEW refs, NEW n, Named(refs, n)
  PROVE \E p \in [1 .. n -> 1 .. n] :
          /\ \A i \in 1 .. n : \E k \in 1 .. n : p[k] = i
          /\ \A i, j \in 1 .. n : i < j => ComesBefore(refs, p[i], p[j])
          /\ SortByName(refs) = [k \in 1 .. n |-> refs[p[k]]]
<1> DEFINE D == 1 .. n
           rank(i) == Cardinality(Earlier(refs, n, i))
           r == [i \in D |-> rank(i) + 1]
<1>0. n \in Nat
  BY DEF Named
<1>1. \A i \in D : rank(i) \in 0 .. n - 1
  BY RankBound
<1>2. \A i, j \in D : ComesBefore(refs, i, j) => rank(i) < rank(j)
  BY RankMonotone
<1> HIDE DEF rank
<1>3. r \in [D -> D]
  BY <1>0, <1>1
<1>4. \A i, j \in D : rank(i) = rank(j) => i = j
  <2> SUFFICES ASSUME NEW i \in D, NEW j \in D, rank(i) = rank(j), i # j PROVE FALSE
    OBVIOUS
  <2>1. ComesBefore(refs, i, j) \/ ComesBefore(refs, j, i)
    BY OrderIsTotal
  <2>2. rank(i) \in Int /\ rank(j) \in Int
    BY <1>1
  <2> QED BY <1>2, <2>1, <2>2
<1>5. r \in Injection(D, D)
  <2>1. \A i, j \in D : r[i] = r[j] => i = j
    BY <1>1, <1>4
  <2> QED BY <1>3, <2>1 DEF Injection, IsInjective
<1>6. r \in Surjection(D, D)
  BY <1>0, <1>5, FS_Injection, FS_Interval
<1>7. \A k \in D : \E i \in D : rank(i) = k - 1
  <2> SUFFICES ASSUME NEW k \in D PROVE \E i \in D : rank(i) = k - 1
    OBVIOUS
  <2>1. PICK i \in D : r[i] = k
    BY <1>6 DEF Surjection
  <2> QED BY <1>1, <2>1
<1> DEFINE p == [k \in D |-> CHOOSE i \in D : rank(i) = k - 1]
<1>8. p \in [D -> D] /\ \A k \in D : rank(p[k]) = k - 1
  BY <1>7
<1>9. \A i \in D : \E k \in D : p[k] = i
  <2> SUFFICES ASSUME NEW i \in D PROVE \E k \in D : p[k] = i
    OBVIOUS
  <2>1. r[i] \in D /\ rank(i) = r[i] - 1
    BY <1>1, <1>3
  <2>2. p[r[i]] \in D /\ rank(p[r[i]]) = rank(i)
    BY <1>8, <2>1
  <2>3. p[r[i]] = i
    BY <1>4, <2>2
  <2> QED BY <2>1, <2>3
<1>10. \A i, j \in D : i < j => ComesBefore(refs, p[i], p[j])
  <2> SUFFICES ASSUME NEW i \in D, NEW j \in D, i < j PROVE ComesBefore(refs, p[i], p[j])
    OBVIOUS
  <2>1. p[i] \in D /\ p[j] \in D /\ rank(p[i]) = i - 1 /\ rank(p[j]) = j - 1
    BY <1>8
  <2> HIDE DEF p
  <2>2. p[i] # p[j]
    BY <2>1, <1>0
  <2>3. ~ComesBefore(refs, p[j], p[i])
    <3>1. ~(rank(p[j]) < rank(p[i]))
      BY <2>1, <1>0
    <3> QED BY <1>2, <2>1, <3>1
  <2> QED BY <2>1, <2>2, <2>3, OrderIsTotal
<1>11. SortByName(refs) = [k \in D |-> refs[p[k]]]
  <2>1. DOMAIN refs = D
    BY DEF Named
  <2> QED BY <2>1 DEF SortByName, rank, Earlier
<1> QED BY <1>8, <1>9, <1>10, <1>11

\* What is written of a list, strictly sorted by name, is determined by the
\* set of what is written.
Ascending(f, n) ==
  /\ n \in Nat /\ DOMAIN f = 1 .. n /\ \A i \in 1 .. n : f[i][1] \in Int
  /\ \A i, j \in 1 .. n : i < j => f[i][1] < f[j][1]

\* Whatever is in g is in f.
Covers(f, m, g, n) == \A i \in 1 .. n : \E j \in 1 .. m : g[i] = f[j]

\* Two ascending lists of the same elements agree, by least counterexample.
LEMMA AscendingAgree ==
  ASSUME NEW f, NEW m, NEW g, NEW n, Ascending(f, m), Ascending(g, n), m <= n,
         Covers(g, n, f, m), Covers(f, m, g, n)
  PROVE \A i \in 1 .. m : f[i] = g[i]
<1> DEFINE S == {i \in 1 .. m : f[i] # g[i]}
<1>0. m \in Nat /\ n \in Nat
  BY DEF Ascending
<1> SUFFICES ASSUME S # {} PROVE FALSE
  OBVIOUS
<1>1. S \subseteq Nat
  BY <1>0
<1>2. PICK k \in S : \A i \in S : k <= i
  BY <1>1, LeastNat
<1>3. k \in 1 .. m /\ k \in 1 .. n /\ f[k] # g[k] /\ \A i \in 1 .. m : i < k => f[i] = g[i]
  BY <1>0, <1>2
<1> HIDE DEF S
<1>4. PICK j \in 1 .. n : f[k] = g[j]
  BY <1>3 DEF Covers
<1>5. PICK i \in 1 .. m : g[k] = f[i]
  BY <1>3 DEF Covers
<1>6. k < j
  <2>1. j # k
    BY <1>3, <1>4
  <2>2. ~(j < k)
    <3> SUFFICES ASSUME j < k PROVE FALSE
      OBVIOUS
    <3>1. j \in 1 .. m /\ f[j] = g[j] /\ f[j][1] < f[k][1] /\ f[j][1] \in Int
      BY <1>0, <1>3 DEF Ascending
    <3> QED BY <1>4, <3>1
  <2> QED BY <1>0, <1>3, <2>1, <2>2
<1>7. k < i
  <2>1. i # k
    BY <1>3, <1>5
  <2>2. ~(i < k)
    <3> SUFFICES ASSUME i < k PROVE FALSE
      OBVIOUS
    <3>1. i \in 1 .. n /\ f[i] = g[i] /\ g[i][1] < g[k][1] /\ g[i][1] \in Int
      BY <1>0, <1>3 DEF Ascending
    <3> QED BY <1>5, <3>1
  <2> QED BY <1>0, <1>3, <2>1, <2>2
<1>8. g[k][1] < g[j][1] /\ f[k][1] < f[i][1] /\ g[k][1] \in Int /\ f[k][1] \in Int
  BY <1>3, <1>6, <1>7 DEF Ascending
<1> QED BY <1>4, <1>5, <1>8

\* The same, for lists of any two lengths.
LEMMA AscendingEqual ==
  ASSUME NEW f, NEW m, NEW g, NEW n, Ascending(f, m), Ascending(g, n), m <= n,
         Covers(g, n, f, m), Covers(f, m, g, n)
  PROVE m = n /\ \A i \in 1 .. m : f[i] = g[i]
<1>0. m \in Nat /\ n \in Nat
  BY DEF Ascending
<1>1. \A i \in 1 .. m : f[i] = g[i]
  BY AscendingAgree
<1>2. ~(m < n)
  <2> SUFFICES ASSUME m < n PROVE FALSE
    OBVIOUS
  <2>1. PICK j \in 1 .. m : g[m + 1] = f[j]
    BY <1>0 DEF Covers
  <2>2. g[m + 1] = g[j] /\ g[j][1] < g[m + 1][1] /\ g[j][1] \in Int
    <3>1. m + 1 \in 1 .. n /\ j \in 1 .. n /\ j < m + 1
      BY <1>0
    <3>2. g[j][1] < g[m + 1][1] /\ g[j][1] \in Int
      BY <3>1 DEF Ascending
    <3> QED BY <1>1, <2>1, <3>2
  <2> QED BY <2>2
<1> QED BY <1>0, <1>1, <1>2

\* What is written of the sorted list.
LEMMA WrittenSorted == ASSUME NEW refs, NEW n, Named(refs, n)
  PROVE LET w == [i \in DOMAIN SortByName(refs) |-> WriteIndividual(SortByName(refs)[i])] IN
        /\ DOMAIN w = 1 .. n
        /\ {w[i] : i \in 1 .. n} = Written(refs)
        /\ Distinct(refs, n) => Ascending(w, n)
<1>1. PICK p \in [1 .. n -> 1 .. n] :
          /\ \A i \in 1 .. n : \E k \in 1 .. n : p[k] = i
          /\ \A i, j \in 1 .. n : i < j => ComesBefore(refs, p[i], p[j])
          /\ SortByName(refs) = [k \in 1 .. n |-> refs[p[k]]]
  BY SortIsPermutation
<1> DEFINE w == [i \in DOMAIN SortByName(refs) |-> WriteIndividual(SortByName(refs)[i])]
<1>2. DOMAIN w = 1 .. n /\ \A i \in 1 .. n : w[i] = WriteIndividual(refs[p[i]])
  BY <1>1
<1>3. DOMAIN refs = 1 .. n /\ n \in Nat /\ \A i \in 1 .. n : refs[i].type_name \in Int
  BY DEF Named
<1>4. {w[i] : i \in 1 .. n} = Written(refs)
  <2>1. Written(refs) = {WriteIndividual(refs[i]) : i \in 1 .. n}
    BY <1>3 DEF Written
  <2> HIDE DEF w
  <2>2. ASSUME NEW i \in 1 .. n PROVE w[i] \in Written(refs)
    BY <1>1, <1>2, <2>1
  <2>3. ASSUME NEW i \in 1 .. n PROVE \E k \in 1 .. n : WriteIndividual(refs[i]) = w[k]
    BY <1>1, <1>2
  <2> QED BY <2>1, <2>2, <2>3, ZenonT(40)
<1>5. ASSUME Distinct(refs, n) PROVE Ascending(w, n)
  <2> HIDE DEF w
  <2>1. \A i \in 1 .. n : w[i][1] = refs[p[i]].type_name
    BY <1>2 DEF WriteIndividual
  <2>2. \A i, j \in 1 .. n : i < j => refs[p[i]].type_name < refs[p[j]].type_name
    <3> SUFFICES ASSUME NEW i \in 1 .. n, NEW j \in 1 .. n, i < j
                 PROVE refs[p[i]].type_name < refs[p[j]].type_name
      OBVIOUS
    <3>1. p[i] \in 1 .. n /\ p[j] \in 1 .. n /\ ComesBefore(refs, p[i], p[j])
      BY <1>1
    <3>2. p[i] < p[j] => p[i] # p[j]
      BY <3>1, <1>3
    <3> QED BY <1>5, <3>1, <3>2 DEF Distinct, ComesBefore
  <2>3. \A i \in 1 .. n : w[i][1] \in Int
    BY <1>1, <1>3, <2>1
  <2> QED BY <1>2, <1>3, <2>1, <2>2, <2>3 DEF Ascending
<1> QED BY <1>2, <1>4, <1>5

\* Two descriptions, with any number of referenced types that have distinct names, are
\* written alike once sorted exactly when they describe the same types: the order
\* they came in does not matter (type_description.rs).
THEOREM HashesDescribe ==
  ASSUME NEW a, NEW m, Named(a.refs, m), Distinct(a.refs, m),
         NEW b, NEW n, Named(b.refs, n), Distinct(b.refs, n)
  PROVE HashesAgree(a, b)
<1> DEFINE fa == [i \in DOMAIN SortByName(a.refs) |-> WriteIndividual(SortByName(a.refs)[i])]
           gb == [i \in DOMAIN SortByName(b.refs) |-> WriteIndividual(SortByName(b.refs)[i])]
<1>a. PICK f : f = fa /\ f = [i \in DOMAIN f |-> f[i]]
  OBVIOUS
<1>b. PICK g : g = gb /\ g = [i \in DOMAIN g |-> g[i]]
  OBVIOUS
<1>1. DOMAIN f = 1 .. m /\ {f[i] : i \in 1 .. m} = Written(a.refs) /\ Ascending(f, m)
  <2>1. DOMAIN fa = 1 .. m /\ {fa[i] : i \in 1 .. m} = Written(a.refs) /\ Ascending(fa, m)
    BY WrittenSorted
  <2> HIDE DEF fa
  <2> QED BY <1>a, <2>1
<1>2. DOMAIN g = 1 .. n /\ {g[i] : i \in 1 .. n} = Written(b.refs) /\ Ascending(g, n)
  <2>1. DOMAIN gb = 1 .. n /\ {gb[i] : i \in 1 .. n} = Written(b.refs) /\ Ascending(gb, n)
    BY WrittenSorted
  <2> HIDE DEF gb
  <2> QED BY <1>b, <2>1
<1>3. HashableJson(a) = <<WriteIndividual(a.top), f>> /\ HashableJson(b) = <<WriteIndividual(b.top), g>>
  BY <1>a, <1>b DEF HashableJson
<1> HIDE DEF fa, gb
<1>4. f = [i \in 1 .. m |-> f[i]] /\ g = [i \in 1 .. n |-> g[i]]
  BY <1>a, <1>b, <1>1, <1>2
<1>5. m \in Nat /\ n \in Nat
  BY DEF Named
<1>6. ASSUME f = g PROVE Written(a.refs) = Written(b.refs)
  <2>1. 1 .. m = 1 .. n
    BY <1>1, <1>2, <1>6
  <2> QED BY <1>1, <1>2, <1>6, <2>1
<1>7. ASSUME Written(a.refs) = Written(b.refs) PROVE f = g
  <2>0. Ascending(f, m) /\ Ascending(g, n)
    BY <1>1, <1>2
  <2>1. Covers(g, n, f, m)
    BY <1>1, <1>2, <1>7 DEF Covers
  <2>2. Covers(f, m, g, n)
    BY <1>1, <1>2, <1>7 DEF Covers
  <2>3. CASE m <= n
    <3>1. m = n /\ \A i \in 1 .. m : f[i] = g[i]
      BY <2>0, <2>1, <2>2, <2>3, AscendingEqual
    <3> QED BY <1>4, <3>1
  <2>4. CASE n <= m
    <3>1. n = m /\ \A i \in 1 .. n : g[i] = f[i]
      BY <2>0, <2>1, <2>2, <2>4, AscendingEqual
    <3> QED BY <1>4, <3>1
  <2> QED BY <1>5, <2>3, <2>4
<1> QED BY <1>3, <1>6, <1>7 DEF HashesAgree

-----------------------------------------------------------------------------
(* Names (Names): lists of tokens, Name::new and Name::parse.              *)

\* The tokens a name may have.
GoodTokens == (Words \cap Starts) \ Doubles

\* The token without a character.
Blank == ""

\* TokenOk is membership in GoodTokens, and no empty token is good.
LEMMA GoodToken == ASSUME NEW t PROVE /\ TokenOk(t) <=> t \in GoodTokens
                                      /\ Blank \notin GoodTokens
  BY NamesAssumption DEF TokenOk, GoodTokens, Blank

\* The tests on slashes, by the empty token.
LEMMA SlashIs == ASSUME NEW t
  PROVE /\ StartsWithSlash(t) \in BOOLEAN
        /\ StartsWithSlash(t) <=> (Len(t) > 1 /\ t[1] = Blank)
        /\ EndsWithSlash(t) <=> (Len(t) > 1 /\ Last(t) = Blank)
        /\ OneToken(t) <=> Len(t) = 1
  BY Zenon DEF StartsWithSlash, EndsWithSlash, OneToken, Blank

\* The name that an absolute or a relative list of tokens spells.
Spelt(tokens, absolute) ==
  [base |-> Last(tokens), preceeding |-> Front(tokens), absolute |-> absolute]

\* A list is its front and its last element.
LEMMA FrontLast == ASSUME NEW T, NEW s \in Seq(T), Len(s) >= 1
  PROVE /\ Front(s) \in Seq(T) /\ Len(Front(s)) = Len(s) - 1
        /\ \A i \in 1 .. Len(s) - 1 : Front(s)[i] = s[i]
        /\ Last(s) = s[Len(s)] /\ Last(s) \in T
        /\ s = Front(s) \o <<Last(s)>>
<1>1. Len(s) \in Nat /\ \A i \in 1 .. Len(s) : s[i] \in T
  BY ElementOfSeq, LenProperties
<1>2. /\ Front(s) \in Seq(T) /\ Len(Front(s)) = Len(s) - 1
      /\ \A i \in 1 .. Len(s) - 1 : Front(s)[i] = s[i]
  <2>1. \A i \in 1 .. Len(s) - 1 : s[i] \in T
    BY <1>1
  <2>2. /\ SubSeq(s, 1, Len(s) - 1) \in Seq(T)
        /\ Len(SubSeq(s, 1, Len(s) - 1)) = IF 1 <= Len(s) - 1 THEN Len(s) - 1 - 1 + 1 ELSE 0
        /\ \A i \in 1 .. Len(s) - 1 - 1 + 1 : SubSeq(s, 1, Len(s) - 1)[i] = s[1 + i - 1]
    BY <1>1, <2>1, SubSeqProperties
  <2>3. PICK f : f = SubSeq(s, 1, Len(s) - 1)
    OBVIOUS
  <2>4. PICK n \in Nat : n = Len(s)
    BY <1>1
  <2>5. f \in Seq(T) /\ Len(f) = n - 1
    BY <2>2, <2>3, <2>4
  <2>6. \A i \in 1 .. n - 1 : f[i] = s[i]
    <3> SUFFICES ASSUME NEW i \in 1 .. n - 1 PROVE f[i] = s[i]
      OBVIOUS
    <3>1. i \in 1 .. n - 1 - 1 + 1 /\ 1 + i - 1 = i
      BY <2>4
    <3> QED BY <2>2, <2>3, <2>4, <3>1
  <2> QED BY <2>3, <2>4, <2>5, <2>6 DEF Front
<1>3. Last(s) = s[Len(s)] /\ Last(s) \in T
  BY <1>1 DEF Last
<1>4. s = Front(s) \o <<Last(s)>>
  <2>1. PICK f : f = Front(s)
    OBVIOUS
  <2>2. PICK l : l = <<Last(s)>>
    OBVIOUS
  <2>3. l \in Seq(T) /\ Len(l) = 1 /\ l[1] = Last(s)
    BY <1>3, <2>2
  <2>4. /\ f \o l \in Seq(T) /\ Len(f \o l) = Len(f) + Len(l)
        /\ \A i \in 1 .. Len(f) + Len(l) : (f \o l)[i] = IF i <= Len(f) THEN f[i] ELSE l[i - Len(f)]
    BY <1>2, <2>1, <2>3, ConcatProperties, ZenonT(40)
  <2>5. Len(f \o l) = Len(s) /\ Len(f) = Len(s) - 1
    BY <1>1, <1>2, <2>1, <2>3, <2>4
  <2>6. \A i \in 1 .. Len(s) : s[i] = (f \o l)[i]
    BY <1>1, <1>2, <1>3, <2>1, <2>3, <2>4, <2>5
  <2>7. s = f \o l
    BY <2>4, <2>5, <2>6, SeqEqual
  <2> QED BY <2>1, <2>2, <2>7
<1> QED BY <1>2, <1>3, <1>4

\* The tail of a list, element by element.
LEMMA TailIs == ASSUME NEW T, NEW s \in Seq(T), Len(s) >= 1
  PROVE /\ Tail(s) \in Seq(T) /\ Len(Tail(s)) = Len(s) - 1
        /\ \A i \in 1 .. Len(s) - 1 : Tail(s)[i] = s[i + 1]
  BY HeadTailProperties, EmptySeq

\* A list that is a first token and the rest.
LEMMA FirstAndRest == ASSUME NEW T, NEW x \in T, NEW w \in Seq(T)
  PROVE /\ <<x>> \o w \in Seq(T) /\ Len(<<x>> \o w) = Len(w) + 1
        /\ (<<x>> \o w)[1] = x /\ \A i \in 1 .. Len(w) : (<<x>> \o w)[i + 1] = w[i]
        /\ Tail(<<x>> \o w) = w
<1>1. PICK l : l = <<x>>
  OBVIOUS
<1>2. l \in Seq(T) /\ Len(l) = 1 /\ l[1] = x
  BY <1>1
<1>3. /\ l \o w \in Seq(T) /\ Len(l \o w) = Len(l) + Len(w)
      /\ \A i \in 1 .. Len(l) + Len(w) : (l \o w)[i] = IF i <= Len(l) THEN l[i] ELSE w[i - Len(l)]
  BY <1>2, ConcatProperties, Zenon
<1>4. Len(w) \in Nat
  BY LenProperties
<1>5. Len(l \o w) = Len(w) + 1 /\ (l \o w)[1] = x
  BY <1>2, <1>3, <1>4
<1>6. \A i \in 1 .. Len(w) : (l \o w)[i + 1] = w[i]
  <2> SUFFICES ASSUME NEW i \in 1 .. Len(w) PROVE (l \o w)[i + 1] = w[i]
    OBVIOUS
  <2>1. (l \o w)[i + 1] = w[(i + 1) - 1]
    BY <1>2, <1>3, <1>4
  <2>2. (i + 1) - 1 = i
    OBVIOUS
  <2> QED BY <2>1, <2>2
<1>7. PICK c : c = l \o w
  OBVIOUS
<1>8. Tail(c) = w
  <2>1. c \in Seq(T) /\ Len(c) = Len(w) + 1 /\ \A i \in 1 .. Len(w) : c[i + 1] = w[i]
    BY <1>3, <1>5, <1>6, <1>7
  <2>2. /\ Tail(c) \in Seq(T) /\ Len(Tail(c)) = Len(c) - 1
        /\ \A i \in 1 .. Len(c) - 1 : Tail(c)[i] = c[i + 1]
    BY <1>4, <2>1, TailIs
  <2>3. Len(Tail(c)) = Len(w) /\ \A i \in 1 .. Len(w) : Tail(c)[i] = w[i]
    BY <1>4, <2>1, <2>2
  <2> QED BY <2>2, <2>3, SeqEqual
<1> QED BY <1>1, <1>3, <1>5, <1>6, <1>7, <1>8

\* A list is its first token and its tail.
LEMMA HeadTail == ASSUME NEW T, NEW s \in Seq(T), Len(s) >= 1
  PROVE <<s[1]>> \o Tail(s) = s
<1>1. Len(s) \in Nat /\ s[1] \in T
  BY ElementOfSeq, LenProperties
<1>2. PICK w : w = Tail(s)
  OBVIOUS
<1>3. w \in Seq(T) /\ Len(w) = Len(s) - 1 /\ \A i \in 1 .. Len(s) - 1 : w[i] = s[i + 1]
  BY <1>2, TailIs
<1>4. PICK c : c = <<s[1]>> \o w
  OBVIOUS
<1>5. c \in Seq(T) /\ Len(c) = Len(w) + 1 /\ c[1] = s[1] /\ \A i \in 1 .. Len(w) : c[i + 1] = w[i]
  BY <1>1, <1>3, <1>4, FirstAndRest
<1>6. \A i \in 1 .. Len(s) : c[i] = s[i]
  <2> SUFFICES ASSUME NEW i \in 1 .. Len(s), i # 1 PROVE c[i] = s[i]
    BY <1>5
  <2>1. i - 1 \in 1 .. Len(w) /\ i - 1 \in 1 .. Len(s) - 1 /\ (i - 1) + 1 = i
    BY <1>1, <1>3
  <2> QED BY <1>3, <1>5, <2>1
<1> QED BY <1>1, <1>2, <1>3, <1>4, <1>5, <1>6, SeqEqual

\* The empty text, the root, and lists of one token.
LEMMA EmptyIs == /\ Len(Empty) = 1 /\ Empty[1] = Blank /\ << >> # Empty /\ Empty = <<Blank>>
                 /\ Len(Root) = 2 /\ Root[1] = Blank /\ Root[2] = Blank /\ Root = <<Blank, Blank>>
                 /\ ~StartsWithSlash(Empty) /\ StartsWithSlash(Root)
<1>1. Empty = <<Blank>> /\ Root = <<Blank, Blank>>
  BY Zenon DEF Empty, Root, Blank
<1>2. /\ Len(Empty) = 1 /\ Empty[1] = Blank /\ << >> # Empty
      /\ Len(Root) = 2 /\ Root[1] = Blank /\ Root[2] = Blank
  BY <1>1
<1> QED BY <1>1, <1>2, SlashIs

\* A list of one token.
LEMMA Ones == ASSUME NEW T, NEW s \in Seq(T), Len(s) = 1 PROVE s = <<s[1]>> /\ (s = Empty <=> s[1] = Blank)
<1>1. s[1] \in T
  BY ElementOfSeq
<1>2. PICK l : l = <<s[1]>>
  OBVIOUS
<1>3. l \in Seq(T) /\ Len(l) = 1 /\ l[1] = s[1]
  BY <1>1, <1>2
<1>4. s = l
  BY <1>3, SeqEqual
<1>5. s = <<s[1]>>
  BY <1>2, <1>4
<1>6. s[1] = Blank => s = Empty
  BY <1>5, EmptyIs, Zenon
<1>7. s = Empty => s[1] = Blank
  BY EmptyIs, Zenon
<1> QED BY <1>5, <1>6, <1>7

\* The list of a token.
LEMMA OneIs == ASSUME NEW x PROVE <<x>>[1] = x /\ Len(<<x>>) = 1 /\ (<<x>> = Empty <=> x = Blank)
<1>1. <<x>>[1] = x /\ Len(<<x>>) = 1
  OBVIOUS
<1>2. x = Blank => <<x>> = Empty
  BY EmptyIs, Zenon
<1>3. <<x>> = Empty => <<x>>[1] = Blank
  BY EmptyIs, Zenon
<1> QED BY <1>1, <1>2, <1>3

\* The empty text and the root are texts.
LEMMA BlankTexts == ASSUME NEW T, Blank \in T
  PROVE Empty \in Seq(T) /\ Root \in Seq(T) /\ Tail(Root) = Empty
<1>1. <<Blank>> \in Seq(T) /\ <<Blank, Blank>> \in Seq(T)
  OBVIOUS
<1>2. Empty \in Seq(T) /\ Root \in Seq(T)
  BY <1>1, EmptyIs, Zenon
<1>3. Tail(Root) \in Seq(T) /\ Len(Tail(Root)) = 1 /\ Tail(Root)[1] = Root[2]
  <2>1. Len(Root) = 2 /\ Len(Root) >= 1 /\ 1 \in 1 .. Len(Root) - 1
    BY EmptyIs
  <2>2. /\ Tail(Root) \in Seq(T) /\ Len(Tail(Root)) = Len(Root) - 1
        /\ \A i \in 1 .. Len(Root) - 1 : Tail(Root)[i] = Root[i + 1]
    BY <1>2, <2>1, TailIs, Zenon
  <2> QED BY <2>1, <2>2
<1>4. Tail(Root)[1] = Blank
  BY <1>3, EmptyIs
<1> QED BY <1>2, <1>3, <1>4, Ones

\* Every token of a list is good.
LEMMA RangeGood == ASSUME NEW T, NEW w \in Seq(T)
  PROVE Range(w) \subseteq GoodTokens <=> \A i \in 1 .. Len(w) : w[i] \in GoodTokens
<1>1. DOMAIN w = 1 .. Len(w)
  BY LenProperties
<1> QED BY <1>1 DEF Range

\* No token is bad in the empty list.
LEMMA NoneGood == Range(<< >>) \subseteq GoodTokens
<1>1. PICK w : w = << >>
  OBVIOUS
<1>2. w \in Seq(GoodTokens) /\ Len(w) = 0
  BY <1>1
<1>3. \A i \in 1 .. Len(w) : w[i] \in GoodTokens
  BY <1>2
<1>4. Range(w) \subseteq GoodTokens
  BY <1>2, <1>3, RangeGood
<1> QED BY <1>1, <1>4

\* A text without its leading slash, and the tokens that Name::new takes of a namespace.
Relative(text) == IF StartsWithSlash(text) THEN Tail(text) ELSE text
\* The tokens of a namespace, none for the root.
TokensOf(namespace) == IF Relative(namespace) = Empty THEN << >> ELSE Relative(namespace)

\* What Name::new makes of a namespace and a token.
LEMMA NewIs == ASSUME NEW T, NEW ns, NEW w \in Seq(T), NEW x, w = TokensOf(ns)
  PROVE NameNew(ns, <<x>>) =
          IF x \in GoodTokens /\ Range(w) \subseteq GoodTokens
          THEN << [base |-> x, preceeding |-> w, absolute |-> StartsWithSlash(ns)] >> ELSE << >>
<1>2. DOMAIN w = 1 .. Len(w)
  BY LenProperties
<1>3. (\A i \in DOMAIN w : TokenOk(w[i])) <=> Range(w) \subseteq GoodTokens
  BY <1>2, GoodToken, RangeGood
<1>6. <<x>>[1] = x
  BY OneIs
<1>4. (<<x>> # Empty /\ OneToken(<<x>>) /\ TokenOk(x)) <=> x \in GoodTokens
  <2>1. OneToken(<<x>>)
    BY OneIs, SlashIs
  <2> QED BY <2>1, OneIs, GoodToken
<1>5. NameNew(ns, <<x>>) =
        IF /\ <<x>> # Empty /\ OneToken(<<x>>) /\ TokenOk(<<x>>[1])
           /\ \A i \in DOMAIN TokensOf(ns) : TokenOk(TokensOf(ns)[i])
        THEN << [base |-> <<x>>[1], preceeding |-> TokensOf(ns), absolute |-> StartsWithSlash(ns)] >>
        ELSE << >>
  BY Zenon DEF NameNew, TokensOf, Relative
<1> QED BY <1>3, <1>4, <1>5, <1>6, Zenon

\* Name::parse takes a text exactly when its tokens are good.
LEMMA ParseIs == ASSUME NEW T, NEW text \in Seq(T), Len(text) >= 1, Blank \in T
  PROVE NameParse(text) =
          IF Range(Relative(text)) \subseteq GoodTokens
          THEN << Spelt(Relative(text), StartsWithSlash(text)) >> ELSE << >>
<1>0. PICK n \in Nat : n = Len(text) /\ n >= 1
  BY LenProperties
<1>1. \A i \in 1 .. n : text[i] \in T
  BY <1>0, ElementOfSeq
<1>2. CASE n = 1
  <2>1. text = <<text[1]>>
    BY <1>0, <1>2, Ones
  <2>2. OneToken(text) /\ ~StartsWithSlash(text)
    <3>1. Len(text) = 1 /\ ~(Len(text) > 1)
      BY <1>0, <1>2
    <3> QED BY <3>1, SlashIs, Zenon
  <2>12. Relative(text) = text
    BY <2>2, Zenon DEF Relative
  <2>3. NameParse(text) = NameNew(Empty, text)
    BY <2>2, Zenon DEF NameParse
  <2>4. NameNew(Empty, <<text[1]>>) =
          IF text[1] \in GoodTokens /\ Range(<< >>) \subseteq GoodTokens
          THEN << [base |-> text[1], preceeding |-> << >>, absolute |-> StartsWithSlash(Empty)] >> ELSE << >>
    <3>1. << >> = TokensOf(Empty)
      BY EmptyIs, Zenon DEF TokensOf, Relative
    <3>2. << >> \in Seq(T)
      OBVIOUS
    <3> QED BY <3>1, <3>2, NewIs, Zenon
  <2>6. Range(text) \subseteq GoodTokens <=> text[1] \in GoodTokens
    <3>1. Len(text) = 1
      BY <1>0, <1>2
    <3>2. Range(text) \subseteq GoodTokens <=> \A i \in 1 .. Len(text) : text[i] \in GoodTokens
      BY RangeGood
    <3> QED BY <3>1, <3>2
  <2>7. Spelt(text, FALSE) = [base |-> text[1], preceeding |-> << >>, absolute |-> FALSE]
    <3>1. Last(text) = text[1] /\ Front(text) \in Seq(T) /\ Len(Front(text)) = 0
      <4>1. Len(text) = 1 /\ Len(text) >= 1
        BY <1>0, <1>2
      <4>2. Last(text) = text[Len(text)] /\ Front(text) \in Seq(T) /\ Len(Front(text)) = Len(text) - 1
        BY <4>1, FrontLast, Zenon
      <4> QED BY <4>1, <4>2
    <3>2. Front(text) = << >>
      BY <3>1, EmptySeq
    <3> QED BY <3>1, <3>2, Zenon DEF Spelt
  <2>8. StartsWithSlash(text) = FALSE /\ StartsWithSlash(Empty) = FALSE
    BY <2>2, SlashIs, EmptyIs, Zenon
  <2> QED BY <2>1, <2>12, <2>3, <2>4, NoneGood, <2>6, <2>7, <2>8, Zenon
<1>3. CASE n > 1
  <2>1. ~OneToken(text)
    <3>1. Len(text) # 1
      BY <1>0, <1>3
    <3> QED BY <3>1, SlashIs, Zenon
  <2>2. PICK p : p = Front(text)
    OBVIOUS
  <2>3. PICK x : x = Last(text)
    OBVIOUS
  <2>4. /\ p \in Seq(T) /\ Len(p) = n - 1 /\ \A i \in 1 .. n - 1 : p[i] = text[i]
        /\ x = text[n] /\ x \in T
    BY <1>0, <2>2, <2>3, FrontLast
  <2>6. StartsWithSlash(text) <=> text[1] = Blank
    BY <1>0, <1>3, SlashIs
  <2>7. PICK w : w = Relative(text)
    OBVIOUS
  <2>20. /\ StartsWithSlash(text) => w = Tail(text)
         /\ ~StartsWithSlash(text) => w = text
    BY <2>7, Zenon DEF Relative
  <2>8. /\ w \in Seq(T) 
        /\ StartsWithSlash(text) => Len(w) = n - 1 /\ \A i \in 1 .. n - 1 : w[i] = text[i + 1]
        /\ ~StartsWithSlash(text) => w = text
    BY <1>0, <2>20, TailIs
  <2>9. Last(w) = x /\ Len(w) >= 1 /\ Len(w) \in Nat /\ w[Len(w)] = x
    <3>1. Len(w) >= 1 /\ Len(w) \in Nat
      BY <1>0, <1>3, <2>8
    <3>2. w[Len(w)] = text[n]
      <4>1. CASE StartsWithSlash(text)
        <5>1. n - 1 \in 1 .. n - 1 /\ (n - 1) + 1 = n
          BY <1>3
        <5> QED BY <2>8, <4>1, <5>1
      <4> QED BY <1>0, <2>8, <4>1
    <3> QED BY <2>4, <3>1, <3>2 DEF Last
  <2>10. CASE x = Blank
    <3>1. <<x>> = Empty
      BY <2>10, OneIs
    <3>2. NameParse(text) = << >>
      BY <2>1, <2>3, <3>1, Zenon DEF NameParse
    <3>3. ~(Range(w) \subseteq GoodTokens)
      <4>1. Len(w) \in 1 .. Len(w) /\ w[Len(w)] \notin GoodTokens
        BY <2>9, <2>10, GoodToken
      <4> QED BY <2>8, <4>1, RangeGood
    <3> QED BY <2>7, <3>2, <3>3, Zenon
  <2>11. CASE x # Blank /\ p = Empty
    <3>1. <<x>> # Empty
      BY <2>11, OneIs
    <3>2. NameParse(text) = NameNew(Root, <<x>>)
      BY <2>1, <2>2, <2>3, <2>11, <3>1, Zenon DEF NameParse
    <3>3. n = 2 /\ StartsWithSlash(text)
      <4>1. Len(p) = 1 /\ p[1] = Blank
        BY <2>11, EmptyIs, Zenon
      <4>3. 1 = n - 1
        BY <2>4, <4>1, Zenon
      <4>2. n = 2 /\ 1 \in 1 .. n - 1
        BY <4>3
      <4> QED BY <2>4, <2>6, <4>1, <4>2
    <3>4. << >> \in Seq(T)
      OBVIOUS
    <3>6. << >> = TokensOf(Root)
      BY BlankTexts, EmptyIs, Zenon DEF TokensOf, Relative
    <3>7. NameNew(Root, <<x>>) =
            IF x \in GoodTokens /\ Range(<< >>) \subseteq GoodTokens
            THEN << [base |-> x, preceeding |-> << >>, absolute |-> StartsWithSlash(Root)] >> ELSE << >>
      BY <3>4, <3>6, NewIs, Zenon
    <3>9. Len(w) = 1 /\ (Range(w) \subseteq GoodTokens <=> x \in GoodTokens)
      <4>1. Len(w) = 1 /\ w[1] = x
        <5>1. Len(w) = 1
          BY <2>8, <3>3
        <5> QED BY <2>9, <5>1
      <4>2. w \in Seq(T)
        BY <2>8
      <4>3. Range(w) \subseteq GoodTokens <=> \A i \in 1 .. Len(w) : w[i] \in GoodTokens
        BY <4>2, RangeGood
      <4> QED BY <4>1, <4>3
    <3>10. Front(w) = << >>
      <4>1. w \in Seq(T) /\ Len(w) >= 1 /\ Len(w) = 1
        BY <2>8, <3>9
      <4>2. Front(w) \in Seq(T) /\ Len(Front(w)) = Len(w) - 1
        BY <4>1, FrontLast, Zenon
      <4>3. Len(Front(w)) = 0
        BY <4>1, <4>2
      <4> QED BY <4>2, <4>3, EmptySeq
    <3>11. StartsWithSlash(text) = TRUE /\ StartsWithSlash(Root) = TRUE
      BY <3>3, SlashIs, EmptyIs, Zenon
    <3> QED BY <2>7, <2>9, <3>2, <3>7, NoneGood, <3>9, <3>10, <3>11, Zenon DEF Spelt
  <2>12. CASE x # Blank /\ p # Empty /\ EndsWithSlash(p)
    <3>1. <<x>> # Empty
      BY <2>12, OneIs
    <3>2. NameParse(text) = << >>
      BY <2>1, <2>2, <2>3, <2>12, <3>1, Zenon DEF NameParse
    <3>3. n - 1 > 1 /\ text[n - 1] = Blank
      <4>1. Len(p) > 1 /\ Last(p) = Blank
        BY <2>12, SlashIs
      <4> QED BY <1>0, <2>4, <4>1 DEF Last
    <3>4. \E i \in 1 .. Len(w) : w[i] = Blank
      <4>1. CASE StartsWithSlash(text)
        <5>0. n - 2 \in 1 .. n - 1 /\ (n - 2) + 1 = n - 1 /\ Len(w) = n - 1
          BY <2>8, <3>3, <4>1
        <5>1. w[n - 2] = text[(n - 2) + 1]
          BY <2>8, <4>1, <5>0
        <5> QED BY <3>3, <5>0, <5>1
      <4>2. CASE ~StartsWithSlash(text)
        BY <1>0, <2>8, <3>3, <4>2
      <4> QED BY <4>1, <4>2
    <3>5. ~(Range(w) \subseteq GoodTokens)
      BY <2>8, <3>4, RangeGood, GoodToken
    <3> QED BY <2>7, <3>2, <3>5, Zenon
  <2>13. CASE x # Blank /\ p # Empty /\ ~EndsWithSlash(p)
    <3>1. <<x>> # Empty
      BY <2>13, OneIs
    <3>2. NameParse(text) = NameNew(p, <<x>>)
      BY <2>1, <2>2, <2>3, <2>13, <3>1, Zenon DEF NameParse
    <3>5. StartsWithSlash(text) => n > 2
      <4>1. ASSUME n = 2, text[1] = Blank PROVE FALSE
        <5>1. Len(p) = 1 /\ p[1] = Blank
          BY <2>4, <4>1
        <5>2. p = Empty
          BY <2>4, <5>1, Ones
        <5> QED BY <2>13, <5>2
      <4> QED BY <1>3, <2>6, <4>1
    <3>3. StartsWithSlash(p) <=> StartsWithSlash(text)
      <4>1. p[1] = text[1] /\ Len(p) = n - 1
        BY <1>3, <2>4
      <4> QED BY <1>0, <1>3, <2>6, <3>5, <4>1, SlashIs
    <3>4. PICK v : v = Relative(p)
      OBVIOUS
    <3>41. (StartsWithSlash(text) => v = Tail(p)) /\ (~StartsWithSlash(text) => v = p)
      BY <3>3, <3>4, Zenon DEF Relative
    <3>6. v \in Seq(T) /\ v = Front(w)
      <4>1. CASE StartsWithSlash(text)
        <5>1. v \in Seq(T) /\ Len(v) = n - 2 /\ \A i \in 1 .. n - 2 : v[i] = p[i + 1]
          <6>1. Len(p) >= 1 /\ Len(p) = n - 1 /\ p \in Seq(T)
            BY <1>3, <2>4
          <6>2. /\ Tail(p) \in Seq(T) /\ Len(Tail(p)) = Len(p) - 1
                /\ \A i \in 1 .. Len(p) - 1 : Tail(p)[i] = p[i + 1]
            BY <6>1, TailIs, Zenon
          <6>3. v = Tail(p) /\ Len(p) - 1 = n - 2
            BY <3>41, <4>1, <6>1
          <6> QED BY <6>2, <6>3
        <5>0. Len(w) = n - 1
          BY <2>8, <4>1
        <5>2. Front(w) \in Seq(T) /\ Len(Front(w)) = n - 2 /\ \A i \in 1 .. n - 2 : Front(w)[i] = w[i]
          <6>1. /\ Front(w) \in Seq(T) /\ Len(Front(w)) = Len(w) - 1 
                /\ \A i \in 1 .. Len(w) - 1 : Front(w)[i] = w[i]
            BY <2>8, <2>9, FrontLast
          <6> QED BY <5>0, <6>1
        <5>3. \A i \in 1 .. n - 2 : v[i] = Front(w)[i]
          <6> SUFFICES ASSUME NEW i \in 1 .. n - 2 PROVE v[i] = Front(w)[i]
            OBVIOUS
          <6>1. i \in 1 .. n - 1 /\ i + 1 \in 1 .. n - 1
            OBVIOUS
          <6>2. v[i] = text[i + 1]
            BY <2>4, <5>1, <6>1
          <6>3. Front(w)[i] = text[i + 1]
            BY <2>8, <4>1, <5>2, <6>1
          <6> QED BY <6>2, <6>3
        <5> QED BY <5>1, <5>2, <5>3, SeqEqual
      <4>2. CASE ~StartsWithSlash(text)
        BY <2>2, <2>4, <2>8, <3>41, <4>2
      <4> QED BY <4>1, <4>2
    <3>7. v # Empty
      <4>1. ASSUME v = Empty PROVE FALSE
        <5>1. Len(v) = 1 /\ v[1] = Blank
          BY <4>1, EmptyIs
        <5>2. StartsWithSlash(text)
          BY <2>13, <3>41, <4>1
        <5>3. Len(p) = 2 /\ p[2] = Blank
          <6>1. Len(v) = Len(p) - 1 /\ \A i \in 1 .. Len(p) - 1 : v[i] = p[i + 1]
            <7>1. Len(p) >= 1 /\ p \in Seq(T)
              BY <1>3, <2>4
            <7>2. v = Tail(p)
              BY <3>41, <5>2
            <7> QED BY <7>1, <7>2, TailIs, Zenon
          <6>4. 1 = (n - 1) - 1 /\ Len(p) = n - 1
            BY <2>4, <5>1, <6>1, Zenon
          <6>2. Len(p) = 2
            <7>1. n - 1 = 2
              BY <6>4
            <7> QED BY <6>4, <7>1, Zenon
          <6>3. v[1] = p[1 + 1]
            BY <6>1, <6>2
          <6> QED BY <5>1, <6>2, <6>3
        <5>4. Last(p) = Blank
          BY <5>3 DEF Last
        <5>5. Len(p) > 1
          BY <5>3
        <5> QED BY <2>13, <5>4, <5>5, SlashIs, Zenon
      <4> QED BY <4>1
    <3>71. v = TokensOf(p)
      BY <3>4, <3>7, Zenon DEF TokensOf
    <3>8. NameNew(p, <<x>>) =
            IF x \in GoodTokens /\ Range(v) \subseteq GoodTokens
            THEN << [base |-> x, preceeding |-> v, absolute |-> StartsWithSlash(p)] >> ELSE << >>
      BY <3>6, <3>71, NewIs, Zenon
    <3>9. Range(w) \subseteq GoodTokens <=> x \in GoodTokens /\ Range(v) \subseteq GoodTokens
      <4>1. Len(v) = Len(w) - 1 /\ \A i \in 1 .. Len(w) - 1 : v[i] = w[i]
        <5>1. w \in Seq(T) /\ Len(w) >= 1
          BY <2>8, <2>9
        <5> QED BY <3>6, <5>1, FrontLast
      <4>20. w \in Seq(T)
        BY <2>8
      <4>2. Range(w) \subseteq GoodTokens <=> \A i \in 1 .. Len(w) : w[i] \in GoodTokens
        BY <4>20, RangeGood
      <4>3. Range(v) \subseteq GoodTokens <=> \A i \in 1 .. Len(v) : v[i] \in GoodTokens
        BY <3>6, RangeGood
      <4> QED BY <2>9, <4>1, <4>2, <4>3
    <3>10. StartsWithSlash(p) = StartsWithSlash(text)
      BY <3>3, SlashIs, Zenon
    <3> QED BY <2>7, <2>9, <3>2, <3>6, <3>8, <3>9, <3>10, Zenon DEF Spelt
  <2> QED BY <2>10, <2>11, <2>12, <2>13
<1> QED BY <1>0, <1>2, <1>3

\* The tokens that a text of this crate can have.
AnyToken == Tokens \cup Words \cup
  {Blank, "rt", "rq", "rr", "send_goal", "cancel_goal", "get_result", "status"}

\* How the sets of tokens are related.
LEMMA TokenSets == /\ Blank \in AnyToken /\ GoodTokens \subseteq AnyToken /\ GoodTokens \subseteq Words
                   /\ Words \subseteq AnyToken /\ Tokens \subseteq AnyToken /\ Blank \notin Words
  BY NamesAssumption, Zenon DEF AnyToken, GoodTokens, Blank

\* The empty text and the root are texts of tokens.
LEMMA BlankSeq == Empty \in Seq(AnyToken) /\ Root \in Seq(AnyToken) /\ Tail(Root) = Empty
  BY TokenSets, BlankTexts, Zenon

\* A list of good tokens is a list of tokens.
LEMMA GoodSeq == ASSUME NEW w \in Seq(GoodTokens) PROVE w \in Seq(AnyToken)
  BY TokenSets, SeqMonotonic, Zenon

\* A list of one element.
LEMMA One == ASSUME NEW T, NEW x \in T PROVE <<x>> \in Seq(T)
  OBVIOUS

\* The text of an absolute name: a slash and its tokens.
LEMMA AbsoluteText == ASSUME NEW w \in Seq(AnyToken), Len(w) >= 1
  PROVE /\ Empty \o w \in Seq(AnyToken) /\ Len(Empty \o w) = Len(w) + 1
        /\ StartsWithSlash(Empty \o w) = TRUE /\ Relative(Empty \o w) = w
        /\ NameParse(Empty \o w) =
             IF Range(w) \subseteq GoodTokens THEN << Spelt(w, TRUE) >> ELSE << >>
<1>1. PICK t : t = Empty \o w
  OBVIOUS
<1>2. t = <<Blank>> \o w
  BY <1>1, EmptyIs, Zenon
<1>3. t \in Seq(AnyToken) /\ Len(t) = Len(w) + 1 /\ t[1] = Blank /\ Tail(t) = w
  BY <1>2, FirstAndRest, TokenSets, ZenonT(40)
<1>4. Len(t) > 1 /\ Len(t) >= 1
  BY <1>3, LenProperties
<1>5. StartsWithSlash(t) = TRUE
  BY <1>3, <1>4, SlashIs, Zenon
<1>6. Relative(t) = w
  BY <1>3, <1>5, Zenon DEF Relative
<1>7. NameParse(t) = IF Range(Relative(t)) \subseteq GoodTokens
                     THEN << Spelt(Relative(t), StartsWithSlash(t)) >> ELSE << >>
  BY <1>3, <1>4, ParseIs, TokenSets, Zenon
<1> QED BY <1>1, <1>3, <1>5, <1>6, <1>7, Zenon

\* What Display shows.
PathOf(nm) == nm.preceeding \o <<nm.base>>

\* What Display shows of a name is its tokens, after a slash if it is absolute.
LEMMA DisplayIs == ASSUME NEW nm, nm.preceeding \in Seq(AnyToken), nm.base \in AnyToken
  PROVE /\ PathOf(nm) \in Seq(AnyToken) /\ Len(PathOf(nm)) >= 1
        /\ nm.absolute => Display(nm) = Empty \o PathOf(nm)
        /\ ~nm.absolute => Display(nm) = PathOf(nm)
<1>1. PICK p : p = nm.preceeding
  OBVIOUS
<1>2. PICK b : b = <<nm.base>>
  OBVIOUS
<1>3. p \in Seq(AnyToken) /\ b \in Seq(AnyToken) /\ Len(b) = 1
  BY <1>1, <1>2
<1>4. p \o b \in Seq(AnyToken) /\ Len(p \o b) = Len(p) + Len(b)
  BY <1>3, ConcatProperties, Zenon
<1>5. Len(p \o b) >= 1
  BY <1>3, <1>4, LenProperties
<1>6. (Empty \o p) \o b = Empty \o (p \o b)
  <2>1. PICK e \in Seq(AnyToken) : e = Empty
    BY BlankSeq
  <2>2. (e \o p) \o b = e \o (p \o b)
    BY <1>3, ConcatAssociative
  <2> QED BY <2>1, <2>2
<1>7. << >> \o p = p
  BY <1>3, ConcatEmptySeq, Zenon
<1> QED BY <1>1, <1>2, <1>4, <1>5, <1>6, <1>7, Zenon DEF PathOf, Display

\* A spelt list has its tokens back.
LEMMA PathSpelt == ASSUME NEW w \in Seq(AnyToken), Len(w) >= 1, NEW absolute
  PROVE PathOf(Spelt(w, absolute)) = w
<1>1. w = Front(w) \o <<Last(w)>>
  BY FrontLast, Zenon
<1>2. Spelt(w, absolute).preceeding = Front(w) /\ Spelt(w, absolute).base = Last(w)
  BY DEF Spelt
<1> QED BY <1>1, <1>2, Zenon DEF PathOf

\* Name::parse takes a text, of any length, exactly when every token of it is one
\* the rules allow, and Display gives that text back (names.rs).
THEOREM ParsesExactly == ASSUME NEW text \in Seq(AnyToken), Len(text) >= 1 PROVE ParseIsExact(text)
<1>1. PICK w : w = Relative(text)
  OBVIOUS
<1>2. NameParse(text) = IF Range(w) \subseteq GoodTokens
                        THEN << Spelt(w, StartsWithSlash(text)) >> ELSE << >>
  BY <1>1, ParseIs, TokenSets, Zenon
<1>3. << Spelt(w, StartsWithSlash(text)) >> # << >> /\ << Spelt(w, StartsWithSlash(text)) >>[1] = Spelt(w, StartsWithSlash(text))
  OBVIOUS
<1>4. NameParse(text) # << >> <=> Range(w) \subseteq GoodTokens
  BY <1>2, <1>3, Zenon
<1>5. ASSUME NameParse(text) # << >> PROVE Display(NameParse(text)[1]) = text
  <2>1. NameParse(text)[1] = Spelt(w, StartsWithSlash(text))
    BY <1>2, <1>3, <1>4, <1>5, Zenon
  <2>2. CASE StartsWithSlash(text)
    <3>1. w = Tail(text) /\ text[1] = Blank /\ Len(text) > 1
      BY <1>1, <2>2, SlashIs, Zenon DEF Relative
    <3>2. w \in Seq(AnyToken) /\ Len(w) >= 1
      BY <3>1, TailIs
    <3>3. Empty \o w = text
      BY <3>1, HeadTail, EmptyIs, Zenon
    <3>4. PICK n : n = Spelt(w, StartsWithSlash(text))
      OBVIOUS
    <3>5. n.preceeding = Front(w) /\ n.base = Last(w) /\ n.absolute = StartsWithSlash(text)
      BY <3>4, Zenon DEF Spelt
    <3>6. Front(w) \in Seq(AnyToken) /\ Last(w) \in AnyToken
      BY <3>2, FrontLast, Zenon
    <3>7. Display(n) = Empty \o PathOf(n)
      BY <2>2, <3>5, <3>6, DisplayIs, Zenon
    <3> QED BY <2>1, <3>2, <3>3, <3>4, <3>7, PathSpelt, Zenon
  <2>3. CASE ~StartsWithSlash(text)
    <3>1. w = text
      BY <1>1, <2>3, Zenon DEF Relative
    <3>4. PICK n : n = Spelt(w, StartsWithSlash(text))
      OBVIOUS
    <3>5. n.preceeding = Front(w) /\ n.base = Last(w) /\ n.absolute = StartsWithSlash(text)
      BY <3>4, Zenon DEF Spelt
    <3>6. Front(w) \in Seq(AnyToken) /\ Last(w) \in AnyToken
      BY <3>1, FrontLast, Zenon
    <3>7. Display(n) = PathOf(n)
      BY <2>3, <3>5, <3>6, DisplayIs, Zenon
    <3> QED BY <2>1, <3>1, <3>4, <3>7, PathSpelt, Zenon
  <2> QED BY <2>2, <2>3
<1> QED BY <1>1, <1>4, <1>5, Zenon DEF ParseIsExact, Relative, GoodTokens

\* The names that parse gives, and the nodes.
NameSet == [base : GoodTokens, preceeding : Seq(GoodTokens), absolute : BOOLEAN]

\* Good tokens spell a name.
LEMMA SpeltIsName == ASSUME NEW w \in Seq(AnyToken), Len(w) >= 1, Range(w) \subseteq GoodTokens,
                            NEW absolute \in BOOLEAN
  PROVE Spelt(w, absolute) \in NameSet
<1>1. w \in Seq(GoodTokens)
  BY SeqOfRange, SeqMonotonic, Zenon
<1>2. Front(w) \in Seq(GoodTokens) /\ Last(w) \in GoodTokens
  BY <1>1, FrontLast, Zenon
<1> QED BY <1>2, Zenon DEF Spelt, NameSet

\* A text of the run is a text.
LEMMA TextIs == ASSUME NEW n, NEW t \in Texts(n) PROVE t \in Seq(AnyToken) /\ Len(t) >= 1
<1>1. PICK k \in 1 .. n : t \in [1 .. k -> Tokens]
  BY DEF Texts
<1>2. k \in Nat /\ k >= 1
  BY <1>1
<1>3. t \in Seq(Tokens) /\ Len(t) = k
  BY <1>1, <1>2
<1>4. t \in Seq(AnyToken)
  BY <1>3, TokenSets, SeqMonotonic, Zenon
<1> QED BY <1>2, <1>3, <1>4

\* A text without its leading slash is a text.
LEMMA RelativeIs == ASSUME NEW t \in Seq(AnyToken), Len(t) >= 1
  PROVE Relative(t) \in Seq(AnyToken) /\ Len(Relative(t)) >= 1
<1>1. CASE StartsWithSlash(t)
  <2>1. Relative(t) = Tail(t) /\ Len(t) > 1
    BY <1>1, SlashIs, Zenon DEF Relative
  <2> QED BY <2>1, TailIs
<1>2. CASE ~StartsWithSlash(t)
  BY <1>2, Zenon DEF Relative
<1> QED BY <1>1, <1>2

\* What parses is a name.
LEMMA ParsedIsName == ASSUME NEW t \in Seq(AnyToken), Len(t) >= 1, NameParse(t) # << >>
  PROVE NameParse(t)[1] \in NameSet
<1>1. PICK w : w = Relative(t)
  OBVIOUS
<1>2. NameParse(t) = IF Range(w) \subseteq GoodTokens
                     THEN << Spelt(w, StartsWithSlash(t)) >> ELSE << >>
  BY <1>1, ParseIs, TokenSets, Zenon
<1>3. << Spelt(w, StartsWithSlash(t)) >>[1] = Spelt(w, StartsWithSlash(t))
  OBVIOUS
<1>4. Range(w) \subseteq GoodTokens /\ NameParse(t)[1] = Spelt(w, StartsWithSlash(t))
  BY <1>2, <1>3, Zenon
<1> QED BY <1>1, <1>4, RelativeIs, SpeltIsName, SlashIs, Zenon

\* The names of the run are names, of whatever length.
LEMMA ValidNamesAreNames == ValidNames \subseteq NameSet
<1> SUFFICES ASSUME NEW t \in Texts(3), NameParse(t) # << >> PROVE NameParse(t)[1] \in NameSet
  BY Zenon DEF ValidNames
<1> QED BY TextIs, ParsedIsName, Zenon

\* What NodeName::new guarantees of a node's name.
NodeOk(node) ==
  /\ node.namespace \in Seq(AnyToken) /\ Len(node.namespace) > 1 /\ node.namespace[1] = Blank
  /\ EndsWithSlash(node.namespace) => node.namespace = Root
  /\ node.base \in Words

\* The nodes of the run were made by NodeName::new.
LEMMA NodesAreNodes == ASSUME NEW node \in Nodes PROVE NodeOk(node)
<1>1. PICK q \in Texts(3) \X Tokens :
        NodeNameNew(q[1], <<q[2]>>) # << >> /\ node = NodeNameNew(q[1], <<q[2]>>)[1]
  BY Zenon DEF Nodes
<1>2. PICK ns \in Texts(3), b \in Tokens : ns = q[1] /\ b = q[2]
  BY <1>1
<1>3. NodeNameNew(ns, <<b>>) # << >> /\ node = NodeNameNew(ns, <<b>>)[1]
  BY <1>1, <1>2, Zenon
<1>4. /\ <<b>>[1] \in Words /\ StartsWithSlash(ns) /\ (EndsWithSlash(ns) => ns = Root)
      /\ node = << [namespace |-> ns, base |-> <<b>>[1]] >>[1]
  BY <1>3, Zenon DEF NodeNameNew
<1>5. b \in Words /\ node = [namespace |-> ns, base |-> b]
  <2>1. <<b>>[1] = b
    OBVIOUS
  <2>2. << [namespace |-> ns, base |-> b] >>[1] = [namespace |-> ns, base |-> b]
    OBVIOUS
  <2> QED BY <1>4, <2>1, <2>2, Zenon
<1>6. node.namespace = ns /\ node.base = b
  BY <1>5
<1>7. Len(ns) > 1 /\ ns[1] = Blank
  BY <1>4, SlashIs, Zenon
<1> QED BY <1>4, <1>5, <1>6, <1>7, TextIs, Zenon DEF NodeOk

-----------------------------------------------------------------------------
(* What a name means in a node, to DDS and to zenoh.                       *)

\* Two lists of one element.
LEMMA TwoOnes == ASSUME NEW T, NEW x \in T, NEW y \in T PROVE <<x>> \o <<y>> = <<x, y>>
<1>1. PICK w : w = <<y>>
  OBVIOUS
<1>2. w \in Seq(T) /\ Len(w) = 1 /\ w[1] = y
  BY <1>1
<1>3. PICK c : c = <<x>> \o w
  OBVIOUS
<1>4. c \in Seq(T) /\ Len(c) = Len(w) + 1 /\ c[1] = x /\ \A i \in 1 .. Len(w) : c[i + 1] = w[i]
  BY <1>2, <1>3, FirstAndRest
<1>5. Len(c) = 2 /\ c[2] = y
  <2>1. c[1 + 1] = w[1]
    BY <1>2, <1>4
  <2> QED BY <1>2, <1>4, <2>1
<1>6. PICK d : d = <<x, y>>
  OBVIOUS
<1>7. d \in Seq(T) /\ Len(d) = 2 /\ d[1] = x /\ d[2] = y
  BY <1>6
<1>8. \A i \in 1 .. Len(c) : c[i] = d[i]
  <2>1. \A i \in 1 .. 2 : i = 1 \/ i = 2
    OBVIOUS
  <2>2. c[1] = d[1] /\ c[2] = d[2] /\ Len(c) = 2
    BY <1>4, <1>5, <1>7, Zenon
  <2> QED BY <2>1, <2>2, Zenon
<1>9. c = d
  BY <1>4, <1>5, <1>7, <1>8, SeqEqual
<1> QED BY <1>1, <1>3, <1>6, <1>9

\* Name::push makes the base the last of the preceding tokens.
LEMMA PushIs == ASSUME NEW b, NEW p, NEW a, NEW x
  PROVE Push([base |-> b, preceeding |-> p, absolute |-> a], x) =
          [base |-> x, preceeding |-> Append(p, b), absolute |-> a]
<1>1. PICK n : n = [base |-> b, preceeding |-> p, absolute |-> a]
  OBVIOUS
<1>2. n.base = b /\ n.preceeding = p
  BY <1>1
<1>3. PICK q : q = Append(p, b)
  OBVIOUS
<1>4. [n EXCEPT !.base = x, !.preceeding = q] = [base |-> x, preceeding |-> q, absolute |-> a]
  <2>1. [n EXCEPT !.base = x, !.preceeding = q] = [[n EXCEPT !.base = x] EXCEPT !.preceeding = q]
    OBVIOUS
  <2>2. [n EXCEPT !.base = x] = [base |-> x, preceeding |-> p, absolute |-> a]
    BY <1>1
  <2>3. [[base |-> x, preceeding |-> p, absolute |-> a] EXCEPT !.preceeding = q] =
          [base |-> x, preceeding |-> q, absolute |-> a]
    OBVIOUS
  <2> QED BY <2>1, <2>2, <2>3, Zenon
<1> QED BY <1>1, <1>2, <1>3, <1>4, Zenon DEF Push

\* The tokens of a node's namespace, and the absolute name that a name means in a node.
Space(node) == IF node.namespace = Root THEN << >> ELSE Tail(node.namespace)
\* The tokens of the absolute name that a name means in a node.
Meaning(nm, node) == (IF nm.absolute THEN << >> ELSE Space(node)) \o PathOf(nm)
\* The tokens of its DDS name: a relative name in the root namespace has an empty one more.
DdsTokens(nm, node) == IF Doubled(nm, node) THEN Empty \o Meaning(nm, node) ELSE Meaning(nm, node)
\* A name whose tokens need not be good.
NameOk(nm) == nm.preceeding \in Seq(AnyToken) /\ nm.base \in AnyToken

\* A name is made of tokens.
LEMMA NameSetOk == ASSUME NEW nm \in NameSet PROVE NameOk(nm)
<1>1. nm.preceeding \in Seq(GoodTokens) /\ nm.base \in GoodTokens
  BY DEF NameSet
<1> QED BY <1>1, GoodSeq, TokenSets, Zenon DEF NameOk

\* A leading slash may be added before or after joining.
LEMMA EmptyAssoc == ASSUME NEW p \in Seq(AnyToken), NEW b \in Seq(AnyToken)
  PROVE (Empty \o p) \o b = Empty \o (p \o b)
<1>1. PICK e \in Seq(AnyToken) : e = Empty
  BY BlankSeq
<1>2. (e \o p) \o b = e \o (p \o b)
  BY ConcatAssociative
<1> QED BY <1>1, <1>2

\* The tokens of a namespace.
LEMMA SpaceIs == ASSUME NEW node, NodeOk(node)
  PROVE /\ Space(node) \in Seq(AnyToken)
        /\ node.namespace = Root => Space(node) = << >>
        /\ node.namespace # Root => Space(node) = Tail(node.namespace) /\ node.namespace = Empty \o Space(node)
<1>1. PICK ns : ns = node.namespace
  OBVIOUS
<1>2. ns \in Seq(AnyToken) /\ Len(ns) > 1 /\ ns[1] = Blank
  BY <1>1, Zenon DEF NodeOk
<1>3. Len(ns) >= 1
  BY <1>2
<1>4. Tail(ns) \in Seq(AnyToken)
  BY <1>2, <1>3, TailIs, Zenon
<1>5. Empty \o Tail(ns) = ns
  BY <1>2, <1>3, HeadTail, EmptyIs, Zenon
<1>6. << >> \in Seq(AnyToken)
  OBVIOUS
<1> QED BY <1>1, <1>4, <1>5, <1>6, Zenon DEF Space

\* The fully qualified name of a node is its namespace's tokens and its base.
LEMMA NodeFqn == ASSUME NEW node, NodeOk(node)
  PROVE /\ Space(node) \o <<node.base>> \in Seq(AnyToken) /\ Len(Space(node) \o <<node.base>>) >= 1
        /\ FullyQualifiedName(node) = Empty \o (Space(node) \o <<node.base>>)
        /\ Range(Space(node) \o <<node.base>>) \subseteq GoodTokens <=>
             (Range(Space(node)) \subseteq GoodTokens /\ node.base \in GoodTokens)
<1>1. PICK b : b = <<node.base>>
  OBVIOUS
<1>2. node.base \in AnyToken
  BY TokenSets, Zenon DEF NodeOk
<1>3. b \in Seq(AnyToken) /\ Len(b) = 1 /\ b[1] = node.base
  BY <1>1, <1>2
<1>4. PICK s \in Seq(AnyToken) : s = Space(node)
  BY SpaceIs, Zenon
<1>5. s \o b \in Seq(AnyToken) /\ Len(s \o b) = Len(s) + Len(b)
  BY <1>3, ConcatProperties, Zenon
<1>6. Len(s \o b) >= 1
  BY <1>3, <1>5, LenProperties
<1>7. Range(s \o b) = Range(s) \cup Range(b)
  BY <1>3, RangeConcatenation, Zenon
<1>8. Range(b) \subseteq GoodTokens <=> node.base \in GoodTokens
  <2>1. Range(b) \subseteq GoodTokens <=> \A i \in 1 .. Len(b) : b[i] \in GoodTokens
    BY <1>3, RangeGood, Zenon
  <2> QED BY <1>3, <2>1
<1>9. FullyQualifiedName(node) = Empty \o (s \o b)
  <2>1. CASE node.namespace = Root
    <3>1. EndsWithSlash(Root)
      <4>1. Last(Root) = Blank /\ Len(Root) > 1
        BY EmptyIs DEF Last
      <4> QED BY <4>1, SlashIs, Zenon
    <3>2. FullyQualifiedName(node) = <<Blank, node.base>>
      BY <2>1, <3>1, Zenon DEF FullyQualifiedName, Blank
    <3>3. s \o b = b
      <4>1. s = << >>
        BY <1>4, <2>1, SpaceIs, Zenon
      <4> QED BY <1>3, <4>1, ConcatEmptySeq, Zenon
    <3>4. <<Blank>> \o <<node.base>> = <<Blank, node.base>>
      BY <1>2, TokenSets, TwoOnes, Zenon
    <3> QED BY <1>1, <3>2, <3>3, <3>4, EmptyIs, Zenon
  <2>2. CASE node.namespace # Root
    <3>1. ~EndsWithSlash(node.namespace)
      BY <2>2, Zenon DEF NodeOk
    <3>2. FullyQualifiedName(node) = Append(node.namespace, node.base)
      BY <3>1, Zenon DEF FullyQualifiedName
    <3>3. node.namespace \in Seq(AnyToken)
      BY Zenon DEF NodeOk
    <3>4. FullyQualifiedName(node) = node.namespace \o b
      BY <1>1, <1>2, <3>2, <3>3, AppendIsConcat, Zenon
    <3>5. node.namespace = Empty \o s
      BY <1>4, <2>2, SpaceIs, Zenon
    <3>6. (Empty \o s) \o b = Empty \o (s \o b)
      BY <1>3, EmptyAssoc
    <3> QED BY <3>4, <3>5, <3>6, Zenon
  <2> QED BY <2>1, <2>2
<1>10. Range(s \o b) \subseteq GoodTokens <=> (Range(s) \subseteq GoodTokens /\ Range(b) \subseteq GoodTokens)
  BY <1>7, Zenon
<1> QED BY <1>1, <1>4, <1>5, <1>6, <1>8, <1>9, <1>10, Zenon

\* DisplayIs for a name.
LEMMA PathIs == ASSUME NEW nm, NameOk(nm)
  PROVE /\ PathOf(nm) \in Seq(AnyToken) /\ Len(PathOf(nm)) >= 1
        /\ nm.absolute => Display(nm) = Empty \o PathOf(nm)
        /\ ~nm.absolute => Display(nm) = PathOf(nm)
  BY DisplayIs, Zenon DEF NameOk

\* The meaning of a name is a text, of an absolute name its own tokens.
LEMMA MeaningIs == ASSUME NEW nm, NameOk(nm), NEW node, NodeOk(node)
  PROVE /\ Meaning(nm, node) \in Seq(AnyToken) /\ Len(Meaning(nm, node)) >= 1
        /\ (nm.absolute \/ node.namespace = Root) => Meaning(nm, node) = PathOf(nm)
        /\ ~(nm.absolute \/ node.namespace = Root) =>
             Meaning(nm, node) = Tail(node.namespace) \o PathOf(nm)
<1>1. PICK b \in Seq(AnyToken) : b = PathOf(nm)
  BY PathIs, Zenon
<1>2. Len(b) >= 1
  BY <1>1, PathIs, Zenon
<1>3. PICK x \in Seq(AnyToken) : x = IF nm.absolute THEN << >> ELSE Space(node)
  <2>1. << >> \in Seq(AnyToken)
    OBVIOUS
  <2> QED BY <2>1, SpaceIs, Zenon
<1>4. x \o b \in Seq(AnyToken) /\ Len(x \o b) = Len(x) + Len(b)
  BY ConcatProperties, Zenon
<1>5. Len(x \o b) >= 1
  BY <1>2, <1>4, LenProperties
<1>6. << >> \o b = b
  BY ConcatEmptySeq, Zenon
<1>7. (nm.absolute \/ node.namespace = Root) => x = << >>
  BY <1>3, SpaceIs, Zenon
<1>8. ~(nm.absolute \/ node.namespace = Root) => x = Tail(node.namespace)
  BY <1>3, SpaceIs, Zenon
<1>9. Meaning(nm, node) = x \o b
  BY <1>1, <1>3, Zenon DEF Meaning
<1> QED BY <1>1, <1>4, <1>5, <1>6, <1>7, <1>8, <1>9, Zenon

\* resolve_fqn writes the meaning after a slash.
LEMMA Resolved == ASSUME NEW nm, NameOk(nm), NEW node, NodeOk(node)
  PROVE ResolveFqn(nm, node) = Empty \o Meaning(nm, node)
<1>1. CASE nm.absolute
  BY <1>1, PathIs, MeaningIs, Zenon DEF ResolveFqn
<1>2. CASE ~nm.absolute /\ node.namespace = Root
  BY <1>2, PathIs, MeaningIs, Zenon DEF ResolveFqn
<1>3. CASE ~nm.absolute /\ node.namespace # Root
  <2>1. ResolveFqn(nm, node) = node.namespace \o PathOf(nm)
    BY <1>3, PathIs, Zenon DEF ResolveFqn
  <2>2. PICK b \in Seq(AnyToken) : b = PathOf(nm)
    BY PathIs, Zenon
  <2>3. PICK s \in Seq(AnyToken) : s = Space(node)
    BY SpaceIs, Zenon
  <2>4. node.namespace = Empty \o s /\ Meaning(nm, node) = s \o b
    BY <1>3, <2>2, <2>3, SpaceIs, MeaningIs, Zenon
  <2>5. (Empty \o s) \o b = Empty \o (s \o b)
    BY EmptyAssoc
  <2> QED BY <2>1, <2>2, <2>4, <2>5, Zenon
<1> QED BY <1>1, <1>2, <1>3, Zenon

\* to_dds_name writes the meaning after the kind, with an empty token where Doubled.
LEMMA DdsPath == ASSUME NEW nm, NameOk(nm), NEW node, NodeOk(node), NEW kind \in AnyToken, NEW suffix
  PROVE /\ DdsTokens(nm, node) \in Seq(AnyToken)
        /\ ToDdsName(nm, kind, node, suffix) =
             [path |-> <<kind>> \o DdsTokens(nm, node), suffix |-> suffix]
<1>1. PICK k \in Seq(AnyToken) : k = <<kind>>
  BY One, Zenon
<1>2. PICK p \in Seq(AnyToken) : p = nm.preceeding
  BY Zenon DEF NameOk
<1>3. PICK b \in Seq(AnyToken) : b = <<nm.base>>
  BY One, Zenon DEF NameOk
<1>4. PICK x \in Seq(AnyToken) : x = IF nm.absolute THEN << >> ELSE Tail(node.namespace)
  <2>1. << >> \in Seq(AnyToken)
    OBVIOUS
  <2>2. Tail(Root) \in Seq(AnyToken)
    BY BlankSeq
  <2> QED BY <2>1, <2>2, SpaceIs, Zenon
<1>5. ToDdsName(nm, kind, node, suffix) = [path |-> ((k \o x) \o p) \o b, suffix |-> suffix]
  BY <1>1, <1>2, <1>3, <1>4, Zenon DEF ToDdsName
<1>6. ((k \o x) \o p) \o b = k \o (x \o (p \o b))
  <2>1. PICK kx \in Seq(AnyToken) : kx = k \o x
    BY ConcatProperties, Zenon
  <2>2. PICK pb \in Seq(AnyToken) : pb = p \o b
    BY ConcatProperties, Zenon
  <2>3. (kx \o p) \o b = kx \o pb
    BY <2>2, ConcatAssociative, SMTT(30)
  <2>4. kx \o pb = k \o (x \o pb)
    BY <2>1, ConcatAssociative
  <2> QED BY <2>1, <2>2, <2>3, <2>4
<1>7. p \o b \in Seq(AnyToken) /\ x \o (p \o b) \in Seq(AnyToken)
  BY ConcatProperties, Zenon
<1>8. x \o (p \o b) = DdsTokens(nm, node)
  <2>1. p \o b = PathOf(nm)
    BY <1>2, <1>3, Zenon DEF PathOf
  <2>2. CASE Doubled(nm, node)
    <3>1. ~nm.absolute /\ node.namespace = Root
      BY <2>2, Zenon DEF Doubled
    <3>2. x = Empty
      BY <1>4, <3>1, BlankSeq, Zenon
    <3>3. Meaning(nm, node) = PathOf(nm)
      BY <3>1, MeaningIs, Zenon
    <3> QED BY <2>1, <2>2, <3>2, <3>3, Zenon DEF DdsTokens
  <2>3. CASE ~Doubled(nm, node)
    <3>1. nm.absolute \/ node.namespace # Root
      BY <2>3, Zenon DEF Doubled
    <3>2. << >> \o (p \o b) = p \o b
      BY <1>7, ConcatEmptySeq, Zenon
    <3>3. x \o (p \o b) = Meaning(nm, node)
      BY <1>4, <2>1, <3>1, <3>2, MeaningIs, Zenon
    <3> QED BY <2>3, <3>3, Zenon DEF DdsTokens
  <2> QED BY <2>2, <2>3
<1> QED BY <1>1, <1>5, <1>6, <1>7, <1>8, Zenon

\* In a node of good tokens the meaning of a name is made of good tokens.
LEMMA MeaningGood == ASSUME NEW nm \in NameSet, NEW node, NodeOk(node), Range(Space(node)) \subseteq GoodTokens
  PROVE Range(Meaning(nm, node)) \subseteq GoodTokens
<1>0. NameOk(nm)
  BY NameSetOk
<1>1. PICK b \in Seq(AnyToken) : b = PathOf(nm)
  BY <1>0, PathIs, Zenon
<1>2. Range(b) \subseteq GoodTokens
  <2>1. PICK p \in Seq(GoodTokens) : p = nm.preceeding
    BY DEF NameSet
  <2>2. PICK l \in Seq(GoodTokens) : l = <<nm.base>>
    <3>1. nm.base \in GoodTokens
      BY DEF NameSet
    <3> QED BY <3>1, One, Zenon
  <2>3. p \o l \in Seq(GoodTokens)
    BY ConcatProperties, Zenon
  <2>4. Range(p \o l) \subseteq GoodTokens
    BY <2>3, RangeOfSeq, Zenon
  <2> QED BY <1>1, <2>1, <2>2, <2>4, Zenon DEF PathOf
<1>3. PICK s \in Seq(AnyToken) : s = Space(node)
  BY SpaceIs, Zenon
<1>4. Range(s \o b) = Range(s) \cup Range(b)
  BY RangeConcatenation, Zenon
<1>5. Meaning(nm, node) = b \/ Meaning(nm, node) = s \o b
  BY <1>0, <1>1, <1>3, MeaningIs, SpaceIs, Zenon
<1> QED BY <1>2, <1>3, <1>4, <1>5, Zenon

\* The tokens the crate adds are good.
LEMMA Crate == {"_action", "feedback", "get_parameters", "get_parameter_types", "set_parameters",
      "set_parameters_atomically", "list_parameters", "describe_parameters"} \subseteq GoodTokens
  BY NamesAssumption, Zenon DEF GoodTokens

\* Name::new over an absolute namespace.
LEMMA NewAbsolute == ASSUME NEW w \in Seq(AnyToken), Len(w) >= 1, w # Empty, NEW x
  PROVE NameNew(Empty \o w, <<x>>) =
          IF x \in GoodTokens /\ Range(w) \subseteq GoodTokens
          THEN << [base |-> x, preceeding |-> w, absolute |-> TRUE] >> ELSE << >>
<1>1. StartsWithSlash(Empty \o w) = TRUE /\ Relative(Empty \o w) = w
  BY AbsoluteText, Zenon
<1>2. TokensOf(Empty \o w) = w
  BY <1>1, Zenon DEF TokensOf
<1> QED BY <1>1, <1>2, NewIs, Zenon

\* Any name in any node: both backends resolve it to the same fully qualified name,
\* and what the crate derives from it is a name again (names.rs, zenoh_backend/node.rs).
THEOREM AllResolveAlike == ASSUME NEW nm \in NameSet, NEW node, NodeOk(node)
  PROVE ResolvesAlike(nm, node)
<1>0. NameOk(nm)
  BY NameSetOk
<1>1. PICK fqn : fqn = ResolveFqn(nm, node)
  OBVIOUS
<1>2. PICK dds : dds = Tail(ToDdsName(nm, "rt", node, "").path)
  OBVIOUS
<1>3. PICK nodeFqn : nodeFqn = FullyQualifiedName(node)
  OBVIOUS
<1>4. PICK w \in Seq(AnyToken) : w = Meaning(nm, node)
  BY <1>0, MeaningIs, Zenon
<1>5. Len(w) >= 1 /\ fqn = Empty \o w
  BY <1>0, <1>1, <1>4, MeaningIs, Resolved, Zenon
<1>6. dds = DdsTokens(nm, node)
  <2>1. "rt" \in AnyToken
    BY Zenon DEF AnyToken
  <2>2. PICK d \in Seq(AnyToken) : d = DdsTokens(nm, node)
    BY <1>0, <2>1, DdsPath, Zenon
  <2>3. ToDdsName(nm, "rt", node, "").path = <<"rt">> \o d
    <3>1. ToDdsName(nm, "rt", node, "") = [path |-> <<"rt">> \o d, suffix |-> ""]
      BY <1>0, <2>1, <2>2, DdsPath, Zenon
    <3>2. PICK q : q = <<"rt">> \o d
      OBVIOUS
    <3>3. [path |-> q, suffix |-> ""].path = q
      OBVIOUS
    <3> QED BY <3>1, <3>2, <3>3, Zenon
  <2>4. Tail(<<"rt">> \o d) = d
    BY <2>1, FirstAndRest, Zenon
  <2> QED BY <1>2, <2>2, <2>3, <2>4, Zenon
<1>7. /\ (nm.absolute \/ node.namespace # Root) => Empty \o dds = fqn
      /\ (~nm.absolute /\ node.namespace = Root) => dds = fqn
  BY <1>4, <1>5, <1>6, Zenon DEF DdsTokens, Doubled
<1>8. PICK s \in Seq(AnyToken) : s = Space(node) \o <<node.base>>
  BY NodeFqn, Zenon
<1>9. Len(s) >= 1 /\ nodeFqn = Empty \o s
  BY <1>3, <1>8, NodeFqn, Zenon
<1>10. NameParse(nodeFqn) = IF Range(s) \subseteq GoodTokens THEN << Spelt(s, TRUE) >> ELSE << >>
  BY <1>9, AbsoluteText, Zenon
<1>11. << Spelt(s, TRUE) >> # << >>
  OBVIOUS
<1>12. NameParse(nodeFqn) # << >> <=> Range(s) \subseteq GoodTokens
  BY <1>10, <1>11, Zenon
<1>13. ParamServiceName(nodeFqn, "get_parameters") # << >> <=> NameParse(nodeFqn) # << >>
  <2>1. s # Empty
    <3>1. s = Empty => Range(s) = {Blank} /\ s[Len(s)] = Blank
      BY EmptyIs DEF Range
    <3>2. PICK sp \in Seq(AnyToken) : sp = Space(node)
      BY SpaceIs, Zenon
    <3>3. PICK l \in Seq(AnyToken) : l = <<node.base>>
      BY TokenSets, One, Zenon DEF NodeOk
    <3>4. Range(s) = Range(sp) \cup Range(l)
      BY <1>8, <3>2, <3>3, RangeConcatenation, ZenonT(40)
    <3>5. node.base \in Range(l)
      BY <3>3 DEF Range
    <3>6. node.base # Blank
      BY TokenSets, Zenon DEF NodeOk
    <3>7. ASSUME s = Empty PROVE FALSE
      <4>1. node.base \in {Blank}
        BY <3>1, <3>4, <3>5, <3>7
      <4> QED BY <3>6, <4>1
    <3> QED BY <3>7
  <2>2. "get_parameters" \in GoodTokens
    BY Crate, Zenon
  <2>3. ParamServiceName(nodeFqn, "get_parameters") =
          IF "get_parameters" \in GoodTokens /\ Range(s) \subseteq GoodTokens
          THEN << [base |-> "get_parameters", preceeding |-> s, absolute |-> TRUE] >> ELSE << >>
    BY <1>9, <2>1, NewAbsolute, Zenon DEF ParamServiceName
  <2>4. << [base |-> "get_parameters", preceeding |-> s, absolute |-> TRUE] >> # << >>
    OBVIOUS
  <2> QED BY <1>12, <2>2, <2>3, <2>4, Zenon
<1>14. ASSUME NameParse(nodeFqn) # << >>
       PROVE /\ NameParse(fqn) # << >> /\ NameParse(fqn)[1].absolute
             /\ ActionSubName(fqn, "feedback") = << Push(Push(NameParse(fqn)[1], "_action"), "feedback") >>
  <2>1. Range(w) \subseteq GoodTokens
    BY <1>4, <1>8, <1>12, <1>14, NodeFqn, MeaningGood, Zenon
  <2>2. NameParse(fqn) = << Spelt(w, TRUE) >>
    BY <1>5, <2>1, AbsoluteText, Zenon
  <2>3. << Spelt(w, TRUE) >> # << >> /\ << Spelt(w, TRUE) >>[1] = Spelt(w, TRUE)
    OBVIOUS
  <2>4. Spelt(w, TRUE).absolute
    BY DEF Spelt
  <2>5. "_action" \in GoodTokens /\ "feedback" \in GoodTokens /\ "_action" \in AnyToken
    BY Crate, TokenSets, Zenon
  <2>6. PICK a \in Seq(AnyToken) : a = <<"_action">>
    BY <2>5, One, Zenon
  <2>7. PICK v \in Seq(AnyToken) : v = w \o a
    BY ConcatProperties, Zenon
  <2>8. Append(fqn, "_action") = Empty \o v
    <3>1. fqn \in Seq(AnyToken)
      BY <1>5, AbsoluteText, Zenon
    <3>2. Append(fqn, "_action") = fqn \o a
      BY <2>5, <2>6, <3>1, AppendIsConcat, Zenon
    <3>3. (Empty \o w) \o a = Empty \o (w \o a)
      BY EmptyAssoc
    <3> QED BY <1>5, <2>7, <3>2, <3>3, Zenon
  <2>9. Len(v) >= 1 /\ v # Empty
    <3>1. Len(a) = 1
      BY <2>6, Zenon, OneIs
    <3>2. Len(v) = Len(w) + Len(a) /\ Len(Empty) = 1
      BY <2>7, ConcatProperties, EmptyIs, Zenon
    <3>3. Len(v) = Len(w) + 1 /\ Len(w) \in Nat
      BY <3>1, <3>2, LenProperties
    <3> QED BY <1>5, <3>2, <3>3
  <2>10. Range(v) \subseteq GoodTokens
    <3>1. Range(v) = Range(w) \cup Range(a)
      BY <2>7, RangeConcatenation, Zenon
    <3>2. a \in Seq(GoodTokens)
      BY <2>5, <2>6, One, Zenon
    <3>3. Range(a) \subseteq GoodTokens
      BY <3>2, RangeOfSeq, Zenon
    <3> QED BY <2>1, <3>1, <3>3, Zenon
  <2>11. ActionSubName(fqn, "feedback") = << [base |-> "feedback", preceeding |-> v, absolute |-> TRUE] >>
    BY <2>5, <2>8, <2>9, <2>10, NewAbsolute, Zenon DEF ActionSubName
  <2>12. Push(Push(Spelt(w, TRUE), "_action"), "feedback") =
           [base |-> "feedback", preceeding |-> v, absolute |-> TRUE]
    <3>8. PICK f \in Seq(AnyToken) : f = Front(w)
      BY <1>5, FrontLast, Zenon
    <3>9. PICK l \in AnyToken : l = Last(w)
      BY <1>5, FrontLast, Zenon
    <3>1. f = Front(w) /\ l = Last(w) /\ w = f \o <<l>>
      BY <1>5, <3>8, <3>9, FrontLast, Zenon
    <3>2. Append(f, l) = w
      BY <3>1, AppendIsConcat, Zenon
    <3>3. Append(w, "_action") = v
      BY <2>5, <2>6, <2>7, AppendIsConcat, Zenon
    <3>4. Spelt(w, TRUE) = [base |-> l, preceeding |-> f, absolute |-> TRUE]
      BY <3>1, Zenon DEF Spelt
    <3>5. Push([base |-> l, preceeding |-> f, absolute |-> TRUE], "_action") =
            [base |-> "_action", preceeding |-> Append(f, l), absolute |-> TRUE]
      BY PushIs, Zenon
    <3>6. Push([base |-> "_action", preceeding |-> w, absolute |-> TRUE], "feedback") =
            [base |-> "feedback", preceeding |-> Append(w, "_action"), absolute |-> TRUE]
      BY PushIs, Zenon
    <3> QED BY <3>2, <3>3, <3>4, <3>5, <3>6, Zenon
  <2> QED BY <2>2, <2>3, <2>4, <2>11, <2>12, Zenon
<1> QED BY <1>1, <1>2, <1>3, <1>7, <1>13, <1>14, Zenon DEF ResolvesAlike

-----------------------------------------------------------------------------
(* Zenoh keys (KeyExprs).                                                  *)

\* The only list of a set of one element.
LEMMA SeqOfOne == ASSUME NEW x PROVE SetToSeq({x}) = <<x>>
<1>1. Cardinality({x}) = 1
  BY FS_Singleton
<1>2. PICK g : g = [i \in 1 .. 1 |-> x]
  OBVIOUS
<1>3. g \in [1 .. 1 -> {x}] /\ IsInjective(g)
  BY <1>2 DEF IsInjective
<1>4. PICK f : f = SetToSeq({x})
  OBVIOUS
<1>5. f \in [1 .. 1 -> {x}]
  BY <1>1, <1>3, <1>4 DEF SetToSeq
<1>6. f \in Seq({x}) /\ Len(f) = 1 /\ f[1] = x
  BY <1>5
<1> QED BY <1>4, <1>6, Ones

\* A number is parsed from its digits.
LEMMA DigitsBack == ASSUME NEW n \in Numbers
  PROVE Parsed(Digits(n)) = <<n>> /\ Digits(n) # Empty /\ Decimal[n] # Blank
<1>1. \A m \in Numbers : Digits(m) = Digits(n) <=> m = n
  <2> SUFFICES ASSUME NEW m \in Numbers, Digits(m) = Digits(n) PROVE m = n
    OBVIOUS
  <2>1. <<Decimal[m]>>[1] = Decimal[m] /\ <<Decimal[n]>>[1] = Decimal[n]
    BY OneIs, Zenon
  <2>2. Decimal[m] = Decimal[n]
    BY <2>1, Zenon DEF Digits
  <2> QED BY <2>2, KeyExprsAssumption, Zenon
<1>2. {m \in Numbers : Digits(m) = Digits(n)} = {n}
  BY <1>1
<1>3. Decimal[n] # Blank
  BY KeyExprsAssumption DEF Blank
<1> QED BY <1>2, <1>3, SeqOfOne, OneIs, Zenon DEF Parsed, Digits

\* The kinds of entities.
Kind5 == {"Node", "Publisher", "Subscription", "ServiceServer", "ServiceClient"}

\* A kind is parsed from its code.
LEMMA KindBack == ASSUME NEW kind \in DOMAIN Code
  PROVE ParseKind(<<Code[kind]>>) = <<kind>> /\ Code[kind] # Blank /\ (kind = "Node" => Code[kind] = "NN")
<1>1. DOMAIN Code = Kind5
  BY DEF Code, Kind5
<1>2. \A k \in Kind5 : Code[k] = Code[kind] <=> k = kind
  BY <1>1 DEF Code, Kind5
<1>3. \A k \in DOMAIN Code : <<Code[k]>> = <<Code[kind]>> <=> k = kind
  <2> SUFFICES ASSUME NEW k \in DOMAIN Code, <<Code[k]>> = <<Code[kind]>> PROVE k = kind
    OBVIOUS
  <2>1. <<Code[k]>>[1] = Code[k] /\ <<Code[kind]>>[1] = Code[kind]
    BY OneIs, Zenon
  <2>2. Code[k] = Code[kind]
    BY <2>1, Zenon
  <2> QED BY <1>1, <1>2, <2>2, Zenon
<1>4. {k \in DOMAIN Code : <<Code[k]>> = <<Code[kind]>>} = {kind}
  BY <1>3, Zenon
<1>5. Code[kind] # Blank /\ (kind = "Node" => Code[kind] = "NN")
  <2>1. \A k \in Kind5 : Code[k] # "" /\ Code["Node"] = "NN"
    <3>1. /\ Code["Node"] = "NN" /\ Code["Publisher"] = "MP" /\ Code["Subscription"] = "MS"
          /\ Code["ServiceServer"] = "SS" /\ Code["ServiceClient"] = "SC"
      BY DEF Code
    <3>2. "NN" # "" /\ "MP" # "" /\ "MS" # "" /\ "SS" # "" /\ "SC" # ""
      OBVIOUS
    <3> QED BY <3>1, <3>2, Zenon DEF Kind5
  <2> QED BY <1>1, <2>1, Zenon DEF Blank
<1> QED BY <1>4, <1>5, SeqOfOne, Zenon DEF ParseKind

\* A key of nine chunks, and what it holds.
Is9(key, a1, a2, a3, a4, a5, a6, a7, a8, a9) == key = <<a1, a2, a3, a4, a5, a6, a7, a8, a9>>
\* Its chunks and its length, and those of the key without the last.
Has9(key, a1, a2, a3, a4, a5, a6, a7, a8, a9) ==
        /\ Len(key) = 9 /\ DOMAIN key = 1 .. 9
        /\ key[1] = a1 /\ key[2] = a2 /\ key[3] = a3 /\ key[4] = a4 /\ key[5] = a5
        /\ key[6] = a6 /\ key[7] = a7 /\ key[8] = a8 /\ key[9] = a9
        /\ Len(Front(key)) = 8

\* A key of nine chunks holds them.
LEMMA Key9 == ASSUME NEW a1, NEW a2, NEW a3, NEW a4, NEW a5, NEW a6, NEW a7, NEW a8, NEW a9, NEW key,
                     Is9(key, a1, a2, a3, a4, a5, a6, a7, a8, a9)
  PROVE Has9(key, a1, a2, a3, a4, a5, a6, a7, a8, a9)
<1>1. PICK T : T = {a1, a2, a3, a4, a5, a6, a7, a8, a9}
  OBVIOUS
<1>2. a1 \in T /\ a2 \in T /\ a3 \in T /\ a4 \in T /\ a5 \in T /\ a6 \in T /\ a7 \in T /\ a8 \in T /\ a9 \in T
  BY <1>1
<1>3. key \in Seq(T)
  BY <1>2 DEF Is9
<1>4. Len(key) = 9 /\ DOMAIN key = 1 .. 9
  BY DEF Is9
<1>5. /\ key[1] = a1 /\ key[2] = a2 /\ key[3] = a3 /\ key[4] = a4 /\ key[5] = a5
      /\ key[6] = a6 /\ key[7] = a7 /\ key[8] = a8 /\ key[9] = a9
  BY DEF Is9
<1>6. Len(key) >= 1
  BY <1>4
<1>7. Len(Front(key)) = Len(key) - 1
  BY <1>3, <1>6, FrontLast, Zenon
<1>8. Len(key) - 1 = 8
  BY <1>4
<1> QED BY <1>4, <1>5, <1>7, <1>8, Zenon DEF Has9

\* A key of thirteen chunks.
Is13(key, a1, a2, a3, a4, a5, a6, a7, a8, a9, a10, a11, a12, a13) ==
  key = <<a1, a2, a3, a4, a5, a6, a7, a8, a9, a10, a11, a12, a13>>
\* Its chunks and its length, and those of the key without the last.
Has13(key, a1, a2, a3, a4, a5, a6, a7, a8, a9, a10, a11, a12, a13) ==
        /\ Len(key) = 13 /\ DOMAIN key = 1 .. 13
        /\ key[1] = a1 /\ key[2] = a2 /\ key[3] = a3 /\ key[4] = a4 /\ key[5] = a5
        /\ key[6] = a6 /\ key[7] = a7 /\ key[8] = a8 /\ key[9] = a9
        /\ key[10] = a10 /\ key[11] = a11 /\ key[12] = a12 /\ key[13] = a13
        /\ Len(Front(key)) = 12 /\ \A i \in 1 .. 12 : Front(key)[i] = key[i]

\* A key of thirteen chunks holds them.
LEMMA Key13 == ASSUME NEW a1, NEW a2, NEW a3, NEW a4, NEW a5, NEW a6, NEW a7, NEW a8, NEW a9,
                      NEW a10, NEW a11, NEW a12, NEW a13, NEW key,
                      Is13(key, a1, a2, a3, a4, a5, a6, a7, a8, a9, a10, a11, a12, a13)
  PROVE Has13(key, a1, a2, a3, a4, a5, a6, a7, a8, a9, a10, a11, a12, a13)
<1>1. PICK T : T = {a1, a2, a3, a4, a5, a6, a7, a8, a9, a10, a11, a12, a13}
  OBVIOUS
<1>2. /\ a1 \in T /\ a2 \in T /\ a3 \in T /\ a4 \in T /\ a5 \in T /\ a6 \in T /\ a7 \in T /\ a8 \in T
      /\ a9 \in T /\ a10 \in T /\ a11 \in T /\ a12 \in T /\ a13 \in T
  BY <1>1
<1>3. key \in Seq(T)
  BY <1>2 DEF Is13
<1>4. Len(key) = 13 /\ DOMAIN key = 1 .. 13
  BY DEF Is13
<1>5. /\ key[1] = a1 /\ key[2] = a2 /\ key[3] = a3 /\ key[4] = a4 /\ key[5] = a5
      /\ key[6] = a6 /\ key[7] = a7 /\ key[8] = a8 /\ key[9] = a9
      /\ key[10] = a10 /\ key[11] = a11 /\ key[12] = a12 /\ key[13] = a13
  BY DEF Is13
<1>6. Len(key) >= 1
  BY <1>4
<1>7. Len(Front(key)) = Len(key) - 1 /\ \A i \in 1 .. Len(key) - 1 : Front(key)[i] = key[i]
  BY <1>3, <1>6, FrontLast, Zenon
<1>8. Len(Front(key)) = 12 /\ \A i \in 1 .. 12 : Front(key)[i] = key[i]
  <2>1. Len(key) - 1 = 12
    BY <1>4
  <2> QED BY <1>7, <2>1, Zenon
<1> QED BY <1>4, <1>5, <1>8, Zenon DEF Has13

\* What parse makes of a key whose ids and kind are well formed.
Read(key, d, n, e, k, topic) ==
  << [domain |-> d, zid |-> key[3], node |-> n, entity |-> e, kind |-> k,
      namespace |-> key[8], name |-> key[9], topic |-> topic] >>

\* What parsing a key gives, once its numbers and its kind are parsed.
LEMMA ParseKeyIs == ASSUME NEW key, NEW d, NEW n, NEW e, NEW k, ~(Len(key) < 9), key[1] = AdminSpace,
    Parsed(key[2]) = <<d>>, Parsed(key[4]) = <<n>>, Parsed(key[5]) = <<e>>, ParseKind(key[6]) = <<k>>
  PROVE /\ k = "Node" => ParseKey(key) = Read(key, d, n, e, k, << >>)
        /\ k # "Node" /\ Len(key) < 13 => ParseKey(key) = << >>
        /\ k # "Node" /\ ~(Len(key) < 13) =>
             ParseKey(key) = Read(key, d, n, e, k, <<key[10], key[11], key[12], key[13]>>)
<1>1. <<d>> # << >> /\ <<n>> # << >> /\ <<e>> # << >> /\ <<k>> # << >>
  OBVIOUS
<1>2. <<d>>[1] = d /\ <<n>>[1] = n /\ <<e>>[1] = e /\ <<k>>[1] = k
  OBVIOUS
<1>3. <<k>> = <<"Node">> <=> k = "Node"
  OBVIOUS
<1> QED BY <1>1, <1>2, <1>3, Zenon DEF ParseKey, Read, Demangle

\* The text of an absolute name: only its first token is empty.
LEMMA KeptTokens == ASSUME NEW w \in Seq(AnyToken), Len(w) >= 1, Range(w) \subseteq GoodTokens
  PROVE /\ Empty \o w # Empty
        /\ LET nm == StripSlashes(Empty \o w) IN
           /\ nm \in Seq(GoodTokens)
<1>1. PICK t : t = Empty \o w
  OBVIOUS
<1>2. t = <<Blank>> \o w
  BY <1>1, EmptyIs, Zenon
<1>3. /\ t \in Seq(AnyToken) /\ Len(t) = Len(w) + 1 /\ t[1] = Blank
      /\ \A i \in 1 .. Len(w) : t[i + 1] = w[i]
  <2>1. PICK x \in AnyToken : x = Blank
    BY TokenSets
  <2>2. t = <<x>> \o w
    BY <1>2, <2>1
  <2>3. /\ t \in Seq(AnyToken) /\ Len(t) = Len(w) + 1 /\ t[1] = x
        /\ \A i \in 1 .. Len(w) : t[i + 1] = w[i]
    BY <2>2, FirstAndRest
  <2> QED BY <2>1, <2>3
<1>4. PICK n \in Nat : n = Len(w) /\ n >= 1
  BY LenProperties
<1>5. Len(t) = n + 1 /\ DOMAIN t = 1 .. n + 1
  BY <1>3, <1>4, LenProperties
<1>6. \A i \in 2 .. n + 1 : t[i] \in GoodTokens
  <2> SUFFICES ASSUME NEW i \in 2 .. n + 1 PROVE t[i] \in GoodTokens
    OBVIOUS
  <2>1. i - 1 \in 1 .. n /\ (i - 1) + 1 = i
    OBVIOUS
  <2>2. t[(i - 1) + 1] = w[i - 1]
    BY <1>3, <1>4, <2>1, Zenon
  <2>3. w[i - 1] \in GoodTokens
    BY <1>4, <2>1, RangeGood, Zenon
  <2> QED BY <2>1, <2>2, <2>3
<1>7. PICK kept : kept = {i \in DOMAIN t : t[i] # ""}
  OBVIOUS
<1>8. kept = 2 .. n + 1
  <2>1. kept = {i \in DOMAIN t : t[i] # Blank}
    BY <1>7, Zenon DEF Blank
  <2>2. \A i \in 1 .. n + 1 : t[i] # Blank <=> i \in 2 .. n + 1
    <3> SUFFICES ASSUME NEW i \in 1 .. n + 1 PROVE t[i] # Blank <=> i \in 2 .. n + 1
      OBVIOUS
    <3>1. i = 1 \/ i \in 2 .. n + 1
      OBVIOUS
    <3>2. 1 \notin 2 .. n + 1
      OBVIOUS
    <3> QED BY <1>3, <1>6, <3>1, <3>2, GoodToken, Zenon
  <2>3. \A i \in 2 .. n + 1 : i \in 1 .. n + 1
    OBVIOUS
  <2> QED BY <1>5, <2>1, <2>2, <2>3, Zenon
<1>9. Min(kept) = 2 /\ Max(kept) = n + 1
  <2>1. 2 \in kept /\ n + 1 \in kept /\ kept \subseteq Nat
    BY <1>4, <1>8
  <2>2. \A y \in kept : 2 =< y /\ n + 1 >= y
    BY <1>8
  <2>3. Min(kept) \in kept /\ \A y \in kept : Min(kept) =< y
    BY <2>1, <2>2, Zenon DEF Min
  <2>4. Max(kept) \in kept /\ \A y \in kept : Max(kept) >= y
    BY <2>1, <2>2, Zenon DEF Max
  <2>5. PICK lo \in Nat, hi \in Nat : lo = Min(kept) /\ hi = Max(kept)
    BY <2>1, <2>3, <2>4, Zenon
  <2>6. lo =< 2 /\ 2 =< lo
    BY <2>1, <2>2, <2>3, <2>5, Zenon
  <2>7. hi >= n + 1 /\ n + 1 >= hi
    BY <2>1, <2>2, <2>4, <2>5, Zenon
  <2>8. lo = 2 /\ hi = n + 1
    BY <2>6, <2>7
  <2> QED BY <2>5, <2>8
<1>10. kept # {}
  <2>1. 2 \in 2 .. n + 1
    BY <1>4
  <2> QED BY <1>8, <2>1, Zenon
<1>11. StripSlashes(t) = SubSeq(t, 2, n + 1)
  BY <1>7, <1>9, <1>10, Zenon DEF StripSlashes
<1>12. SubSeq(t, 2, n + 1) \in Seq(GoodTokens)
  BY <1>6, SubSeqProperties
<1>13. t # Empty
  BY <1>4, <1>5, EmptyIs
<1> QED BY <1>1, <1>11, <1>12, <1>13, Zenon

\* No chunk of a data key is empty.
LEMMA DataChunks == ASSUME NEW d \in Numbers, NEW fqn, StripSlashes(fqn) \in Seq(GoodTokens),
                           NEW i \in DOMAIN TopicKey(d, fqn, "T", "H")
  PROVE TopicKey(d, fqn, "T", "H")[i] # Empty
<1>1. PICK X : X = {<<t>> : t \in GoodTokens} \cup {Digits(d), <<"T">>, <<"H">>}
  OBVIOUS
<1>2. Empty \notin X
  <2>1. \A t \in GoodTokens : <<t>> # Empty
    BY GoodToken, OneIs, Zenon
  <2>2. "T" # "" /\ "H" # ""
    OBVIOUS
  <2>3. <<"T">> # Empty /\ <<"H">> # Empty
    BY <2>2, OneIs, Zenon DEF Blank
  <2> QED BY <1>1, <2>1, <2>3, DigitsBack, Zenon
<1>3. PICK nm \in Seq(GoodTokens) : nm = StripSlashes(fqn)
  OBVIOUS
<1>4. PICK a : a = <<Digits(d)>>
  OBVIOUS
<1>5. PICK b : b = [j \in DOMAIN nm |-> <<nm[j]>>]
  OBVIOUS
<1>6. PICK c : c = << <<"T">>, <<"H">> >>
  OBVIOUS
<1>7. a \in Seq(X)
  BY <1>1, <1>4, One, Zenon
<1>8. b \in Seq(X)
  <2>1. PICK n \in Nat : n = Len(nm) /\ DOMAIN nm = 1 .. n
    BY LenProperties
  <2>2. \A j \in 1 .. n : nm[j] \in GoodTokens
    BY <2>1, ElementOfSeq
  <2>3. \A j \in 1 .. n : <<nm[j]>> \in X
    BY <1>1, <2>2, Zenon
  <2>4. b \in [1 .. n -> X]
    BY <1>5, <2>1, <2>3, Zenon
  <2> QED BY <2>4
<1>9. c \in Seq(X)
  <2>1. \A x, y \in X : <<x, y>> \in Seq(X)
    OBVIOUS
  <2> QED BY <1>1, <1>6, <2>1, Zenon
<1>10. a \o b \in Seq(X)
  BY <1>7, <1>8, ConcatProperties, Zenon
<1>11. PICK k \in Seq(X) : k = (a \o b) \o c
  BY <1>9, <1>10, ConcatProperties, Zenon
<1>12. TopicKey(d, fqn, "T", "H") = k
  BY <1>3, <1>4, <1>5, <1>6, <1>11, Zenon DEF TopicKey
<1>13. DOMAIN k = 1 .. Len(k)
  BY LenProperties
<1>14. k[i] \in X
  BY <1>12, <1>13, ElementOfSeq, Zenon
<1> QED BY <1>2, <1>12, <1>14, Zenon

\* A mangled name is not empty, and a name that is not empty is kept.
LEMMA MangleIs == ASSUME NEW x PROVE Mangle(x) # Empty /\ (x # Empty => Mangle(x) = x)
<1>1. Root # Empty
  BY EmptyIs
<1> QED BY <1>1, Zenon DEF Mangle

\* The liveliness key of an entity with any ids and a name of any length is read
\* back as that entity, no chunk of its keys is empty, and a key cut short is
\* refused (keyexpr.rs).
THEOREM KeysRoundTrip == ASSUME NEW d \in Numbers, NEW ids, NEW kind \in DOMAIN Code, NEW w \in Seq(AnyToken),
    Len(w) >= 1, Range(w) \subseteq GoodTokens,
    ids.node \in Numbers, ids.entity \in Numbers, ids.zid # Blank, ids.name # Blank, ids.namespace # Empty
  PROVE KeyRoundTrips(d, ids, kind, Empty \o w)
<1>1. PICK fqn : fqn = Empty \o w
  OBVIOUS
<1>2. fqn # Empty /\ StripSlashes(fqn) \in Seq(GoodTokens)
  BY <1>1, KeptTokens, Zenon
<1>3. \A i \in DOMAIN TopicKey(d, fqn, "T", "H") : TopicKey(d, fqn, "T", "H")[i] # Empty
  BY <1>2, DataChunks, Zenon
<1>4. Mangle(ids.namespace) = ids.namespace /\ Mangle(<<ids.name>>) = <<ids.name>> /\ Mangle(fqn) = fqn
  BY <1>2, MangleIs, OneIs, Zenon
<1>5. AdminSpace # Empty /\ <<ids.zid>> # Empty /\ <<ids.name>> # Empty /\ <<Code[kind]>> # Empty
      /\ <<"T">> # Empty /\ <<"H">> # Empty /\ <<"Q">> # Empty
  <2>1. "@ros2_lv" # "" /\ "T" # "" /\ "H" # "" /\ "Q" # ""
    OBVIOUS
  <2>2. "@ros2_lv" # Blank /\ "T" # Blank /\ "H" # Blank /\ "Q" # Blank
    BY <2>1, Zenon DEF Blank
  <2>3. <<"@ros2_lv">> # Empty
    BY <2>2, OneIs, Zenon
  <2> QED BY <2>2, <2>3, OneIs, KindBack, Zenon DEF AdminSpace
<1>6. CASE kind = "Node"
  <2>1. PICK key : key = NodeKey(d, ids)
    OBVIOUS
  <2>2. Is9(key, AdminSpace, Digits(d), <<ids.zid>>, Digits(ids.node), Digits(ids.node), <<"NN">>,
            Mangle(ids.enclave), ids.namespace, <<ids.name>>)
    BY <1>4, <2>1, Zenon DEF NodeKey, Is9
  <2>3. /\ Len(key) = 9 /\ DOMAIN key = 1 .. 9
        /\ key[1] = AdminSpace /\ key[2] = Digits(d) /\ key[3] = <<ids.zid>> /\ key[4] = Digits(ids.node)
        /\ key[5] = Digits(ids.node) /\ key[6] = <<"NN">> /\ key[7] = Mangle(ids.enclave)
        /\ key[8] = ids.namespace /\ key[9] = <<ids.name>>
        /\ Len(Front(key)) = 8
    <3>1. Has9(key, AdminSpace, Digits(d), <<ids.zid>>, Digits(ids.node), Digits(ids.node), <<"NN">>,
               Mangle(ids.enclave), ids.namespace, <<ids.name>>)
      BY <2>2, Key9, Zenon
    <3> QED BY <3>1, Zenon DEF Has9
  <2>4. ~(Len(key) < 9)
    BY <2>3
  <2>5. Code[kind] = "NN"
    BY <1>6, KindBack, Zenon
  <2>6. /\ Parsed(key[2]) = <<d>> /\ Parsed(key[4]) = <<ids.node>> /\ Parsed(key[5]) = <<ids.node>>
        /\ ParseKind(key[6]) = <<kind>>
    BY <2>3, <2>5, DigitsBack, KindBack, Zenon
  <2>7. ParseKey(key) = Read(key, d, ids.node, ids.node, kind, << >>)
    BY <1>6, <2>3, <2>4, <2>6, ParseKeyIs, Zenon
  <2>8. ParseKey(key) = << [domain |-> d, zid |-> <<ids.zid>>, node |-> ids.node, entity |-> ids.node,
                            kind |-> kind, namespace |-> ids.namespace, name |-> <<ids.name>>,
                            topic |-> << >>] >>
    BY <2>3, <2>7, Zenon DEF Read
  <2>9. ParseKey(Front(key)) = << >>
    <3>1. Len(Front(key)) < 9
      BY <2>3
    <3> QED BY <3>1, Zenon DEF ParseKey
  <2>10. \A i \in DOMAIN key : key[i] # Empty
    <3>1. \A i \in 1 .. 9 : i = 1 \/ i = 2 \/ i = 3 \/ i = 4 \/ i = 5 \/ i = 6 \/ i = 7 \/ i = 8 \/ i = 9
      OBVIOUS
    <3>2. /\ key[1] # Empty /\ key[2] # Empty /\ key[3] # Empty /\ key[4] # Empty /\ key[5] # Empty
          /\ key[6] # Empty /\ key[7] # Empty /\ key[8] # Empty /\ key[9] # Empty
      BY <1>5, <2>3, <2>5, DigitsBack, MangleIs, Zenon
    <3> QED BY <2>3, <3>1, <3>2, Zenon
  <2> QED BY <1>1, <1>3, <1>6, <2>1, <2>8, <2>9, <2>10, Zenon DEF KeyRoundTrips
<1>7. CASE kind # "Node"
  <2>1. PICK key : key = EntityKey(d, ids, kind, fqn, "T", "H", "Q")
    OBVIOUS
  <2>2. Is13(key, AdminSpace, Digits(d), <<ids.zid>>, Digits(ids.node), Digits(ids.entity), <<Code[kind]>>,
             Mangle(ids.enclave), ids.namespace, <<ids.name>>, fqn, <<"T">>, <<"H">>, <<"Q">>)
    BY <1>4, <2>1, Zenon DEF EntityKey, Is13
  <2>3. /\ Len(key) = 13 /\ DOMAIN key = 1 .. 13
        /\ key[1] = AdminSpace /\ key[2] = Digits(d) /\ key[3] = <<ids.zid>> /\ key[4] = Digits(ids.node)
        /\ key[5] = Digits(ids.entity) /\ key[6] = <<Code[kind]>> /\ key[7] = Mangle(ids.enclave)
        /\ key[8] = ids.namespace /\ key[9] = <<ids.name>>
        /\ key[10] = fqn /\ key[11] = <<"T">> /\ key[12] = <<"H">> /\ key[13] = <<"Q">>
        /\ Len(Front(key)) = 12 /\ \A i \in 1 .. 12 : Front(key)[i] = key[i]
    <3>1. Has13(key, AdminSpace, Digits(d), <<ids.zid>>, Digits(ids.node), Digits(ids.entity), <<Code[kind]>>,
                Mangle(ids.enclave), ids.namespace, <<ids.name>>, fqn, <<"T">>, <<"H">>, <<"Q">>)
      BY <2>2, Key13, Zenon
    <3> QED BY <3>1, Zenon DEF Has13
  <2>4. ~(Len(key) < 9) /\ ~(Len(key) < 13) /\ ~(Len(Front(key)) < 9) /\ Len(Front(key)) < 13
    BY <2>3
  <2>20. key[1] = AdminSpace
    BY <2>3
  <2>6. /\ Parsed(key[2]) = <<d>> /\ Parsed(key[4]) = <<ids.node>> /\ Parsed(key[5]) = <<ids.entity>>
        /\ ParseKind(key[6]) = <<kind>>
    BY <2>3, DigitsBack, KindBack, Zenon
  <2>7. ParseKey(key) = Read(key, d, ids.node, ids.entity, kind, <<key[10], key[11], key[12], key[13]>>)
    BY <1>7, <2>20, <2>4, <2>6, ParseKeyIs, Zenon
  <2>8. ParseKey(key) = << [domain |-> d, zid |-> <<ids.zid>>, node |-> ids.node, entity |-> ids.entity,
                            kind |-> kind, namespace |-> ids.namespace, name |-> <<ids.name>>,
                            topic |-> << fqn, <<"T">>, <<"H">>, <<"Q">> >>] >>
    BY <2>3, <2>7, Zenon DEF Read
  <2>9. ParseKey(Front(key)) = << >>
    <3>1. 1 \in 1 .. 12 /\ 2 \in 1 .. 12 /\ 4 \in 1 .. 12 /\ 5 \in 1 .. 12 /\ 6 \in 1 .. 12
      OBVIOUS
    <3>2. PICK f : f = Front(key)
      OBVIOUS
    <3>3. f[1] = key[1] /\ f[2] = key[2] /\ f[4] = key[4] /\ f[5] = key[5] /\ f[6] = key[6]
      BY <2>3, <3>1, <3>2, Zenon
    <3>4. /\ f[1] = AdminSpace /\ Parsed(f[2]) = <<d>> /\ Parsed(f[4]) = <<ids.node>>
          /\ Parsed(f[5]) = <<ids.entity>> /\ ParseKind(f[6]) = <<kind>>
          /\ ~(Len(f) < 9) /\ Len(f) < 13
      BY <2>3, <2>4, <2>6, <3>2, <3>3, Zenon
    <3>5. ParseKey(f) = << >>
      BY <1>7, <3>4, ParseKeyIs, Zenon
    <3> QED BY <3>2, <3>5
  <2>10. \A i \in DOMAIN key : key[i] # Empty
    <3>1. \A i \in 1 .. 13 : \/ i = 1 \/ i = 2 \/ i = 3 \/ i = 4 \/ i = 5 \/ i = 6 \/ i = 7 \/ i = 8
                             \/ i = 9 \/ i = 10 \/ i = 11 \/ i = 12 \/ i = 13
      OBVIOUS
    <3>2. /\ key[1] # Empty /\ key[2] # Empty /\ key[3] # Empty /\ key[4] # Empty /\ key[5] # Empty
          /\ key[6] # Empty /\ key[7] # Empty /\ key[8] # Empty /\ key[9] # Empty
          /\ key[10] # Empty /\ key[11] # Empty /\ key[12] # Empty /\ key[13] # Empty
      BY <1>2, <1>5, <2>3, DigitsBack, MangleIs, Zenon
    <3> QED BY <2>3, <3>1, <3>2, Zenon
  <2> QED BY <1>1, <1>3, <1>7, <2>1, <2>8, <2>9, <2>10, Zenon DEF KeyRoundTrips
<1> QED BY <1>6, <1>7

-----------------------------------------------------------------------------
(* DDS endpoints (DdsEndpoints): which names match.                        *)

\* Lists that end in equally long parts are equal part by part.
LEMMA SameParts == ASSUME NEW T, NEW d \in Seq(T), NEW e \in Seq(T), NEW u \in Seq(T), NEW v \in Seq(T),
                          Len(u) = Len(v), d \o u = e \o v
  PROVE d = e /\ u = v
<1>1. PICK n \in Nat : n = Len(u) /\ n = Len(v)
  BY LenProperties
<1>2. PICK k \in Nat : k = Len(d)
  BY LenProperties
<1>3. PICK l \in Nat : l = Len(e)
  BY LenProperties
<1>4. PICK s : s = d \o u /\ s = e \o v
  OBVIOUS
<1>5. /\ Len(s) = Len(d) + Len(u)
      /\ \A i \in 1 .. Len(d) + Len(u) : s[i] = IF i <= Len(d) THEN d[i] ELSE u[i - Len(d)]
  <2>1. /\ Len(d \o u) = Len(d) + Len(u)
        /\ \A i \in 1 .. Len(d) + Len(u) : (d \o u)[i] = IF i <= Len(d) THEN d[i] ELSE u[i - Len(d)]
    BY ConcatProperties, Zenon
  <2>2. s = d \o u
    BY <1>4
  <2> QED BY <2>1, <2>2, Zenon
<1>6. /\ Len(s) = Len(e) + Len(v)
      /\ \A i \in 1 .. Len(e) + Len(v) : s[i] = IF i <= Len(e) THEN e[i] ELSE v[i - Len(e)]
  BY <1>4, ConcatProperties, ZenonT(40)
<1>7. Len(s) = k + n /\ Len(s) = l + n
  BY <1>1, <1>2, <1>3, <1>5, <1>6, Zenon
<1>8. k = l
  BY <1>7
<1>9. \A i \in 1 .. k + n : (IF i <= k THEN d[i] ELSE u[i - k]) = (IF i <= k THEN e[i] ELSE v[i - k])
  BY <1>1, <1>2, <1>3, <1>5, <1>6, <1>8, Zenon
<1>10. \A i \in 1 .. k : d[i] = e[i]
  BY <1>9
<1>11. \A i \in 1 .. n : u[i] = v[i]
  <2> SUFFICES ASSUME NEW i \in 1 .. n PROVE u[i] = v[i]
    OBVIOUS
  <2>1. i + k \in 1 .. k + n /\ ~(i + k <= k) /\ (i + k) - k = i
    OBVIOUS
  <2> QED BY <1>9, <2>1
<1>12. d = e
  BY <1>2, <1>3, <1>8, <1>10, SeqEqual
<1>13. u = v
  BY <1>1, <1>11, SeqEqual
<1> QED BY <1>12, <1>13

\* Two texts with a leading slash are the same only if the rest is.
LEMMA EmptyInjective == ASSUME NEW u \in Seq(AnyToken), NEW v \in Seq(AnyToken), Empty \o u = Empty \o v PROVE u = v
<1>1. Empty = <<Blank>> /\ Blank \in AnyToken
  BY EmptyIs, TokenSets, Zenon
<1>2. Tail(<<Blank>> \o u) = u /\ Tail(<<Blank>> \o v) = v
  BY <1>1, FirstAndRest, Zenon
<1> QED BY <1>1, <1>2, Zenon

\* Doubled is a truth value.
LEMMA DoubledIs == ASSUME NEW nm, NEW node PROVE Doubled(nm, node) \in BOOLEAN
  BY Zenon DEF Doubled

\* Two names mean the same, doubled alike, exactly when their DDS tokens are the same.
MeanAlike(m, a, n, b) == (ResolveFqn(m, a) = ResolveFqn(n, b) /\ Doubled(m, a) = Doubled(n, b))
                           <=> DdsTokens(m, a) = DdsTokens(n, b)

\* MeanAlike holds of any two names in any two nodes.
LEMMA SameMeaning == ASSUME NEW m \in NameSet, NEW n \in NameSet, NEW a, NEW b, NodeOk(a), NodeOk(b),
                            Range(Space(a)) \subseteq GoodTokens, Range(Space(b)) \subseteq GoodTokens
  PROVE MeanAlike(m, a, n, b)
<1> SUFFICES (ResolveFqn(m, a) = ResolveFqn(n, b) /\ Doubled(m, a) = Doubled(n, b))
               <=> DdsTokens(m, a) = DdsTokens(n, b)
  BY Zenon DEF MeanAlike
<1>0. NameOk(m) /\ NameOk(n)
  BY NameSetOk, Zenon
<1>1. PICK u \in Seq(AnyToken) : u = Meaning(m, a)
  BY <1>0, MeaningIs, Zenon
<1>2. PICK v \in Seq(AnyToken) : v = Meaning(n, b)
  BY <1>0, MeaningIs, Zenon
<1>3. ResolveFqn(m, a) = Empty \o u /\ ResolveFqn(n, b) = Empty \o v
  BY <1>0, <1>1, <1>2, Resolved, Zenon
<1>4. Len(u) >= 1 /\ Len(v) >= 1 /\ Range(u) \subseteq GoodTokens /\ Range(v) \subseteq GoodTokens
  BY <1>0, <1>1, <1>2, MeaningIs, MeaningGood, Zenon
<1>5. Empty \o u # v /\ u # Empty \o v
  <2>1. \A w \in Seq(AnyToken) : (Empty \o w)[1] = Blank
    <3> SUFFICES ASSUME NEW w \in Seq(AnyToken) PROVE (Empty \o w)[1] = Blank
      OBVIOUS
    <3>1. (<<Blank>> \o w)[1] = Blank
      BY FirstAndRest, TokenSets, ZenonT(40)
    <3> QED BY <3>1, EmptyIs, Zenon
  <2>2. 1 \in 1 .. Len(u) /\ 1 \in 1 .. Len(v)
    BY <1>4, LenProperties
  <2>3. u[1] \in GoodTokens /\ v[1] \in GoodTokens
    BY <1>4, <2>2, RangeGood, Zenon
  <2> QED BY <2>1, <2>3, GoodToken, Zenon
<1>6. Empty \o u = Empty \o v <=> u = v
  BY EmptyInjective, Zenon
<1>7. CASE Doubled(m, a) /\ Doubled(n, b)
  BY <1>1, <1>2, <1>3, <1>6, <1>7, DoubledIs, Zenon DEF DdsTokens
<1>8. CASE ~Doubled(m, a) /\ ~Doubled(n, b)
  BY <1>1, <1>2, <1>3, <1>6, <1>8, DoubledIs, Zenon DEF DdsTokens
<1>9. CASE Doubled(m, a) /\ ~Doubled(n, b)
  <2>1. DdsTokens(m, a) = Empty \o u /\ DdsTokens(n, b) = v
    BY <1>1, <1>2, <1>9, Zenon DEF DdsTokens
  <2>2. ~(Doubled(m, a) = Doubled(n, b))
    BY <1>9, Zenon
  <2> QED BY <1>5, <2>1, <2>2, Zenon
<1>10. CASE ~Doubled(m, a) /\ Doubled(n, b)
  <2>1. DdsTokens(m, a) = u /\ DdsTokens(n, b) = Empty \o v
    BY <1>1, <1>2, <1>10, Zenon DEF DdsTokens
  <2>2. ~(Doubled(m, a) = Doubled(n, b))
    BY <1>10, Zenon
  <2> QED BY <1>5, <2>1, <2>2, Zenon
<1> QED BY <1>7, <1>8, <1>9, <1>10, Zenon

\* What a list of endpoints needs to match another.
LEMMA OppositeIs == ASSUME NEW t PROVE Opposite(Writer(t)) = Reader(t) /\ Opposite(Reader(t)) = Writer(t)
                                       /\ Writer(t).topic = t /\ Reader(t).topic = t
<1>1. Opposite(Writer(t)) = Reader(t)
  BY DEF Opposite, Writer, Reader
<1>2. Opposite(Reader(t)) = Writer(t)
  BY DEF Opposite, Writer, Reader
<1>3. Writer(t).topic = t /\ Reader(t).topic = t
  BY DEF Writer, Reader
<1> QED BY <1>1, <1>2, <1>3

\* Server and client have opposite roles, place by place.
Opposed(client, server, n) == \A i \in 1 .. n : server[i] = Opposite(client[i])
\* No topic of a client has the name of another.
Apart(client, n) == \A i, j \in 1 .. n : client[i].topic.name = client[j].topic.name => i = j

\* Lists that are opposed and apart match.
LEMMA Matched == ASSUME NEW n \in Nat, NEW client, NEW server, DOMAIN client = 1 .. n, DOMAIN server = 1 .. n,
                        Len(client) = Len(server),
                        Opposed(client, server, n), Apart(client, n)
  PROVE Match(client, server)
<1>1. {Opposite(client[i]) : i \in DOMAIN client} = Range(server)
  BY DEF Range, Opposed
<1> QED BY <1>1, Zenon DEF Match, Apart

\* A list and one or two more.
More1(T, t, s, x, n) == t \in Seq(T) /\ Len(t) = n + 1 /\ t[n + 1] = x /\ \A i \in 1 .. n : t[i] = s[i]
\* A list and two more.
More2(T, t, s, x, y, n) ==
  t \in Seq(T) /\ Len(t) = n + 2 /\ t[n + 1] = x /\ t[n + 2] = y /\ \A i \in 1 .. n : t[i] = s[i]

\* A list with one element more.
LEMMA OneMore == ASSUME NEW T, NEW s \in Seq(T), NEW x \in T, NEW n \in Nat, Len(s) = n
  PROVE More1(T, s \o <<x>>, s, x, n)
<1>1. PICK l : l = <<x>>
  OBVIOUS
<1>2. l \in Seq(T) /\ Len(l) = 1 /\ l[1] = x
  BY <1>1
<1>3. /\ s \o l \in Seq(T) /\ Len(s \o l) = Len(s) + Len(l)
      /\ \A i \in 1 .. Len(s) + Len(l) : (s \o l)[i] = IF i <= Len(s) THEN s[i] ELSE l[i - Len(s)]
  BY <1>2, ConcatProperties, Zenon
<1>4. \A i \in 1 .. n + 1 : (s \o l)[i] = IF i <= n THEN s[i] ELSE l[i - n]
  BY <1>2, <1>3, Zenon
<1>5. (s \o l)[n + 1] = l[(n + 1) - n]
  <2>1. n + 1 \in 1 .. n + 1 /\ ~(n + 1 <= n)
    OBVIOUS
  <2> QED BY <1>4, <2>1, Zenon
<1>6. (n + 1) - n = 1
  OBVIOUS
<1>7. \A i \in 1 .. n : (s \o l)[i] = s[i]
  BY <1>4
<1> QED BY <1>1, <1>2, <1>3, <1>5, <1>6, <1>7, Zenon DEF More1, More2

\* A list with two elements more.
LEMMA TwoMore == ASSUME NEW T, NEW s \in Seq(T), NEW x \in T, NEW y \in T, NEW n \in Nat, Len(s) = n
  PROVE More2(T, s \o <<x, y>>, s, x, y, n)
<1>1. PICK l : l = <<x, y>>
  OBVIOUS
<1>2. l \in Seq(T) /\ Len(l) = 2 /\ l[1] = x /\ l[2] = y
  BY <1>1
<1>3. /\ s \o l \in Seq(T) /\ Len(s \o l) = Len(s) + Len(l)
      /\ \A i \in 1 .. Len(s) + Len(l) : (s \o l)[i] = IF i <= Len(s) THEN s[i] ELSE l[i - Len(s)]
  BY <1>2, ConcatProperties, Zenon
<1>4. \A i \in 1 .. n + 2 : (s \o l)[i] = IF i <= n THEN s[i] ELSE l[i - n]
  BY <1>2, <1>3, Zenon
<1>5. (s \o l)[n + 1] = l[(n + 1) - n] /\ (s \o l)[n + 2] = l[(n + 2) - n]
  <2>1. n + 1 \in 1 .. n + 2 /\ ~(n + 1 <= n) /\ n + 2 \in 1 .. n + 2 /\ ~(n + 2 <= n)
    OBVIOUS
  <2> QED BY <1>4, <2>1, Zenon
<1>6. (n + 1) - n = 1 /\ (n + 2) - n = 2
  OBVIOUS
<1>7. \A i \in 1 .. n : (s \o l)[i] = s[i]
  BY <1>4
<1> QED BY <1>1, <1>2, <1>3, <1>5, <1>6, <1>7, Zenon DEF More1, More2

-----------------------------------------------------------------------------
(* The endpoints of actions.                                               *)

\* A list of eight.
Has8(s, a1, a2, a3, a4, a5, a6, a7, a8) ==
  /\ Len(s) = 8 /\ DOMAIN s = 1 .. 8
  /\ s[1] = a1 /\ s[2] = a2 /\ s[3] = a3 /\ s[4] = a4 /\ s[5] = a5 /\ s[6] = a6 /\ s[7] = a7 /\ s[8] = a8

\* Three pairs and two single endpoints make a list of eight.
LEMMA Join8 == ASSUME NEW a1, NEW a2, NEW a3, NEW a4, NEW a5, NEW a6, NEW a7, NEW a8
  PROVE Has8(<<a1, a2>> \o <<a3, a4>> \o <<a5, a6>> \o <<a7>> \o <<a8>>, a1, a2, a3, a4, a5, a6, a7, a8)
<1>1. PICK T : T = {a1, a2, a3, a4, a5, a6, a7, a8}
  OBVIOUS
<1>2. a1 \in T /\ a2 \in T /\ a3 \in T /\ a4 \in T /\ a5 \in T /\ a6 \in T /\ a7 \in T /\ a8 \in T
  BY <1>1
<1>3. PICK p : p = <<a1, a2>>
  OBVIOUS
<1>4. p \in Seq(T) /\ Len(p) = 2 /\ p[1] = a1 /\ p[2] = a2
  BY <1>2, <1>3
<1>5. PICK q : q = p \o <<a3, a4>>
  OBVIOUS
<1>6. q \in Seq(T) /\ Len(q) = 4 /\ q[1] = a1 /\ q[2] = a2 /\ q[3] = a3 /\ q[4] = a4
  <2>1. 2 \in Nat /\ 2 + 1 = 3 /\ 2 + 2 = 4 /\ 1 \in 1 .. 2 /\ 2 \in 1 .. 2
    OBVIOUS
  <2>2. /\ q \in Seq(T) /\ Len(q) = 2 + 2 /\ q[2 + 1] = a3 /\ q[2 + 2] = a4
        /\ \A i \in 1 .. 2 : q[i] = p[i]
    <3>1. More2(T, p \o <<a3, a4>>, p, a3, a4, 2)
      BY <1>2, <1>4, <2>1, TwoMore, Zenon
    <3> QED BY <1>5, <3>1, Zenon DEF More2
  <2> QED BY <1>4, <2>1, <2>2, Zenon
<1>7. PICK r : r = q \o <<a5, a6>>
  OBVIOUS
<1>8. /\ r \in Seq(T) /\ Len(r) = 6 /\ r[1] = a1 /\ r[2] = a2 /\ r[3] = a3 /\ r[4] = a4
      /\ r[5] = a5 /\ r[6] = a6
  <2>1. 4 \in Nat /\ 4 + 1 = 5 /\ 4 + 2 = 6 /\ 1 \in 1 .. 4 /\ 2 \in 1 .. 4 /\ 3 \in 1 .. 4 /\ 4 \in 1 .. 4
    OBVIOUS
  <2>2. /\ r \in Seq(T) /\ Len(r) = 4 + 2 /\ r[4 + 1] = a5 /\ r[4 + 2] = a6
        /\ \A i \in 1 .. 4 : r[i] = q[i]
    <3>1. More2(T, q \o <<a5, a6>>, q, a5, a6, 4)
      BY <1>2, <1>6, <2>1, TwoMore, Zenon
    <3> QED BY <1>7, <3>1, Zenon DEF More2
  <2> QED BY <1>6, <2>1, <2>2, Zenon
<1>9. PICK s : s = r \o <<a7>>
  OBVIOUS
<1>10. /\ s \in Seq(T) /\ Len(s) = 7 /\ s[1] = a1 /\ s[2] = a2 /\ s[3] = a3 /\ s[4] = a4
       /\ s[5] = a5 /\ s[6] = a6 /\ s[7] = a7
  <2>1. /\ 6 \in Nat /\ 6 + 1 = 7 /\ 1 \in 1 .. 6 /\ 2 \in 1 .. 6 /\ 3 \in 1 .. 6 /\ 4 \in 1 .. 6
        /\ 5 \in 1 .. 6 /\ 6 \in 1 .. 6
    OBVIOUS
  <2>2. s \in Seq(T) /\ Len(s) = 6 + 1 /\ s[6 + 1] = a7 /\ \A i \in 1 .. 6 : s[i] = r[i]
    <3>1. More1(T, r \o <<a7>>, r, a7, 6)
      BY <1>2, <1>8, <2>1, OneMore, Zenon
    <3> QED BY <1>9, <3>1, Zenon DEF More1
  <2> QED BY <1>8, <2>1, <2>2, Zenon
<1>11. PICK t : t = s \o <<a8>>
  OBVIOUS
<1>12. /\ t \in Seq(T) /\ Len(t) = 8 /\ t[1] = a1 /\ t[2] = a2 /\ t[3] = a3 /\ t[4] = a4
       /\ t[5] = a5 /\ t[6] = a6 /\ t[7] = a7 /\ t[8] = a8
  <2>1. /\ 7 \in Nat /\ 7 + 1 = 8 /\ 1 \in 1 .. 7 /\ 2 \in 1 .. 7 /\ 3 \in 1 .. 7 /\ 4 \in 1 .. 7
        /\ 5 \in 1 .. 7 /\ 6 \in 1 .. 7 /\ 7 \in 1 .. 7
    OBVIOUS
  <2>2. t \in Seq(T) /\ Len(t) = 7 + 1 /\ t[7 + 1] = a8 /\ \A i \in 1 .. 7 : t[i] = s[i]
    <3>1. More1(T, s \o <<a8>>, s, a8, 7)
      BY <1>2, <1>10, <2>1, OneMore, Zenon
    <3> QED BY <1>11, <3>1, Zenon DEF More1
  <2> QED BY <1>10, <2>1, <2>2, Zenon
<1>13. DOMAIN t = 1 .. 8
  BY <1>12, LenProperties, Zenon
<1>14. Has8(t, a1, a2, a3, a4, a5, a6, a7, a8)
  BY <1>12, <1>13, Zenon DEF Has8
<1> QED BY <1>3, <1>5, <1>7, <1>9, <1>11, <1>14, Zenon

\* The DDS name of an action's part.
LEMMA ActionWords == /\ "_action" \in AnyToken /\ "feedback" \in AnyToken /\ "send_goal" \in AnyToken
                     /\ "cancel_goal" \in AnyToken /\ "get_result" \in AnyToken /\ "status" \in AnyToken
                     /\ "rt" \in AnyToken /\ "rq" \in AnyToken /\ "rr" \in AnyToken
<1>1. "_action" \in AnyToken /\ "feedback" \in AnyToken
  BY Crate, TokenSets, Zenon
<1> QED BY <1>1, Zenon DEF AnyToken

\* A part of an action has two tokens more than the action.
LEMMA ActionNameIs == ASSUME NEW nm \in NameSet, NEW part \in AnyToken
  PROVE /\ NameOk(ActionName(nm, part)) /\ ActionName(nm, part).absolute = nm.absolute
        /\ PathOf(ActionName(nm, part)) = PathOf(nm) \o <<"_action", part>>
<1>1. PICK b, p, a : b = nm.base /\ p = nm.preceeding /\ a = nm.absolute
  OBVIOUS
<1>2. nm = [base |-> b, preceeding |-> p, absolute |-> a]
  BY <1>1 DEF NameSet
<1>3. ActionName(nm, part) =
        [base |-> part, preceeding |-> Append(Append(p, b), "_action"), absolute |-> a]
  <2>1. Push(nm, "_action") = [base |-> "_action", preceeding |-> Append(p, b), absolute |-> a]
    BY <1>2, PushIs, Zenon
  <2>2. Push([base |-> "_action", preceeding |-> Append(p, b), absolute |-> a], part) =
          [base |-> part, preceeding |-> Append(Append(p, b), "_action"), absolute |-> a]
    BY PushIs, Zenon
  <2> QED BY <2>1, <2>2, Zenon DEF ActionName
<1>4. p \in Seq(AnyToken) /\ b \in AnyToken
  BY <1>1, NameSetOk, Zenon DEF NameOk
<1>5. PICK w \in Seq(AnyToken) : w = p \o <<b>>
  BY <1>1, <1>4, NameSetOk, PathIs, Zenon DEF PathOf
<1>6. Append(p, b) = w
  BY <1>4, <1>5, AppendIsConcat, Zenon
<1>7. PICK x \in AnyToken : x = "_action"
  BY ActionWords
<1>8. PICK u \in Seq(AnyToken), v \in Seq(AnyToken) : u = <<x>> /\ v = <<part>>
  BY One, Zenon
<1>9. Append(w, x) = w \o u
  BY <1>8, AppendIsConcat, Zenon
<1>10. w \o u \in Seq(AnyToken)
  BY ConcatProperties, Zenon
<1>11. (w \o u) \o v = w \o (u \o v)
  BY ConcatAssociative
<1>12. u \o v = <<x, part>>
  BY <1>8, TwoOnes, Zenon
<1>13. PICK n : n = ActionName(nm, part)
  OBVIOUS
<1>14. n.base = part /\ n.preceeding = w \o u /\ n.absolute = a
  <2>1. n = [base |-> part, preceeding |-> w \o u, absolute |-> a]
    BY <1>3, <1>6, <1>7, <1>9, <1>13, Zenon
  <2>2. PICK wu : wu = w \o u
    OBVIOUS
  <2>3. n = [base |-> part, preceeding |-> wu, absolute |-> a]
    BY <2>1, <2>2
  <2>4. n.base = part /\ n.preceeding = wu /\ n.absolute = a
    BY <2>3
  <2> QED BY <2>2, <2>4
<1>15. PathOf(n) = w \o <<x, part>>
  BY <1>8, <1>11, <1>12, <1>14, Zenon DEF PathOf
<1>16. PathOf(nm) = w
  BY <1>1, <1>5, Zenon DEF PathOf
<1> QED BY <1>1, <1>7, <1>10, <1>13, <1>14, <1>15, <1>16, Zenon DEF NameOk

\* So have its DDS tokens.
LEMMA ActionTokens == ASSUME NEW nm \in NameSet, NEW part \in AnyToken, NEW node, NodeOk(node)
  PROVE DdsTokens(ActionName(nm, part), node) = DdsTokens(nm, node) \o <<"_action", part>>
<1>1. PICK n : n = ActionName(nm, part)
  OBVIOUS
<1>2. NameOk(n) /\ n.absolute = nm.absolute /\ PathOf(n) = PathOf(nm) \o <<"_action", part>>
  BY <1>1, ActionNameIs, Zenon
<1>3. NameOk(nm)
  BY NameSetOk
<1>4. PICK t \in Seq(AnyToken) : t = <<"_action", part>>
  <2>1. \A x \in AnyToken : <<x, part>> \in Seq(AnyToken)
    OBVIOUS
  <2> QED BY <2>1, ActionWords, Zenon
<1>5. PICK b \in Seq(AnyToken) : b = PathOf(nm)
  BY <1>3, PathIs, Zenon
<1>6. Doubled(n, node) <=> Doubled(nm, node)
  BY <1>2, Zenon DEF Doubled
<1>7. Meaning(n, node) = Meaning(nm, node) \o t
  <2>1. CASE nm.absolute \/ node.namespace = Root
    BY <1>2, <1>3, <1>4, <2>1, MeaningIs, Zenon
  <2>2. CASE ~(nm.absolute \/ node.namespace = Root)
    <3>1. PICK s \in Seq(AnyToken) : s = Tail(node.namespace)
      BY <2>2, SpaceIs, Zenon
    <3>2. Meaning(n, node) = s \o (b \o t) /\ Meaning(nm, node) = s \o b
      BY <1>2, <1>3, <1>4, <1>5, <2>2, <3>1, MeaningIs, Zenon
    <3>3. (s \o b) \o t = s \o (b \o t)
      BY ConcatAssociative
    <3> QED BY <3>2, <3>3, Zenon
  <2> QED BY <2>1, <2>2
<1>8. PICK m \in Seq(AnyToken) : m = Meaning(nm, node)
  BY <1>3, MeaningIs, Zenon
<1>9. (Empty \o m) \o t = Empty \o (m \o t)
  BY EmptyAssoc
<1> QED BY <1>1, <1>4, <1>6, <1>7, <1>8, <1>9, Zenon DEF DdsTokens

\* The path of the DDS topic of a part of an action.
ActionPath(d, k, part) == <<k>> \o (d \o <<"_action", part>>)

\* Two parts have the same path.
SamePath(d, k, p, e, l, q) == ActionPath(d, k, p) = ActionPath(e, l, q)

\* The path tells the action, the kind of topic and the part.
LEMMA PathInjective == ASSUME NEW d \in Seq(AnyToken), NEW e \in Seq(AnyToken), NEW k \in AnyToken, NEW l \in AnyToken,
                              NEW p \in AnyToken, NEW q \in AnyToken, SamePath(d, k, p, e, l, q)
  PROVE d = e /\ k = l /\ p = q
<1>0. \A x \in AnyToken, y \in AnyToken : <<x, y>> \in Seq(AnyToken) /\ Len(<<x, y>>) = 2 /\ <<x, y>>[2] = y
  OBVIOUS
<1>1. PICK u \in Seq(AnyToken) : u = <<"_action", p>>
  BY <1>0, ActionWords, Zenon
<1>2. PICK v \in Seq(AnyToken) : v = <<"_action", q>>
  BY <1>0, ActionWords, Zenon
<1>3. Len(u) = 2 /\ u[2] = p /\ Len(v) = 2 /\ v[2] = q
  BY <1>0, <1>1, <1>2, ActionWords, Zenon
<1>4. PICK du \in Seq(AnyToken) : du = d \o u
  BY ConcatProperties, Zenon
<1>5. PICK ev \in Seq(AnyToken) : ev = e \o v
  BY ConcatProperties, Zenon
<1>6. <<k>> \o du = <<l>> \o ev
  BY <1>1, <1>2, <1>4, <1>5, Zenon DEF ActionPath, SamePath
<1>7. (<<k>> \o du)[1] = k /\ Tail(<<k>> \o du) = du
  BY FirstAndRest, ZenonT(40)
<1>8. (<<l>> \o ev)[1] = l /\ Tail(<<l>> \o ev) = ev
  BY FirstAndRest, ZenonT(40)
<1>9. k = l /\ du = ev
  BY <1>6, <1>7, <1>8, Zenon
<1>10. d \o u = e \o v /\ Len(u) = Len(v)
  BY <1>3, <1>4, <1>5, <1>9, Zenon
<1>11. d = e /\ u = v
  BY <1>10, SameParts, Zenon
<1> QED BY <1>3, <1>9, <1>11, Zenon

\* The topic of a part of an action.
PartTopic(d, k, part, suffix, type) == Topic([path |-> ActionPath(d, k, part), suffix |-> suffix], type)

\* The three kinds of topics of a part: requests,
Request(d, part, type) == PartTopic(d, "rq", part, "Request", DdsRequestType(type))
\* replies,
Reply(d, part, type) == PartTopic(d, "rr", part, "Reply", DdsResponseType(type))
\* and messages.
Message(d, part, type) == PartTopic(d, "rt", part, "", DdsMsgType(type))

\* A name is that of a part: its topics are those of the part.
IsPart(node, n, part, type, d) ==
  /\ RequestTopic(node, n, type) = Request(d, part, type)
  /\ ReplyTopic(node, n, type) = Reply(d, part, type)
  /\ CreateTopic(node, n, type) = Message(d, part, type)

\* The topics of a part of an action.
LEMMA PartTopicIs == ASSUME NEW nm \in NameSet, NEW part \in AnyToken, NEW node, NodeOk(node), NEW type
  PROVE IsPart(node, ActionName(nm, part), part, type, DdsTokens(nm, node))
<1>1. PICK n : n = ActionName(nm, part)
  OBVIOUS
<1>2. NameOk(n) /\ DdsTokens(n, node) = DdsTokens(nm, node) \o <<"_action", part>>
  BY <1>1, ActionNameIs, ActionTokens, Zenon
<1>3. \A k \in AnyToken : \A suffix :
        ToDdsName(n, k, node, suffix) = [path |-> <<k>> \o DdsTokens(n, node), suffix |-> suffix]
  BY <1>2, DdsPath, Zenon
<1>4. \A k \in AnyToken : \A suffix :
        ToDdsName(n, k, node, suffix) = [path |-> ActionPath(DdsTokens(nm, node), k, part), suffix |-> suffix]
  BY <1>2, <1>3, Zenon DEF ActionPath
<1> QED BY <1>1, <1>4, ActionWords, Zenon DEF RequestTopic, ReplyTopic, CreateTopic, PartTopic,
                                              IsPart, Request, Reply, Message

\* The eight endpoints of an action client,
Client8(s, d, type) ==
  Has8(s, Writer(Request(d, "send_goal", ActionPartType(type, "_SendGoal"))),
          Reader(Reply(d, "send_goal", ActionPartType(type, "_SendGoal"))),
          Writer(Request(d, "cancel_goal", CancelType)), Reader(Reply(d, "cancel_goal", CancelType)),
          Writer(Request(d, "get_result", ActionPartType(type, "_GetResult"))),
          Reader(Reply(d, "get_result", ActionPartType(type, "_GetResult"))),
          Reader(Message(d, "feedback", ActionPartType(type, "_FeedbackMessage"))),
          Reader(Message(d, "status", StatusType)))
\* and those of an action server.
Server8(s, d, type) ==
  Has8(s, Reader(Request(d, "send_goal", ActionPartType(type, "_SendGoal"))),
          Writer(Reply(d, "send_goal", ActionPartType(type, "_SendGoal"))),
          Reader(Request(d, "cancel_goal", CancelType)), Writer(Reply(d, "cancel_goal", CancelType)),
          Reader(Request(d, "get_result", ActionPartType(type, "_GetResult"))),
          Writer(Reply(d, "get_result", ActionPartType(type, "_GetResult"))),
          Writer(Message(d, "feedback", ActionPartType(type, "_FeedbackMessage"))),
          Writer(Message(d, "status", StatusType)))

\* The endpoints of the service or topic of a part.
LEMMA PairsOf == ASSUME NEW nm \in NameSet, NEW part \in AnyToken, NEW node, NodeOk(node), NEW type, NEW d,
                        d = DdsTokens(nm, node)
  PROVE /\ CreateClient(node, ActionName(nm, part), type) =
             <<Writer(Request(d, part, type)), Reader(Reply(d, part, type))>>
        /\ CreateServer(node, ActionName(nm, part), type) =
             <<Reader(Request(d, part, type)), Writer(Reply(d, part, type))>>
        /\ CreateSubscription(node, ActionName(nm, part), type) = <<Reader(Message(d, part, type))>>
        /\ CreatePublisher(node, ActionName(nm, part), type) = <<Writer(Message(d, part, type))>>
<1>1. /\ RequestTopic(node, ActionName(nm, part), type) = Request(d, part, type)
      /\ ReplyTopic(node, ActionName(nm, part), type) = Reply(d, part, type)
      /\ CreateTopic(node, ActionName(nm, part), type) = Message(d, part, type)
  <2>1. IsPart(node, ActionName(nm, part), part, type, DdsTokens(nm, node))
    BY PartTopicIs, Zenon
  <2>2. IsPart(node, ActionName(nm, part), part, type, d)
    BY <2>1, Zenon
  <2> QED BY <2>2, Zenon DEF IsPart
<1>2. CreateClient(node, ActionName(nm, part), type) =
        <<Writer(Request(d, part, type)), Reader(Reply(d, part, type))>>
  BY <1>1, Zenon DEF CreateClient
<1>3. CreateServer(node, ActionName(nm, part), type) =
        <<Reader(Request(d, part, type)), Writer(Reply(d, part, type))>>
  BY <1>1, Zenon DEF CreateServer
<1>4. /\ CreateSubscription(node, ActionName(nm, part), type) = <<Reader(Message(d, part, type))>>
      /\ CreatePublisher(node, ActionName(nm, part), type) = <<Writer(Message(d, part, type))>>
  BY <1>1, Zenon DEF CreateSubscription, CreatePublisher
<1> QED BY <1>2, <1>3, <1>4

\* An action client has its eight endpoints.
LEMMA ClientIs == ASSUME NEW nm \in NameSet, NEW node, NodeOk(node), NEW type
  PROVE Client8(CreateActionClient(node, nm, type), DdsTokens(nm, node), type)
<1>1. PICK d : d = DdsTokens(nm, node)
  OBVIOUS
<1>20. \A part \in AnyToken : \A t :
         /\ CreateClient(node, ActionName(nm, part), t) = <<Writer(Request(d, part, t)), Reader(Reply(d, part, t))>>
         /\ CreateSubscription(node, ActionName(nm, part), t) = <<Reader(Message(d, part, t))>>
  <2> SUFFICES ASSUME NEW part \in AnyToken, NEW t
      PROVE /\ CreateClient(node, ActionName(nm, part), t) = <<Writer(Request(d, part, t)), Reader(Reply(d, part, t))>>
            /\ CreateSubscription(node, ActionName(nm, part), t) = <<Reader(Message(d, part, t))>>
    OBVIOUS
  <2> QED BY <1>1, PairsOf
<1>2. PICK goal, result, feedback : /\ goal = ActionPartType(type, "_SendGoal")
                                    /\ result = ActionPartType(type, "_GetResult")
                                    /\ feedback = ActionPartType(type, "_FeedbackMessage")
  OBVIOUS
<1>3. PICK x1, x2 : x1 = Writer(Request(d, "send_goal", goal)) /\ x2 = Reader(Reply(d, "send_goal", goal))
  OBVIOUS
<1>4. PICK x3, x4 : x3 = Writer(Request(d, "cancel_goal", CancelType)) /\ x4 = Reader(Reply(d, "cancel_goal", CancelType))
  OBVIOUS
<1>5. PICK x5, x6 : x5 = Writer(Request(d, "get_result", result)) /\ x6 = Reader(Reply(d, "get_result", result))
  OBVIOUS
<1>6. PICK x7, x8 : x7 = Reader(Message(d, "feedback", feedback)) /\ x8 = Reader(Message(d, "status", StatusType))
  OBVIOUS
<1>7. CreateClient(node, ActionName(nm, "send_goal"), goal) = <<x1, x2>>
  BY <1>20, <1>3, ActionWords, Zenon
<1>8. CreateClient(node, ActionName(nm, "cancel_goal"), CancelType) = <<x3, x4>>
  BY <1>20, <1>4, ActionWords, Zenon
<1>9. CreateClient(node, ActionName(nm, "get_result"), result) = <<x5, x6>>
  BY <1>20, <1>5, ActionWords, Zenon
<1>10. CreateSubscription(node, ActionName(nm, "feedback"), feedback) = <<x7>>
  BY <1>20, <1>6, ActionWords, Zenon
<1>11. CreateSubscription(node, ActionName(nm, "status"), StatusType) = <<x8>>
  BY <1>20, <1>6, ActionWords, Zenon
<1>12. CreateActionClient(node, nm, type) = <<x1, x2>> \o <<x3, x4>> \o <<x5, x6>> \o <<x7>> \o <<x8>>
  BY <1>2, <1>7, <1>8, <1>9, <1>10, <1>11, Zenon DEF CreateActionClient
<1>13. Has8(CreateActionClient(node, nm, type), x1, x2, x3, x4, x5, x6, x7, x8)
  BY <1>12, Join8, Zenon
<1> QED BY <1>1, <1>2, <1>3, <1>4, <1>5, <1>6, <1>13, Zenon DEF Client8

\* An action server has its eight endpoints.
LEMMA ServerIs == ASSUME NEW nm \in NameSet, NEW node, NodeOk(node), NEW type
  PROVE Server8(CreateActionServer(node, nm, type), DdsTokens(nm, node), type)
<1>1. PICK d : d = DdsTokens(nm, node)
  OBVIOUS
<1>20. \A part \in AnyToken : \A t :
         /\ CreateServer(node, ActionName(nm, part), t) = <<Reader(Request(d, part, t)), Writer(Reply(d, part, t))>>
         /\ CreatePublisher(node, ActionName(nm, part), t) = <<Writer(Message(d, part, t))>>
  <2> SUFFICES ASSUME NEW part \in AnyToken, NEW t
      PROVE /\ CreateServer(node, ActionName(nm, part), t) = <<Reader(Request(d, part, t)), Writer(Reply(d, part, t))>>
            /\ CreatePublisher(node, ActionName(nm, part), t) = <<Writer(Message(d, part, t))>>
    OBVIOUS
  <2> QED BY <1>1, PairsOf
<1>2. PICK goal, result, feedback : /\ goal = ActionPartType(type, "_SendGoal")
                                    /\ result = ActionPartType(type, "_GetResult")
                                    /\ feedback = ActionPartType(type, "_FeedbackMessage")
  OBVIOUS
<1>3. PICK x1, x2 : x1 = Reader(Request(d, "send_goal", goal)) /\ x2 = Writer(Reply(d, "send_goal", goal))
  OBVIOUS
<1>4. PICK x3, x4 : x3 = Reader(Request(d, "cancel_goal", CancelType)) /\ x4 = Writer(Reply(d, "cancel_goal", CancelType))
  OBVIOUS
<1>5. PICK x5, x6 : x5 = Reader(Request(d, "get_result", result)) /\ x6 = Writer(Reply(d, "get_result", result))
  OBVIOUS
<1>6. PICK x7, x8 : x7 = Writer(Message(d, "feedback", feedback)) /\ x8 = Writer(Message(d, "status", StatusType))
  OBVIOUS
<1>7. CreateServer(node, ActionName(nm, "send_goal"), goal) = <<x1, x2>>
  BY <1>20, <1>3, ActionWords, Zenon
<1>8. CreateServer(node, ActionName(nm, "cancel_goal"), CancelType) = <<x3, x4>>
  BY <1>20, <1>4, ActionWords, Zenon
<1>9. CreateServer(node, ActionName(nm, "get_result"), result) = <<x5, x6>>
  BY <1>20, <1>5, ActionWords, Zenon
<1>10. CreatePublisher(node, ActionName(nm, "feedback"), feedback) = <<x7>>
  BY <1>20, <1>6, ActionWords, Zenon
<1>11. CreatePublisher(node, ActionName(nm, "status"), StatusType) = <<x8>>
  BY <1>20, <1>6, ActionWords, Zenon
<1>12. CreateActionServer(node, nm, type) = <<x1, x2>> \o <<x3, x4>> \o <<x5, x6>> \o <<x7>> \o <<x8>>
  BY <1>2, <1>7, <1>8, <1>9, <1>10, <1>11, Zenon DEF CreateActionServer
<1>13. Has8(CreateActionServer(node, nm, type), x1, x2, x3, x4, x5, x6, x7, x8)
  BY <1>12, Join8, Zenon
<1> QED BY <1>1, <1>2, <1>3, <1>4, <1>5, <1>6, <1>13, Zenon DEF Server8

\* The place of a part in the list, by its kind and its name.
Place8(k, part) ==
  IF part = "feedback" THEN 7 ELSE IF part = "status" THEN 8
  ELSE (IF part = "send_goal" THEN 1 ELSE IF part = "cancel_goal" THEN 3 ELSE 5) + (IF k = "rq" THEN 0 ELSE 1)
\* An endpoint has the name of the part at a place.
PartNamed(e, d, i) ==
  \E k \in AnyToken, part \in AnyToken :
    e.topic.name.path = ActionPath(d, k, part) /\ i = Place8(k, part)

\* The path in the topic of a part.
LEMMA PartTopicName == ASSUME NEW d, NEW k, NEW part, NEW suffix, NEW type
  PROVE PartTopic(d, k, part, suffix, type).name.path = ActionPath(d, k, part)
<1>1. PICK p : p = ActionPath(d, k, part)
  OBVIOUS
<1>2. Topic([path |-> p, suffix |-> suffix], type).name.path = p
  BY DEF Topic
<1> QED BY <1>1, <1>2, Zenon DEF PartTopic

\* An endpoint with the path of a part has its name.
LEMMA NamedBy == ASSUME NEW e, NEW d, NEW k \in AnyToken, NEW part \in AnyToken,
                        e.topic.name.path = ActionPath(d, k, part)
  PROVE PartNamed(e, d, Place8(k, part))
  BY Zenon DEF PartNamed

\* The endpoints of a part have its name.
LEMMA NamedIs == ASSUME NEW d, NEW part \in AnyToken, NEW type
  PROVE /\ PartNamed(Writer(Request(d, part, type)), d, Place8("rq", part))
        /\ PartNamed(Reader(Request(d, part, type)), d, Place8("rq", part))
        /\ PartNamed(Writer(Reply(d, part, type)), d, Place8("rr", part))
        /\ PartNamed(Reader(Reply(d, part, type)), d, Place8("rr", part))
        /\ PartNamed(Writer(Message(d, part, type)), d, Place8("rt", part))
        /\ PartNamed(Reader(Message(d, part, type)), d, Place8("rt", part))
<1>1. /\ Request(d, part, type).name.path = ActionPath(d, "rq", part)
      /\ Reply(d, part, type).name.path = ActionPath(d, "rr", part)
      /\ Message(d, part, type).name.path = ActionPath(d, "rt", part)
  BY PartTopicName, Zenon DEF Request, Reply, Message
<1>2. \A k \in AnyToken : \A t : t.name.path = ActionPath(d, k, part) =>
        PartNamed(Writer(t), d, Place8(k, part)) /\ PartNamed(Reader(t), d, Place8(k, part))
  BY OppositeIs, NamedBy, Zenon
<1> QED BY <1>1, <1>2, ActionWords, Zenon

\* The places of the eight endpoints.
LEMMA Places == /\ Place8("rq", "send_goal") = 1 /\ Place8("rr", "send_goal") = 2
                /\ Place8("rq", "cancel_goal") = 3 /\ Place8("rr", "cancel_goal") = 4
                /\ Place8("rq", "get_result") = 5 /\ Place8("rr", "get_result") = 6
                /\ Place8("rt", "feedback") = 7 /\ Place8("rt", "status") = 8
  BY DEF Place8

\* Each of the eight endpoints has the name of its place.
LEMMA EachNamed == ASSUME NEW s, NEW d, NEW type, Client8(s, d, type) \/ Server8(s, d, type), NEW i \in 1 .. 8
  PROVE PartNamed(s[i], d, i)
<1>1. i = 1 \/ i = 2 \/ i = 3 \/ i = 4 \/ i = 5 \/ i = 6 \/ i = 7 \/ i = 8
  OBVIOUS
<1>2. CASE Client8(s, d, type)
  <2>1. /\ PartNamed(s[1], d, 1) /\ PartNamed(s[2], d, 2) /\ PartNamed(s[3], d, 3) /\ PartNamed(s[4], d, 4)
        /\ PartNamed(s[5], d, 5) /\ PartNamed(s[6], d, 6) /\ PartNamed(s[7], d, 7) /\ PartNamed(s[8], d, 8)
    BY <1>2, NamedIs, Places, ActionWords, Zenon DEF Client8, Has8
  <2> QED BY <1>1, <2>1, Zenon
<1>3. CASE Server8(s, d, type)
  <2>1. /\ PartNamed(s[1], d, 1) /\ PartNamed(s[2], d, 2) /\ PartNamed(s[3], d, 3) /\ PartNamed(s[4], d, 4)
        /\ PartNamed(s[5], d, 5) /\ PartNamed(s[6], d, 6) /\ PartNamed(s[7], d, 7) /\ PartNamed(s[8], d, 8)
    BY <1>3, NamedIs, Places, ActionWords, Zenon DEF Server8, Has8
  <2> QED BY <1>1, <2>1, Zenon
<1> QED BY <1>2, <1>3

\* Equal DDS names match, and only they do.
LEMMA ActionsMatch == ASSUME NEW c, NEW s, NEW d \in Seq(AnyToken), NEW e \in Seq(AnyToken), NEW type,
                             Client8(c, d, type), Server8(s, e, type)
  PROVE Match(c, s) <=> d = e
<1>1. ASSUME d = e PROVE Match(c, s)
  <2>1. DOMAIN c = 1 .. 8 /\ DOMAIN s = 1 .. 8 /\ Len(c) = Len(s)
    BY Zenon DEF Client8, Server8, Has8
  <2>2. Opposed(c, s, 8)
    <3>1. /\ s[1] = Opposite(c[1]) /\ s[2] = Opposite(c[2]) /\ s[3] = Opposite(c[3]) /\ s[4] = Opposite(c[4])
          /\ s[5] = Opposite(c[5]) /\ s[6] = Opposite(c[6]) /\ s[7] = Opposite(c[7]) /\ s[8] = Opposite(c[8])
      <4>1. \A t : Reader(t) = Opposite(Writer(t)) /\ Writer(t) = Opposite(Reader(t))
        BY OppositeIs, Zenon
      <4>2. PICK goal, result, feedback : /\ goal = ActionPartType(type, "_SendGoal")
                                          /\ result = ActionPartType(type, "_GetResult")
                                          /\ feedback = ActionPartType(type, "_FeedbackMessage")
        OBVIOUS
      <4>3. PICK t1, t2, t3, t4 : /\ t1 = Request(d, "send_goal", goal) /\ t2 = Reply(d, "send_goal", goal)
                                  /\ t3 = Request(d, "cancel_goal", CancelType) /\ t4 = Reply(d, "cancel_goal", CancelType)
        OBVIOUS
      <4>4. PICK t5, t6, t7, t8 : /\ t5 = Request(d, "get_result", result) /\ t6 = Reply(d, "get_result", result)
                                  /\ t7 = Message(d, "feedback", feedback) /\ t8 = Message(d, "status", StatusType)
        OBVIOUS
      <4>5. /\ c[1] = Writer(t1) /\ c[2] = Reader(t2) /\ c[3] = Writer(t3) /\ c[4] = Reader(t4)
            /\ c[5] = Writer(t5) /\ c[6] = Reader(t6) /\ c[7] = Reader(t7) /\ c[8] = Reader(t8)
        BY <4>2, <4>3, <4>4, Zenon DEF Client8, Has8
      <4>6. /\ s[1] = Reader(t1) /\ s[2] = Writer(t2) /\ s[3] = Reader(t3) /\ s[4] = Writer(t4)
            /\ s[5] = Reader(t5) /\ s[6] = Writer(t6) /\ s[7] = Writer(t7) /\ s[8] = Writer(t8)
        BY <1>1, <4>2, <4>3, <4>4, Zenon DEF Server8, Has8
      <4> QED BY <4>1, <4>5, <4>6, Zenon
    <3>2. \A i \in 1 .. 8 : i = 1 \/ i = 2 \/ i = 3 \/ i = 4 \/ i = 5 \/ i = 6 \/ i = 7 \/ i = 8
      OBVIOUS
    <3> QED BY <3>1, <3>2, Zenon DEF Opposed
  <2>3. Apart(c, 8)
    <3> SUFFICES ASSUME NEW i \in 1 .. 8, NEW j \in 1 .. 8, c[i].topic.name = c[j].topic.name PROVE i = j
      BY DEF Apart
    <3>0. PartNamed(c[i], d, i) /\ PartNamed(c[j], d, j)
      BY EachNamed, Zenon
    <3>1. PICK k \in AnyToken, p \in AnyToken : c[i].topic.name.path = ActionPath(d, k, p) /\ i = Place8(k, p)
      BY <3>0, Zenon DEF PartNamed
    <3>2. PICK l \in AnyToken, q \in AnyToken : c[j].topic.name.path = ActionPath(d, l, q) /\ j = Place8(l, q)
      BY <3>0, Zenon DEF PartNamed
    <3>3. SamePath(d, k, p, d, l, q)
      BY <3>1, <3>2, Zenon DEF SamePath
    <3>4. k = l /\ p = q
      BY <3>3, PathInjective, Zenon
    <3> QED BY <3>1, <3>2, <3>4, Zenon
  <2>4. 8 \in Nat
    OBVIOUS
  <2> QED BY <2>1, <2>2, <2>3, <2>4, Matched, Zenon
<1>2. ASSUME Match(c, s) PROVE d = e
  <2>1. DOMAIN c = 1 .. 8 /\ DOMAIN s = 1 .. 8 /\ 1 \in 1 .. 8
    <3>1. 1 \in 1 .. 8
      OBVIOUS
    <3> QED BY <3>1, Zenon DEF Client8, Server8, Has8
  <2>2. Opposite(c[1]) \in Range(s)
    BY <1>2, <2>1, Zenon DEF Match
  <2>3. PICK j \in 1 .. 8 : s[j] = Opposite(c[1])
    BY <2>1, <2>2 DEF Range
  <2>4. PICK t : t = Request(d, "send_goal", ActionPartType(type, "_SendGoal")) /\ c[1] = Writer(t)
    BY Zenon DEF Client8, Has8
  <2>5. s[j].topic = t
    BY <2>3, <2>4, OppositeIs, Zenon
  <2>6. t.name.path = ActionPath(d, "rq", "send_goal")
    BY <2>4, PartTopicName, Zenon DEF Request
  <2>7. PICK l \in AnyToken, q \in AnyToken : s[j].topic.name.path = ActionPath(e, l, q)
    <3>1. PartNamed(s[j], e, j)
      BY EachNamed, Zenon
    <3> QED BY <3>1, Zenon DEF PartNamed
  <2>8. SamePath(d, "rq", "send_goal", e, l, q)
    BY <2>5, <2>6, <2>7, Zenon DEF SamePath
  <2> QED BY <2>8, ActionWords, PathInjective, Zenon
<1> QED BY <1>1, <1>2

-----------------------------------------------------------------------------
(* Single topics, and the services of parameters.                          *)

\* Two paths of a kind and the tokens of a name are the same.
SameText(k, u, l, v) == <<k>> \o u = <<l>> \o v

\* Such a path tells the tokens of the name.
LEMMA KindAndRest == ASSUME NEW k \in AnyToken, NEW l \in AnyToken, NEW u \in Seq(AnyToken), NEW v \in Seq(AnyToken),
                            SameText(k, u, l, v)
  PROVE k = l /\ u = v
<1>1. (<<k>> \o u)[1] = k /\ Tail(<<k>> \o u) = u
  BY FirstAndRest, Zenon
<1>2. (<<l>> \o v)[1] = l /\ Tail(<<l>> \o v) = v
  BY FirstAndRest, Zenon
<1> QED BY <1>1, <1>2, Zenon DEF SameText

\* A raw subscription matches a publisher exactly when their DDS tokens are the same.
TopicMatch(m, a, n, b, type) ==
  Match(CreateRawSubscription(a, m, type), CreatePublisher(b, n, type)) <=> DdsTokens(m, a) = DdsTokens(n, b)

\* TopicMatch holds of any two names in any two nodes.
LEMMA TopicsMatch == ASSUME NEW m \in NameSet, NEW n \in NameSet, NEW a, NEW b, NodeOk(a), NodeOk(b), NEW type
  PROVE TopicMatch(m, a, n, b, type)
<1> SUFFICES Match(CreateRawSubscription(a, m, type), CreatePublisher(b, n, type)) <=> DdsTokens(m, a) = DdsTokens(n, b)
  BY Zenon DEF TopicMatch
<1>0. NameOk(m) /\ NameOk(n)
  BY NameSetOk, Zenon
<1>1. PICK d \in Seq(AnyToken) : d = DdsTokens(m, a)
  BY <1>0, ActionWords, DdsPath, Zenon
<1>2. PICK e \in Seq(AnyToken) : e = DdsTokens(n, b)
  BY <1>0, ActionWords, DdsPath, Zenon
<1>3. PICK t, u : t = CreateTopic(a, m, type) /\ u = CreateTopic(b, n, type)
  OBVIOUS
<1>4. PICK c, s : c = <<Reader(t)>> /\ s = <<Writer(u)>>
  OBVIOUS
<1>5. CreateRawSubscription(a, m, type) = c /\ CreatePublisher(b, n, type) = s
  BY <1>3, <1>4, Zenon DEF CreateRawSubscription, CreateSubscription, CreatePublisher
<1>6. t = Topic([path |-> <<"rt">> \o d, suffix |-> ""], DdsMsgType(type))
  <2>1. ToDdsName(m, "rt", a, "") = [path |-> <<"rt">> \o DdsTokens(m, a), suffix |-> ""]
    BY <1>0, ActionWords, DdsPath, Zenon
  <2> QED BY <1>1, <1>3, <2>1, Zenon DEF CreateTopic
<1>7. u = Topic([path |-> <<"rt">> \o e, suffix |-> ""], DdsMsgType(type))
  <2>1. ToDdsName(n, "rt", b, "") = [path |-> <<"rt">> \o DdsTokens(n, b), suffix |-> ""]
    BY <1>0, ActionWords, DdsPath, Zenon
  <2> QED BY <1>2, <1>3, <2>1, Zenon DEF CreateTopic
<1>8. t = u <=> d = e
  <2>1. ASSUME t = u PROVE d = e
    <3>1. \A p, x : Topic([path |-> p, suffix |-> ""], x).name.path = p
      BY DEF Topic
    <3>3. t.name.path = <<"rt">> \o d
      BY <1>6, <3>1, Zenon
    <3>4. u.name.path = <<"rt">> \o e
      BY <1>7, <3>1, Zenon
    <3>2. SameText("rt", d, "rt", e)
      BY <2>1, <3>3, <3>4, Zenon DEF SameText
    <3> QED BY <3>2, KindAndRest, ActionWords, Zenon
  <2> QED BY <1>6, <1>7, <2>1, Zenon
<1>9. DOMAIN c = 1 .. 1 /\ DOMAIN s = 1 .. 1 /\ Len(c) = Len(s) /\ c[1] = Reader(t) /\ s[1] = Writer(u) /\ 1 \in 1 .. 1
  BY <1>4
<1>10. \A i \in 1 .. 1 : i = 1
  OBVIOUS
<1>11. ASSUME t = u PROVE Match(c, s)
  <2>1. Opposed(c, s, 1)
    BY <1>9, <1>10, <1>11, OppositeIs, Zenon DEF Opposed
  <2>2. Apart(c, 1)
    BY <1>10, Zenon DEF Apart
  <2>3. 1 \in Nat
    OBVIOUS
  <2> QED BY <1>9, <2>1, <2>2, <2>3, Matched, Zenon
<1>12. ASSUME Match(c, s) PROVE t = u
  <2>1. Opposite(c[1]) \in Range(s)
    BY <1>9, <1>12, Zenon DEF Match
  <2>2. PICK j \in 1 .. 1 : s[j] = Opposite(c[1])
    BY <1>9, <2>1 DEF Range
  <2>3. Writer(u) = Writer(t)
    BY <1>9, <1>10, <2>2, OppositeIs, Zenon
  <2>4. Writer(u).topic = u /\ Writer(t).topic = t
    BY OppositeIs, Zenon
  <2> QED BY <2>3, <2>4, Zenon
<1> QED BY <1>1, <1>2, <1>5, <1>8, <1>11, <1>12, Zenon

\* Six pairs in order.
Has12(s, x, y) ==
  /\ Len(s) = 12 /\ DOMAIN s = 1 .. 12
  /\ s[1] = x[1] /\ s[2] = y[1] /\ s[3] = x[2] /\ s[4] = y[2] /\ s[5] = x[3] /\ s[6] = y[3]
  /\ s[7] = x[4] /\ s[8] = y[4] /\ s[9] = x[5] /\ s[10] = y[5] /\ s[11] = x[6] /\ s[12] = y[6]

\* Six pairs make a list of twelve.
LEMMA Join12 == ASSUME NEW each, NEW x, NEW y, \A i \in 1 .. 6 : each[i] = <<x[i], y[i]>>
  PROVE Has12(InOrder(each), x, y)
<1>0. 1 \in 1 .. 6 /\ 2 \in 1 .. 6 /\ 3 \in 1 .. 6 /\ 4 \in 1 .. 6 /\ 5 \in 1 .. 6 /\ 6 \in 1 .. 6
  OBVIOUS
<1>1. PICK T : T = {x[i] : i \in 1 .. 6} \cup {y[i] : i \in 1 .. 6}
  OBVIOUS
<1>2. \A i \in 1 .. 6 : x[i] \in T /\ y[i] \in T
  BY <1>1, Zenon
<1>3. PICK p : p = each[1]
  OBVIOUS
<1>4. p \in Seq(T) /\ Len(p) = 2 /\ p[1] = x[1] /\ p[2] = y[1]
  <2>1. \A u, v \in T : <<u, v>> \in Seq(T)
    OBVIOUS
  <2>2. p = <<x[1], y[1]>>
    BY <1>0, <1>3, Zenon
  <2>3. p \in Seq(T)
    BY <1>0, <1>2, <2>1, <2>2, Zenon
  <2> QED BY <2>2, <2>3
<1>5. PICK q : q = p \o each[2]
  OBVIOUS
<1>6. q \in Seq(T) /\ Len(q) = 4 /\ q[1] = x[1] /\ q[2] = y[1] /\ q[3] = x[2] /\ q[4] = y[2]
  <2>1. 2 \in Nat /\ 2 + 1 = 3 /\ 2 + 2 = 4 /\ 1 \in 1 .. 2 /\ 2 \in 1 .. 2
    OBVIOUS
  <2>2. More2(T, p \o <<x[2], y[2]>>, p, x[2], y[2], 2)
    BY <1>0, <1>2, <1>4, <2>1, TwoMore, Zenon
  <2>3. each[2] = <<x[2], y[2]>>
    BY <1>0, Zenon
  <2> QED BY <1>4, <1>5, <2>1, <2>2, <2>3, Zenon DEF More2
<1>7. PICK r : r = q \o each[3]
  OBVIOUS
<1>8. /\ r \in Seq(T) /\ Len(r) = 6 /\ r[1] = x[1] /\ r[2] = y[1] /\ r[3] = x[2] /\ r[4] = y[2]
      /\ r[5] = x[3] /\ r[6] = y[3]
  <2>1. 4 \in Nat /\ 4 + 1 = 5 /\ 4 + 2 = 6 /\ 1 \in 1 .. 4 /\ 2 \in 1 .. 4 /\ 3 \in 1 .. 4 /\ 4 \in 1 .. 4
    OBVIOUS
  <2>2. More2(T, q \o <<x[3], y[3]>>, q, x[3], y[3], 4)
    BY <1>0, <1>2, <1>6, <2>1, TwoMore, Zenon
  <2>3. each[3] = <<x[3], y[3]>>
    BY <1>0, Zenon
  <2> QED BY <1>6, <1>7, <2>1, <2>2, <2>3, Zenon DEF More2
<1>9. PICK s : s = r \o each[4]
  OBVIOUS
<1>10. /\ s \in Seq(T) /\ Len(s) = 8 /\ s[1] = x[1] /\ s[2] = y[1] /\ s[3] = x[2] /\ s[4] = y[2]
       /\ s[5] = x[3] /\ s[6] = y[3] /\ s[7] = x[4] /\ s[8] = y[4]
  <2>1. /\ 6 \in Nat /\ 6 + 1 = 7 /\ 6 + 2 = 8 /\ 1 \in 1 .. 6 /\ 2 \in 1 .. 6 /\ 3 \in 1 .. 6
        /\ 4 \in 1 .. 6 /\ 5 \in 1 .. 6 /\ 6 \in 1 .. 6
    OBVIOUS
  <2>2. More2(T, r \o <<x[4], y[4]>>, r, x[4], y[4], 6)
    BY <1>0, <1>2, <1>8, <2>1, TwoMore, Zenon
  <2>3. each[4] = <<x[4], y[4]>>
    BY <1>0, Zenon
  <2> QED BY <1>8, <1>9, <2>1, <2>2, <2>3, Zenon DEF More2
<1>11. PICK t : t = s \o each[5]
  OBVIOUS
<1>12. /\ t \in Seq(T) /\ Len(t) = 10 /\ t[1] = x[1] /\ t[2] = y[1] /\ t[3] = x[2] /\ t[4] = y[2]
       /\ t[5] = x[3] /\ t[6] = y[3] /\ t[7] = x[4] /\ t[8] = y[4] /\ t[9] = x[5] /\ t[10] = y[5]
  <2>1. /\ 8 \in Nat /\ 8 + 1 = 9 /\ 8 + 2 = 10 /\ 1 \in 1 .. 8 /\ 2 \in 1 .. 8 /\ 3 \in 1 .. 8
        /\ 4 \in 1 .. 8 /\ 5 \in 1 .. 8 /\ 6 \in 1 .. 8 /\ 7 \in 1 .. 8 /\ 8 \in 1 .. 8
    OBVIOUS
  <2>2. More2(T, s \o <<x[5], y[5]>>, s, x[5], y[5], 8)
    BY <1>0, <1>2, <1>10, <2>1, TwoMore, Zenon
  <2>3. each[5] = <<x[5], y[5]>>
    BY <1>0, Zenon
  <2> QED BY <1>10, <1>11, <2>1, <2>2, <2>3, Zenon DEF More2
<1>13. PICK u : u = t \o each[6]
  OBVIOUS
<1>14. /\ u \in Seq(T) /\ Len(u) = 12 /\ u[1] = x[1] /\ u[2] = y[1] /\ u[3] = x[2] /\ u[4] = y[2]
       /\ u[5] = x[3] /\ u[6] = y[3] /\ u[7] = x[4] /\ u[8] = y[4] /\ u[9] = x[5] /\ u[10] = y[5]
       /\ u[11] = x[6] /\ u[12] = y[6]
  <2>1. /\ 10 \in Nat /\ 10 + 1 = 11 /\ 10 + 2 = 12 /\ 1 \in 1 .. 10 /\ 2 \in 1 .. 10 /\ 3 \in 1 .. 10
        /\ 4 \in 1 .. 10 /\ 5 \in 1 .. 10 /\ 6 \in 1 .. 10 /\ 7 \in 1 .. 10 /\ 8 \in 1 .. 10
        /\ 9 \in 1 .. 10 /\ 10 \in 1 .. 10
    OBVIOUS
  <2>2. More2(T, t \o <<x[6], y[6]>>, t, x[6], y[6], 10)
    BY <1>0, <1>2, <1>12, <2>1, TwoMore, Zenon
  <2>3. each[6] = <<x[6], y[6]>>
    BY <1>0, Zenon
  <2> QED BY <1>12, <1>13, <2>1, <2>2, <2>3, ZenonT(40) DEF More2
<1>15. DOMAIN u = 1 .. 12
  BY <1>14, LenProperties, Zenon
<1>16. InOrder(each) = u
  BY <1>3, <1>5, <1>7, <1>9, <1>11, <1>13, Zenon DEF InOrder
<1> QED BY <1>14, <1>15, <1>16, Zenon DEF Has12

\* The path of the DDS topic of a parameter service.
ServicePath(d, k, p) == <<k>> \o (d \o <<p>>)
\* Two services of a node have the same path.
SameServicePath(d, k, p, l, q) == ServicePath(d, k, p) = ServicePath(d, l, q)

\* The path tells the kind of topic and the service.
LEMMA ServicePathInjective == ASSUME NEW d \in Seq(AnyToken), NEW k \in AnyToken, NEW l \in AnyToken,
                                     NEW p \in AnyToken, NEW q \in AnyToken, SameServicePath(d, k, p, l, q)
  PROVE k = l /\ p = q
<1>1. PICK u \in Seq(AnyToken) : u = <<p>>
  BY One, Zenon
<1>2. PICK v \in Seq(AnyToken) : v = <<q>>
  BY One, Zenon
<1>3. Len(u) = Len(v) /\ u[1] = p /\ v[1] = q
  BY <1>1, <1>2, OneIs, Zenon
<1>4. PICK du \in Seq(AnyToken) : du = d \o u
  BY ConcatProperties, Zenon
<1>5. PICK dv \in Seq(AnyToken) : dv = d \o v
  BY ConcatProperties, Zenon
<1>6. SameText(k, du, l, dv)
  BY <1>1, <1>2, <1>4, <1>5, Zenon DEF SameServicePath, ServicePath, SameText
<1>7. k = l /\ du = dv
  BY <1>6, KindAndRest, Zenon
<1>8. d \o u = d \o v
  BY <1>4, <1>5, <1>7, Zenon
<1>9. u = v
  BY <1>3, <1>8, SameParts, Zenon
<1> QED BY <1>3, <1>7, <1>9, Zenon

\* The six services, by their place.
ServiceName(i) == ParameterServices[i][1]
\* The place of a service,
Place6(p) == IF p = "get_parameters" THEN 1 ELSE IF p = "get_parameter_types" THEN 2
             ELSE IF p = "set_parameters" THEN 3 ELSE IF p = "set_parameters_atomically" THEN 4
             ELSE IF p = "list_parameters" THEN 5 ELSE 6
\* and that of its topics.
Place12(k, p) == 2 * Place6(p) - (IF k = "rq" THEN 1 ELSE 0)

\* There are six services, in this order.
LEMMA SixServices == /\ DOMAIN ParameterServices = 1 .. 6
                     /\ ServiceName(1) = "get_parameters" /\ ServiceName(2) = "get_parameter_types"
                     /\ ServiceName(3) = "set_parameters" /\ ServiceName(4) = "set_parameters_atomically"
                     /\ ServiceName(5) = "list_parameters" /\ ServiceName(6) = "describe_parameters"
<1>1. DOMAIN ParameterServices = 1 .. 6
  BY DEF ParameterServices
<1>2. /\ ServiceName(1) = "get_parameters" /\ ServiceName(2) = "get_parameter_types"
      /\ ServiceName(3) = "set_parameters" /\ ServiceName(4) = "set_parameters_atomically"
      /\ ServiceName(5) = "list_parameters" /\ ServiceName(6) = "describe_parameters"
  BY DEF ParameterServices, ServiceName
<1> QED BY <1>1, <1>2

\* Their names are good tokens, at their places.
LEMMA ServicePlaces == ASSUME NEW i \in 1 .. 6
  PROVE /\ ServiceName(i) \in GoodTokens /\ ServiceName(i) \in AnyToken
        /\ Place12("rq", ServiceName(i)) = 2 * i - 1 /\ Place12("rr", ServiceName(i)) = 2 * i
<1>1. i = 1 \/ i = 2 \/ i = 3 \/ i = 4 \/ i = 5 \/ i = 6
  OBVIOUS
<1>2. ServiceName(i) \in GoodTokens /\ ServiceName(i) \in AnyToken
  BY <1>1, SixServices, Crate, TokenSets, Zenon
<1>3. Place6(ServiceName(i)) = i
  <2>1. /\ Place6("get_parameters") = 1 /\ Place6("get_parameter_types") = 2 /\ Place6("set_parameters") = 3
        /\ Place6("set_parameters_atomically") = 4 /\ Place6("list_parameters") = 5
        /\ Place6("describe_parameters") = 6
    BY DEF Place6
  <2> QED BY <1>1, <2>1, SixServices, Zenon
<1>4. "rq" # "rr"
  OBVIOUS
<1>5. Place12("rq", ServiceName(i)) = 2 * i - 1 /\ Place12("rr", ServiceName(i)) = 2 * i - 0
  BY <1>3, <1>4, Zenon DEF Place12
<1>6. 2 * i - 0 = 2 * i
  OBVIOUS
<1> QED BY <1>2, <1>5, <1>6, Zenon

\* A parameter service of a node whose name is a Name.
LEMMA ServiceOf == ASSUME NEW s \in Seq(AnyToken), Len(s) >= 1, Range(s) \subseteq GoodTokens, NEW i \in 1 .. 6
  PROVE ParameterServiceOf(Empty \o s, i) = [base |-> ServiceName(i), preceeding |-> s, absolute |-> TRUE]
<1>1. s # Empty
  <2>1. 1 \in 1 .. Len(s)
    BY LenProperties
  <2>2. s[1] \in GoodTokens
    BY <2>1, RangeGood, Zenon
  <2> QED BY <2>2, GoodToken, EmptyIs, Zenon
<1>2. NameNew(Empty \o s, <<ServiceName(i)>>) =
        << [base |-> ServiceName(i), preceeding |-> s, absolute |-> TRUE] >>
  BY <1>1, ServicePlaces, NewAbsolute, Zenon
<1>3. \A x : <<x>>[1] = x
  OBVIOUS
<1> QED BY <1>2, <1>3, Zenon DEF ParameterServiceOf, ServiceName

\* The topic of a parameter service.
ServiceTopic(s, k, p, suffix, type) == Topic([path |-> ServicePath(s, k, p), suffix |-> suffix], type)

\* The two topics of a name are those of a parameter service.
ServiceTopics(node, n, type, s, p) ==
  /\ RequestTopic(node, n, type) = ServiceTopic(s, "rq", p, "Request", DdsRequestType(type))
  /\ ReplyTopic(node, n, type) = ServiceTopic(s, "rr", p, "Reply", DdsResponseType(type))
\* The absolute name of a service.
IsService(n, s, p) == n = [base |-> p, preceeding |-> s, absolute |-> TRUE]

\* The topics of a parameter service are the same in whatever node.
LEMMA ServiceTopicIs == ASSUME NEW s \in Seq(AnyToken), NEW p \in AnyToken, NEW node, NodeOk(node), NEW type, NEW n,
                               IsService(n, s, p)
  PROVE ServiceTopics(node, n, type, s, p)
<1>1. n.base = p /\ n.preceeding = s /\ n.absolute = TRUE
  BY DEF IsService
<1>2. NameOk(n) /\ n.absolute /\ PathOf(n) = s \o <<p>>
  BY <1>1, Zenon DEF NameOk, PathOf
<1>3. DdsTokens(n, node) = s \o <<p>>
  BY <1>2, MeaningIs, Zenon DEF DdsTokens, Doubled
<1>4. /\ ToDdsName(n, "rq", node, "Request") = [path |-> <<"rq">> \o DdsTokens(n, node), suffix |-> "Request"]
      /\ ToDdsName(n, "rr", node, "Reply") = [path |-> <<"rr">> \o DdsTokens(n, node), suffix |-> "Reply"]
  BY <1>2, ActionWords, DdsPath, Zenon
<1> QED BY <1>3, <1>4, Zenon DEF RequestTopic, ReplyTopic, ServiceTopic, ServicePath, ServiceTopics

\* An endpoint has the name of the service topic at a place.
ServiceNamed(e, s, i) ==
  \E k \in AnyToken, p \in AnyToken : e.topic.name.path = ServicePath(s, k, p) /\ i = Place12(k, p)

\* The endpoints of a service topic have its name.
LEMMA ServiceTopicName == ASSUME NEW s, NEW k \in AnyToken, NEW p \in AnyToken, NEW suffix, NEW type
  PROVE /\ ServiceNamed(Writer(ServiceTopic(s, k, p, suffix, type)), s, Place12(k, p))
        /\ ServiceNamed(Reader(ServiceTopic(s, k, p, suffix, type)), s, Place12(k, p))
<1>1. PICK path : path = ServicePath(s, k, p)
  OBVIOUS
<1>2. Topic([path |-> path, suffix |-> suffix], type).name.path = path
  BY DEF Topic
<1>3. ServiceTopic(s, k, p, suffix, type).name.path = ServicePath(s, k, p)
  BY <1>1, <1>2, Zenon DEF ServiceTopic
<1> QED BY <1>3, OppositeIs, Zenon DEF ServiceNamed

\* The parameter servers of a node match clients of any other node.
LEMMA ParametersMatch == ASSUME NEW a, NEW b, NodeOk(a), NodeOk(b), NameParse(FullyQualifiedName(b)) # << >>
  PROVE Match(InOrder([i \in DOMAIN ParameterServices |->
                CreateClient(a, ParameterServiceOf(FullyQualifiedName(b), i), ParameterServiceType(i))]),
              CreateParameterServers(b))
<1>1. PICK s \in Seq(AnyToken) : s = Space(b) \o <<b.base>>
  BY NodeFqn, Zenon
<1>2. Len(s) >= 1 /\ FullyQualifiedName(b) = Empty \o s
  BY <1>1, NodeFqn, Zenon
<1>3. Range(s) \subseteq GoodTokens
  BY <1>2, AbsoluteText, Zenon
<1>4. PICK q : q = [i \in 1 .. 6 |-> ServiceTopic(s, "rq", ServiceName(i), "Request", DdsRequestType(ParameterServiceType(i)))]
  OBVIOUS
<1>5. PICK r : r = [i \in 1 .. 6 |-> ServiceTopic(s, "rr", ServiceName(i), "Reply", DdsResponseType(ParameterServiceType(i)))]
  OBVIOUS
<1>6. \A node : NodeOk(node) => \A i \in 1 .. 6 :
        /\ RequestTopic(node, ParameterServiceOf(FullyQualifiedName(b), i), ParameterServiceType(i)) = q[i]
        /\ ReplyTopic(node, ParameterServiceOf(FullyQualifiedName(b), i), ParameterServiceType(i)) = r[i]
  <2> SUFFICES ASSUME NEW node, NodeOk(node), NEW i \in 1 .. 6
               PROVE /\ RequestTopic(node, ParameterServiceOf(FullyQualifiedName(b), i), ParameterServiceType(i)) = q[i]
                     /\ ReplyTopic(node, ParameterServiceOf(FullyQualifiedName(b), i), ParameterServiceType(i)) = r[i]
    OBVIOUS
  <2>1. PICK n : n = ParameterServiceOf(FullyQualifiedName(b), i)
    OBVIOUS
  <2>2. n = [base |-> ServiceName(i), preceeding |-> s, absolute |-> TRUE]
    BY <1>2, <1>3, <2>1, ServiceOf, Zenon
  <2>3. PICK t, p : t = ParameterServiceType(i) /\ p = ServiceName(i) /\ p \in AnyToken
    BY ServicePlaces, Zenon
  <2>4. /\ RequestTopic(node, n, t) = ServiceTopic(s, "rq", p, "Request", DdsRequestType(t))
        /\ ReplyTopic(node, n, t) = ServiceTopic(s, "rr", p, "Reply", DdsResponseType(t))
    <3>1. IsService(n, s, p)
      BY <2>2, <2>3, Zenon DEF IsService
    <3>2. ServiceTopics(node, n, t, s, p)
      BY <2>3, <3>1, ServiceTopicIs, Zenon
    <3> QED BY <3>2, Zenon DEF ServiceTopics
  <2>5. q[i] = ServiceTopic(s, "rq", p, "Request", DdsRequestType(t))
    BY <1>4, <2>3, Zenon
  <2>6. r[i] = ServiceTopic(s, "rr", p, "Reply", DdsResponseType(t))
    BY <1>5, <2>3, Zenon
  <2> QED BY <2>1, <2>3, <2>4, <2>5, <2>6, Zenon
<1>7. PICK cx, cy, sx, sy : /\ cx = [i \in 1 .. 6 |-> Writer(q[i])] /\ cy = [i \in 1 .. 6 |-> Reader(r[i])]
                            /\ sx = [i \in 1 .. 6 |-> Reader(q[i])] /\ sy = [i \in 1 .. 6 |-> Writer(r[i])]
  OBVIOUS
<1>8. \A i \in 1 .. 6 : cx[i] = Writer(q[i]) /\ cy[i] = Reader(r[i]) /\ sx[i] = Reader(q[i]) /\ sy[i] = Writer(r[i])
  BY <1>7, Zenon
<1>9. PICK c : c = InOrder([i \in DOMAIN ParameterServices |->
                CreateClient(a, ParameterServiceOf(FullyQualifiedName(b), i), ParameterServiceType(i))])
  OBVIOUS
<1>10. PICK v : v = CreateParameterServers(b)
  OBVIOUS
<1>11. Has12(c, cx, cy)
  <2>1. PICK each : each = [i \in DOMAIN ParameterServices |->
                CreateClient(a, ParameterServiceOf(FullyQualifiedName(b), i), ParameterServiceType(i))]
    OBVIOUS
  <2>2. \A i \in 1 .. 6 : each[i] = <<cx[i], cy[i]>>
    <3> SUFFICES ASSUME NEW i \in 1 .. 6 PROVE each[i] = <<cx[i], cy[i]>>
      OBVIOUS
    <3>1. each[i] = CreateClient(a, ParameterServiceOf(FullyQualifiedName(b), i), ParameterServiceType(i))
      BY <2>1, SixServices, Zenon
    <3>2. each[i] = <<Writer(q[i]), Reader(r[i])>>
      BY <1>6, <3>1, Zenon DEF CreateClient
    <3> QED BY <1>8, <3>2, Zenon
  <2> QED BY <1>9, <2>1, <2>2, Join12, Zenon
<1>12. Has12(v, sx, sy)
  <2>1. PICK each : each = [i \in DOMAIN ParameterServices |->
                CreateServer(b, ParameterServiceOf(FullyQualifiedName(b), i), ParameterServiceType(i))]
    OBVIOUS
  <2>2. \A i \in 1 .. 6 : each[i] = <<sx[i], sy[i]>>
    <3> SUFFICES ASSUME NEW i \in 1 .. 6 PROVE each[i] = <<sx[i], sy[i]>>
      OBVIOUS
    <3>1. each[i] = CreateServer(b, ParameterServiceOf(FullyQualifiedName(b), i), ParameterServiceType(i))
      BY <2>1, SixServices, Zenon
    <3>2. each[i] = <<Reader(q[i]), Writer(r[i])>>
      BY <1>6, <3>1, Zenon DEF CreateServer
    <3> QED BY <1>8, <3>2, Zenon
  <2>3. v = InOrder(each)
    BY <1>10, <2>1, Zenon DEF CreateParameterServers
  <2> QED BY <2>2, <2>3, Join12, Zenon
<1>13. DOMAIN c = 1 .. 12 /\ DOMAIN v = 1 .. 12 /\ Len(c) = Len(v) /\ 12 \in Nat
  <2>1. 12 \in Nat
    OBVIOUS
  <2> QED BY <1>11, <1>12, <2>1, Zenon DEF Has12
<1>14. \A i \in 1 .. 12 : \/ i = 1 \/ i = 2 \/ i = 3 \/ i = 4 \/ i = 5 \/ i = 6
                          \/ i = 7 \/ i = 8 \/ i = 9 \/ i = 10 \/ i = 11 \/ i = 12
  OBVIOUS
<1>15. 1 \in 1 .. 6 /\ 2 \in 1 .. 6 /\ 3 \in 1 .. 6 /\ 4 \in 1 .. 6 /\ 5 \in 1 .. 6 /\ 6 \in 1 .. 6
  OBVIOUS
<1>16. Opposed(c, v, 12)
  <2>1. \A i \in 1 .. 6 : sx[i] = Opposite(cx[i]) /\ sy[i] = Opposite(cy[i])
    <3>1. \A t : Reader(t) = Opposite(Writer(t)) /\ Writer(t) = Opposite(Reader(t))
      BY OppositeIs, Zenon
    <3> QED BY <1>8, <3>1, Zenon
  <2>2. /\ v[1] = Opposite(c[1]) /\ v[2] = Opposite(c[2]) /\ v[3] = Opposite(c[3]) /\ v[4] = Opposite(c[4])
        /\ v[5] = Opposite(c[5]) /\ v[6] = Opposite(c[6]) /\ v[7] = Opposite(c[7]) /\ v[8] = Opposite(c[8])
        /\ v[9] = Opposite(c[9]) /\ v[10] = Opposite(c[10]) /\ v[11] = Opposite(c[11]) /\ v[12] = Opposite(c[12])
    BY <1>11, <1>12, <1>15, <2>1, ZenonT(40) DEF Has12
  <2> QED BY <1>14, <2>2, ZenonT(40) DEF Opposed
<1>17. \A i \in 1 .. 12 : ServiceNamed(c[i], s, i)
  <2>1. \A i \in 1 .. 6 : ServiceNamed(cx[i], s, 2 * i - 1) /\ ServiceNamed(cy[i], s, 2 * i)
    <3> SUFFICES ASSUME NEW i \in 1 .. 6 PROVE ServiceNamed(cx[i], s, 2 * i - 1) /\ ServiceNamed(cy[i], s, 2 * i)
      OBVIOUS
    <3>1. PICK p \in AnyToken : p = ServiceName(i)
      BY ServicePlaces, Zenon
    <3>2. Place12("rq", p) = 2 * i - 1 /\ Place12("rr", p) = 2 * i
      BY <3>1, ServicePlaces, Zenon
    <3>3. cx[i] = Writer(ServiceTopic(s, "rq", p, "Request", DdsRequestType(ParameterServiceType(i))))
      BY <1>4, <1>8, <3>1, Zenon
    <3>4. cy[i] = Reader(ServiceTopic(s, "rr", p, "Reply", DdsResponseType(ParameterServiceType(i))))
      BY <1>5, <1>8, <3>1, Zenon
    <3>5. ServiceNamed(cx[i], s, Place12("rq", p))
      BY <3>3, ServiceTopicName, ActionWords, Zenon
    <3>6. ServiceNamed(cy[i], s, Place12("rr", p))
      BY <3>4, ServiceTopicName, ActionWords, Zenon
    <3> QED BY <3>2, <3>5, <3>6, Zenon
  <2>2. /\ 2 * 1 - 1 = 1 /\ 2 * 1 = 2 /\ 2 * 2 - 1 = 3 /\ 2 * 2 = 4 /\ 2 * 3 - 1 = 5 /\ 2 * 3 = 6
        /\ 2 * 4 - 1 = 7 /\ 2 * 4 = 8 /\ 2 * 5 - 1 = 9 /\ 2 * 5 = 10 /\ 2 * 6 - 1 = 11 /\ 2 * 6 = 12
    OBVIOUS
  <2>3. /\ ServiceNamed(cx[1], s, 1) /\ ServiceNamed(cy[1], s, 2) /\ ServiceNamed(cx[2], s, 3) /\ ServiceNamed(cy[2], s, 4)
        /\ ServiceNamed(cx[3], s, 5) /\ ServiceNamed(cy[3], s, 6) /\ ServiceNamed(cx[4], s, 7) /\ ServiceNamed(cy[4], s, 8)
        /\ ServiceNamed(cx[5], s, 9) /\ ServiceNamed(cy[5], s, 10) /\ ServiceNamed(cx[6], s, 11) /\ ServiceNamed(cy[6], s, 12)
    BY <1>15, <2>1, <2>2, Zenon
  <2>4. /\ ServiceNamed(c[1], s, 1) /\ ServiceNamed(c[2], s, 2) /\ ServiceNamed(c[3], s, 3) /\ ServiceNamed(c[4], s, 4)
        /\ ServiceNamed(c[5], s, 5) /\ ServiceNamed(c[6], s, 6) /\ ServiceNamed(c[7], s, 7) /\ ServiceNamed(c[8], s, 8)
        /\ ServiceNamed(c[9], s, 9) /\ ServiceNamed(c[10], s, 10) /\ ServiceNamed(c[11], s, 11) /\ ServiceNamed(c[12], s, 12)
    BY <1>11, <2>3, Zenon DEF Has12
  <2> QED BY <1>14, <2>4, Zenon
<1>18. Apart(c, 12)
  <2> SUFFICES ASSUME NEW i \in 1 .. 12, NEW j \in 1 .. 12, c[i].topic.name = c[j].topic.name PROVE i = j
    BY DEF Apart
  <2>0. ServiceNamed(c[i], s, i) /\ ServiceNamed(c[j], s, j)
    BY <1>17, Zenon
  <2>1. PICK k \in AnyToken, p \in AnyToken : c[i].topic.name.path = ServicePath(s, k, p) /\ i = Place12(k, p)
    BY <2>0, Zenon DEF ServiceNamed
  <2>2. PICK l \in AnyToken, u \in AnyToken : c[j].topic.name.path = ServicePath(s, l, u) /\ j = Place12(l, u)
    BY <2>0, Zenon DEF ServiceNamed
  <2>3. SameServicePath(s, k, p, l, u)
    BY <2>1, <2>2, Zenon DEF SameServicePath
  <2>4. k = l /\ p = u
    BY <2>3, ServicePathInjective, Zenon
  <2> QED BY <2>1, <2>2, <2>4, Zenon
<1>19. Match(c, v)
  BY <1>13, <1>16, <1>18, Matched, Zenon
<1> QED BY <1>9, <1>10, <1>19, Zenon

\* An action client and an action server, typed or raw, in any two nodes match end to
\* end exactly when their names mean the same and are spelt alike; so do a topic's
\* subscription and publisher; and clients of a node's parameter services match its
\* servers (node.rs, context.rs).
THEOREM AllEndpointsMatch == ASSUME NEW a, NEW b, NodeOk(a), NodeOk(b), NEW m \in NameSet, NEW n \in NameSet,
                                  NameParse(FullyQualifiedName(a)) # << >>, NameParse(FullyQualifiedName(b)) # << >>
  PROVE EndpointsMatch(a, m, b, n)
<1>1. \A node : NodeOk(node) /\ NameParse(FullyQualifiedName(node)) # << >> => Range(Space(node)) \subseteq GoodTokens
  <2> SUFFICES ASSUME NEW node, NodeOk(node), NameParse(FullyQualifiedName(node)) # << >>
               PROVE Range(Space(node)) \subseteq GoodTokens
    OBVIOUS
  <2>1. PICK s \in Seq(AnyToken) : s = Space(node) \o <<node.base>>
    BY NodeFqn, Zenon
  <2>2. Len(s) >= 1 /\ FullyQualifiedName(node) = Empty \o s
    BY <2>1, NodeFqn, Zenon
  <2>3. Range(s) \subseteq GoodTokens
    BY <2>2, AbsoluteText, Zenon
  <2> QED BY <2>1, <2>3, NodeFqn, Zenon
<1>2. PICK type : type = [package |-> "pkg", name |-> "Move"]
  OBVIOUS
<1>3. PICK c, s, w : /\ c = CreateActionClient(a, m, type) /\ s = CreateActionServer(b, n, type)
                     /\ w = CreateRawActionServer(b, n, type)
  OBVIOUS
<1>4. NameOk(m) /\ NameOk(n)
  BY NameSetOk, Zenon
<1>5. PICK d \in Seq(AnyToken) : d = DdsTokens(m, a)
  BY <1>4, ActionWords, DdsPath, Zenon
<1>6. PICK e \in Seq(AnyToken) : e = DdsTokens(n, b)
  BY <1>4, ActionWords, DdsPath, Zenon
<1>7. Client8(c, d, type) /\ Server8(s, e, type)
  BY <1>3, <1>5, <1>6, ClientIs, ServerIs, Zenon
<1>8. Match(c, s) <=> d = e
  BY <1>7, ActionsMatch, Zenon
<1>9. (ResolveFqn(m, a) = ResolveFqn(n, b) /\ Doubled(m, a) = Doubled(n, b)) <=> d = e
  <2>1. Range(Space(a)) \subseteq GoodTokens /\ Range(Space(b)) \subseteq GoodTokens
    BY <1>1, Zenon
  <2>2. (ResolveFqn(m, a) = ResolveFqn(n, b) /\ Doubled(m, a) = Doubled(n, b))
          <=> DdsTokens(m, a) = DdsTokens(n, b)
    <3>1. MeanAlike(m, a, n, b)
      BY <2>1, SameMeaning, Zenon
    <3> QED BY <3>1, Zenon DEF MeanAlike
  <2> QED BY <1>5, <1>6, <2>2, Zenon
<1>10. s = w
  BY <1>3, Zenon DEF CreateActionServer, CreateRawActionServer, CreateRawServer, CreateRawPublisher
<1>11. Match(CreateRawSubscription(a, m, StatusType), CreatePublisher(b, n, StatusType)) <=> d = e
  <2>1. Match(CreateRawSubscription(a, m, StatusType), CreatePublisher(b, n, StatusType))
          <=> DdsTokens(m, a) = DdsTokens(n, b)
    <3>1. TopicMatch(m, a, n, b, StatusType)
      BY TopicsMatch, Zenon
    <3> QED BY <3>1, Zenon DEF TopicMatch
  <2> QED BY <1>5, <1>6, <2>1, Zenon
<1>12. Match(InOrder([i \in DOMAIN ParameterServices |->
               CreateClient(a, ParameterServiceOf(FullyQualifiedName(b), i), ParameterServiceType(i))]),
             CreateParameterServers(b))
  BY ParametersMatch, Zenon
<1> QED BY <1>2, <1>3, <1>8, <1>9, <1>10, <1>11, <1>12, Zenon DEF EndpointsMatch

-----------------------------------------------------------------------------
(* Zenoh entities (ZenohEntities).                                         *)

\* A zenoh service client meets the server of the same service.
LEMMA ClientMeets == ASSUME NEW x, NEW h, h = SenderHash(x.type)
  PROVE Meet(Client(x), ServerWithHash(x, h)) /\ Meet(Client(x), Server(x))
<1>1. PICK c, s : c = Client(x) /\ s = ServerWithHash(x, h)
  OBVIOUS
<1>2. s = Server(x)
  BY <1>1, Zenon DEF Server
<1>3. c.name = x.name /\ c.type = x.type /\ c.kind = "ServiceClient" /\ c.data = h
  BY <1>1 DEF Client, Entity
<1>4. s.name = x.name /\ s.type = x.type /\ s.kind = "ServiceServer" /\ s.data = h
  BY <1>1 DEF ServerWithHash, Entity
<1>5. Meet(c, s)
  BY <1>3, <1>4, Zenon DEF Meet
<1> QED BY <1>1, <1>2, <1>5, Zenon

\* A zenoh subscription meets a publisher of the topic, whatever its hash.
LEMMA SubscriptionMeets == ASSUME NEW x, NEW h PROVE Meet(Subscription(x), Publisher(x, h))
<1>1. PICK c, s : c = Subscription(x) /\ s = Publisher(x, h)
  OBVIOUS
<1>2. c.name = x.name /\ c.type = x.type /\ c.kind = "Subscription" /\ c.data = Wildcard
  BY <1>1 DEF Subscription, Entity
<1>3. s.name = x.name /\ s.type = x.type /\ s.kind = "Publisher"
  BY <1>1 DEF Publisher, Entity
<1>4. Meet(c, s)
  BY <1>2, <1>3, Zenon DEF Meet
<1> QED BY <1>1, <1>4, Zenon

\* Five entities meet five, one by one.
LEMMA FiveMeet == ASSUME NEW c1, NEW c2, NEW c3, NEW c4, NEW c5, NEW s1, NEW s2, NEW s3, NEW s4, NEW s5,
                         Meet(c1, s1), Meet(c2, s2), Meet(c3, s3), Meet(c4, s4), Meet(c5, s5)
  PROVE AllMeet(<<c1, c2, c3, c4, c5>>, <<s1, s2, s3, s4, s5>>)
<1>1. PICK c, s : c = <<c1, c2, c3, c4, c5>> /\ s = <<s1, s2, s3, s4, s5>>
  OBVIOUS
<1>2. DOMAIN c = {1, 2, 3, 4, 5} /\ DOMAIN s = {1, 2, 3, 4, 5}
  BY <1>1
<1>3. c[1] = c1 /\ c[2] = c2 /\ c[3] = c3 /\ c[4] = c4 /\ c[5] = c5
  BY <1>1
<1>4. s[1] = s1 /\ s[2] = s2 /\ s[3] = s3 /\ s[4] = s4 /\ s[5] = s5
  BY <1>1
<1>5. AllMeet(c, s)
  BY <1>2, <1>3, <1>4, Zenon DEF AllMeet
<1> QED BY <1>1, <1>5, Zenon

\* A zenoh parameter client meets the parameter server of the node.
LEMMA ParameterEntitiesMeet == ASSUME NEW node PROVE AllMeet(ParameterClientEntities(node), ParameterServerEntities(node))
<1>1. PICK c, s : c = ParameterClientEntities(node) /\ s = ParameterServerEntities(node)
  OBVIOUS
<1>2. DOMAIN c = {1, 2, 3, 4, 5}
  BY <1>1 DEF ParameterClientEntities
<1>3. DOMAIN s = {1, 2, 3, 4, 5, 6, 7}
  BY <1>1 DEF ParameterServerEntities
<1>4. /\ c[1] = Client(ParamService(node, "get_parameters")) /\ c[2] = Client(ParamService(node, "get_parameter_types"))
      /\ c[3] = Client(ParamService(node, "set_parameters")) /\ c[4] = Client(ParamService(node, "list_parameters"))
      /\ c[5] = Client(ParamService(node, "describe_parameters"))
  BY <1>1 DEF ParameterClientEntities
<1>5. /\ s[1] = Server(ParamService(node, "get_parameters")) /\ s[2] = Server(ParamService(node, "get_parameter_types"))
      /\ s[3] = Server(ParamService(node, "set_parameters")) /\ s[5] = Server(ParamService(node, "list_parameters"))
      /\ s[6] = Server(ParamService(node, "describe_parameters"))
  BY <1>1 DEF ParameterServerEntities
<1>6. \A x : Meet(Client(x), Server(x))
  BY ClientMeets, Zenon
<1>7. Meet(c[1], s[1]) /\ Meet(c[2], s[2]) /\ Meet(c[3], s[3]) /\ Meet(c[4], s[5]) /\ Meet(c[5], s[6])
  BY <1>4, <1>5, <1>6, Zenon
<1>8. AllMeet(c, s)
  BY <1>2, <1>3, <1>7, Zenon DEF AllMeet
<1> QED BY <1>1, <1>8, Zenon

\* What reads rosout meets what logs.
LEMMA LogsMeet == AllMeet(ReadRosoutEntities, LoggerEntities)
<1>1. PICK c, s : c = ReadRosoutEntities /\ s = LoggerEntities
  OBVIOUS
<1>2. DOMAIN c = {1} /\ DOMAIN s = {1} /\ c[1] = Subscription(Rosout) /\ s[1] = Publisher(Rosout, SenderHash(Rosout.type))
  BY <1>1 DEF ReadRosoutEntities, LoggerEntities
<1>3. AllMeet(c, s)
  BY <1>2, SubscriptionMeets, Zenon DEF AllMeet
<1> QED BY <1>1, <1>3, Zenon

\* An action client meets an action server, typed or raw with the hashes of its types.
LEMMA ActionEntitiesMeet == ASSUME NEW action
  PROVE /\ AllMeet(ActionClientEntities(action), ActionServerEntities(action))
        /\ \A hash : (\A i \in DOMAIN ActionClientEntities(action) :
                        hash[ActionClientEntities(action)[i].type] = SenderHash(ActionClientEntities(action)[i].type))
             => AllMeet(ActionClientEntities(action), RawActionServerEntities(action, hash))
<1>1. /\ \A x : Meet(Client(x), Server(x)) /\ \A h : Meet(Subscription(x), Publisher(x, h))
      /\ \A x, h : h = SenderHash(x.type) => Meet(Client(x), ServerWithHash(x, h))
  BY ClientMeets, SubscriptionMeets, Zenon
<1>2. AllMeet(ActionClientEntities(action), ActionServerEntities(action))
  BY <1>1, FiveMeet, Zenon DEF ActionClientEntities, ActionServerEntities
<1>3. ASSUME NEW hash, \A i \in DOMAIN ActionClientEntities(action) :
                        hash[ActionClientEntities(action)[i].type] = SenderHash(ActionClientEntities(action)[i].type)
      PROVE AllMeet(ActionClientEntities(action), RawActionServerEntities(action, hash))
  <2>1. PICK c : c = ActionClientEntities(action)
    OBVIOUS
  <2>2. 1 \in DOMAIN c /\ 2 \in DOMAIN c
    BY <2>1 DEF ActionClientEntities
  <2>3. c[1] = Client(SendGoal(action)) /\ c[2] = Client(GetResult(action))
    BY <2>1 DEF ActionClientEntities
  <2>4. \A x : Client(x).type = x.type
    BY DEF Client, Entity
  <2>5. /\ hash[SendGoal(action).type] = SenderHash(SendGoal(action).type)
        /\ hash[GetResult(action).type] = SenderHash(GetResult(action).type)
    BY <1>3, <2>1, <2>2, <2>3, <2>4, Zenon
  <2>6. PICK p, q : p = ServerWithHash(SendGoal(action), hash[SendGoal(action).type])
                    /\ q = ServerWithHash(GetResult(action), hash[GetResult(action).type])
    OBVIOUS
  <2>7. Meet(Client(SendGoal(action)), p) /\ Meet(Client(GetResult(action)), q)
    BY <1>1, <2>5, <2>6, Zenon
  <2> QED BY <1>1, <2>6, <2>7, FiveMeet, Zenon DEF ActionClientEntities, RawActionServerEntities
<1> QED BY <1>2, <1>3, Zenon

-----------------------------------------------------------------------------
(* The descriptions of services that the run hashes.                       *)

\* The referenced types of a description are named, each once.
Described(refs) == \E n : Named(refs, n) /\ Distinct(refs, n)

\* One list is another, permuted.
Permutes(other, refs, p, n) ==
  /\ p \in [1 .. n -> 1 .. n] /\ \A i, j \in 1 .. n : p[i] = p[j] => i = j
  /\ DOMAIN other = 1 .. n /\ \A i \in 1 .. n : other[i] = refs[p[i]]

\* To list referenced types in another order leaves each named once.
LEMMA Reorder == ASSUME NEW refs, NEW n, Named(refs, n), Distinct(refs, n), NEW p, NEW other, Permutes(other, refs, p, n)
  PROVE Described(other)
<1>1. Named(other, n)
  BY DEF Named, Permutes
<1>2. Distinct(other, n)
  BY DEF Distinct, Permutes
<1> QED BY <1>1, <1>2, Zenon DEF Described

\* So do reversing a list and moving its first element to the end.
LEMMA ReorderedDescribed == ASSUME NEW T, NEW refs \in Seq(T), refs # << >>, Described(refs)
  PROVE Described(Reverse(refs)) /\ Described(Tail(refs) \o <<Head(refs)>>)
<1>1. PICK n \in Nat : n = Len(refs) /\ DOMAIN refs = 1 .. n
  BY LenProperties
<1>2. n >= 1
  BY <1>1, EmptySeq
<1>3. Named(refs, n) /\ Distinct(refs, n)
  <2>1. PICK m : Named(refs, m) /\ Distinct(refs, m)
    BY Zenon DEF Described
  <2>2. m \in Nat /\ 1 .. m = 1 .. n
    BY <1>1, <2>1, Zenon DEF Named
  <2>3. m = n
    BY <1>1, <2>2
  <2> QED BY <2>1, <2>3, Zenon
<1>4. Described(Reverse(refs))
  <2>1. PICK p : p = [i \in 1 .. n |-> (n - i) + 1]
    OBVIOUS
  <2>2. p \in [1 .. n -> 1 .. n] /\ \A i, j \in 1 .. n : p[i] = p[j] => i = j
    BY <1>1, <2>1
  <2>3. PICK r : r = Reverse(refs)
    OBVIOUS
  <2>4. DOMAIN r = 1 .. n /\ \A i \in 1 .. n : r[i] = refs[p[i]]
    BY <1>1, <2>1, <2>3, Zenon DEF Reverse
  <2>5. Described(r)
    <3>1. Permutes(r, refs, p, n)
      BY <2>2, <2>4, Zenon DEF Permutes
    <3> QED BY <1>3, <3>1, Reorder, Zenon
  <2> QED BY <2>3, <2>5, Zenon
<1>5. Described(Tail(refs) \o <<Head(refs)>>)
  <2>1. PICK p : p = [i \in 1 .. n |-> IF i < n THEN i + 1 ELSE 1]
    OBVIOUS
  <2>2. p \in [1 .. n -> 1 .. n] /\ \A i, j \in 1 .. n : p[i] = p[j] => i = j
    BY <1>1, <1>2, <2>1
  <2>3. PICK t, h : t = Tail(refs) /\ h = Head(refs)
    OBVIOUS
  <2>4. /\ h \in T /\ t \in Seq(T) /\ Len(t) = n - 1
        /\ \A i \in 1 .. Len(t) : t[i] = refs[i + 1]
    BY <1>1, <2>3, HeadTailProperties, Zenon
  <2>5. h = refs[1]
    BY <1>1, <1>2, <2>3
  <2>6. PICK m \in Nat : m = n - 1 /\ Len(t) = m
    BY <1>1, <1>2, <2>4
  <2>7. More1(T, t \o <<h>>, t, h, m)
    BY <2>4, <2>6, OneMore, Zenon
  <2>8. PICK r : r = t \o <<h>>
    OBVIOUS
  <2>9. r \in Seq(T) /\ Len(r) = m + 1 /\ r[m + 1] = h /\ \A i \in 1 .. m : r[i] = t[i]
    BY <2>7, <2>8, Zenon DEF More1
  <2>10. DOMAIN r = 1 .. n
    <3>1. DOMAIN r = 1 .. Len(r)
      BY <2>9, LenProperties, Zenon
    <3>2. m + 1 = n
      BY <1>1, <2>6
    <3> QED BY <2>9, <3>1, <3>2, Zenon
  <2>11. \A i \in 1 .. n : r[i] = refs[p[i]]
    <3> SUFFICES ASSUME NEW i \in 1 .. n PROVE r[i] = refs[p[i]]
      OBVIOUS
    <3>1. CASE i < n
      <4>1. i \in 1 .. m /\ i \in 1 .. Len(t)
        BY <1>1, <2>6, <3>1
      <4>2. p[i] = i + 1
        BY <2>1, <3>1, Zenon
      <4> QED BY <2>4, <2>9, <4>1, <4>2, Zenon
    <3>2. CASE ~(i < n)
      <4>1. i = m + 1
        BY <1>1, <2>6, <3>2
      <4>2. p[i] = 1
        BY <2>1, <3>2, Zenon
      <4> QED BY <2>5, <2>9, <4>1, <4>2, Zenon
    <3> QED BY <3>1, <3>2, Zenon
  <2>12. Described(r)
    <3>1. Permutes(r, refs, p, n)
      BY <2>2, <2>10, <2>11, Zenon DEF Permutes
    <3> QED BY <1>3, <3>1, Reorder, Zenon
  <2> QED BY <2>3, <2>8, <2>12, Zenon
<1> QED BY <1>4, <1>5, Zenon

\* The descriptions of messages in a service.
MessageTypes == Individuals(2) \cup Individuals(3) \cup Individuals(4) \cup Individuals(5)

\* A description of a message has its name.
LEMMA IndividualNamed == ASSUME NEW n, NEW d \in Individuals(n) PROVE d.type_name = n
<1>1. PICK fields : d = Individual(n, fields)
  BY DEF Individuals
<1> QED BY <1>1 DEF Individual

\* A service refers to three messages, and to one more type at most.
LEMMA ServicesDescribed == ASSUME NEW d \in Services
  PROVE d.refs \in Seq(MessageTypes) /\ d.refs # << >> /\ Described(d.refs)
<1>0. PICK service : service = [name |-> 9, request |-> 3, response |-> 4, event |-> 5]
  OBVIOUS
<1>1. PICK req \in Individuals(3), ev \in Individuals(5), more \in {<< >>} \cup {<<r>> : r \in Individuals(2)} :
        d = ServiceDescription(service, req, Individual(4, << >>), ev, more)
  BY <1>0 DEF Services
<1>2. PICK res : res = Individual(4, << >>)
  OBVIOUS
<1>3. res \in Individuals(4)
  BY <1>2, Zenon DEF Individuals
<1>4. PICK s : s = <<req, res, ev>>
  OBVIOUS
<1>5. d.refs = s \o more
  BY <1>1, <1>2, <1>4 DEF ServiceDescription, Description
<1>6. req \in MessageTypes /\ res \in MessageTypes /\ ev \in MessageTypes
  BY <1>3, Zenon DEF MessageTypes
<1>7. s \in Seq(MessageTypes) /\ Len(s) = 3 /\ DOMAIN s = 1 .. 3 /\ s[1] = req /\ s[2] = res /\ s[3] = ev
  BY <1>4, <1>6
<1>8. req.type_name = 3 /\ res.type_name = 4 /\ ev.type_name = 5
  BY <1>3, IndividualNamed, Zenon
<1>9. CASE more = << >>
  <2>1. d.refs = s
    BY <1>5, <1>7, <1>9, ConcatEmptySeq, Zenon
  <2>2. s[1].type_name = 3 /\ s[2].type_name = 4 /\ s[3].type_name = 5
    BY <1>7, <1>8, Zenon
  <2>3. Named(s, 3) /\ Distinct(s, 3)
    <3>1. \A i \in 1 .. 3 : i = 1 \/ i = 2 \/ i = 3
      OBVIOUS
    <3> QED BY <1>7, <2>2, <3>1 DEF Named, Distinct
  <2>4. s # << >>
    BY <1>7
  <2> QED BY <1>7, <2>1, <2>3, <2>4, Zenon DEF Described
<1>10. CASE more # << >>
  <2>1. PICK r \in Individuals(2) : more = <<r>>
    BY <1>10
  <2>2. r \in MessageTypes /\ r.type_name = 2
    BY IndividualNamed, Zenon DEF MessageTypes
  <2>3. 3 \in Nat /\ 3 + 1 = 4
    OBVIOUS
  <2>4. More1(MessageTypes, s \o <<r>>, s, r, 3)
    BY <1>7, <2>2, <2>3, OneMore, Zenon
  <2>5. PICK t : t = s \o <<r>>
    OBVIOUS
  <2>6. t \in Seq(MessageTypes) /\ Len(t) = 4 /\ t[4] = r /\ \A i \in 1 .. 3 : t[i] = s[i]
    BY <2>3, <2>4, <2>5, Zenon DEF More1
  <2>7. t[1].type_name = 3 /\ t[2].type_name = 4 /\ t[3].type_name = 5 /\ t[4].type_name = 2
    <3>1. 1 \in 1 .. 3 /\ 2 \in 1 .. 3 /\ 3 \in 1 .. 3
      OBVIOUS
    <3> QED BY <1>7, <1>8, <2>2, <2>6, <3>1, Zenon
  <2>8. DOMAIN t = 1 .. 4
    BY <2>6, LenProperties, Zenon
  <2>9. Named(t, 4) /\ Distinct(t, 4)
    <3>1. \A i \in 1 .. 4 : i = 1 \/ i = 2 \/ i = 3 \/ i = 4
      OBVIOUS
    <3> QED BY <2>7, <2>8, <3>1 DEF Named, Distinct
  <2>10. t # << >>
    <3>1. Len(t) = 4
      BY <2>6
    <3> QED BY <3>1
  <2>11. d.refs = t
    BY <1>5, <2>1, <2>5, Zenon
  <2> QED BY <2>6, <2>9, <2>10, <2>11, Zenon DEF Described
<1> QED BY <1>9, <1>10, Zenon

\* A service whose types are listed in another order still names each once.
LEMMA ReorderedServices == ASSUME NEW c \in Services, NEW b \in Reordered(c) PROVE Described(b.refs)
<1>1. c.refs \in Seq(MessageTypes) /\ c.refs # << >> /\ Described(c.refs)
  BY ServicesDescribed, Zenon
<1>2. Described(Reverse(c.refs)) /\ Described(Tail(c.refs) \o <<Head(c.refs)>>)
  BY <1>1, ReorderedDescribed, Zenon
<1>3. \A top, refs : Description(top, refs).refs = refs
  BY DEF Description
<1>4. \/ b = Description(c.top, Reverse(c.refs)) \/ b = Description(c.top, Tail(c.refs) \o <<Head(c.refs)>>) \/ b = c
  BY Zenon DEF Reordered
<1> QED BY <1>1, <1>2, <1>3, <1>4, ZenonT(40)

-----------------------------------------------------------------------------
(* What a question holds, and the three theorems.                          *)

\* What a question about times holds,
TimesAsked ==
  /\ input.kind = "times" => input.a \in Nanos /\ input.b \in Nanos
  /\ input.kind = "stamp" => input.ticks \in StampTicks

\* The question about the keys of an entity.
KeyAsked ==
  \E node \in Nodes, fqn \in ValidNames :
    /\ fqn.absolute /\ input.fqn = Display(fqn)
    /\ input.ids.zid = "z" /\ input.ids.node \in Numbers /\ input.ids.entity \in Numbers
    /\ input.ids.namespace = node.namespace /\ input.ids.name = node.base
    /\ input.entity \in DOMAIN Code

\* about names,
NamesAsked ==
  /\ input.kind = "text" => input.text \in Texts(MaxTokens)
  /\ input.kind = "resolve" => input.name \in ValidNames /\ input.node \in Nodes
  /\ input.kind = "key" => KeyAsked
  /\ input.kind = "endpoints" =>
       /\ input.a \in Nodes /\ input.b \in Nodes /\ input.m \in ValidNames /\ input.n \in ValidNames
       /\ NameParse(FullyQualifiedName(input.a)) # << >> /\ NameParse(FullyQualifiedName(input.b)) # << >>

\* The fields of a token that hold numbers.
FieldsAsked(f) == /\ f.hist \in Fields /\ f.depth \in Fields
                  /\ f.deadline \in Fields \X Fields /\ f.lifespan \in Fields \X Fields /\ f.lease \in Fields \X Fields

\* and about encodings.
EncodingsAsked ==
  /\ input.kind = "qos" => input.qos \in StdProfiles
  /\ input.kind = "token" => FieldsAsked(input.fields)
  /\ input.kind = "value" => \E a, b : input.value = <<a, b>>
  /\ input.kind = "octets" => input.message \in Seq(Nat)
  /\ input.kind = "gid" => input.guid \in [1 .. GuidLength -> Octets]
  /\ input.kind = "parameter" =>
       \E k \in Kinds : \E c : (k = "NotSet" => c = 0) /\ input.value = [kind |-> k, content |-> c]
  /\ input.kind = "reads" => /\ \E D : input.table \in [D -> ValuesOfKinds]
                             /\ input.names \in Seq(ParameterNames)
  /\ input.kind = "hash" => Described(input.a.refs) /\ Described(input.b.refs)

\* The inductive invariant: a question has the inputs of its kind.
AskedOK == TimesAsked /\ NamesAsked /\ EncodingsAsked

\* A question about times holds what it must.
LEMMA AskNumbers == ASSUME AskTimes \/ AskStamp PROVE AskedOK'
<1>1. ASSUME AskTimes PROVE AskedOK'
  <2>1. PICK a \in Nanos, b \in Nanos : input' = [kind |-> "times", a |-> a, b |-> b]
    BY <1>1, Zenon DEF AskTimes, Ask
  <2>2. input'.kind = "times" /\ input'.a = a /\ input'.b = b
    BY <2>1
  <2> QED BY <2>2, Zenon DEF AskedOK, TimesAsked, NamesAsked, EncodingsAsked
<1>2. ASSUME AskStamp PROVE AskedOK'
  <2>1. PICK t \in StampTicks : input' = [kind |-> "stamp", ticks |-> t]
    BY <1>2, Zenon DEF AskStamp, Ask
  <2>2. input'.kind = "stamp" /\ input'.ticks = t
    BY <2>1
  <2> QED BY <2>2, Zenon DEF AskedOK, TimesAsked, NamesAsked, EncodingsAsked
<1> QED BY <1>1, <1>2, Zenon

\* A question about names holds what it must.
LEMMA AskNames == ASSUME AskText \/ AskResolve \/ AskKey \/ AskEndpoints \/ AskEntities PROVE AskedOK'
<1>1. ASSUME AskText PROVE AskedOK'
  <2>1. PICK t \in Texts(MaxTokens) : input' = [kind |-> "text", text |-> t]
    BY <1>1, Zenon DEF AskText, Ask
  <2>2. input'.kind = "text" /\ input'.text = t
    BY <2>1
  <2> QED BY <2>2, Zenon DEF AskedOK, TimesAsked, NamesAsked, EncodingsAsked
<1>2. ASSUME AskResolve PROVE AskedOK'
  <2>1. PICK x \in ValidNames, node \in Nodes : input' = [kind |-> "resolve", name |-> x, node |-> node]
    BY <1>2, Zenon DEF AskResolve, Ask
  <2>2. input'.kind = "resolve" /\ input'.name = x /\ input'.node = node
    BY <2>1
  <2> QED BY <2>2, Zenon DEF AskedOK, TimesAsked, NamesAsked, EncodingsAsked
<1>3. ASSUME AskKey PROVE AskedOK'
  <2>1. PICK node \in Nodes, n \in Numbers, e \in Numbers, k \in DOMAIN Code, fqn \in ValidNames :
          /\ fqn.absolute
          /\ input' = [kind |-> "key", entity |-> k, fqn |-> Display(fqn),
                       ids |-> [zid |-> "z", node |-> n, entity |-> e, enclave |-> Empty,
                                namespace |-> node.namespace, name |-> node.base]]
    BY <1>3, Zenon DEF AskKey, Ask
  <2>2. PICK ids : ids = [zid |-> "z", node |-> n, entity |-> e, enclave |-> Empty,
                          namespace |-> node.namespace, name |-> node.base]
    OBVIOUS
  <2>3. input'.kind = "key" /\ input'.entity = k /\ input'.fqn = Display(fqn) /\ input'.ids = ids
    BY <2>1, <2>2
  <2>4. ids.zid = "z" /\ ids.node = n /\ ids.entity = e /\ ids.namespace = node.namespace /\ ids.name = node.base
    BY <2>2
  <2>5. KeyAsked'
    BY <2>1, <2>3, <2>4, Zenon DEF KeyAsked
  <2> QED BY <2>3, <2>5, Zenon DEF AskedOK, TimesAsked, NamesAsked, EncodingsAsked
<1>4. ASSUME AskEndpoints PROVE AskedOK'
  <2>1. PICK a \in Nodes, b \in Nodes, m \in ValidNames, n \in ValidNames :
          /\ NameParse(FullyQualifiedName(a)) # << >> /\ NameParse(FullyQualifiedName(b)) # << >>
          /\ input' = [kind |-> "endpoints", a |-> a, b |-> b, m |-> m, n |-> n]
    BY <1>4, Zenon DEF AskEndpoints, Ask
  <2>2. input'.kind = "endpoints" /\ input'.a = a /\ input'.b = b /\ input'.m = m /\ input'.n = n
    BY <2>1
  <2> QED BY <2>1, <2>2, Zenon DEF AskedOK, TimesAsked, NamesAsked, EncodingsAsked
<1>5. ASSUME AskEntities PROVE AskedOK'
  <2>1. input'.kind = "entities"
    BY <1>5 DEF AskEntities, Ask
  <2> QED BY <2>1, Zenon DEF AskedOK, TimesAsked, NamesAsked, EncodingsAsked
<1> QED BY <1>1, <1>2, <1>3, <1>4, <1>5, Zenon

\* A question about encodings holds what it must.
LEMMA AskEncodings ==
  ASSUME AskQos \/ AskToken \/ AskValue \/ AskOctets \/ AskGid \/ AskParameter \/ AskReads \/ AskHash PROVE AskedOK'
<1>1. ASSUME AskQos PROVE AskedOK'
  <2>1. PICK q \in Profiles(Depths, Lengths) : input' = [kind |-> "qos", qos |-> q]
    BY <1>1, Zenon DEF AskQos, Ask
  <2>2. input'.kind = "qos" /\ input'.qos = q
    BY <2>1
  <2>3. q \in StdProfiles
    <3>1. Depths \subseteq 0 .. UlongMax /\ Lengths \subseteq Durations
      BY ConversionsAssumption, Zenon
    <3> QED BY <3>1 DEF Profiles, StdProfiles
  <2> QED BY <2>2, <2>3, Zenon DEF AskedOK, TimesAsked, NamesAsked, EncodingsAsked
<1>2. ASSUME AskToken PROVE AskedOK'
  <2>1. PICK rel \in {<< >>, <<1>>, <<2>>, <<3>>}, dur \in {<< >>, <<1>>, <<2>>, <<3>>},
             hist \in {<< >>, <<1>>, <<2>>, <<3>>}, liv \in {<< >>, <<1>>, <<2>>, <<3>>},
             depth \in {<< >>, <<1>>, <<UlongMax + 1>>},
             s \in {<< >>, <<1>>, <<UlongMax>>, <<UlongMax + 1>>},
             n \in {<< >>, <<1>>, <<Giga>>, <<NanoMax + 1>>} :
          input' = [kind |-> "token",
                    fields |-> [rel |-> rel, dur |-> dur, hist |-> hist, depth |-> depth, liv |-> liv,
                                deadline |-> <<s, n>>, lifespan |-> << << >>, << >> >>, lease |-> <<depth, n>>]]
    BY <1>2, Zenon DEF AskToken, Ask
  <2>2. PICK f : f = [rel |-> rel, dur |-> dur, hist |-> hist, depth |-> depth, liv |-> liv,
                      deadline |-> <<s, n>>, lifespan |-> << << >>, << >> >>, lease |-> <<depth, n>>]
    OBVIOUS
  <2>3. input'.kind = "token" /\ input'.fields = f
    BY <2>1, <2>2
  <2>4. hist \in Fields /\ depth \in Fields /\ s \in Fields /\ n \in Fields /\ << >> \in Fields
    BY Widths DEF Fields
  <2>5. f.hist = hist /\ f.depth = depth /\ f.deadline = <<s, n>> /\ f.lifespan = << << >>, << >> >> /\ f.lease = <<depth, n>>
    BY <2>2
  <2>6. FieldsAsked(f)
    <3>1. \A x, y \in Fields : <<x, y>> \in Fields \X Fields
      OBVIOUS
    <3> QED BY <2>4, <2>5, <3>1, Zenon DEF FieldsAsked
  <2> QED BY <2>3, <2>6, Zenon DEF AskedOK, TimesAsked, NamesAsked, EncodingsAsked
<1>3. ASSUME AskValue PROVE AskedOK'
  <2>1. PICK a \in Octets, b \in Octets : input' = [kind |-> "value", value |-> <<a, b>>]
    BY <1>3, Zenon DEF AskValue, Ask
  <2>2. input'.kind = "value" /\ input'.value = <<a, b>>
    BY <2>1
  <2> QED BY <2>2, Zenon DEF AskedOK, TimesAsked, NamesAsked, EncodingsAsked
<1>4. ASSUME AskOctets PROVE AskedOK'
  <2>1. PICK k \in 0 .. 6 : \E m \in [1 .. k -> Octets] : input' = [kind |-> "octets", message |-> m]
    BY <1>4, Zenon DEF AskOctets, Ask
  <2>2. PICK m \in [1 .. k -> Octets] : input' = [kind |-> "octets", message |-> m]
    BY <2>1
  <2>3. input'.kind = "octets" /\ input'.message = m
    BY <2>2
  <2>4. m \in Seq(Nat)
    <3>1. k \in Nat
      OBVIOUS
    <3>2. Octets \subseteq Nat
      BY ConversionsAssumption, Zenon
    <3>3. m \in [1 .. k -> Nat]
      BY <3>2
    <3> QED BY <3>1, <3>3
  <2> QED BY <2>3, <2>4, Zenon DEF AskedOK, TimesAsked, NamesAsked, EncodingsAsked
<1>5. ASSUME AskGid PROVE AskedOK'
  <2>1. PICK g \in [1 .. GuidLength -> Octets] : input' = [kind |-> "gid", guid |-> g]
    BY <1>5, Zenon DEF AskGid, Ask
  <2>2. input'.kind = "gid" /\ input'.guid = g
    BY <2>1
  <2> QED BY <2>2, Zenon DEF AskedOK, TimesAsked, NamesAsked, EncodingsAsked
<1>6. ASSUME AskParameter PROVE AskedOK'
  <2>1. PICK k \in Kinds, c \in {1, 2} :
          input' = [kind |-> "parameter", value |-> [kind |-> k, content |-> IF k = "NotSet" THEN 0 ELSE c]]
    BY <1>6, Zenon DEF AskParameter, Ask
  <2>2. PICK d : d = (IF k = "NotSet" THEN 0 ELSE c)
    OBVIOUS
  <2>3. k = "NotSet" => d = 0
    BY <2>2, Zenon
  <2>4. input'.kind = "parameter" /\ input'.value = [kind |-> k, content |-> d]
    <3>1. input' = [kind |-> "parameter", value |-> [kind |-> k, content |-> d]]
      BY <2>1, <2>2, Zenon
    <3> QED BY <3>1
  <2> QED BY <2>3, <2>4, Zenon DEF AskedOK, TimesAsked, NamesAsked, EncodingsAsked
<1>7. ASSUME AskReads PROVE AskedOK'
  <2>1. PICK declared \in SUBSET ParameterNames :
          \E table \in [declared -> {NotSet, [kind |-> "Integer", content |-> 1]}] :
          \E names, prefixes \in {<< >>} \cup (ParameterNames \X ParameterNames) :
             input' = [kind |-> "reads", table |-> table, names |-> names, prefixes |-> prefixes]
    BY <1>7, Zenon DEF AskReads, Ask
  <2>2. PICK table \in [declared -> {NotSet, [kind |-> "Integer", content |-> 1]}],
             names \in {<< >>} \cup (ParameterNames \X ParameterNames),
             prefixes \in {<< >>} \cup (ParameterNames \X ParameterNames) :
             input' = [kind |-> "reads", table |-> table, names |-> names, prefixes |-> prefixes]
    BY <2>1, Zenon
  <2>3. input'.kind = "reads" /\ input'.table = table /\ input'.names = names
    BY <2>2
  <2>4. {NotSet, [kind |-> "Integer", content |-> 1]} \subseteq ValuesOfKinds
    BY KindOf DEF ValuesOfKinds, NotSet
  <2>5. table \in [declared -> ValuesOfKinds]
    BY <2>4
  <2>6. names \in Seq(ParameterNames)
    <3>1. PICK S : S = ParameterNames
      OBVIOUS
    <3>2. names \in {<< >>} \cup (S \X S)
      BY <3>1, Zenon
    <3>3. CASE names = << >>
      BY <3>1, <3>3, EmptySeq, Zenon
    <3>4. CASE names \in S \X S
      <4>1. PICK x \in S, y \in S : names = <<x, y>>
        BY <3>4
      <4>2. <<x, y>> \in Seq(S)
        OBVIOUS
      <4> QED BY <3>1, <4>1, <4>2, Zenon
    <3> QED BY <3>2, <3>3, <3>4, Zenon
  <2> QED BY <2>3, <2>5, <2>6, Zenon DEF AskedOK, TimesAsked, NamesAsked, EncodingsAsked
<1>8. ASSUME AskHash PROVE AskedOK'
  <2>1. PICK a \in Services, c \in Services : \E b \in Reordered(c) : input' = [kind |-> "hash", a |-> a, b |-> b]
    BY <1>8, Zenon DEF AskHash, Ask
  <2>2. PICK b \in Reordered(c) : input' = [kind |-> "hash", a |-> a, b |-> b]
    BY <2>1, Zenon
  <2>3. input'.kind = "hash" /\ input'.a = a /\ input'.b = b
    BY <2>2
  <2>4. Described(a.refs) /\ Described(b.refs)
    BY ServicesDescribed, ReorderedServices, Zenon
  <2> QED BY <2>3, <2>4, Zenon DEF AskedOK, TimesAsked, NamesAsked, EncodingsAsked
<1> QED BY <1>1, <1>2, <1>3, <1>4, <1>5, <1>6, <1>7, <1>8, Zenon

\* AskedOK is an invariant: every question has inputs of its kind.
LEMMA AskedInv == ConversionsSpec => []AskedOK
<1>1. ConversionsInit => AskedOK
  <2> SUFFICES ASSUME ConversionsInit PROVE AskedOK
    OBVIOUS
  <2>1. input.kind = "none"
    BY DEF ConversionsInit
  <2> QED BY <2>1, Zenon DEF AskedOK, TimesAsked, NamesAsked, EncodingsAsked
<1>2. AskedOK /\ [ConversionsNext]_input => AskedOK'
  <2> SUFFICES ASSUME AskedOK, [ConversionsNext]_input PROVE AskedOK'
    OBVIOUS
  <2>1. CASE ConversionsNext
    BY <2>1, AskNumbers, AskNames, AskEncodings, Zenon DEF ConversionsNext
  <2>2. CASE UNCHANGED input
    <3>1. TimesAsked'
      BY <2>2, Zenon DEF AskedOK, TimesAsked
    <3>2. KeyAsked => KeyAsked'
      BY <2>2 DEF KeyAsked
    <3>3. NamesAsked'
      BY <2>2, <3>2, Zenon DEF AskedOK, NamesAsked
    <3>4. EncodingsAsked'
      BY <2>2 DEF AskedOK, EncodingsAsked
    <3> QED BY <3>1, <3>3, <3>4, Zenon DEF AskedOK
  <2> QED BY <2>1, <2>2, Zenon
<1> QED BY <1>1, <1>2, PTL DEF ConversionsSpec

\* For every width of the integers, every tick of the DDS clock and every set of
\* times whose sums fit in an i64: times, durations, stamps and differences are
\* converted, ordered and added as TimesAgree says (builtin_interfaces.rs, ros_time.rs, steady_time.rs).
THEOREM TimesConverted == ConversionsSpec => []TimesAgree
<1>1. TimesAsked => TimesAgree
  <2> SUFFICES ASSUME TimesAsked PROVE TimesAgree
    OBVIOUS
  <2>1. ASSUME input.kind = "times"
        PROVE TimeRoundTrips(input.a, input.b) /\ DurationRoundTrips(input.a) /\ DiffsAgree(input.a, input.b)
    <3>1. PICK a \in Nanos, b \in Nanos : a = input.a /\ b = input.b
      BY <2>1, Zenon DEF TimesAsked
    <3>2. a \in Int /\ b \in Int /\ Abs(a) + Abs(b) <= LongMax
      BY ConversionsAssumption, Zenon
    <3> QED BY <3>1, <3>2, TimesRoundTrip, DurationsRoundTrip, DiffsAgreeInRange, Zenon
  <2>2. ASSUME input.kind = "stamp" PROVE StampIsFloor(input.ticks)
    <3>1. input.ticks \in Nat
      BY <2>2, ConversionsAssumption, Zenon DEF TimesAsked
    <3> QED BY <3>1, StampsFloor, Zenon
  <2> QED BY <2>1, <2>2, Zenon DEF TimesAgree
<1>2. AskedOK => TimesAgree
  BY <1>1, Zenon DEF AskedOK
<1> QED BY <1>2, AskedInv, PTL

\* For every length of a gid and every set of bytes, usize depths and std durations: what
\* is encoded is decoded as it was; over DDS, a duration if its seconds fit an i32, and
\* whatever its length, it is not taken for infinite.  Two descriptions hash alike exactly when they
\* describe the same types (qos_encoding.rs, qos.rs, cdr.rs, type_description.rs).
THEOREM EncodingsKept == ConversionsSpec => []EncodingsAgree
<1>1. EncodingsAsked => EncodingsAgree
  <2> SUFFICES ASSUME EncodingsAsked PROVE EncodingsAgree
    OBVIOUS
  <2>1. input.kind = "qos" => QosRoundTrips(input.qos) /\ QosOverDds(input.qos)
    BY QosBack, QosByDds, Zenon DEF EncodingsAsked
  <2>2. input.kind = "token" => ForeignToken(input.fields)
    BY TokenBack, Zenon DEF EncodingsAsked, FieldsAsked
  <2>3. input.kind = "value" => ValueArrives(input.value)
    BY ValuesArrive, Zenon DEF EncodingsAsked
  <2>4. input.kind = "octets" => OctetsRead(input.message)
    BY OctetsAreRead, Zenon DEF EncodingsAsked
  <2>5. input.kind = "gid" => GidKeepsGuid(input.guid)
    BY GidsKeep, Zenon DEF EncodingsAsked
  <2>6. input.kind = "parameter" => ParameterArrives(input.value)
    BY ParametersArrive, Zenon DEF EncodingsAsked
  <2>7. input.kind = "reads" => ReadsAgree(input.table, input.names, input.prefixes)
    BY ReadsAreOne, Zenon DEF EncodingsAsked
  <2>8. ASSUME input.kind = "hash" PROVE HashesAgree(input.a, input.b)
    <3>1. PICK m : Named(input.a.refs, m) /\ Distinct(input.a.refs, m)
      BY <2>8, Zenon DEF EncodingsAsked, Described
    <3>2. PICK n : Named(input.b.refs, n) /\ Distinct(input.b.refs, n)
      BY <2>8, Zenon DEF EncodingsAsked, Described
    <3> QED BY <3>1, <3>2, HashesDescribe, Zenon
  <2> QED BY <2>1, <2>2, <2>3, <2>4, <2>5, <2>6, <2>7, <2>8, Zenon DEF EncodingsAgree
<1>2. AskedOK => EncodingsAgree
  BY <1>1, Zenon DEF AskedOK
<1> QED BY <1>2, AskedInv, PTL

\* The keys of an entity of the run are read back.
LEMMA KeysAgree == ASSUME KeyAsked, NEW d \in Numbers PROVE KeyRoundTrips(d, input.ids, input.entity, input.fqn)
<1>1. PICK node \in Nodes, fqn \in ValidNames :
        /\ fqn.absolute /\ input.fqn = Display(fqn)
        /\ input.ids.zid = "z" /\ input.ids.node \in Numbers /\ input.ids.entity \in Numbers
        /\ input.ids.namespace = node.namespace /\ input.ids.name = node.base
        /\ input.entity \in DOMAIN Code
  BY Zenon DEF KeyAsked
<1>2. fqn \in NameSet /\ NodeOk(node)
  BY ValidNamesAreNames, NodesAreNodes, Zenon
<1>3. PICK w \in Seq(AnyToken) : w = PathOf(fqn)
  BY <1>2, NameSetOk, PathIs, Zenon
<1>4. Len(w) >= 1 /\ input.fqn = Empty \o w
  BY <1>1, <1>2, <1>3, NameSetOk, PathIs, Zenon
<1>5. Range(w) \subseteq GoodTokens
  <2>1. fqn.preceeding \in Seq(GoodTokens) /\ fqn.base \in GoodTokens
    BY <1>2 DEF NameSet
  <2>2. w \in Seq(GoodTokens)
    <3>1. <<fqn.base>> \in Seq(GoodTokens)
      BY <2>1, One, Zenon
    <3> QED BY <1>3, <2>1, <3>1, ConcatProperties, Zenon DEF PathOf
  <2> QED BY <2>2, RangeOfSeq, Zenon
<1>6. PICK kind \in DOMAIN Code, ids \in {input.ids} : kind = input.entity
  BY <1>1, Zenon
<1>7. ids.zid # Blank /\ ids.name # Blank
  BY <1>1, <1>2, <1>6, TokenSets, Zenon DEF NodeOk, Blank
<1>8. ids.namespace # Empty
  <2>1. Len(node.namespace) > 1
    BY <1>2, Zenon DEF NodeOk
  <2>2. node.namespace # Empty
    <3>1. Len(Empty) = 1 /\ ~(1 > 1)
      BY DEF Empty
    <3> QED BY <2>1, <3>1, Zenon
  <2> QED BY <1>1, <1>6, <2>2, Zenon
<1>9. ids.node \in Numbers /\ ids.entity \in Numbers
  BY <1>1, <1>6, Zenon
<1>10. KeyRoundTrips(d, ids, kind, Empty \o w)
  BY <1>4, <1>5, <1>7, <1>8, <1>9, KeysRoundTrip, Zenon
<1> QED BY <1>4, <1>6, <1>10, Zenon

\* For every alphabet of tokens, texts of any length and any numbers: the parser is
\* exact, names mean the same to both backends, keys are read back, and clients
\* match servers exactly when their names mean the same (names.rs, keyexpr.rs,
\* node.rs).
THEOREM NamesResolved == ConversionsSpec => []NamesAgree
<1>1. NamesAsked => NamesAgree
  <2> SUFFICES ASSUME NamesAsked PROVE NamesAgree
    OBVIOUS
  <2>1. ASSUME input.kind = "text" PROVE ParseIsExact(input.text)
    <3>1. input.text \in Texts(MaxTokens)
      BY <2>1, Zenon DEF NamesAsked
    <3> QED BY <3>1, TextIs, ParsesExactly, Zenon
  <2>2. ASSUME input.kind = "resolve" PROVE ResolvesAlike(input.name, input.node)
    <3>1. input.name \in NameSet /\ NodeOk(input.node)
      BY <2>2, ValidNamesAreNames, NodesAreNodes, Zenon DEF NamesAsked
    <3> QED BY <3>1, AllResolveAlike, Zenon
  <2>3. ASSUME input.kind = "key"
        PROVE \A d \in Numbers : KeyRoundTrips(d, input.ids, input.entity, input.fqn)
    <3>1. KeyAsked
      BY <2>3, Zenon DEF NamesAsked
    <3> QED BY <3>1, KeysAgree, Zenon
  <2>4. ASSUME input.kind = "endpoints" PROVE EndpointsMatch(input.a, input.m, input.b, input.n)
    <3>1. /\ NodeOk(input.a) /\ NodeOk(input.b) /\ input.m \in NameSet /\ input.n \in NameSet
          /\ NameParse(FullyQualifiedName(input.a)) # << >> /\ NameParse(FullyQualifiedName(input.b)) # << >>
      BY <2>4, ValidNamesAreNames, NodesAreNodes, Zenon DEF NamesAsked
    <3> QED BY <3>1, AllEndpointsMatch, Zenon
  <2>5. PICK clients : clients = ActionClientEntities(input.action)
    OBVIOUS
  <2>6. PICK hash : hash = [t \in {clients[i].type : i \in DOMAIN clients} |-> SenderHash(t)]
    OBVIOUS
  <2>7. \A i \in DOMAIN clients : hash[clients[i].type] = SenderHash(clients[i].type)
    BY <2>6
  <2>8. AllMeet(clients, ActionServerEntities(input.action)) /\ AllMeet(clients, RawActionServerEntities(input.action, hash))
    BY <2>5, <2>7, ActionEntitiesMeet, Zenon
  <2> QED BY <2>1, <2>2, <2>3, <2>4, <2>5, <2>6, <2>8, ParameterEntitiesMeet, LogsMeet, Zenon DEF NamesAgree
<1>2. AskedOK => NamesAgree
  BY <1>1, Zenon DEF AskedOK
<1> QED BY <1>2, AskedInv, PTL
=============================================================================
