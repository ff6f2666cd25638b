--------------------------- MODULE Discovery_proofs ---------------------------
(***************************************************************************)
(* Proofs about Discovery, for any number of endpoints and waits, any      *)
(* capacity of the channels and any number of events.                      *)
(***************************************************************************)
EXTENDS Discovery, TLAPS

-----------------------------------------------------------------------------
(* The inductive invariant.                                                *)

\* Outside send_status_event its locals are as at its start, and it never runs
\* past the end of the list.
WalkOK ==
  /\ spinner # "send" => next = 1 /\ closed = << >>
  /\ spinner = "send" => next <= Len(senders) + 1

\* The closed senders noted so far: in increasing order, behind the walk, and none
\* of them has a receiver.
ClosedOK ==
  /\ \A i, j \in 1 .. Len(closed) : i < j => closed[i] < closed[j]
  /\ \A i \in 1 .. Len(closed) : closed[i] < next /\ ~open[senders[closed[i]]]

\* A wait has a receiver from its start to its end.
ReceiverOK == \A w \in Waits : open[w] <=> pc[w] \in {"pump", "check", "parked"}

\* A waker is installed only by a poll that found the channel empty, and from then
\* on either it is still there or it has been called.
WakerOK ==
  \A w \in Waits :
    /\ waker[w] => channel[w] = 0 /\ ~woken[w] /\ pc[w] \in {"check", "parked", "done"}
    /\ pc[w] \in {"check", "parked"} /\ spinner # "gone" => waker[w] \/ woken[w]
    /\ pc[w] \in {"new", "pump"} => ~woken[w]

\* DDS has matched l and r just if the last event about them says so, or there is
\* none on its way and the map says so.
EventuallyMatched(l, r) ==
  \/ \E i \in 1 .. Len(dds) :
       /\ dds[i].kind = "matched" /\ dds[i].local = l /\ dds[i].remote = r
       /\ \A j \in i + 1 .. Len(dds) : ~(dds[j].kind = "lost" /\ dds[j].remote = r)
  \/ /\ r \in matches[l]
     /\ \A j \in 1 .. Len(dds) : ~(dds[j].kind = "lost" /\ dds[j].remote = r)
MapOK == \A l \in Locals, r \in Remotes : <<l, r>> \in alive <=> EventuallyMatched(l, r)

IndInv ==
  /\ TypeOK /\ WalkOK /\ ClosedOK /\ ReceiverOK /\ WakerOK
  /\ OpenReceiversKept /\ NoLostWakeup /\ MapOK

-----------------------------------------------------------------------------
(* Facts about the operators.                                              *)

\* Every event is of one of three kinds and names endpoints that there are.
LEMMA EventKinds ==
  ASSUME NEW e \in Events
  PROVE  \/ e.kind = "matched" /\ e.local \in Locals /\ e.remote \in Remotes
         \/ e.kind = "lost" /\ e.remote \in Remotes
         \/ e.kind = "other"
BY DEF Events, Matched, Lost, Other

\* A function on 1 .. k is a sequence.
LEMMA IsSequence ==
  ASSUME NEW S, NEW k \in Nat, NEW s \in [1 .. k -> S]
  PROVE  s \in Seq(S)
OBVIOUS

\* Without and SwapRemove shorten a sequence by one and keep it a sequence.
LEMMA Shortened ==
  ASSUME NEW S, NEW s \in Seq(S), NEW i \in 1 .. Len(s)
  PROVE  /\ Without(s, i) \in Seq(S) /\ Len(Without(s, i)) = Len(s) - 1
         /\ SwapRemove(s, i) \in Seq(S) /\ Len(SwapRemove(s, i)) = Len(s) - 1
<1> DEFINE W == Without(s, i)  R == SwapRemove(s, i)  n == Len(s) - 1
<1>1. n \in Nat
  OBVIOUS
<1>2. W \in [1 .. n -> S] /\ R \in [1 .. n -> S]
  BY <1>1 DEF Without, SwapRemove
<1> HIDE DEF W, R, n
<1>3. W \in Seq(S) /\ R \in Seq(S) /\ Len(W) = n /\ Len(R) = n
  BY <1>1, <1>2
<1> QED
  BY <1>3 DEF W, R, n


USE DEF spin, waits

-----------------------------------------------------------------------------
(* Every step preserves the invariant.                                     *)

\* A Node without events satisfies the inductive invariant.
LEMMA InitIndInv == Init => IndInv
<1> SUFFICES ASSUME Init PROVE IndInv
  OBVIOUS
<1>1. TypeOK
  BY ConstantsAssumption DEF Init, TypeOK
<1>2. WalkOK /\ ClosedOK /\ ReceiverOK /\ WakerOK
  BY DEF Init, WalkOK, ClosedOK, ReceiverOK, WakerOK
<1>3. OpenReceiversKept /\ NoLostWakeup
  BY DEF Init, OpenReceiversKept, NoLostWakeup
<1>4. MapOK
  BY DEF Init, MapOK, EventuallyMatched
<1> QED
  BY <1>1, <1>2, <1>3, <1>4 DEF IndInv

\* What the other parts of the invariant say of senders, waits and the map does
\* not change with what only DDS changes.
LEMMA HappensIndInv ==
  ASSUME IndInv, NEW e \in Events, Happens(e), alive' \subseteq Locals \X Remotes,
         MapOK'
  PROVE  IndInv'
<1>1. TypeOK'
  BY ConstantsAssumption DEF IndInv, Happens, TypeOK
<1>2. WalkOK' /\ ClosedOK' /\ ReceiverOK' /\ WakerOK'
  BY DEF IndInv, Happens, WalkOK, ClosedOK, ReceiverOK, WakerOK
<1>3. OpenReceiversKept' /\ NoLostWakeup'
  BY DEF IndInv, Happens, OpenReceiversKept, NoLostWakeup
<1> QED
  BY <1>1, <1>2, <1>3 DEF IndInv

\* An event that is new is the last one on its way.
LEMMA LastEvent ==
  ASSUME IndInv, NEW e \in Events, Happens(e)
  PROVE  /\ Len(dds) \in Nat /\ Len(dds') = Len(dds) + 1
         /\ dds'[Len(dds) + 1] = e
         /\ \A i \in 1 .. Len(dds) : dds'[i] = dds[i]
         /\ matches' = matches
BY DEF IndInv, TypeOK, Happens

\* A match preserves the inductive invariant.
LEMMA MatchIndInv ==
  ASSUME IndInv, NEW a \in Locals, NEW b \in Remotes, Match(a, b)
  PROVE  IndInv'
<1> DEFINE e == Matched(a, b)  n == Len(dds)
<1>1. e \in Events /\ Happens(e) /\ e.kind = "matched" /\ e.local = a /\ e.remote = b
  BY DEF Match, Events, Matched
<1>2. alive' = alive \cup {<<a, b>>}
  BY DEF Match
<1> HIDE DEF e
<1>3. n \in Nat /\ Len(dds') = n + 1 /\ dds'[n + 1] = e
      /\ (\A i \in 1 .. n : dds'[i] = dds[i]) /\ matches' = matches
  BY <1>1, LastEvent
<1> HIDE DEF n
<1>4. ASSUME NEW l \in Locals, NEW r \in Remotes
      PROVE  <<l, r>> \in alive' <=> EventuallyMatched(l, r)'
  <2>1. <<l, r>> \in alive <=> EventuallyMatched(l, r)
    BY DEF IndInv, MapOK
  <2>2. <<l, r>> \in alive' <=> (<<l, r>> \in alive \/ (l = a /\ r = b))
    BY <1>2
  <2>3. CASE l = a /\ r = b
    <3>1. EventuallyMatched(l, r)'
      BY <1>1, <1>3, <2>3 DEF EventuallyMatched
    <3> QED
      BY <3>1, <2>2, <2>3
  <2>4. CASE ~(l = a /\ r = b)
    <3>1. EventuallyMatched(l, r)' <=> EventuallyMatched(l, r)
      BY <1>1, <1>3, <2>4 DEF EventuallyMatched, n
    <3> QED
      BY <3>1, <2>1, <2>2, <2>4
  <2> QED
    BY <2>3, <2>4
<1>5. MapOK'
  BY <1>4 DEF MapOK
<1>6. alive' \subseteq Locals \X Remotes
  BY <1>2 DEF IndInv, TypeOK
<1> QED
  BY <1>1, <1>5, <1>6, HappensIndInv

\* A loss preserves the inductive invariant.
LEMMA LoseIndInv ==
  ASSUME IndInv, NEW b \in Remotes, Lose(b)
  PROVE  IndInv'
<1> DEFINE e == Lost(b)  n == Len(dds)
<1>1. e \in Events /\ Happens(e) /\ e.kind = "lost" /\ e.remote = b
  BY DEF Lose, Events, Lost
<1>2. alive' = {p \in alive : p[2] # b}
  BY DEF Lose
<1> HIDE DEF e
<1>3. n \in Nat /\ Len(dds') = n + 1 /\ dds'[n + 1] = e
      /\ (\A i \in 1 .. n : dds'[i] = dds[i]) /\ matches' = matches
  BY <1>1, LastEvent
<1>4. ASSUME NEW l \in Locals, NEW r \in Remotes
      PROVE  <<l, r>> \in alive' <=> EventuallyMatched(l, r)'
  <2>1. <<l, r>> \in alive <=> EventuallyMatched(l, r)
    BY DEF IndInv, MapOK
  <2>2. <<l, r>> \in alive' <=> (<<l, r>> \in alive /\ r # b)
    BY <1>2
  <2>3. CASE r = b
    <3>1. ~EventuallyMatched(l, r)'
      BY <1>1, <1>3, <2>3 DEF EventuallyMatched, n
    <3> QED
      BY <3>1, <2>2, <2>3
  <2>4. CASE r # b
    <3>1. EventuallyMatched(l, r)' <=> EventuallyMatched(l, r)
      BY <1>1, <1>3, <2>4 DEF EventuallyMatched, n
    <3> QED
      BY <3>1, <2>1, <2>2, <2>4
  <2> QED
    BY <2>3, <2>4
<1>5. MapOK'
  BY <1>4 DEF MapOK
<1>6. alive' \subseteq Locals \X Remotes
  BY <1>2 DEF IndInv, TypeOK
<1> QED
  BY <1>1, <1>5, <1>6, HappensIndInv

\* Another event preserves the inductive invariant.
LEMMA OtherEventIndInv ==
  ASSUME IndInv, OtherEvent
  PROVE  IndInv'
<1> DEFINE e == Other  n == Len(dds)
<1>1. e \in Events /\ Happens(e) /\ e.kind = "other"
  BY DEF OtherEvent, Events, Other
<1>2. alive' = alive
  BY DEF OtherEvent
<1> HIDE DEF e
<1>3. n \in Nat /\ Len(dds') = n + 1 /\ dds'[n + 1] = e
      /\ (\A i \in 1 .. n : dds'[i] = dds[i]) /\ matches' = matches
  BY <1>1, LastEvent
<1>4. ASSUME NEW l \in Locals, NEW r \in Remotes
      PROVE  EventuallyMatched(l, r)' <=> EventuallyMatched(l, r)
  BY <1>1, <1>3 DEF EventuallyMatched, n
<1>5. MapOK'
  BY <1>2, <1>4 DEF IndInv, MapOK
<1>6. alive' \subseteq Locals \X Remotes
  BY <1>2 DEF IndInv, TypeOK
<1> QED
  BY <1>1, <1>5, <1>6, HappensIndInv

\* Recording an event preserves the inductive invariant: the walk over the senders
\* that follows is still to reach every wait.
LEMMA RecordEventIndInv ==
  ASSUME IndInv, RecordEvent
  PROVE  IndInv'
<1> DEFINE e == Head(dds)  n == Len(dds)
<1>1. n \in Nat \ {0} /\ e = dds[1] /\ e \in Events /\ dds' \in Seq(Events)
      /\ Len(dds') = n - 1 /\ \A i \in 1 .. n - 1 : dds'[i] = dds[i + 1]
  BY DEF IndInv, TypeOK, RecordEvent
<1>2. matches \in [Locals -> SUBSET Remotes] /\ matches' = Recorded(e)
  BY DEF IndInv, TypeOK, RecordEvent
<1>3. \/ e.kind = "matched" /\ e.local \in Locals /\ e.remote \in Remotes
      \/ e.kind = "lost" /\ e.remote \in Remotes
      \/ e.kind = "other"
  BY <1>1, EventKinds
<1> HIDE DEF e, n
<1>4. /\ e.kind = "matched" => matches' = [matches EXCEPT ![e.local] = @ \cup {e.remote}]
      /\ e.kind = "lost" => matches' = [l \in Locals |-> matches[l] \ {e.remote}]
      /\ e.kind = "other" => matches' = matches
  BY <1>2 DEF Recorded
<1>5. TypeOK'
  <2>1. matches' \in [Locals -> SUBSET Remotes]
    BY <1>2, <1>3, <1>4
  <2> QED
    BY <2>1, <1>1 DEF IndInv, TypeOK, RecordEvent
<1>6. WalkOK' /\ ClosedOK' /\ ReceiverOK' /\ WakerOK'
  BY DEF IndInv, TypeOK, RecordEvent, WalkOK, ClosedOK, ReceiverOK, WakerOK
<1>7. OpenReceiversKept'
  BY DEF IndInv, RecordEvent, OpenReceiversKept
<1>8. NoLostWakeup'
  BY DEF IndInv, RecordEvent, OpenReceiversKept, WalkOK, ReceiverOK, NoLostWakeup
<1>9. ASSUME NEW l \in Locals, NEW r \in Remotes
      PROVE  EventuallyMatched(l, r)' <=> EventuallyMatched(l, r)
  <2> DEFINE LostIn(s, i) == s[i].kind = "lost" /\ s[i].remote = r
             MatchedIn(s, i) == s[i].kind = "matched" /\ s[i].local = l /\ s[i].remote = r
  <2>1. EventuallyMatched(l, r) <=>
          \/ \E i \in 1 .. n : MatchedIn(dds, i) /\ \A j \in i + 1 .. n : ~LostIn(dds, j)
          \/ r \in matches[l] /\ \A j \in 1 .. n : ~LostIn(dds, j)
    BY DEF EventuallyMatched, n
  <2>2. EventuallyMatched(l, r)' <=>
          \/ \E i \in 1 .. n - 1 : MatchedIn(dds', i) /\ \A j \in i + 1 .. n - 1 : ~LostIn(dds', j)
          \/ r \in matches'[l] /\ \A j \in 1 .. n - 1 : ~LostIn(dds', j)
    BY <1>1 DEF EventuallyMatched
  <2>3. \A i \in 1 .. n - 1 :
          (MatchedIn(dds', i) <=> MatchedIn(dds, i + 1)) /\ (LostIn(dds', i) <=> LostIn(dds, i + 1))
    BY <1>1
  <2>4. r \in matches'[l] <=> (MatchedIn(dds, 1) \/ (r \in matches[l] /\ ~LostIn(dds, 1)))
    <3>1. dds[1] = e
      BY <1>1
    <3>2. CASE e.kind = "matched"
      <4>1. e.local \in Locals /\ matches'[l] = IF l = e.local THEN matches[l] \cup {e.remote} ELSE matches[l]
        BY <1>2, <1>3, <1>4, <3>2
      <4> QED
        BY <3>1, <3>2, <4>1
    <3>3. CASE e.kind = "lost"
      BY <1>2, <1>4, <3>1, <3>3
    <3>4. CASE e.kind = "other"
      BY <1>4, <3>1, <3>4
    <3> QED
      BY <1>3, <3>2, <3>3, <3>4
  <2> HIDE DEF LostIn, MatchedIn
  <2>5. \A k \in 0 .. n - 1 :
          (\A j \in k + 1 .. n - 1 : ~LostIn(dds', j)) <=> (\A j \in k + 2 .. n : ~LostIn(dds, j))
    <3> SUFFICES ASSUME NEW k \in 0 .. n - 1
                 PROVE  (\A j \in k + 1 .. n - 1 : ~LostIn(dds', j))
                          <=> (\A j \in k + 2 .. n : ~LostIn(dds, j))
      OBVIOUS
    <3>1. ASSUME \A j \in k + 1 .. n - 1 : ~LostIn(dds', j), NEW j \in k + 2 .. n
          PROVE  ~LostIn(dds, j)
      <4>1. j - 1 \in k + 1 .. n - 1 /\ j - 1 \in 1 .. n - 1 /\ (j - 1) + 1 = j
        BY <1>1
      <4> QED
        BY <4>1, <3>1, <2>3
    <3>2. ASSUME \A j \in k + 2 .. n : ~LostIn(dds, j), NEW j \in k + 1 .. n - 1
          PROVE  ~LostIn(dds', j)
      <4>1. j + 1 \in k + 2 .. n /\ j \in 1 .. n - 1
        BY <1>1
      <4> QED
        BY <4>1, <3>2, <2>3
    <3> QED
      BY <3>1, <3>2
  <2>6. (\E i \in 1 .. n - 1 : MatchedIn(dds', i) /\ \A j \in i + 1 .. n - 1 : ~LostIn(dds', j))
        <=> (\E i \in 2 .. n : MatchedIn(dds, i) /\ \A j \in i + 1 .. n : ~LostIn(dds, j))
    <3>1. ASSUME NEW i \in 1 .. n - 1, MatchedIn(dds', i), \A j \in i + 1 .. n - 1 : ~LostIn(dds', j)
          PROVE  \E k \in 2 .. n : MatchedIn(dds, k) /\ \A j \in k + 1 .. n : ~LostIn(dds, j)
      <4>1. i + 1 \in 2 .. n /\ i \in 0 .. n - 1 /\ (i + 1) + 1 = i + 2
        BY <1>1
      <4>2. MatchedIn(dds, i + 1) /\ \A j \in i + 2 .. n : ~LostIn(dds, j)
        BY <3>1, <4>1, <2>3, <2>5
      <4> QED
        BY <4>1, <4>2
    <3>2. ASSUME NEW i \in 2 .. n, MatchedIn(dds, i), \A j \in i + 1 .. n : ~LostIn(dds, j)
          PROVE  \E k \in 1 .. n - 1 : MatchedIn(dds', k) /\ \A j \in k + 1 .. n - 1 : ~LostIn(dds', j)
      <4>1. i - 1 \in 1 .. n - 1 /\ i - 1 \in 0 .. n - 1 /\ (i - 1) + 1 = i /\ (i - 1) + 2 = i + 1
        BY <1>1
      <4>2. MatchedIn(dds', i - 1) /\ \A j \in (i - 1) + 1 .. n - 1 : ~LostIn(dds', j)
        BY <3>2, <4>1, <2>3, <2>5
      <4> QED
        BY <4>1, <4>2
    <3> QED
      BY <3>1, <3>2
  <2>7. (\A j \in 1 .. n - 1 : ~LostIn(dds', j)) <=> (\A j \in 2 .. n : ~LostIn(dds, j))
    <3>1. 0 \in 0 .. n - 1
      BY <1>1
    <3> QED
      BY <3>1, <2>5
  <2>8. /\ (\A j \in 1 .. n : ~LostIn(dds, j)) <=> (~LostIn(dds, 1) /\ \A j \in 2 .. n : ~LostIn(dds, j))
        /\ (\E i \in 1 .. n : MatchedIn(dds, i) /\ \A j \in i + 1 .. n : ~LostIn(dds, j))
             <=> \/ MatchedIn(dds, 1) /\ \A j \in 2 .. n : ~LostIn(dds, j)
                 \/ \E i \in 2 .. n : MatchedIn(dds, i) /\ \A j \in i + 1 .. n : ~LostIn(dds, j)
    <3>1. 1 \in 1 .. n /\ (\A i : i \in 1 .. n <=> (i = 1 \/ i \in 2 .. n)) /\ 1 + 1 = 2
      BY <1>1
    <3> QED
      BY <3>1
  <2> QED
    BY <2>1, <2>2, <2>4, <2>6, <2>7, <2>8
<1>10. MapOK'
  BY <1>9 DEF IndInv, MapOK, RecordEvent
<1> QED
  BY <1>5, <1>6, <1>7, <1>8, <1>10 DEF IndInv

\* MapOK does not change with the senders and the waits.
LEMMA MapUnchanged ==
  ASSUME IndInv, UNCHANGED <<alive, dds, matches>>
  PROVE  MapOK'
<1>1. \A l \in Locals, r \in Remotes : EventuallyMatched(l, r)' <=> EventuallyMatched(l, r)
  BY Zenon DEF EventuallyMatched
<1> QED
  BY <1>1 DEF IndInv, MapOK

\* Announcing an event to one sender preserves the inductive invariant: if the
\* channel is full its wait has been woken already.
LEMMA SendStatusEventIndInv ==
  ASSUME IndInv, SendStatusEvent
  PROVE  IndInv'
<1> DEFINE w == senders[next]
<1>1. /\ next \in 1 .. Len(senders) /\ w \in Waits /\ next' = next + 1 /\ spinner = "send"
      /\ Len(senders) \in Nat /\ closed \in Seq(1 .. Len(senders))
      /\ UNCHANGED <<alive, dds, events, matches, spinner, senders, pc, open>>
  BY DEF IndInv, TypeOK, SendStatusEvent
<1>2. \/ /\ open[w] /\ channel[w] < Capacity
         /\ channel' = [channel EXCEPT ![w] = @ + 1]
         /\ woken' = [woken EXCEPT ![w] = @ \/ waker[w]]
         /\ waker' = [waker EXCEPT ![w] = FALSE]
         /\ UNCHANGED closed
      \/ /\ open[w] /\ channel[w] = Capacity
         /\ UNCHANGED <<channel, woken, waker, closed>>
      \/ /\ ~open[w]
         /\ closed' = Append(closed, next)
         /\ UNCHANGED <<channel, woken, waker>>
  BY DEF SendStatusEvent
<1> HIDE DEF w
<1>3. TypeOK'
  <2>1. channel' \in [Waits -> 0 .. Capacity]
    <3>1. channel \in [Waits -> 0 .. Capacity] /\ Capacity \in Nat
      BY ConstantsAssumption DEF IndInv, TypeOK
    <3>2. channel[w] < Capacity => channel[w] + 1 \in 0 .. Capacity
      BY <1>1, <3>1
    <3> QED
      BY <1>1, <1>2, <3>1, <3>2
  <2>2. waker' \in [Waits -> BOOLEAN] /\ woken' \in [Waits -> BOOLEAN]
    BY <1>1, <1>2 DEF IndInv, TypeOK
  <2>3. closed' \in Seq(1 .. Len(senders))
    <3>1. Append(closed, next) \in Seq(1 .. Len(senders))
      BY <1>1
    <3> QED
      BY <1>1, <1>2, <3>1
  <2> QED
    BY <1>1, <2>1, <2>2, <2>3 DEF IndInv, TypeOK
<1>4. WalkOK' /\ ReceiverOK'
  BY <1>1 DEF IndInv, WalkOK, ReceiverOK
<1>5. ClosedOK'
  <2>1. CASE UNCHANGED closed
    BY <1>1, <2>1 DEF IndInv, ClosedOK
  <2>2. CASE ~open[w] /\ closed' = Append(closed, next)
    <3> DEFINE n == Len(closed)
    <3>1. n \in Nat /\ Len(closed') = n + 1 /\ closed'[n + 1] = next
          /\ \A i \in 1 .. n : closed'[i] = closed[i] /\ closed[i] \in 1 .. Len(senders)
      BY <1>1, <2>2
    <3>2. ASSUME NEW i \in 1 .. n + 1, NEW j \in 1 .. n + 1, i < j
          PROVE  closed'[i] < closed'[j]
      <4>1. i \in 1 .. n /\ closed'[i] = closed[i]
        BY <3>1, <3>2
      <4>2. CASE j = n + 1
        BY <3>1, <4>1, <4>2 DEF IndInv, ClosedOK
      <4>3. CASE j \in 1 .. n
        BY <3>1, <3>2, <4>1, <4>3 DEF IndInv, ClosedOK
      <4> QED
        BY <3>1, <4>2, <4>3
    <3>3. ASSUME NEW i \in 1 .. n + 1
          PROVE  closed'[i] < next + 1 /\ ~open[senders[closed'[i]]]
      BY <1>1, <2>2, <3>1 DEF IndInv, ClosedOK, w
    <3> QED
      BY <1>1, <3>1, <3>2, <3>3 DEF ClosedOK
  <2> QED
    BY <1>2, <2>1, <2>2
<1>6. WakerOK'
  <2>1. CASE UNCHANGED <<channel, woken, waker>>
    BY <1>1, <2>1 DEF IndInv, WakerOK
  <2>2. CASE /\ open[w]
             /\ channel' = [channel EXCEPT ![w] = @ + 1]
             /\ woken' = [woken EXCEPT ![w] = @ \/ waker[w]]
             /\ waker' = [waker EXCEPT ![w] = FALSE]
    <3> SUFFICES ASSUME NEW v \in Waits
                 PROVE  /\ waker'[v] => /\ channel'[v] = 0 /\ ~woken'[v]
                                         /\ pc[v] \in {"check", "parked", "done"}
                        /\ pc[v] \in {"check", "parked"} /\ spinner # "gone" => waker'[v] \/ woken'[v]
                        /\ pc[v] \in {"new", "pump"} => ~woken'[v]
      BY <1>1 DEF WakerOK
    <3>1. /\ waker[v] => channel[v] = 0 /\ ~woken[v] /\ pc[v] \in {"check", "parked", "done"}
          /\ pc[v] \in {"check", "parked"} /\ spinner # "gone" => waker[v] \/ woken[v]
          /\ pc[v] \in {"new", "pump"} => ~woken[v]
      BY DEF IndInv, WakerOK
    <3>2. CASE v = w
      <4>1. waker'[v] = FALSE /\ woken'[v] = (woken[v] \/ waker[v])
        BY <2>2, <3>2 DEF IndInv, TypeOK
      <4> QED
        BY <3>1, <4>1
    <3>3. CASE v # w
      <4>1. waker'[v] = waker[v] /\ woken'[v] = woken[v] /\ channel'[v] = channel[v]
        BY <2>2, <3>3 DEF IndInv, TypeOK
      <4> QED
        BY <3>1, <4>1
    <3> QED
      BY <3>2, <3>3
  <2> QED
    BY <1>2, <2>1, <2>2
<1>7. OpenReceiversKept'
  BY <1>1 DEF IndInv, OpenReceiversKept
<1>8. NoLostWakeup'
  <2> SUFFICES ASSUME NEW v \in Waits, pc[v] = "parked", matches[LocalOf[v]] # {}
               PROVE  \/ woken'[v]
                      \/ spinner = "send" /\ \E i \in next + 1 .. Len(senders) : senders[i] = v
    BY <1>1 DEF NoLostWakeup
  <2>1. woken[v] \/ \E i \in next .. Len(senders) : senders[i] = v
    BY DEF IndInv, NoLostWakeup
  <2>2. woken[v] => woken'[v]
    BY <1>1, <1>2 DEF IndInv, TypeOK
  <2>3. CASE v = w
    BY <1>1, <1>2, <2>3, ConstantsAssumption DEF IndInv, TypeOK, WakerOK, ReceiverOK
  <2>4. CASE v # w
    BY <1>1, <2>1, <2>2, <2>4 DEF w
  <2> QED
    BY <2>3, <2>4
<1> QED
  BY <1>1, <1>3, <1>4, <1>5, <1>6, <1>7, <1>8, MapUnchanged DEF IndInv

\* Removing the last of the closed senders preserves the inductive invariant: the
\* one that takes its place is not a closed one, and the others stay where they are.
LEMMA RemoveClosedIndInv ==
  ASSUME IndInv, RemoveClosed
  PROVE  IndInv'
<1> DEFINE k == Len(closed)  c == closed[k]  n == Len(senders)
<1>1. /\ k \in Nat \ {0} /\ c \in 1 .. n /\ n \in Nat /\ next = n + 1 /\ next' = n
      /\ closed \in Seq(1 .. n) /\ senders \in Seq(Waits) /\ spinner = "send"
      /\ UNCHANGED <<alive, dds, events, matches, spinner, waits>>
  <2>1. /\ closed \in Seq(1 .. n) /\ senders \in Seq(Waits) /\ next \in Nat
    BY DEF IndInv, TypeOK
  <2>2. /\ spinner = "send" /\ closed # << >> /\ next > n /\ next <= n + 1 /\ next' = next - 1
        /\ UNCHANGED <<alive, dds, events, matches, spinner, waits>>
    BY DEF IndInv, WalkOK, RemoveClosed
  <2>3. k \in Nat \ {0} /\ n \in Nat
    BY <2>1, <2>2
  <2>4. c \in 1 .. n
    BY <2>1, <2>3
  <2>5. next = n + 1 /\ next' = n
    BY <2>1, <2>2, <2>3
  <2> QED BY <2>1, <2>2, <2>3, <2>4, <2>5
<1>2. senders' = SwapRemove(senders, c) /\ closed' = Without(closed, k)
  BY DEF RemoveClosed, ToRemove
<1>3. senders' \in Seq(Waits) /\ Len(senders') = n - 1 /\ closed' \in Seq(1 .. n) /\ Len(closed') = k - 1
  <2>1. k \in 1 .. Len(closed)
    BY <1>1
  <2> HIDE DEF k, c, n
  <2>2. SwapRemove(senders, c) \in Seq(Waits) /\ Len(SwapRemove(senders, c)) = n - 1
    BY <1>1, Shortened DEF n
  <2>3. Without(closed, k) \in Seq(1 .. n) /\ Len(Without(closed, k)) = k - 1
    BY <1>1, <2>1, Shortened DEF k
  <2> QED
    BY <1>2, <2>2, <2>3
<1>4. /\ \A j \in 1 .. n - 1 : senders'[j] = IF j = c THEN senders[n] ELSE senders[j]
      /\ \A j \in 1 .. k - 1 : closed'[j] = closed[j]
  BY <1>1, <1>2 DEF SwapRemove, Without
<1>5. /\ \A j \in 1 .. k - 1 : closed[j] < c /\ closed[j] \in 1 .. n /\ ~open[senders[closed[j]]]
      /\ \A i, j \in 1 .. k - 1 : i < j => closed[i] < closed[j]
      /\ ~open[senders[c]]
  <2>1. /\ \A i, j \in 1 .. k : i < j => closed[i] < closed[j]
        /\ \A i \in 1 .. k : closed[i] < next /\ ~open[senders[closed[i]]] /\ closed[i] \in 1 .. n
    BY <1>1 DEF IndInv, ClosedOK
  <2>2. k \in 1 .. k /\ \A j \in 1 .. k - 1 : j \in 1 .. k /\ j < k
    BY <1>1
  <2> HIDE DEF k, n
  <2> QED
    BY <2>1, <2>2
<1> HIDE DEF k, c, n
<1>6. TypeOK'
  <2>1. closed' \in Seq(1 .. n - 1)
    <3>1. ASSUME NEW j \in 1 .. k - 1
          PROVE  closed'[j] \in 1 .. n - 1
      <4>1. closed'[j] = closed[j] /\ closed[j] < c /\ closed[j] \in 1 .. n
        BY <1>4, <1>5
      <4>2. c \in 1 .. n /\ n \in Nat
        BY <1>1
      <4> QED
        BY <4>1, <4>2
    <3>2. Len(closed') \in Nat /\ closed' \in [1 .. Len(closed') -> 1 .. n]
      BY <1>1, <1>3
    <3>3. closed' \in [1 .. Len(closed') -> 1 .. n - 1]
      BY <1>3, <3>1, <3>2
    <3> QED
      BY <3>2, <3>3, IsSequence, Zenon
  <2>2. n \in Nat \ {0}
    BY <1>1
  <2> QED
    BY <1>1, <1>3, <2>1, <2>2 DEF IndInv, TypeOK
<1>7. WalkOK'
  BY <1>1, <1>3 DEF WalkOK
<1>8. ReceiverOK' /\ WakerOK'
  BY <1>1 DEF IndInv, ReceiverOK, WakerOK
<1>9. ClosedOK'
  <2>1. ASSUME NEW i \in 1 .. k - 1
        PROVE  closed'[i] < next' /\ ~open'[senders'[closed'[i]]]
    <3>1. closed'[i] = closed[i] /\ closed[i] < c /\ closed[i] \in 1 .. n - 1
      <4>1. closed'[i] = closed[i] /\ closed[i] < c /\ closed[i] \in 1 .. n
        BY <1>4, <1>5
      <4>2. c \in 1 .. n /\ n \in Nat
        BY <1>1
      <4> QED
        BY <4>1, <4>2
    <3>2. senders'[closed[i]] = senders[closed[i]]
      BY <1>1, <1>4, <3>1
    <3> QED
      BY <1>1, <1>5, <3>1, <3>2
  <2>2. ASSUME NEW i \in 1 .. k - 1, NEW j \in 1 .. k - 1, i < j
        PROVE  closed'[i] < closed'[j]
    BY <1>4, <1>5, <2>2
  <2> QED
    BY <1>3, <2>1, <2>2 DEF ClosedOK
<1>10. OpenReceiversKept'
  <2> SUFFICES ASSUME NEW w \in Waits, open[w]
               PROVE  \E i \in 1 .. n - 1 : senders'[i] = w
    BY <1>1, <1>3 DEF OpenReceiversKept
  <2>1. PICK i \in 1 .. n : senders[i] = w
    BY <1>1 DEF IndInv, OpenReceiversKept, n
  <2>2. i # c
    BY <2>1, <1>5
  <2>3. CASE i = n
    <3>1. c \in 1 .. n - 1
      BY <1>1, <2>2, <2>3
    <3> QED
      BY <3>1, <1>4, <2>1, <2>3
  <2>4. CASE i # n
    BY <1>1, <1>4, <2>1, <2>2, <2>4
  <2> QED
    BY <2>3, <2>4
<1>11. NoLostWakeup'
  <2>1. next .. Len(senders) = {}
    BY <1>1 DEF n
  <2> QED
    BY <1>1, <2>1 DEF IndInv, NoLostWakeup
<1> QED
  BY <1>1, <1>6, <1>7, <1>8, <1>9, <1>10, <1>11, MapUnchanged DEF IndInv

\* The end of an event preserves the inductive invariant.
LEMMA EndEventIndInv ==
  ASSUME IndInv, EndEvent
  PROVE  IndInv'
<1>1. next .. Len(senders) = {}
  BY DEF IndInv, TypeOK, EndEvent
<1>2. TypeOK'
  BY DEF IndInv, TypeOK, EndEvent
<1>3. WalkOK' /\ ClosedOK' /\ ReceiverOK' /\ WakerOK'
  BY DEF IndInv, EndEvent, WalkOK, ClosedOK, ReceiverOK, WakerOK
<1>4. OpenReceiversKept'
  BY DEF IndInv, EndEvent, OpenReceiversKept
<1>5. NoLostWakeup'
  BY <1>1 DEF IndInv, EndEvent, NoLostWakeup
<1>6. MapOK'
  BY MapUnchanged DEF EndEvent
<1> QED
  BY <1>2, <1>3, <1>4, <1>5, <1>6 DEF IndInv

\* Stopping the Spinner preserves the inductive invariant.
LEMMA StopSpinIndInv ==
  ASSUME IndInv, StopSpin
  PROVE  IndInv'
<1>1. TypeOK'
  BY DEF IndInv, TypeOK, StopSpin
<1>2. WalkOK' /\ ClosedOK' /\ ReceiverOK' /\ WakerOK'
  BY DEF IndInv, StopSpin, WalkOK, ClosedOK, ReceiverOK, WakerOK
<1>3. OpenReceiversKept' /\ NoLostWakeup'
  BY DEF IndInv, StopSpin, OpenReceiversKept, NoLostWakeup
<1>4. MapOK'
  BY MapUnchanged DEF StopSpin
<1> QED
  BY <1>1, <1>2, <1>3, <1>4 DEF IndInv

\* Dropping the senders preserves the inductive invariant.
LEMMA DropSendersIndInv ==
  ASSUME IndInv, DropSenders
  PROVE  IndInv'
<1>1. closed = << >> /\ next = 1
  BY DEF IndInv, WalkOK, DropSenders
<1>2. TypeOK'
  BY <1>1 DEF IndInv, TypeOK, DropSenders
<1>3. WalkOK' /\ ClosedOK' /\ ReceiverOK'
  BY <1>1 DEF IndInv, DropSenders, WalkOK, ClosedOK, ReceiverOK
<1>4. WakerOK'
  BY DEF IndInv, TypeOK, DropSenders, WakerOK
<1>5. OpenReceiversKept' /\ NoLostWakeup'
  BY DEF IndInv, TypeOK, DropSenders, OpenReceiversKept, NoLostWakeup
<1>6. MapOK'
  BY MapUnchanged DEF DropSenders
<1> QED
  BY <1>2, <1>3, <1>4, <1>5, <1>6 DEF IndInv

\* A new wait preserves the inductive invariant: its sender is the last one.
LEMMA StartWaitIndInv ==
  ASSUME IndInv, NEW w \in Waits, StartWait(w)
  PROVE  IndInv'
<1> DEFINE n == Len(senders)
<1>1. n \in Nat /\ senders' \in Seq(Waits) /\ Len(senders') = n + 1 /\ senders'[n + 1] = w
      /\ \A i \in 1 .. n : senders'[i] = senders[i]
  BY DEF IndInv, TypeOK, StartWait
<1>2. spinner' = spinner /\ spinner # "send" /\ closed = << >> /\ closed' = << >> /\ next' = next
  BY DEF IndInv, StartWait, WalkOK
<1> HIDE DEF n
<1>3. TypeOK'
  BY <1>1, <1>2 DEF IndInv, TypeOK, StartWait
<1>4. WalkOK' /\ ClosedOK'
  BY <1>2 DEF IndInv, WalkOK, ClosedOK
<1>5. ReceiverOK' /\ WakerOK'
  BY DEF IndInv, TypeOK, StartWait, ReceiverOK, WakerOK
<1>6. OpenReceiversKept'
  <2> SUFFICES ASSUME spinner # "gone", NEW v \in Waits, open'[v]
               PROVE  \E i \in 1 .. n + 1 : senders'[i] = v
    BY <1>1, <1>2 DEF OpenReceiversKept
  <2>1. CASE v = w
    BY <1>1, <2>1
  <2>2. CASE v # w
    <3>1. open[v]
      BY <2>2 DEF IndInv, TypeOK, StartWait
    <3>2. PICK i \in 1 .. n : senders[i] = v
      BY <3>1 DEF IndInv, OpenReceiversKept, n
    <3> QED
      BY <1>1, <3>2
  <2> QED
    BY <2>1, <2>2
<1>7. NoLostWakeup'
  BY <1>2 DEF IndInv, TypeOK, StartWait, NoLostWakeup
<1>8. MapOK'
  BY MapUnchanged DEF StartWait
<1> QED
  BY <1>3, <1>4, <1>5, <1>6, <1>7, <1>8 DEF IndInv

\* A poll that takes an event or finds none preserves the inductive invariant.
LEMMA PumpIndInv ==
  ASSUME IndInv, NEW w \in Waits, Pump(w)
  PROVE  IndInv'
<1>1. TypeOK'
  <2>1. channel' \in [Waits -> 0 .. Capacity]
    <3>1. channel \in [Waits -> 0 .. Capacity] /\ Capacity \in Nat
      BY ConstantsAssumption DEF IndInv, TypeOK
    <3>2. channel[w] > 0 => channel[w] - 1 \in 0 .. Capacity
      BY <3>1
    <3>3. channel' = channel \/ (channel[w] > 0 /\ channel' = [channel EXCEPT ![w] = @ - 1])
      BY DEF Pump
    <3> QED
      BY <3>1, <3>2, <3>3
  <2> QED
    BY <2>1 DEF IndInv, TypeOK, Pump
<1>2. WalkOK' /\ ClosedOK'
  BY DEF IndInv, Pump, WalkOK, ClosedOK
<1>3. ReceiverOK' /\ WakerOK'
  <2>1. ReceiverOK'
    BY DEF IndInv, TypeOK, Pump, ReceiverOK
  <2>2. /\ \A v \in Waits \ {w} : waker'[v] = waker[v] /\ channel'[v] = channel[v] /\ pc'[v] = pc[v]
        /\ UNCHANGED <<woken, spinner>>
    BY DEF IndInv, TypeOK, Pump, spin
  <2>3. ~waker[w] /\ ~woken[w] /\ pc[w] = "pump"
    BY DEF IndInv, WakerOK, Pump
  <2>4. \/ pc'[w] = "pump" /\ waker'[w] = waker[w]
        \/ pc'[w] = "check" /\ channel'[w] = 0 /\ waker'[w] = (spinner # "gone")
    BY DEF IndInv, TypeOK, Pump
  <2>5. WakerOK'
    BY <2>2, <2>3, <2>4 DEF IndInv, WakerOK
  <2> QED BY <2>1, <2>5
<1>4. OpenReceiversKept' /\ NoLostWakeup'
  BY DEF IndInv, TypeOK, Pump, OpenReceiversKept, NoLostWakeup
<1>5. MapOK'
  BY MapUnchanged DEF Pump
<1> QED
  BY <1>1, <1>2, <1>3, <1>4, <1>5 DEF IndInv

\* Looking at the map preserves the inductive invariant: a wait parks only if its
\* endpoint has no match.
LEMMA CheckIndInv ==
  ASSUME IndInv, NEW w \in Waits, Check(w)
  PROVE  IndInv'
<1>1. TypeOK'
  BY DEF IndInv, TypeOK, Check
<1>2. WalkOK'
  BY DEF IndInv, Check, WalkOK
<1>3. \A v \in Waits : ~open[v] => ~open'[v]
  BY DEF IndInv, TypeOK, ReceiverOK, Check
<1>4. ClosedOK'
  <2>1. \A i \in 1 .. Len(closed) : senders[closed[i]] \in Waits
    BY DEF IndInv, TypeOK
  <2> QED
    BY <1>3, <2>1 DEF IndInv, Check, ClosedOK
<1>5. ReceiverOK' /\ WakerOK'
  BY DEF IndInv, TypeOK, Check, ReceiverOK, WakerOK
<1>6. OpenReceiversKept' /\ NoLostWakeup'
  BY <1>3 DEF IndInv, TypeOK, Check, OpenReceiversKept, NoLostWakeup
<1>7. MapOK'
  BY MapUnchanged DEF Check
<1> QED
  BY <1>1, <1>2, <1>4, <1>5, <1>6, <1>7 DEF IndInv

\* A new poll preserves the inductive invariant.
LEMMA PollIndInv ==
  ASSUME IndInv, NEW w \in Waits, Poll(w)
  PROVE  IndInv'
<1>1. TypeOK'
  BY DEF IndInv, TypeOK, Poll
<1>2. WalkOK' /\ ClosedOK'
  BY DEF IndInv, Poll, WalkOK, ClosedOK
<1>3. ReceiverOK' /\ WakerOK'
  BY DEF IndInv, TypeOK, Poll, ReceiverOK, WakerOK
<1>4. OpenReceiversKept' /\ NoLostWakeup'
  BY DEF IndInv, TypeOK, Poll, OpenReceiversKept, NoLostWakeup
<1>5. MapOK'
  BY MapUnchanged DEF Poll
<1> QED
  BY <1>1, <1>2, <1>3, <1>4, <1>5 DEF IndInv

\* Dropping a wait preserves the inductive invariant.
LEMMA DropWaitIndInv ==
  ASSUME IndInv, NEW w \in Waits, DropWait(w)
  PROVE  IndInv'
<1>1. TypeOK'
  BY DEF IndInv, TypeOK, DropWait
<1>2. WalkOK'
  BY DEF IndInv, DropWait, WalkOK
<1>3. \A v \in Waits : ~open[v] => ~open'[v]
  BY DEF IndInv, TypeOK, DropWait
<1>4. ClosedOK'
  <2>1. \A i \in 1 .. Len(closed) : senders[closed[i]] \in Waits
    BY DEF IndInv, TypeOK
  <2> QED
    BY <1>3, <2>1 DEF IndInv, DropWait, ClosedOK
<1>5. ReceiverOK' /\ WakerOK'
  BY DEF IndInv, TypeOK, DropWait, ReceiverOK, WakerOK
<1>6. OpenReceiversKept' /\ NoLostWakeup'
  BY <1>3 DEF IndInv, TypeOK, DropWait, OpenReceiversKept, NoLostWakeup
<1>7. MapOK'
  BY MapUnchanged DEF DropWait
<1> QED
  BY <1>1, <1>2, <1>4, <1>5, <1>6, <1>7 DEF IndInv

-----------------------------------------------------------------------------
(* The theorems.                                                           *)

\* The inductive invariant always holds: the Spinner, the waits and DDS may take
\* their steps in any order.
THEOREM Invariance == Spec => []IndInv
<1>1. ASSUME IndInv, [Next]_vars PROVE IndInv'
  <2>1. CASE UNCHANGED vars
    <3>1. TypeOK' /\ WalkOK' /\ ClosedOK' /\ ReceiverOK' /\ WakerOK'
      BY <1>1, <2>1 DEF IndInv, vars, TypeOK, WalkOK, ClosedOK, ReceiverOK, WakerOK
    <3>2. OpenReceiversKept' /\ NoLostWakeup'
      BY <1>1, <2>1 DEF IndInv, vars, OpenReceiversKept, NoLostWakeup
    <3>3. MapOK'
      BY <1>1, <2>1, MapUnchanged DEF vars
    <3> QED
      BY <3>1, <3>2, <3>3 DEF IndInv
  <2>2. CASE Next
    BY <1>1, <2>2, MatchIndInv, LoseIndInv, OtherEventIndInv, RecordEventIndInv,
       SendStatusEventIndInv, RemoveClosedIndInv, EndEventIndInv, StopSpinIndInv,
       DropSendersIndInv, StartWaitIndInv, PumpIndInv, CheckIndInv, PollIndInv, DropWaitIndInv
    DEF Next, SpinStep, PollStep
  <2> QED
    BY <1>1, <2>1, <2>2
<1> QED
  BY InitIndInv, <1>1, PTL DEF Spec

\* For any number of waits and any capacity of the channels, a wait that is parked
\* while its endpoint has a match is going to be polled (MatchWait::poll).
THEOREM NoMissedMatch == Spec => []NoLostWakeup
<1>1. IndInv => NoLostWakeup
  BY DEF IndInv
<1> QED
  BY Invariance, <1>1, PTL

\* Likewise, send_status_event never forgets a receiver that still exists.
THEOREM ReceiversKept == Spec => []OpenReceiversKept
<1>1. IndInv => OpenReceiversKept
  BY DEF IndInv
<1> QED
  BY Invariance, <1>1, PTL

\* Channels stay within their capacity, and the indices of closed senders within
\* the list: swap_remove cannot panic.
THEOREM TypeCorrectness == Spec => []TypeOK
<1>1. IndInv => TypeOK
  BY DEF IndInv
<1> QED
  BY Invariance, <1>1, PTL

\* For any number of endpoints and events, the map agrees with DDS once the Spinner
\* has handled every event.
THEOREM MapAgrees == Spec => []MapIsCurrent
<1>1. IndInv => MapIsCurrent
  <2> SUFFICES ASSUME IndInv, dds = << >>, NEW l \in Locals
               PROVE  matches[l] = {r \in Remotes : <<l, r>> \in alive}
    BY DEF MapIsCurrent
  <2>1. \A r \in Remotes : <<l, r>> \in alive <=> r \in matches[l]
    BY DEF IndInv, MapOK, EventuallyMatched
  <2>2. matches[l] \subseteq Remotes
    BY DEF IndInv, TypeOK
  <2> QED
    BY <2>1, <2>2
<1> QED
  BY Invariance, <1>1, PTL

=============================================================================
