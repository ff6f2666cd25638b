------------------------------- MODULE Discovery -------------------------------
(***************************************************************************)
(* Discovery in a Node of the DDS backend (src/node.rs): the Spinner keeps *)
(* the map from local to matched remote endpoints and announces every      *)
(* event on bounded channels, and MatchWait, the future behind             *)
(* wait_for_service, wait_for_subscription and the like, waits for a match. *)
(*                                                                         *)
(* The Spinner and the tasks that poll a MatchWait run in different        *)
(* threads.  They share the map, the list of senders and the channels, each *)
(* behind a lock of its own; one step is what runs under one lock.  The two *)
(* maps of the code, one per direction, are one here: no endpoint is both a *)
(* reader and a writer.  What an event says does not matter to a MatchWait, *)
(* so a channel is the number of events in it.                             *)
(***************************************************************************)
EXTENDS Integers, Sequences, FiniteSets

CONSTANTS
  Locals,       \* local readers and writers
  Remotes,      \* remote readers and writers
  Waits,        \* MatchWait futures
  LocalOf,      \* the endpoint each of them waits for
  Capacity,     \* of a status channel: 8 in the code
  MaxEvents     \* bound: discovery events

ASSUME ConstantsAssumption ==
  /\ LocalOf \in [Waits -> Locals]
  /\ Capacity \in Nat \ {0}
  /\ MaxEvents \in Nat

VARIABLES
  alive,        \* pairs of endpoints that DDS has matched
  dds,          \* status events of the DomainParticipant, in order
  events,       \* how many there have been
  matches,      \* readers_to_remote_writers and writers_to_remote_readers
  spinner,      \* select, send (to senders[next]), stopped, gone (the Node too)
  next, closed, \* locals of send_status_event
  senders,      \* status_event_senders; a sender is named by its wait
  pc,           \* of a wait: new, pump, check, parked, done
  channel,      \* events in the wait's channel
  open,         \* is there still a receiver?
  waker,        \* a waker is installed in the channel
  woken         \* the executor is to poll the wait again

spin == <<spinner, next, closed, senders>>
waits == <<pc, channel, open, waker, woken>>
vars == <<alive, dds, events, matches, spin, waits>>

Matched(l, r) == [kind |-> "matched", local |-> l, remote |-> r]
Lost(r) == [kind |-> "lost", remote |-> r]
Other == [kind |-> "other"]
Events == {Matched(l, r) : l \in Locals, r \in Remotes} \cup {Lost(r) : r \in Remotes} \cup {Other}

Init ==
  /\ alive = {} /\ dds = << >> /\ events = 0
  /\ matches = [l \in Locals |-> {}]
  /\ spinner = "select" /\ next = 1 /\ closed = << >> /\ senders = << >>
  /\ pc = [w \in Waits |-> "new"]
  /\ channel = [w \in Waits |-> 0]
  /\ open = [w \in Waits |-> FALSE]
  /\ waker = [w \in Waits |-> FALSE]
  /\ woken = [w \in Waits |-> FALSE]

-----------------------------------------------------------------------------
(* RustDDS: endpoints are matched and lost, and there are other events,    *)
(* among them the ros_discovery_info samples of other participants.        *)

Happens(e) ==
  /\ events < MaxEvents
  /\ events' = events + 1
  /\ dds' = Append(dds, e)
  /\ UNCHANGED <<matches, spin, waits>>

Match(l, r) == <<l, r>> \notin alive /\ alive' = alive \cup {<<l, r>>} /\ Happens(Matched(l, r))
Lose(r) == alive' = {p \in alive : p[2] # r} /\ alive' # alive /\ Happens(Lost(r))
OtherEvent == UNCHANGED alive /\ Happens(Other)

-----------------------------------------------------------------------------
(* Spinner::spin.                                                          *)

\* One event of the DomainParticipant changes the maps.
Recorded_Bug(e) ==
  CASE e.kind = "matched" -> [matches EXCEPT ![e.local] = {e.remote}]
    [] e.kind = "lost"    -> [l \in Locals |-> matches[l] \ {e.remote}]
    [] e.kind = "other"   -> matches
Recorded(e) ==
  CASE e.kind = "matched" -> [matches EXCEPT ![e.local] = @ \cup {e.remote}]
    [] e.kind = "lost"    -> [l \in Locals |-> matches[l] \ {e.remote}]
    [] e.kind = "other"   -> matches

\* The map is updated first; then send_status_event takes the lock of the senders.
RecordEvent ==
  /\ spinner = "select" /\ dds # << >>
  /\ matches' = Recorded(Head(dds))
  /\ dds' = Tail(dds)
  /\ spinner' = "send"
  /\ UNCHANGED <<alive, events, next, closed, senders, waits>>

\* send_status_event: try_send to one sender after the other.  What does not fit
\* is dropped, and a sender without a receiver is noted.
SendStatusEvent ==
  /\ spinner = "send" /\ next <= Len(senders)
  /\ next' = next + 1
  /\ LET w == senders[next] IN
     \/ /\ open[w] /\ channel[w] < Capacity
        /\ channel' = [channel EXCEPT ![w] = @ + 1]
        /\ woken' = [woken EXCEPT ![w] = @ \/ waker[w]]
        /\ waker' = [waker EXCEPT ![w] = FALSE]
        /\ UNCHANGED closed
     \/ /\ open[w] /\ channel[w] = Capacity
        /\ UNCHANGED <<channel, woken, waker, closed>>
     \/ /\ ~open[w]
        /\ closed' = Append(closed, next)
        /\ UNCHANGED <<channel, woken, waker>>
  /\ UNCHANGED <<alive, dds, events, matches, spinner, senders, pc, open>>

\* The senders found closed are removed, the last one first: swap_remove puts
\* the last element in the place of the removed one.
ToRemove_Bug == 1
ToRemove == Len(closed)

SwapRemove(s, i) ==
  [j \in 1 .. Len(s) - 1 |-> IF j = i THEN s[Len(s)] ELSE s[j]]

Without(s, i) ==
  [j \in 1 .. Len(s) - 1 |-> IF j < i THEN s[j] ELSE s[j + 1]]

RemoveClosed ==
  /\ spinner = "send" /\ next > Len(senders) /\ closed # << >>
  /\ senders' = SwapRemove(senders, closed[ToRemove])
  /\ closed' = Without(closed, ToRemove)
  /\ next' = next - 1
  /\ UNCHANGED <<alive, dds, events, matches, spinner, waits>>

EndEvent ==
  /\ spinner = "send" /\ next > Len(senders) /\ closed = << >>
  /\ spinner' = "select"
  /\ next' = 1
  /\ UNCHANGED <<alive, dds, events, matches, closed, senders, waits>>

\* stop_spinner, or the Node is dropped: the select loop ends between two events.
StopSpin ==
  /\ spinner = "select"
  /\ spinner' = "stopped"
  /\ UNCHANGED <<alive, dds, events, matches, next, closed, senders, waits>>

\* The last of Spinner and Node is dropped, and with them the senders: every
\* channel closes, which wakes its receiver.
DropSenders ==
  /\ spinner = "stopped"
  /\ spinner' = "gone"
  /\ senders' = << >>
  /\ woken' = [w \in Waits |-> woken[w] \/ waker[w]]
  /\ waker' = [w \in Waits |-> FALSE]
  /\ UNCHANGED <<alive, dds, events, matches, next, closed, pc, channel, open>>

-----------------------------------------------------------------------------
(* MatchWait.                                                              *)

\* status_receiver and MatchWait::new; the Spinner must not hold the senders' lock.
StartWait(w) ==
  /\ pc[w] = "new" /\ spinner \in {"select", "stopped"}
  /\ senders' = Append(senders, w)
  /\ open' = [open EXCEPT ![w] = TRUE]
  /\ pc' = [pc EXCEPT ![w] = "pump"]
  /\ UNCHANGED <<alive, dds, events, matches, spinner, next, closed, channel, waker, woken>>

\* poll: events are taken until there is none, which installs the waker, or the
\* channel is closed.
Pump_Bug(w) ==
  /\ pc[w] = "pump"
  /\ \/ /\ channel[w] > 0
        /\ channel' = [channel EXCEPT ![w] = @ - 1]
        /\ UNCHANGED waker
     \/ /\ channel[w] = 0
        /\ waker' = [waker EXCEPT ![w] = spinner # "gone"]
        /\ UNCHANGED channel
  /\ pc' = [pc EXCEPT ![w] = "check"]
  /\ UNCHANGED <<alive, dds, events, matches, spin, open, woken>>
Pump(w) ==
  /\ pc[w] = "pump"
  /\ \/ /\ channel[w] > 0
        /\ channel' = [channel EXCEPT ![w] = @ - 1]
        /\ UNCHANGED <<waker, pc>>
     \/ /\ channel[w] = 0
        /\ waker' = [waker EXCEPT ![w] = spinner # "gone"]
        /\ pc' = [pc EXCEPT ![w] = "check"]
        /\ UNCHANGED channel
  /\ UNCHANGED <<alive, dds, events, matches, spin, open, woken>>

\* poll: matched.  When the wait is over, the receiver is dropped with it.
Check(w) ==
  /\ pc[w] = "check"
  /\ pc' = [pc EXCEPT ![w] = IF matches[LocalOf[w]] # {} THEN "done" ELSE "parked"]
  /\ open' = [open EXCEPT ![w] = matches[LocalOf[w]] = {}]
  /\ UNCHANGED <<alive, dds, events, matches, spin, channel, waker, woken>>

\* The executor polls a task only when its waker has been called.
Poll(w) ==
  /\ pc[w] = "parked" /\ woken[w]
  /\ woken' = [woken EXCEPT ![w] = FALSE]
  /\ pc' = [pc EXCEPT ![w] = "pump"]
  /\ UNCHANGED <<alive, dds, events, matches, spin, channel, open, waker>>

\* The application drops the future before it is done.
DropWait(w) ==
  /\ pc[w] = "parked"
  /\ pc' = [pc EXCEPT ![w] = "done"]
  /\ open' = [open EXCEPT ![w] = FALSE]
  /\ UNCHANGED <<alive, dds, events, matches, spin, channel, waker, woken>>

-----------------------------------------------------------------------------

SpinStep == RecordEvent \/ SendStatusEvent \/ RemoveClosed \/ EndEvent
PollStep(w) == Pump(w) \/ Check(w) \/ Poll(w)

Next ==
  \/ \E l \in Locals, r \in Remotes : Match(l, r)
  \/ \E r \in Remotes : Lose(r)
  \/ OtherEvent
  \/ SpinStep
  \/ StopSpin
  \/ DropSenders
  \/ \E w \in Waits : StartWait(w) \/ PollStep(w) \/ DropWait(w)

Spec == Init /\ [][Next]_vars

\* The executor runs the Spinner's task and every task that has been woken.
Fairness == WF_vars(SpinStep) /\ \A w \in Waits : WF_vars(PollStep(w))

LiveSpec == Spec /\ Fairness

-----------------------------------------------------------------------------
(* Properties.                                                             *)

\* Every variable has its type: a channel never holds more than its capacity, and
\* the indices that send_status_event has noted stay within the list of senders.
TypeOK ==
  /\ alive \subseteq Locals \X Remotes
  /\ dds \in Seq(Events)
  /\ events \in 0 .. MaxEvents
  /\ matches \in [Locals -> SUBSET Remotes]
  /\ spinner \in {"select", "send", "stopped", "gone"}
  /\ next \in Nat \ {0}
  /\ closed \in Seq(1 .. Len(senders))
  /\ senders \in Seq(Waits)
  /\ pc \in [Waits -> {"new", "pump", "check", "parked", "done"}]
  /\ channel \in [Waits -> 0 .. Capacity]
  /\ open \in [Waits -> BOOLEAN]
  /\ waker \in [Waits -> BOOLEAN]
  /\ woken \in [Waits -> BOOLEAN]

\* A wait that is parked while its endpoint has a match is going to be polled: it
\* has been woken, or the Spinner is about to announce an event to it.  This is
\* the comment on MatchWait: a match whose event was dropped is seen all the same.
NoLostWakeup ==
  \A w \in Waits :
    pc[w] = "parked" /\ matches[LocalOf[w]] # {} =>
      \/ woken[w]
      \/ spinner = "send" /\ \E i \in next .. Len(senders) : senders[i] = w

\* send_status_event never forgets a receiver that still exists, although it
\* removes closed senders by index from the list it has just walked.
OpenReceiversKept ==
  spinner # "gone" =>
    \A w \in Waits : open[w] => \E i \in 1 .. Len(senders) : senders[i] = w

\* With every event handled, the map holds just the endpoints that are matched.
MapIsCurrent ==
  spinner = "select" /\ dds = << >> => \A l \in Locals : matches[l] = {r \in Remotes : <<l, r>> \in alive}

\* A wait whose endpoint has a match from some time on is over some time later.
MatchEndsWait ==
  \A w \in Waits :
    (pc[w] # "new" /\ [](matches[LocalOf[w]] # {})) ~> pc[w] = "done"

=============================================================================
