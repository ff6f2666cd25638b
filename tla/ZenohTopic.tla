------------------------------ MODULE ZenohTopic ------------------------------
(***************************************************************************)
(* Topics over zenoh (src/zenoh_backend/pubsub.rs).  A publisher gives each *)
(* sample a number in its attachment and then `put`s it, so that two threads *)
(* that publish can `put` in the other order.  A subscription takes the     *)
(* samples in the order they came.  Typed and raw objects differ only in    *)
(* who encodes.                                                             *)
(***************************************************************************)
EXTENDS Naturals, Sequences

CONSTANTS
  Publishers,     \* Publisher and RawPublisher objects, by gid
  Subscriptions,  \* Subscription and RawSubscription objects
  Hears,          \* the publishers whose samples a subscription gets
  Threads         \* threads that publish

ASSUME TopicAssumption == Hears \in [Subscriptions -> SUBSET Publishers]

VARIABLES
  pubSeq,         \* Publisher.seq
  sending,        \* the sample a thread has numbered and not `put` yet, or << >>
  samples         \* what a subscription has not taken: [gid, seq, msg]

topicVars == <<pubSeq, sending, samples>>

TopicInit ==
  /\ pubSeq = [p \in Publishers |-> 0]
  /\ sending = [t \in Threads |-> << >>]
  /\ samples = [x \in Subscriptions |-> << >>]

\* encode, RawPublisher::attachment, publish_raw: number the next sample, from 1.
Encode(t, p, msg) ==
  /\ sending[t] = << >>
  /\ pubSeq' = [pubSeq EXCEPT ![p] = @ + 1]
  /\ sending' = [sending EXCEPT ![t] = << [gid |-> p, seq |-> pubSeq[p] + 1, msg |-> msg] >>]
  /\ UNCHANGED samples

\* `put`: zenoh hands the sample to every subscription of the key.
Put(t) ==
  /\ sending[t] # << >>
  /\ samples' = [x \in Subscriptions |->
       IF sending[t][1].gid \in Hears[x] THEN samples[x] \o sending[t] ELSE samples[x]]
  /\ sending' = [sending EXCEPT ![t] = << >>]
  /\ UNCHANGED pubSeq

\* publish fails, in `encode` or in `put`: its error is returned, the sample is lost.
PublishFails(t) ==
  /\ sending' = [sending EXCEPT ![t] = << >>]
  /\ UNCHANGED <<pubSeq, samples>>

\* async_take, try_take, take_raw: the oldest sample, with its MessageInfo.
Take(x) ==
  /\ samples[x] # << >>
  /\ samples' = [samples EXCEPT ![x] = Tail(@)]
  /\ UNCHANGED <<pubSeq, sending>>

\* The types of the variables, for the set Msgs of messages.
TopicTypeOK(Msgs) ==
  LET Samples == [gid: Publishers, seq: Nat, msg: Msgs] IN
  /\ pubSeq \in [Publishers -> Nat]
  /\ sending \in [Threads -> Seq(Samples)] /\ \A t \in Threads : Len(sending[t]) <= 1
  /\ samples \in [Subscriptions -> Seq(Samples)]
=============================================================================
