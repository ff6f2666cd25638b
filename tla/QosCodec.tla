------------------------------- MODULE QosCodec -------------------------------
(***************************************************************************)
(* QosProfile, its compact form in zenoh liveliness tokens                 *)
(* (src/zenoh_backend/qos_encoding.rs) and its conversion from and to the  *)
(* DDS policies (src/qos.rs).  A field of the compact form is the number   *)
(* it spells, << >> when it is left out.  A duration is its nanoseconds;   *)
(* Option<Duration> is <<d>>, or << >> for infinite.  A std Duration has   *)
(* u64 seconds, so that not every one fits the i64 nanoseconds, and still  *)
(* fewer the i32 seconds, of a DDS duration.                               *)
(***************************************************************************)
EXTENDS Times

UlongMax == 2 * LongMax + 1                       \* u64::MAX, usize::MAX
Durations == 0 .. (UlongMax + 1) * Giga - 1       \* std::time::Duration
WrapLong(n) == ((n + LongMax + 1) % (UlongMax + 1)) - LongMax - 1     \* `as i64`

SubscriptionDefault ==
  [reliability |-> "BestEffort", durability |-> "Volatile", history |-> <<1>>,
   deadline |-> << >>, lifespan |-> << >>, liveliness |-> "Automatic", lease |-> << >>]
PublisherDefault == [SubscriptionDefault EXCEPT !.reliability = "Reliable"]

\* history is <<depth>> for KeepLast and << >> for KeepAll.
Profiles(depths, durations) ==
  [reliability : {"Reliable", "BestEffort"}, durability : {"TransientLocal", "Volatile"},
   history : {<<d>> : d \in depths} \cup {<< >>},
   deadline : {<<d>> : d \in durations} \cup {<< >>}, lifespan : {<<d>> : d \in durations} \cup {<< >>},
   liveliness : {"Automatic", "ManualByTopic"}, lease : {<<d>> : d \in durations} \cup {<< >>}]

-----------------------------------------------------------------------------
(* The compact form: only depth is always written.                         *)

ReliabilityCode == [Reliable |-> 1, BestEffort |-> 2]
DurabilityCode == [TransientLocal |-> 1, Volatile |-> 2]
LivelinessCode == [Automatic |-> 1, ManualByTopic |-> 3]

Delta(code, policy, default) == IF policy = default THEN << >> ELSE <<code[policy]>>
DurationFields_Bug(d) ==
  IF d = << >> THEN << << >>, << >> >> ELSE << <<d[1] \div Giga>>, <<0>> >>
DurationFields(d) ==
  IF d = << >> THEN << << >>, << >> >> ELSE << <<d[1] \div Giga>>, <<d[1] % Giga>> >>

EncodeQos(q) ==
  [rel |-> Delta(ReliabilityCode, q.reliability, "Reliable"),
   dur |-> Delta(DurabilityCode, q.durability, "Volatile"),
   hist |-> IF q.history = << >> THEN <<2>> ELSE << >>,
   depth |-> IF q.history = << >> THEN <<0>> ELSE q.history,
   deadline |-> DurationFields(q.deadline), lifespan |-> DurationFields(q.lifespan),
   liv |-> Delta(LivelinessCode, q.liveliness, "Automatic"), lease |-> DurationFields(q.lease)]

\* The policy a field stands for: << >> when it is none.
Policy(code, field, default) ==
  IF field = << >> THEN <<default>>
  ELSE IF \E p \in DOMAIN code : code[p] = field[1]
       THEN << CHOOSE p \in DOMAIN code : code[p] = field[1] >> ELSE << >>
\* Both fields are there and fit a u64 and a u32, or none is there.
DurationOk(fields) ==
  \/ fields[1] = << >> /\ fields[2] = << >>
  \/ /\ fields[1] # << >> /\ fields[2] # << >>
     /\ fields[1][1] <= UlongMax /\ fields[2][1] <= NanoMax
\* Duration::new panics: the nanoseconds carry seconds past u64::MAX.
Overflows(fields) ==
  DurationOk(fields) /\ fields[1] # << >> /\ fields[1][1] + fields[2][1] \div Giga > UlongMax
ParseDuration(fields) ==
  IF fields[1] = << >> THEN << >> ELSE << fields[1][1] * Giga + fields[2][1] >>

\* The result of the calls that do not panic.
DecodeQos(f) ==
  LET rel == Policy(ReliabilityCode, f.rel, "Reliable")
      dur == Policy(DurabilityCode, f.dur, "Volatile")
      liv == Policy(LivelinessCode, f.liv, "Automatic") IN
  IF /\ rel # << >> /\ dur # << >> /\ liv # << >> /\ f.hist \in {<< >>, <<1>>, <<2>>}
     /\ f.depth # << >> => f.depth[1] <= UlongMax
     /\ DurationOk(f.deadline) /\ DurationOk(f.lifespan) /\ DurationOk(f.lease)
  THEN << [reliability |-> rel[1], durability |-> dur[1],
           history |-> IF f.hist = <<2>> THEN << >> ELSE IF f.depth = << >> THEN <<0>> ELSE f.depth,
           deadline |-> ParseDuration(f.deadline), lifespan |-> ParseDuration(f.lifespan),
           liveliness |-> liv[1], lease |-> ParseDuration(f.lease)] >>
  ELSE << >>

-----------------------------------------------------------------------------
(* The DDS policies: an i32 depth, and durations of RustDDS, which are i32 *)
(* seconds and a u32 fraction: as one number, ticks.                       *)

\* RustDDS: nanoseconds to ticks, the fraction cut off, and ticks to nanoseconds.
DdsInfinite == SecMax * Ticks + (Ticks - 1)
DdsFraction(r) ==
  LET f == (Abs(r) * Ticks) \div Giga IN (IF r >= 0 THEN f ELSE -f) % Ticks
DdsFromNanos(n) == WrapSec(Quot(n)) * Ticks + DdsFraction(Rem(n))
DdsToNanos(ticks) == (ticks * Giga) \div Ticks

ToDdsDuration(d) == IF d = << >> THEN DdsInfinite ELSE DdsFromNanos(WrapLong(d[1]))
FromDdsDuration(ticks) ==
  IF ticks = DdsInfinite THEN << >>
  ELSE << IF DdsToNanos(ticks) < 0 THEN 0 ELSE DdsToNanos(ticks) >>

ToDds(q) ==
  [q EXCEPT !.history = IF q.history = << >> THEN [keep |-> "All"]
                        ELSE [keep |-> "Last", depth |-> WrapSec(q.history[1])],
            !.deadline = ToDdsDuration(@), !.lifespan = ToDdsDuration(@), !.lease = ToDdsDuration(@)]

\* Policies that are absent or that QosProfile lacks become the nearest one; a duration
\* whose policy is absent is infinite.
FromDds(p) ==
  [reliability |-> IF p.reliability = "Reliable" THEN "Reliable" ELSE "BestEffort",
   durability |-> IF p.durability \in {"Volatile", "None"} THEN "Volatile" ELSE "TransientLocal",
   history |-> CASE p.history.keep = "All" -> << >>
                 [] p.history.keep = "Last" -> << IF p.history.depth < 0 THEN 0 ELSE p.history.depth >>
                 [] p.history.keep = "None" -> <<1>>,
   deadline |-> FromDdsDuration(p.deadline), lifespan |-> FromDdsDuration(p.lifespan),
   liveliness |-> IF p.liveliness = "ManualByTopic" THEN "ManualByTopic" ELSE "Automatic",
   lease |-> FromDdsDuration(p.lease)]

-----------------------------------------------------------------------------
(* What must hold of a profile, and of the fields of a received token.     *)

\* The compact form brings every profile back.
QosRoundTrips(q) == DecodeQos(EncodeQos(q)) = <<q>>

\* Through the DDS policies no duration becomes infinite and infinite stays so; one whose
\* seconds fit an i32 loses less than a nanosecond, rounded down, and a depth that fits an
\* i32 is kept.  A longer duration comes back as some other one.
SameOrShorter(d, e) ==
  /\ (d = << >>) = (e = << >>)
  /\ (d # << >> /\ d[1] < (SecMax + 1) * Giga) => e[1] \in {d[1] - 1, d[1]}
QosOverDds(q) ==
  LET p == FromDds(ToDds(q)) IN
  /\ SameOrShorter(q.deadline, p.deadline) /\ SameOrShorter(q.lifespan, p.lifespan)
  /\ SameOrShorter(q.lease, p.lease)
  /\ (q.history # << >> /\ q.history[1] <= SecMax) => p.history = q.history
  /\ (p.reliability = q.reliability /\ p.durability = q.durability /\ p.liveliness = q.liveliness)

\* What is decoded from a foreign token, if decode_qos returns, is a profile that encodes
\* to a token of the same meaning.
ForeignToken(f) ==
  LET panics == Overflows(f.deadline) \/ Overflows(f.lifespan) \/ Overflows(f.lease) IN
  (~panics /\ DecodeQos(f) # << >>) => DecodeQos(EncodeQos(DecodeQos(f)[1])) = DecodeQos(f)
=============================================================================
