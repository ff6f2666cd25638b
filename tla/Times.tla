-------------------------------- MODULE Times --------------------------------
(***************************************************************************)
(* The conversions and the arithmetic of the time types:                   *)
(* builtin_interfaces::{Time, Duration} (the wire types), ros_time::       *)
(* {ROSTime, ROSDuration} and steady_time::{Time, TimeDiff}.  A time in    *)
(* memory is its i64 count of nanoseconds, an integer here; an Instant is  *)
(* an integer on the steady clock.  The constants scale the code's: Giga   *)
(* is 10^9, SecMin .. SecMax is i32, NanoMax is u32::MAX, LongMax is       *)
(* i64::MAX and Ticks is the 2^32 ticks a second of a DDS Timestamp.       *)
(* A Result or Option is <<v>>, or << >> for Err and None.                 *)
(***************************************************************************)
EXTENDS Integers, Sequences

CONSTANTS Giga, SecMin, SecMax, NanoMax, LongMax, Ticks

ASSUME TimesAssumption ==
  /\ Giga \in Nat \ {0, 1} /\ Ticks \in Nat \ {0} /\ LongMax \in Nat
  /\ SecMax \in Nat /\ SecMin = -SecMax - 1 /\ NanoMax \in Nat /\ NanoMax >= Giga
  /\ Ticks >= 2 * Giga /\ LongMax >= (SecMax + 1) * Giga

\* Rust's / and %: towards zero, the remainder has the sign of the dividend.
Quot(n) == IF n >= 0 THEN n \div Giga ELSE -((-n) \div Giga)
Rem(n) == n - Giga * Quot(n)
Abs(n) == IF n >= 0 THEN n ELSE -n
Clamp(q) == IF q > SecMax THEN SecMax ELSE IF q < SecMin THEN SecMin ELSE q
\* i32 arithmetic of a build without overflow checks.
WrapSec(s) == ((s - SecMin) % (SecMax - SecMin + 1)) + SecMin
Wire(sec, nanosec) == [sec |-> sec, nanosec |-> nanosec]

-----------------------------------------------------------------------------
(* builtin_interfaces: Time <-> repr::Time, and Duration.                  *)

TimeToRepr_Bug(t) ==
  IF Rem(t) >= 0 THEN Wire(Clamp(Quot(t)), Rem(t)) ELSE Wire(Clamp(Quot(t)), Giga + Rem(t))
TimeToRepr(t) ==
  IF Rem(t) >= 0 THEN Wire(Clamp(Quot(t)), Rem(t))
  ELSE Wire(WrapSec(Clamp(Quot(t)) - 1), Giga + Rem(t))
ReprToTime(r) == r.sec * Giga + r.nanosec

DurationFromNanos(n) ==
  CASE Rem(n) >= 0 /\ Quot(n) > SecMax -> Wire(SecMax, NanoMax)
    [] Quot(n) <= SecMin -> Wire(SecMin, 0)
    [] Rem(n) >= 0 /\ Quot(n) \in SecMin + 1 .. SecMax -> Wire(Quot(n), Rem(n))
    [] Rem(n) < 0 /\ Quot(n) > SecMin -> Wire(Quot(n) + 1, Giga + Rem(n))
DurationToNanos(d) == Giga * d.sec + d.nanosec
DurationFromSecs(s) == Wire(s, 0)

-----------------------------------------------------------------------------
(* ros_time: a DDS Timestamp is a count of ticks, or one of two marks.     *)

FromTimestamp(ts) ==
  IF ts.mark # "Valid" THEN << >>
  ELSE << (ts.ticks \div Ticks) * Giga + ((ts.ticks % Ticks) * Giga) \div Ticks >>

FromStd(n) == IF n <= LongMax THEN <<n>> ELSE << >>
ToStd(d) == IF d >= 0 THEN <<d>> ELSE << >>
RosSub(a, b) == a - b           \* ROSTime - ROSTime, and ROSTime - ROSDuration
RosAdd(a, d) == a + d

-----------------------------------------------------------------------------
(* steady_time.  Adding a TimeDiff moves an Instant back, as coded.        *)

Diff(length, neg) == [length |-> length, neg |-> neg]
DiffFromNanos(n) == Diff(Abs(n), n < 0)
AsNanos(d) ==
  LET n == IF d.length > LongMax THEN LongMax ELSE d.length IN IF d.neg THEN -n ELSE n
AsDuration(d) == IF d.neg THEN << >> ELSE <<d.length>>
AsSaturating(d) == IF d.neg THEN 0 ELSE d.length
DiffLess(a, b) ==
  CASE ~a.neg /\ ~b.neg -> a.length < b.length
    [] a.neg /\ b.neg -> b.length < a.length
    [] a.neg # b.neg -> a.neg
DiffAdd(a, b) == DiffFromNanos(AsNanos(a) + AsNanos(b))
DiffSub(a, b) == DiffFromNanos(AsNanos(a) - AsNanos(b))

SteadySub(a, b) == IF a >= b THEN Diff(a - b, FALSE) ELSE Diff(b - a, TRUE)
SteadyMinus(t, d) == IF d.neg THEN t - d.length ELSE t + d.length
SteadyPlus(t, d) == IF d.neg THEN t + d.length ELSE t - d.length
\* The instant now_with_utc pairs with the clock reading between m0 and m1.
NowWithUtc(m0, m1) == SteadyPlus(m0, DiffFromNanos(AsNanos(SteadySub(m1, m0)) \div 2))

-----------------------------------------------------------------------------
(* What must hold of two times a and b.                                    *)

OnWire(n) == n >= SecMin * Giga /\ n < (SecMax + 1) * Giga

\* Any time the wire type can hold comes back from it, with a fraction of
\* less than a second; saturation never reorders two whole-second times.
TimeRoundTrips(a, b) ==
  /\ OnWire(a) => /\ ReprToTime(TimeToRepr(a)) = a
                  /\ TimeToRepr(a).nanosec \in 0 .. Giga - 1
  /\ (a < b /\ Rem(a) = 0 /\ Rem(b) = 0)
       => ReprToTime(TimeToRepr(a)) <= ReprToTime(TimeToRepr(b))

\* A duration comes back unless it is negative with a fraction (the code adds
\* one second where its comment subtracts one).
DurationRoundTrips(n) ==
  /\ (OnWire(n) /\ (n >= 0 \/ Rem(n) = 0)) => DurationToNanos(DurationFromNanos(n)) = n
  /\ (OnWire(n) /\ Rem(n) = 0) => DurationFromNanos(n) = DurationFromSecs(Quot(n))

\* A DDS time stamp becomes the last whole nanosecond not after it.
StampIsFloor(ticks) ==
  LET n == FromTimestamp([mark |-> "Valid", ticks |-> ticks])[1] IN
  n * Ticks <= ticks * Giga /\ ticks * Giga < (n + 1) * Ticks

\* Differences of steady times are ordered, added and subtracted as integers, and so is
\* the difference of two times.  A time and a difference are not: the code's + moves the
\* time back and its - forward.  So the instant of now_with_utc is as far before its
\* first reading as "We add half of the diff" (steady_time.rs:65) wants it after it.
DiffsAgree(a, b) ==
  LET da == DiffFromNanos(a)
      db == DiffFromNanos(b) IN
  /\ AsNanos(da) = a /\ AsNanos(SteadySub(a, b)) = RosSub(a, b)
  /\ DiffLess(da, db) <=> a < b
  /\ AsNanos(DiffAdd(da, db)) = RosAdd(a, b) /\ AsNanos(DiffSub(da, db)) = RosSub(a, b)
  /\ SteadyPlus(a, db) = RosSub(a, b) /\ SteadyMinus(a, db) = RosAdd(a, b)
  /\ a <= b => NowWithUtc(a, b) = a - (b - a) \div 2
  /\ AsSaturating(da) = (IF AsDuration(da) = << >> THEN 0 ELSE AsDuration(da)[1])
  /\ ToStd(a) # << >> => FromStd(ToStd(a)[1]) = <<a>>
=============================================================================
