---------------------------- MODULE MCConversions ----------------------------
(* Three nanoseconds to the second and seconds of three bits: every way to *)
(* saturate is close to zero.                                              *)
EXTENDS Conversions

MCSecMin == -4
MCNanos == -20 .. 20
MCStampTicks == 0 .. 40
MCDecimal == [n \in {0, 1} |-> ToString(n)]
MCKnownTypes == {<<"Move", "_SendGoal">>, <<"action_msgs", "CancelGoal">>, <<"rcl_interfaces", "Log">>}
=============================================================================
