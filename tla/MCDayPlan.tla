----------------------------- MODULE MCDayPlan -----------------------------
(***************************************************************************)
(* Instances of DayPlan for TLC: a board of three devices, the alarms cut  *)
(* the first two; a day of 24 ticks in which every minute that matters     *)
(* takes three ticks, as alarms 2 to 4, 5 to 7 and 8 to 10 need, and the   *)
(* time is saved every five.                                               *)
(***************************************************************************)
EXTENDS DayPlan

FirstTwo   == {0, 1}
SomeMasks  == {{2}, {0, 1}}
SwitchOnly == {"power_switch", "channel_number"}
=============================================================================
