------------------------------ MODULE RtcClock ------------------------------
(***************************************************************************)
(* The clock hardware.datetime: the RTC overflow interrupt counts it once  *)
(* a second, and the settings menu sets its date or its time.  Both sides  *)
(* write it as a whole (the interrupt, or an ATOMIC_BLOCK).                *)
(***************************************************************************)
EXTENDS Rtc

CONSTANT LastYear   \* bound: the clock stops at the end of this year

ASSUME YearAssumption == LastYear \in 0 .. 100

ClockInit == datetime \in Starts

\* The last second that the bound allows.
AtEnd == RTCProcessTime(datetime).date.year > LastYear

RTC_OVF == ~AtEnd /\ datetime' = RTCProcessTime(datetime)

\* "date y:m:d"
SetDate(d) ==
  d.year <= LastYear /\ datetime' = [datetime EXCEPT !.date = RTCUpdateDate(@, d)]

\* "time h:m:s"
SetTime(t) == datetime' = [datetime EXCEPT !.time = RTCUpdateTime(@, t)]

ClockNext ==
  \/ RTC_OVF
  \/ \E d \in DateInputs : SetDate(d)
  \/ \E t \in TimeInputs : SetTime(t)

ClockSpec == ClockInit /\ [][ClockNext]_datetime

-----------------------------------------------------------------------------
(* Properties                                                              *)

\* Whatever is typed, the clock shows a date and a time that exist: 29
\* February only in leap years, no 24:00 (rtcDriver.c:61-88 and 231-263).
ClockIsReal == datetime \in Datetimes /\ Real(datetime) /\ datetime.date.year <= LastYear

\* Every interrupt is one second on the calendar, over the ends of minutes,
\* hours, days, months, years and leap years (rtcDriver.c:223-308).
CountsSeconds == [][RTC_OVF => Elapsed(datetime, datetime') = 1]_datetime
=============================================================================
