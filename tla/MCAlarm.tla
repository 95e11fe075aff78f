------------------------------ MODULE MCAlarm ------------------------------
(***************************************************************************)
(* Instances of Alarm for TLC: days of 4 hours, 2 minutes and 2 seconds at *)
(* the end of the year 2023.  The EEPROM holds an alarm, zeros, erased     *)
(* bytes, or an alarm of which the day and the hour were erased when the   *)
(* power was cut.                                                          *)
(***************************************************************************)
EXTENDS Alarm

NewYear == {[date |-> Date(23, 12, 31), time |-> Time(2, 0, 0)]}
Loaded  == NewYear \cup {[date |-> Date(0, 0, 0), time |-> Time(0, 0, 0)],
                         [date |-> Date(255, 255, 255), time |-> Time(255, 255, 255)],
                         [date |-> Date(23, 12, 255), time |-> Time(255, 0, 0)]}
Typed   == {Date(23, 12, 31), Date(24, 1, 1), Date(23, 2, 29)}
Hours   == {Time(1, 1, 1), Time(4, 0, 0)}
NewYearsEnd == DayNumber(Date(24, 1, 1))
=============================================================================
