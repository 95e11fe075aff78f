-------------------------------- MODULE Rtc --------------------------------
(***************************************************************************)
(* The clock and the date and time arithmetic of rtcDriver.c, for the      *)
(* modules about what is done with the clock.  A date_t is a record        *)
(* [year, month, day] with the year counted from 2000, a time_t a record   *)
(* [hour, minute, second]; all fields are uint8_t.  The length of a day is *)
(* a parameter, so that small instances can cross many midnights.          *)
(***************************************************************************)
EXTENDS Integers

CONSTANTS
  HOURS, MINUTES, SECONDS,   \* 24, 60 and 60 in the firmware
  Starts,                    \* dates and times of the clock when a model starts
  DateInputs,                \* dates that the user types
  TimeInputs                 \* times that the user types

VARIABLE datetime            \* hardware.datetime

ASSUME DayAssumption ==
  /\ HOURS \in 1 .. 24 /\ MINUTES \in 1 .. 60 /\ SECONDS \in 1 .. 60

Byte  == 0 .. 255
U8(n) == n % 256

Dates     == [year : Byte, month : Byte, day : Byte]
Times     == [hour : Byte, minute : Byte, second : Byte]
Datetimes == [date : Dates, time : Times]

Date(y, m, d) == [year |-> y, month |-> m, day |-> d]
Time(h, m, s) == [hour |-> h, minute |-> m, second |-> s]

-----------------------------------------------------------------------------
\* Mutant of RTCGetIsLeapYear: the century rule of the lines that are
\* commented out, without the rule for 400 years.
LeapYearCentury(year) == year % 4 = 0 /\ year % 100 # 0

RTCGetIsLeapYear(year) == year % 4 = 0

RTCGetDaysInMonth(month, year) ==
  CASE month \in {1, 3, 5, 7, 8, 10, 12} -> 31
    [] month = 2 -> IF RTCGetIsLeapYear(year) THEN 29 ELSE 28
    [] OTHER -> 30

\* Mutant of RTCIsValidtime: the fields are only compared with their radix.
ValidUpTo(t) == t.hour <= HOURS /\ t.minute <= MINUTES /\ t.second <= SECONDS

RTCIsValidtime(t) == t.hour < HOURS /\ t.minute < MINUTES /\ t.second < SECONDS

\* What RTCUpdateDate refuses is the complement.
\* Mutant of Accepted: the length of the month is not looked at.
AcceptedTo31(d) ==
  d.year <= 100 /\ d.month \in 1 .. 12 /\ d.day \in 1 .. 31

Accepted(d) ==
  /\ d.year <= 100 /\ d.month \in 1 .. 12
  /\ d.day \in 1 .. RTCGetDaysInMonth(d.month, d.year)

RTCUpdateDate(old, d) == IF Accepted(d) THEN d ELSE old
RTCUpdateTime(old, t) == IF RTCIsValidtime(t) THEN t ELSE old

-----------------------------------------------------------------------------
(* Overflow of the fields.                                                 *)

\* The three loops of RTCProcessOverflowTime.  The day is the only field of
\* the date that they touch.
RTCProcessOverflowTime(dt) ==
  LET t      == dt.time
      minute == U8(t.minute + t.second \div SECONDS)
      hour   == U8(t.hour + minute \div MINUTES)
  IN  [date |-> [dt.date EXCEPT !.day = U8(@ + hour \div HOURS)],
       time |-> Time(hour % HOURS, minute % MINUTES, t.second % SECONDS)]

\* Mutant of Spill: the month is left before its length is taken off.
SpillSwapped(d) ==
  IF d.day > RTCGetDaysInMonth(d.month, d.year)
  THEN Date(d.year, U8(d.month + 1), d.day - RTCGetDaysInMonth(d.month + 1, d.year)) ELSE d

\* One turn of the loop over the days.
Spill(d) ==
  LET n == RTCGetDaysInMonth(d.month, d.year)
  IN  IF d.day > n THEN Date(d.year, U8(d.month + 1), d.day - n) ELSE d

\* Mutant of SpillAll: an if in place of the loop.
SpillOnce(d) == Spill(d)

\* The loop ends after at most nine turns: 255 days are less than 9 * 28 + 4.
Spill3(d) == Spill(Spill(Spill(d)))
SpillAll(d) == Spill3(Spill3(Spill3(d)))

\* The loop over the months.
NormalMonth(d) ==
  IF d.month > 12
  THEN Date(U8(d.year + (d.month - 1) \div 12), ((d.month - 1) % 12) + 1, d.day)
  ELSE d

RTCProcessOverflowDate(d) == NormalMonth(SpillAll(d))

RTCProcessOverflowDatetime(dt) ==
  LET o == RTCProcessOverflowTime(dt)
  IN  [o EXCEPT !.date = RTCProcessOverflowDate(@)]

\* The body of the RTC overflow interrupt.
RTCProcessTime(dt) ==
  RTCProcessOverflowDatetime([dt EXCEPT !.time.second = U8(@ + 1)])

RTCAddDate(d, y, m, n) ==
  RTCProcessOverflowDate(Date(U8(d.year + y), U8(d.month + m), U8(d.day + n)))

\* RTCAddDatetime(dt, 0, 0, 0, h, 0, 0)
RTCAddHours(dt, h) ==
  RTCProcessOverflowDatetime([dt EXCEPT !.time.hour = U8(@ + h)])

-----------------------------------------------------------------------------
(* Comparisons.                                                            *)

\* The branch for an earlier minute repeats the test for a later one, so a
\* minute that is earlier falls through to the seconds.
RTCIsSurpassedTime(t, a) ==
  \/ t.hour > a.hour
  \/ t.hour = a.hour /\ (t.minute > a.minute \/ t.second > a.second)

\* Mutant of RTCIsSurpassedDate: the years are not compared.
SurpassedInYear(d, a) == d.month > a.month \/ (d.month = a.month /\ d.day > a.day)

RTCIsSurpassedDate(d, a) ==
  \/ d.year > a.year
  \/ d.year = a.year /\ d.month > a.month
  \/ d.year = a.year /\ d.month = a.month /\ d.day > a.day

-----------------------------------------------------------------------------
(* The calendar, for reference: the number of days from the beginning of   *)
(* 2000 to a date, and the seconds between two instants.                   *)

\* The Gregorian rule, for the years 2000 to 2255.
LeapYear(y) == (y % 4 = 0 /\ y % 100 # 0) \/ y % 400 = 0

\* Days before the first of each month, and of each year.
DaysBeforeMonth(m, y) ==
  LET plain == <<0, 31, 59, 90, 120, 151, 181, 212, 243, 273, 304, 334>>
  IN  plain[m] + IF m > 2 /\ LeapYear(y) THEN 1 ELSE 0

\* The years 0, 4, 8, ... below y are leap years, 100 and 200 are not.
DaysBeforeYear(y) ==
  365 * y + (y + 3) \div 4
    - (IF y > 100 THEN 1 ELSE 0) - (IF y > 200 THEN 1 ELSE 0)

DayNumber(d) == DaysBeforeYear(d.year) + DaysBeforeMonth(d.month, d.year) + d.day - 1

SecondOfDay(t) == (t.hour * MINUTES + t.minute) * SECONDS + t.second

DayLength == HOURS * MINUTES * SECONDS

\* Seconds from one instant to another.
Elapsed(a, b) == (DayNumber(b.date) - DayNumber(a.date)) * DayLength
                   + SecondOfDay(b.time) - SecondOfDay(a.time)

\* Dates and times that the calendar has.
DaysOf(m, y) == CASE m \in {1, 3, 5, 7, 8, 10, 12} -> 31
                  [] m \in {4, 6, 9, 11} -> 30
                  [] m = 2 -> IF LeapYear(y) THEN 29 ELSE 28

RealDate(d) == d.month \in 1 .. 12 /\ d.day \in 1 .. DaysOf(d.month, d.year)
RealTime(t) == t.hour < HOURS /\ t.minute < MINUTES /\ t.second < SECONDS
Real(dt)    == RealDate(dt.date) /\ RealTime(dt.time)

-----------------------------------------------------------------------------
ASSUME StartsAssumption == \A dt \in Starts : dt \in Datetimes /\ Real(dt)
ASSUME InputsAssumption == DateInputs \subseteq Dates /\ TimeInputs \subseteq Times
=============================================================================
