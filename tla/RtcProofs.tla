------------------------------ MODULE RtcProofs ------------------------------
(***************************************************************************)
(* Lemmas about the operators of Rtc, for any length of the day: what the  *)
(* overflow of a date or a time makes of its fields, and that on a date of *)
(* the calendar up to 2099 a tick is one second of the calendar.           *)
(***************************************************************************)
EXTENDS Rtc, TLAPS

-----------------------------------------------------------------------------
(* The calendar of the code, for all the years a byte holds.               *)

CodeDate(d) == d.month \in 1 .. 12 /\ d.day \in 1 .. RTCGetDaysInMonth(d.month, d.year)

LEMMA MonthLength == ASSUME NEW m, NEW y PROVE RTCGetDaysInMonth(m, y) \in 28 .. 31
BY DEF RTCGetDaysInMonth

\* Up to 2099 it is the calendar.
LEMMA CodeIsReal ==
  ASSUME NEW d \in Dates, d.year <= 99, CodeDate(d)
  PROVE  RealDate(d)
<1>1. LeapYear(d.year) <=> RTCGetIsLeapYear(d.year)
  BY DEF LeapYear, RTCGetIsLeapYear, Dates, Byte
<1>2. DaysOf(d.month, d.year) = RTCGetDaysInMonth(d.month, d.year)
  BY <1>1 DEF CodeDate, DaysOf, RTCGetDaysInMonth
<1>. QED  BY <1>2 DEF CodeDate, RealDate

LEMMA RealIsCode ==
  ASSUME NEW d \in Dates, RealDate(d)
  PROVE  CodeDate(d)
<1>1. LeapYear(d.year) => RTCGetIsLeapYear(d.year)
  BY DEF LeapYear, RTCGetIsLeapYear, Dates, Byte
<1>2. DaysOf(d.month, d.year) <= RTCGetDaysInMonth(d.month, d.year)
  BY <1>1 DEF RealDate, DaysOf, RTCGetDaysInMonth
<1>3. DaysOf(d.month, d.year) \in Int /\ RTCGetDaysInMonth(d.month, d.year) \in Int
  BY MonthLength DEF RealDate, DaysOf
<1>. QED  BY <1>2, <1>3 DEF RealDate, CodeDate, Dates, Byte

LEMMA SpillTyped == ASSUME NEW d \in Dates PROVE Spill(d) \in Dates
<1>1. RTCGetDaysInMonth(d.month, d.year) \in 28 .. 31
  BY MonthLength
<1>. QED  BY <1>1 DEF Spill, Dates, Byte, Date, U8

LEMMA OverflowTyped == ASSUME NEW d \in Dates PROVE RTCProcessOverflowDate(d) \in Dates
<1>1. \A e \in Dates : Spill3(e) \in Dates
  BY SpillTyped DEF Spill3
<1>2. SpillAll(d) \in Dates
  BY <1>1 DEF SpillAll
<1>3. ASSUME NEW e \in Dates PROVE NormalMonth(e) \in Dates
  <2>1. e.year \in Byte /\ e.month \in Byte /\ e.day \in Byte
    BY DEF Dates
  <2>2. /\ U8(e.year + (e.month - 1) \div 12) \in Byte
        /\ ((e.month - 1) % 12) + 1 \in Byte
    <3>1. \A n \in Int : U8(n) \in Byte /\ (n % 12) + 1 \in Byte /\ n \div 12 \in Int
      BY DEF Byte, U8
    <3>2. e.month - 1 \in Int /\ e.year \in Int
      BY <2>1 DEF Byte
    <3>3. e.year + (e.month - 1) \div 12 \in Int
      BY <3>1, <3>2
    <3>. QED  BY <3>1, <3>2, <3>3
  <2>3. Date(U8(e.year + (e.month - 1) \div 12), ((e.month - 1) % 12) + 1, e.day) \in Dates
    BY <2>1, <2>2 DEF Date, Dates
  <2>. QED  BY <2>3 DEF NormalMonth
<1>. QED  BY <1>2, <1>3 DEF RTCProcessOverflowDate

LEMMA SpillStops ==
  ASSUME NEW d \in Dates, d.day <= RTCGetDaysInMonth(d.month, d.year)
  PROVE  SpillAll(d) = d
<1>1. Spill(d) = d
  BY MonthLength DEF Spill, Dates, Byte
<1>. QED  BY <1>1 DEF SpillAll, Spill3

\* A date that exists is left alone, and the day after it exists.
LEMMA DayAfterExists ==
  ASSUME NEW d \in Dates, CodeDate(d)
  PROVE  LET e == RTCProcessOverflowDate([d EXCEPT !.day = d.day + 1])
         IN  /\ RTCProcessOverflowDate(d) = d
             /\ e \in Dates /\ CodeDate(e)
<1>. DEFINE n == RTCGetDaysInMonth(d.month, d.year)
            e == [d EXCEPT !.day = d.day + 1]
<1>1. /\ d.month \in 1 .. 12 /\ d.day \in 1 .. n /\ n \in 28 .. 31
  BY MonthLength DEF CodeDate
<1>2. e \in Dates /\ e = Date(d.year, d.month, d.day + 1)
  BY <1>1 DEF Dates, Byte, Date
<1>3. RTCProcessOverflowDate(d) = d
  BY <1>1, SpillStops DEF RTCProcessOverflowDate, NormalMonth, Dates, Byte
<1>4. RTCProcessOverflowDate(e) \in Dates
  BY <1>2, OverflowTyped
<1>. HIDE DEF e
<1>5. CASE d.day < n
  <2>1. SpillAll(e) = e
    BY <1>1, <1>2, <1>5, SpillStops DEF Date, Dates, Byte
  <2>2. RTCProcessOverflowDate(e) = e
    BY <1>1, <1>2, <2>1 DEF RTCProcessOverflowDate, NormalMonth, Date
  <2>3. CodeDate(e)
    BY <1>1, <1>2, <1>5 DEF CodeDate, Date, Dates, Byte
  <2>. QED  BY <1>3, <1>4, <2>2, <2>3 DEF e
<1>6. CASE d.day = n
  <2>. DEFINE f == Date(d.year, d.month + 1, 1)
  <2>1. Spill(e) = f
    BY <1>1, <1>2, <1>6 DEF Spill, Date, U8
  <2>2. f \in Dates /\ f.month = d.month + 1 /\ f.year = d.year /\ f.day = 1
    BY <1>1 DEF Dates, Byte, Date
  <2>. HIDE DEF f
  <2>3. Spill(f) = f
    BY <2>2, MonthLength DEF Spill
  <2>4. SpillAll(e) = f
    BY <2>1, <2>3 DEF SpillAll, Spill3
  <2>5. CodeDate(NormalMonth(f))
    <3>1. CASE d.month < 12
      BY <1>1, <2>2, <3>1, MonthLength DEF NormalMonth, CodeDate
    <3>2. CASE d.month = 12
      <4>1. NormalMonth(f).month = 1 /\ NormalMonth(f).day = 1
        BY <2>2, <3>2 DEF NormalMonth, Date
      <4>. QED  BY <4>1, MonthLength DEF CodeDate
    <3>. QED  BY <1>1, <3>1, <3>2
  <2>. QED  BY <1>3, <1>4, <2>4, <2>5 DEF RTCProcessOverflowDate, e
<1>. QED  BY <1>1, <1>5, <1>6

-----------------------------------------------------------------------------
(* The time of day.                                                        *)

\* A field below its radix has no carry.
LEMMA NoCarry ==
  ASSUME NEW k \in 1 .. 60, NEW n \in 0 .. k - 1
  PROVE  n \div k = 0 /\ n % k = n
OBVIOUS

LEMMA CarryAtMostOnce ==
  ASSUME NEW k \in 1 .. 24, NEW n \in 0 .. 2 * k - 1
  PROVE  /\ n \div k = IF n < k THEN 0 ELSE 1
         /\ n % k = IF n < k THEN n ELSE n - k
OBVIOUS

LEMMA Sum == \A m \in Byte, n \in Int : m + n \in Int
BY DEF Byte

LEMMA TimeTyped ==
  ASSUME NEW dt \in Datetimes
  PROVE  RTCProcessOverflowDatetime(dt) \in Datetimes
<1>. DEFINE o == RTCProcessOverflowTime(dt)
<1>1. \A n \in Nat : n % HOURS \in Byte /\ n % MINUTES \in Byte /\ n % SECONDS \in Byte
  BY DayAssumption DEF Byte
<1>2. \A n \in Int : U8(n) \in Byte
  BY DEF U8, Byte
<1>3. /\ dt.time.hour \in Byte /\ dt.time.minute \in Byte /\ dt.time.second \in Byte
      /\ dt.date \in Dates /\ dt.date.day \in Byte
  BY DEF Datetimes, Dates, Times
<1>4. \A n \in Byte : n \div HOURS \in Int /\ n \div MINUTES \in Int /\ n \div SECONDS \in Int
  BY DayAssumption DEF Byte
<1>. DEFINE minute == U8(dt.time.minute + dt.time.second \div SECONDS)
            hour   == U8(dt.time.hour + minute \div MINUTES)
<1>5. minute \in Byte
  BY <1>2, <1>3, <1>4, Sum
<1>. HIDE DEF minute
<1>6. hour \in Byte
  BY <1>2, <1>3, <1>4, <1>5, Sum
<1>. HIDE DEF hour
<1>7. U8(dt.date.day + hour \div HOURS) \in Byte
  BY <1>2, <1>3, <1>4, <1>6, Sum
<1>8. /\ o.time = Time(hour % HOURS, minute % MINUTES, dt.time.second % SECONDS)
      /\ o.date = [dt.date EXCEPT !.day = U8(dt.date.day + hour \div HOURS)]
      /\ o = [date |-> o.date, time |-> o.time]
  BY DEF RTCProcessOverflowTime, hour, minute
<1>. HIDE DEF o
<1>9. o.time \in Times
  <2>1. hour \in Nat /\ minute \in Nat /\ dt.time.second \in Nat
    BY <1>3, <1>5, <1>6 DEF Byte
  <2>2. hour % HOURS \in Byte /\ minute % MINUTES \in Byte /\ dt.time.second % SECONDS \in Byte
    BY <1>1, <2>1
  <2>3. Time(hour % HOURS, minute % MINUTES, dt.time.second % SECONDS) \in Times
    BY <2>2 DEF Time, Times
  <2>. QED  BY <1>8, <2>3
<1>10. o.date \in Dates
  BY <1>3, <1>7, <1>8 DEF Dates
<1>11. RTCProcessOverflowDatetime(dt) = [o EXCEPT !.date = RTCProcessOverflowDate(o.date)]
  BY DEF RTCProcessOverflowDatetime, o
<1>. QED  BY <1>8, <1>9, <1>10, <1>11, OverflowTyped DEF Datetimes

LEMMA TickTyped == ASSUME NEW dt \in Datetimes PROVE RTCProcessTime(dt) \in Datetimes
<1>. DEFINE e == [dt EXCEPT !.time.second = U8(dt.time.second + 1)]
<1>1. e \in Datetimes
  <2>1. dt.date \in Dates /\ dt.time \in Times /\ dt.time.second \in Byte
    BY DEF Datetimes, Times
  <2>2. U8(dt.time.second + 1) \in Byte
    BY <2>1 DEF U8, Byte
  <2>3. [dt.time EXCEPT !.second = U8(dt.time.second + 1)] \in Times
    BY <2>1, <2>2 DEF Times
  <2>. QED  BY <2>1, <2>3 DEF Datetimes
<1>2. RTCProcessTime(dt) = RTCProcessOverflowDatetime(e)
  BY DEF RTCProcessTime
<1>. QED  BY <1>1, <1>2, TimeTyped

USE DayAssumption

-----------------------------------------------------------------------------
(* The length of a month.                                                  *)

LEMMA RealMonth ==
  ASSUME NEW m \in 1 .. 12, NEW y \in 0 .. 99
  PROVE  /\ RTCGetDaysInMonth(m, y) = DaysOf(m, y)
         /\ DaysOf(m, y) \in 28 .. 31
<1>1. LeapYear(y) <=> y % 4 = 0
  BY DEF LeapYear
<1>2. RTCGetDaysInMonth(m, y) = DaysOf(m, y)
  BY <1>1 DEF RTCGetDaysInMonth, RTCGetIsLeapYear, DaysOf
<1>3. DaysOf(m, y) \in 28 .. 31
  BY DEF DaysOf
<1>4. QED
  BY <1>2, <1>3

\* A month has its length on the calendar, and so has a year.
LEMMA MonthsAddUp ==
  ASSUME NEW y \in 0 .. 99
  PROVE  /\ \A m \in 1 .. 11 :
              DaysBeforeMonth(m + 1, y) = DaysBeforeMonth(m, y) + DaysOf(m, y)
         /\ DaysBeforeYear(y + 1) + DaysBeforeMonth(1, y + 1) =
              DaysBeforeYear(y) + DaysBeforeMonth(12, y) + DaysOf(12, y)
         /\ DaysBeforeYear(y) \in Int
         /\ \A m \in 1 .. 12 : DaysBeforeMonth(m, y) \in Int
<1>1. ASSUME NEW m \in 1 .. 11
      PROVE  DaysBeforeMonth(m + 1, y) = DaysBeforeMonth(m, y) + DaysOf(m, y)
  <2>1. \/ m = 1 \/ m = 2 \/ m = 3 \/ m = 4 \/ m = 5 \/ m = 6
        \/ m = 7 \/ m = 8 \/ m = 9 \/ m = 10 \/ m = 11
    OBVIOUS
  <2>2. QED
    BY <2>1 DEF DaysBeforeMonth, DaysOf
<1>2. DaysBeforeYear(y + 1) = DaysBeforeYear(y) + IF y % 4 = 0 THEN 366 ELSE 365
  BY DEF DaysBeforeYear
<1>3. LeapYear(y) <=> y % 4 = 0
  BY DEF LeapYear
<1>4. DaysBeforeMonth(12, y) + DaysOf(12, y) = IF y % 4 = 0 THEN 366 ELSE 365
  BY <1>3 DEF DaysBeforeMonth, DaysOf
<1>5. DaysBeforeMonth(1, y + 1) = 0
  BY DEF DaysBeforeMonth
<1>6. DaysBeforeYear(y) \in Int
  BY DEF DaysBeforeYear
<1>7. ASSUME NEW m \in 1 .. 12
      PROVE  DaysBeforeMonth(m, y) \in Int
  BY DEF DaysBeforeMonth
<1>8. DaysOf(12, y) = 31 /\ DaysBeforeMonth(12, y) \in Int
  BY <1>7 DEF DaysOf
<1>9. QED
  BY <1>1, <1>2, <1>4, <1>5, <1>6, <1>7, <1>8

-----------------------------------------------------------------------------
(* The overflow of the date.                                               *)

\* The day after a real date, on the calendar.
DayAfter(d) ==
  IF d.day < DaysOf(d.month, d.year) THEN Date(d.year, d.month, d.day + 1)
  ELSE IF d.month < 12 THEN Date(d.year, d.month + 1, 1)
  ELSE Date(d.year + 1, 1, 1)

LEMMA OverflowIsDayAfter ==
  ASSUME NEW d \in Dates, RealDate(d), d.year <= 99
  PROVE  /\ RTCProcessOverflowDate(d) = d
         /\ RTCProcessOverflowDate([d EXCEPT !.day = d.day + 1]) = DayAfter(d)
<1> DEFINE n == DaysOf(d.month, d.year)
           e == [d EXCEPT !.day = d.day + 1]
<1>1. /\ d.month \in 1 .. 12 /\ d.year \in 0 .. 99 /\ d.day \in 1 .. n
      /\ n \in 28 .. 31 /\ RTCGetDaysInMonth(d.month, d.year) = n
      /\ d = Date(d.year, d.month, d.day)
  BY RealMonth DEF RealDate, Dates, Byte, Date
<1> HIDE DEF n
<1>2. RTCProcessOverflowDate(d) = d
  <2>1. SpillAll(d) = d
    BY <1>1, SpillStops
  <2>2. QED
    BY <1>1, <2>1 DEF RTCProcessOverflowDate, NormalMonth
<1>3. e = Date(d.year, d.month, d.day + 1) /\ e \in Dates
  BY <1>1 DEF Dates, Byte, Date
<1> HIDE DEF e
<1>4. CASE d.day < n
  <2>1. SpillAll(e) = e
    BY <1>1, <1>3, <1>4, SpillStops DEF Date
  <2>2. RTCProcessOverflowDate(e) = e
    BY <1>1, <1>3, <2>1 DEF RTCProcessOverflowDate, NormalMonth, Date
  <2>3. QED
    BY <1>2, <1>3, <1>4, <2>2 DEF DayAfter, n, e
<1>5. CASE d.day = n
  <2> DEFINE f == Date(d.year, d.month + 1, 1)
  <2>1. Spill(e) = f
    BY <1>1, <1>3, <1>5 DEF Spill, Date, U8
  <2>2. f \in Dates /\ f.month = d.month + 1 /\ f.year = d.year /\ f.day = 1
    BY <1>1 DEF Dates, Byte, Date
  <2>3. 1 <= RTCGetDaysInMonth(f.month, f.year)
    BY DEF RTCGetDaysInMonth
  <2> HIDE DEF f
  <2>4. Spill(f) = f
    BY <2>2, <2>3 DEF Spill, RTCGetDaysInMonth
  <2>5. SpillAll(e) = f
    BY <2>1, <2>4 DEF SpillAll, Spill3
  <2>6. NormalMonth(f) = DayAfter(d)
    <3>1. CASE d.month < 12
      BY <1>1, <1>5, <2>2, <3>1 DEF NormalMonth, DayAfter, n, f
    <3>2. CASE d.month = 12
      BY <1>1, <1>5, <2>2, <3>2 DEF NormalMonth, DayAfter, n, f, Date, U8
    <3>3. QED
      BY <1>1, <3>1, <3>2
  <2>7. QED
    BY <1>2, <2>5, <2>6 DEF RTCProcessOverflowDate, e
<1>6. QED
  BY <1>1, <1>4, <1>5

LEMMA DayAfterIsNext ==
  ASSUME NEW d \in Dates, RealDate(d), d.year <= 99
  PROVE  /\ RealDate(DayAfter(d)) /\ DayAfter(d) \in Dates
         /\ DayAfter(d).year <= 99 \/ DayAfter(d) = Date(100, 1, 1)
         /\ DayNumber(DayAfter(d)) = DayNumber(d) + 1
         /\ DayNumber(d) \in Int
<1>1. /\ d.month \in 1 .. 12 /\ d.year \in 0 .. 99
      /\ d.day \in 1 .. DaysOf(d.month, d.year)
      /\ DaysOf(d.month, d.year) \in 28 .. 31
  BY RealMonth DEF RealDate, Dates, Byte
<1>2. DaysBeforeYear(d.year) \in Int /\ DaysBeforeMonth(d.month, d.year) \in Int
  BY <1>1, MonthsAddUp
<1>3. CASE d.day < DaysOf(d.month, d.year)
  <2>1. DayAfter(d) = Date(d.year, d.month, d.day + 1)
    BY <1>3 DEF DayAfter
  <2>2. QED
    BY <1>1, <1>2, <1>3, <2>1 DEF DayNumber, RealDate, Date, Dates, Byte
<1>4. CASE d.day = DaysOf(d.month, d.year) /\ d.month < 12
  <2>1. DayAfter(d) = Date(d.year, d.month + 1, 1)
    BY <1>1, <1>4 DEF DayAfter
  <2>2. DaysOf(d.month + 1, d.year) \in 28 .. 31
    <3>1. d.month + 1 \in 1 .. 12 /\ d.year \in 0 .. 99
      BY <1>1, <1>4
    <3>2. QED
      BY <3>1, RealMonth
  <2>3. DaysBeforeMonth(d.month + 1, d.year) =
          DaysBeforeMonth(d.month, d.year) + DaysOf(d.month, d.year)
    BY <1>1, <1>4, MonthsAddUp
  <2>4. QED
    BY <1>1, <1>2, <1>4, <2>1, <2>2, <2>3 DEF DayNumber, RealDate, Date, Dates, Byte
<1>5. CASE d.day = DaysOf(d.month, d.year) /\ d.month = 12
  <2>1. DayAfter(d) = Date(d.year + 1, 1, 1)
    BY <1>1, <1>5 DEF DayAfter
  <2>2. DaysOf(1, d.year + 1) = 31
    BY DEF DaysOf
  <2>3. DaysBeforeYear(d.year + 1) + DaysBeforeMonth(1, d.year + 1) =
          DaysBeforeYear(d.year) + DaysBeforeMonth(12, d.year) + DaysOf(12, d.year)
    BY <1>1, MonthsAddUp
  <2>4. d.year = 99 => DayAfter(d) = Date(100, 1, 1)
    BY <2>1
  <2>5. DayNumber(DayAfter(d)) = DayNumber(d) + 1 /\ DayNumber(d) \in Int
    BY <1>1, <1>2, <1>5, <2>1, <2>3 DEF DayNumber, Date
  <2>6. RealDate(DayAfter(d)) /\ DayAfter(d) \in Dates
    BY <1>1, <2>1, <2>2 DEF RealDate, Date, Dates, Byte
  <2>7. QED
    BY <1>1, <2>1, <2>4, <2>5, <2>6 DEF Date
<1>6. QED
  BY <1>1, <1>3, <1>4, <1>5

-----------------------------------------------------------------------------
(* The overflow of the time.                                               *)

\* The second after a real time of day, and whether it begins a day.
SecondAfter(t) ==
  IF t.second + 1 < SECONDS THEN Time(t.hour, t.minute, t.second + 1)
  ELSE IF t.minute + 1 < MINUTES THEN Time(t.hour, t.minute + 1, 0)
  ELSE IF t.hour + 1 < HOURS THEN Time(t.hour + 1, 0, 0)
  ELSE Time(0, 0, 0)

LastSecond(t) == t.hour + 1 = HOURS /\ t.minute + 1 = MINUTES /\ t.second + 1 = SECONDS

LEMMA CarryOnce ==
  ASSUME NEW k \in 1 .. 60, NEW n \in 0 .. k
  PROVE  /\ n \div k = IF n = k THEN 1 ELSE 0
         /\ n % k = IF n = k THEN 0 ELSE n
OBVIOUS

LEMMA OverflowIsSecondAfter ==
  ASSUME NEW dt \in Datetimes, Real(dt)
  PROVE  LET e == [dt EXCEPT !.time.second = U8(dt.time.second + 1)]
             o == RTCProcessOverflowTime(e)
         IN  /\ o.time = SecondAfter(dt.time)
             /\ o.date = [dt.date EXCEPT !.day =
                   U8(dt.date.day + IF LastSecond(dt.time) THEN 1 ELSE 0)]
<1> DEFINE t == dt.time
           second == t.second + 1
           minute == t.minute + IF second = SECONDS THEN 1 ELSE 0
           hour   == t.hour + IF minute = MINUTES THEN 1 ELSE 0
           e == [dt EXCEPT !.time.second = U8(dt.time.second + 1)]
<1>1. /\ t.hour \in 0 .. HOURS - 1 /\ t.minute \in 0 .. MINUTES - 1
      /\ t.second \in 0 .. SECONDS - 1
  BY DEF Real, RealTime, Datetimes, Times, Byte
<1>2. second \in 0 .. SECONDS /\ minute \in 0 .. MINUTES /\ hour \in 0 .. HOURS
  <2>1. second \in 0 .. SECONDS
    BY <1>1
  <2>2. minute \in 0 .. MINUTES
    BY <1>1
  <2> HIDE DEF minute
  <2>3. hour \in 0 .. HOURS
    BY <1>1
  <2>4. QED
    BY <2>1, <2>2, <2>3
<1>3. e.date = dt.date /\ e.time.hour = t.hour /\ e.time.minute = t.minute
      /\ e.time.second = second
  <2>1. U8(second) = second
    BY <1>2 DEF U8
  <2>2. QED
    BY <2>1 DEF Datetimes, Times
<1> HIDE DEF e
<1>4. /\ second \div SECONDS = (IF second = SECONDS THEN 1 ELSE 0)
      /\ second % SECONDS = (IF second = SECONDS THEN 0 ELSE second)
  BY <1>2, CarryOnce
<1>5. /\ U8(t.minute + second \div SECONDS) = minute
      /\ minute \div MINUTES = (IF minute = MINUTES THEN 1 ELSE 0)
      /\ minute % MINUTES = (IF minute = MINUTES THEN 0 ELSE minute)
  <2>1. U8(minute) = minute
    BY <1>2 DEF U8
  <2>2. t.minute + second \div SECONDS = minute
    BY <1>4
  <2> HIDE DEF minute
  <2>3. QED
    BY <1>2, <2>1, <2>2, CarryOnce
<1>6. /\ U8(t.hour + minute \div MINUTES) = hour
      /\ hour \div HOURS = (IF hour = HOURS THEN 1 ELSE 0)
      /\ hour % HOURS = (IF hour = HOURS THEN 0 ELSE hour)
  <2>1. U8(hour) = hour
    BY <1>2 DEF U8
  <2>2. HOURS \in 1 .. 60
    OBVIOUS
  <2>3. t.hour + minute \div MINUTES = hour
    BY <1>5
  <2> HIDE DEF hour
  <2>4. QED
    BY <1>2, <2>1, <2>2, <2>3, CarryOnce
<1>7. /\ RTCProcessOverflowTime(e).time =
           Time(hour % HOURS, minute % MINUTES, second % SECONDS)
      /\ RTCProcessOverflowTime(e).date =
           [dt.date EXCEPT !.day = U8(@ + hour \div HOURS)]
  BY <1>3, <1>5, <1>6 DEF RTCProcessOverflowTime
<1>8. Time(hour % HOURS, minute % MINUTES, second % SECONDS) = SecondAfter(t)
  <2>1. CASE t.second + 1 < SECONDS
    <3>1. second % SECONDS = t.second + 1
      BY <1>1, <1>4, <2>1
    <3>2. minute % MINUTES = t.minute /\ hour % HOURS = t.hour
      <4>1. minute = t.minute /\ minute # MINUTES
        BY <1>1, <2>1
      <4>2. hour = t.hour /\ hour # HOURS
        BY <1>1, <4>1
      <4>3. QED
        BY <1>5, <1>6, <4>1, <4>2
    <3>3. QED
      BY <2>1, <3>1, <3>2 DEF SecondAfter
  <2>2. CASE second = SECONDS /\ t.minute + 1 < MINUTES
    <3>1. minute = t.minute + 1 /\ minute # MINUTES
      BY <1>1, <2>2
    <3>2. hour = t.hour /\ hour # HOURS
      BY <1>1, <3>1
    <3>3. /\ second % SECONDS = 0 /\ minute % MINUTES = t.minute + 1
          /\ hour % HOURS = t.hour
      BY <1>4, <1>5, <1>6, <2>2, <3>1, <3>2
    <3>4. ~(t.second + 1 < SECONDS)
      BY <2>2
    <3>5. QED
      BY <2>2, <3>3, <3>4 DEF SecondAfter
  <2>3. CASE second = SECONDS /\ t.minute + 1 = MINUTES
    <3>1. second % SECONDS = 0 /\ minute % MINUTES = 0
      BY <1>1, <1>4, <1>5, <2>3
    <3>2. hour % HOURS = IF t.hour + 1 < HOURS THEN t.hour + 1 ELSE 0
      BY <1>1, <1>6, <2>3
    <3>3. ~(t.second + 1 < SECONDS) /\ ~(t.minute + 1 < MINUTES)
      BY <2>3
    <3>4. QED
      <4>1. CASE t.hour + 1 < HOURS
        BY <3>1, <3>2, <3>3, <4>1 DEF SecondAfter
      <4>2. CASE ~(t.hour + 1 < HOURS)
        BY <3>1, <3>2, <3>3, <4>2 DEF SecondAfter
      <4>3. QED
        BY <4>1, <4>2
  <2>4. QED
    BY <1>1, <2>1, <2>2, <2>3
<1>9. hour \div HOURS = IF LastSecond(t) THEN 1 ELSE 0
  <2>1. hour = HOURS <=> LastSecond(t)
    BY <1>1 DEF LastSecond
  <2>2. QED
    BY <1>6, <2>1
<1>10. QED
  BY <1>7, <1>8, <1>9 DEF e

\* The time of day goes up by one, or back to zero at the end of the day.
LEMMA SecondsAddUp ==
  ASSUME NEW t \in Times, RealTime(t)
  PROVE  /\ RealTime(SecondAfter(t)) /\ SecondAfter(t) \in Times
         /\ SecondOfDay(t) \in Int /\ SecondOfDay(SecondAfter(t)) \in Int
         /\ SecondOfDay(SecondAfter(t)) =
              IF LastSecond(t) THEN SecondOfDay(t) + 1 - DayLength
              ELSE SecondOfDay(t) + 1
<1> DEFINE h == t.hour
           m == t.minute
           s == t.second
<1>1. h \in 0 .. HOURS - 1 /\ m \in 0 .. MINUTES - 1 /\ s \in 0 .. SECONDS - 1
  BY DEF RealTime, Times, Byte
<1>2. SecondOfDay(t) = (h * MINUTES + m) * SECONDS + s /\ SecondOfDay(t) \in Int
  BY <1>1 DEF SecondOfDay
<1>3. CASE s + 1 < SECONDS
  <2>1. SecondAfter(t) = Time(h, m, s + 1)
    BY <1>3 DEF SecondAfter
  <2>2. SecondOfDay(SecondAfter(t)) = (h * MINUTES + m) * SECONDS + (s + 1)
    BY <2>1 DEF SecondOfDay, Time
  <2>3. RealTime(SecondAfter(t)) /\ SecondAfter(t) \in Times
    BY <1>1, <1>3, <2>1 DEF RealTime, Times, Byte, Time
  <2>4. ~LastSecond(t)
    BY <1>1, <1>3 DEF LastSecond
  <2>5. (h * MINUTES + m) * SECONDS \in Int
    BY <1>1
  <2>6. QED
    BY <1>1, <1>2, <2>2, <2>3, <2>4, <2>5
<1>4. CASE s + 1 = SECONDS /\ m + 1 < MINUTES
  <2>1. SecondAfter(t) = Time(h, m + 1, 0)
    BY <1>4 DEF SecondAfter
  <2>2. SecondOfDay(SecondAfter(t)) = (h * MINUTES + (m + 1)) * SECONDS + 0
    BY <2>1 DEF SecondOfDay, Time
  <2>3. RealTime(SecondAfter(t)) /\ SecondAfter(t) \in Times
    BY <1>1, <1>4, <2>1 DEF RealTime, Times, Byte, Time
  <2>4. ~LastSecond(t)
    BY <1>1, <1>4 DEF LastSecond
  <2>5. /\ h * MINUTES + m \in Int
        /\ h * MINUTES + (m + 1) = (h * MINUTES + m) + 1
    BY <1>1
  <2>6. ((h * MINUTES + m) + 1) * SECONDS = (h * MINUTES + m) * SECONDS + SECONDS
    BY <2>5
  <2>7. QED
    BY <1>1, <1>2, <1>4, <2>2, <2>3, <2>4, <2>5, <2>6
<1>5. CASE s + 1 = SECONDS /\ m + 1 = MINUTES /\ h + 1 < HOURS
  <2>1. SecondAfter(t) = Time(h + 1, 0, 0)
    BY <1>5 DEF SecondAfter
  <2>2. SecondOfDay(SecondAfter(t)) = ((h + 1) * MINUTES + 0) * SECONDS + 0
    BY <2>1 DEF SecondOfDay, Time
  <2>3. RealTime(SecondAfter(t)) /\ SecondAfter(t) \in Times
    BY <1>1, <1>5, <2>1 DEF RealTime, Times, Byte, Time
  <2>4. ~LastSecond(t)
    BY <1>1, <1>5 DEF LastSecond
  <2>5. h * MINUTES + m \in Int /\ (h + 1) * MINUTES = (h * MINUTES + m) + 1
    BY <1>1, <1>5
  <2>6. ((h * MINUTES + m) + 1) * SECONDS = (h * MINUTES + m) * SECONDS + SECONDS
    BY <2>5
  <2>7. QED
    BY <1>1, <1>2, <1>5, <2>2, <2>3, <2>4, <2>5, <2>6
<1>6. CASE s + 1 = SECONDS /\ m + 1 = MINUTES /\ h + 1 = HOURS
  <2>1. SecondAfter(t) = Time(0, 0, 0)
    BY <1>6 DEF SecondAfter
  <2>2. SecondOfDay(SecondAfter(t)) = 0
    BY <2>1 DEF SecondOfDay, Time
  <2>3. RealTime(SecondAfter(t)) /\ SecondAfter(t) \in Times
    BY <1>1, <1>6, <2>1 DEF RealTime, Times, Byte, Time
  <2>4. LastSecond(t)
    BY <1>6 DEF LastSecond
  <2>5. h * MINUTES + m \in Int /\ HOURS * MINUTES = (h * MINUTES + m) + 1
    BY <1>1, <1>6
  <2>6. ((h * MINUTES + m) + 1) * SECONDS = (h * MINUTES + m) * SECONDS + SECONDS
    BY <2>5
  <2>7. DayLength = (h * MINUTES + m) * SECONDS + SECONDS
    BY <2>5, <2>6 DEF DayLength
  <2>8. QED
    BY <1>1, <1>2, <1>6, <2>2, <2>3, <2>4, <2>5, <2>6, <2>7
<1>7. QED
  BY <1>1, <1>3, <1>4, <1>5, <1>6

\* The seconds of a day are numbered from 0 to its length, and the last is last.
LEMMA SecondsOfADay ==
  ASSUME NEW t \in Times, RealTime(t)
  PROVE  /\ SecondOfDay(t) \in 0 .. DayLength - 1
         /\ DayLength \in Nat /\ DayLength > 0
<1>. DEFINE a == t.hour * MINUTES + t.minute
            b == HOURS * MINUTES
<1>1. t.hour \in 0 .. HOURS - 1 /\ t.minute \in 0 .. MINUTES - 1 /\ t.second \in 0 .. SECONDS - 1
  BY DEF RealTime, Times, Byte
<1>2. \A i \in Nat, j \in Nat, k \in Nat : i <= j => i * k <= j * k /\ i * k \in Nat
  OBVIOUS
<1>3. /\ t.hour * MINUTES <= (HOURS - 1) * MINUTES
      /\ t.hour * MINUTES \in Nat /\ (HOURS - 1) * MINUTES = b - MINUTES /\ b \in Nat
  BY <1>1, <1>2
<1>4. a \in 0 .. b - 1
  BY <1>1, <1>3
<1>. HIDE DEF a, b
<1>5. a * SECONDS <= (b - 1) * SECONDS /\ a * SECONDS \in Nat
      /\ (b - 1) * SECONDS = b * SECONDS - SECONDS /\ b * SECONDS \in Nat
  BY <1>2, <1>3, <1>4
<1>6. SecondOfDay(t) = a * SECONDS + t.second /\ DayLength = b * SECONDS
  BY DEF SecondOfDay, DayLength, a, b
<1>. QED  BY <1>1, <1>5, <1>6

LEMMA LastIsLast ==
  ASSUME NEW t \in Times, RealTime(t)
  PROVE  LastSecond(t) <=> SecondOfDay(t) = DayLength - 1
<1>1. SecondOfDay(t) \in 0 .. DayLength - 1 /\ DayLength \in Nat
  BY SecondsOfADay
<1>2. SecondOfDay(SecondAfter(t)) \in 0 .. DayLength - 1
  BY SecondsAddUp, SecondsOfADay
<1>3. SecondOfDay(SecondAfter(t)) =
        IF LastSecond(t) THEN SecondOfDay(t) + 1 - DayLength ELSE SecondOfDay(t) + 1
  BY SecondsAddUp
<1>. QED  BY <1>1, <1>2, <1>3

-----------------------------------------------------------------------------
(* The tick of the clock.                                                  *)

\* Within a day, whatever the year.
LEMMA TickInDay ==
  ASSUME NEW dt \in Datetimes, Real(dt), ~LastSecond(dt.time)
  PROVE  LET n == RTCProcessTime(dt)
         IN  n.date = dt.date /\ n.time = SecondAfter(dt.time)
<1>. DEFINE d == dt.date
            n == RTCProcessTime(dt)
            e == [dt EXCEPT !.time.second = U8(dt.time.second + 1)]
            o == RTCProcessOverflowTime(e)
<1>1. d \in Dates /\ RealDate(d) /\ d.day \in Byte
  BY DEF Real, Datetimes, Dates
<1>2. /\ o.time = SecondAfter(dt.time)
      /\ o.date = [d EXCEPT !.day = U8(d.day + IF LastSecond(dt.time) THEN 1 ELSE 0)]
  BY OverflowIsSecondAfter
<1>3. U8(d.day + 0) = d.day
  BY <1>1 DEF U8, Byte
<1>4. o.date = d
  BY <1>1, <1>2, <1>3 DEF Dates
<1>5. RTCProcessOverflowDate(d) = d
  BY <1>1, RealIsCode, DayAfterExists
<1>6. o = [date |-> o.date, time |-> o.time]
  BY DEF RTCProcessOverflowTime
<1>. HIDE DEF o
<1>7. n = [o EXCEPT !.date = RTCProcessOverflowDate(o.date)]
  BY DEF RTCProcessTime, RTCProcessOverflowDatetime, o
<1>. QED  BY <1>2, <1>4, <1>5, <1>6, <1>7

LEMMA TickIsSecondAfter ==
  ASSUME NEW dt \in Datetimes, Real(dt), dt.date.year <= 99
  PROVE  LET n == RTCProcessTime(dt)
         IN  /\ n.time = SecondAfter(dt.time)
             /\ n.date = IF LastSecond(dt.time) THEN DayAfter(dt.date) ELSE dt.date
             /\ n = [date |-> n.date, time |-> n.time]
<1> DEFINE d == dt.date
           t == dt.time
           n == RTCProcessTime(dt)
<1>1. d \in Dates /\ RealDate(d) /\ t \in Times /\ RealTime(t)
  BY DEF Real, Datetimes
<1>2. d.day \in 1 .. 31
  <2>1. d.month \in 1 .. 12 /\ d.year \in 0 .. 99 /\ d.day \in 1 .. DaysOf(d.month, d.year)
    BY <1>1 DEF RealDate, Dates, Byte
  <2>2. DaysOf(d.month, d.year) \in 28 .. 31
    BY <2>1, RealMonth
  <2> HIDE DEF d
  <2>3. QED
    BY <2>1, <2>2
<1>3. /\ n.time = SecondAfter(t)
      /\ n.date = RTCProcessOverflowDate([d EXCEPT !.day =
                    U8(d.day + IF LastSecond(t) THEN 1 ELSE 0)])
      /\ n = [date |-> n.date, time |-> n.time]
  <2> DEFINE e == [dt EXCEPT !.time.second = U8(dt.time.second + 1)]
             o == RTCProcessOverflowTime(e)
  <2>1. /\ o.time = SecondAfter(t)
        /\ o.date = [d EXCEPT !.day = U8(d.day + IF LastSecond(t) THEN 1 ELSE 0)]
    BY OverflowIsSecondAfter
  <2>2. o = [date |-> o.date, time |-> o.time]
    BY DEF RTCProcessOverflowTime
  <2>3. n = [o EXCEPT !.date = RTCProcessOverflowDate(o.date)]
    <3> HIDE DEF o
    <3>1. QED
      BY DEF RTCProcessTime, RTCProcessOverflowDatetime, o
  <2> HIDE DEF o, n
  <2>4. QED
    BY <2>1, <2>2, <2>3
<1> HIDE DEF n
<1>4. CASE LastSecond(t)
  <2>1. U8(d.day + 1) = d.day + 1
    BY <1>2 DEF U8
  <2>2. n.date = DayAfter(d)
    BY <1>1, <1>3, <1>4, <2>1, OverflowIsDayAfter
  <2>. QED  BY <1>3, <1>4, <2>2 DEF n
<1>5. CASE ~LastSecond(t)
  <2>1. U8(d.day + 0) = d.day
    BY <1>2 DEF U8
  <2>2. [d EXCEPT !.day = d.day] = d
    BY <1>1 DEF Dates
  <2>3. n.date = d
    BY <1>1, <1>3, <1>5, <2>1, <2>2, OverflowIsDayAfter
  <2>. QED  BY <1>3, <1>5, <2>3 DEF n
<1>6. QED
  BY <1>4, <1>5

\* Up to the first second of 2100.
LEMMA TickIsOneSecond ==
  ASSUME NEW dt \in Datetimes, Real(dt), dt.date.year <= 99
  PROVE  LET n == RTCProcessTime(dt)
         IN  /\ n \in Datetimes /\ Real(n)
             /\ n.date.year <= 99 \/ n.date = Date(100, 1, 1)
             /\ Elapsed(dt, n) = 1
<1> DEFINE d == dt.date
           t == dt.time
           n == RTCProcessTime(dt)
<1>1. d \in Dates /\ RealDate(d) /\ t \in Times /\ RealTime(t)
  BY DEF Real, Datetimes
<1>2. /\ n.time = SecondAfter(t) /\ n = [date |-> n.date, time |-> n.time]
      /\ n.date = IF LastSecond(t) THEN DayAfter(d) ELSE d
  BY TickIsSecondAfter
<1> HIDE DEF n
<1>3. DayLength \in Int
  BY DEF DayLength
<1>4. CASE LastSecond(t)
  <2>1. DayNumber(n.date) = DayNumber(d) + 1 /\ DayNumber(d) \in Int
    BY <1>1, <1>2, <1>4, DayAfterIsNext
  <2>2. /\ SecondOfDay(n.time) = SecondOfDay(t) + 1 - DayLength
        /\ SecondOfDay(t) \in Int
    BY <1>1, <1>2, <1>4, SecondsAddUp
  <2>3. (DayNumber(n.date) - DayNumber(d)) * DayLength = DayLength
    BY <1>3, <2>1
  <2>4. Elapsed(dt, n) = 1
    BY <1>3, <2>2, <2>3 DEF Elapsed
  <2>5. n.date \in Dates /\ RealDate(n.date) /\ (n.date.year <= 99 \/ n.date = Date(100, 1, 1))
    BY <1>1, <1>2, <1>4, DayAfterIsNext
  <2>6. QED
    BY <1>1, <1>2, <2>4, <2>5, SecondsAddUp DEF Real, Datetimes, n
<1>5. CASE ~LastSecond(t)
  <2>1. n.date = d /\ DayNumber(d) \in Int
    BY <1>1, <1>2, <1>5, DayAfterIsNext
  <2>2. SecondOfDay(n.time) = SecondOfDay(t) + 1 /\ SecondOfDay(t) \in Int
    BY <1>1, <1>2, <1>5, SecondsAddUp
  <2>3. (DayNumber(n.date) - DayNumber(d)) * DayLength = 0
    BY <1>3, <2>1
  <2>4. Elapsed(dt, n) = 1
    BY <2>2, <2>3 DEF Elapsed
  <2>5. QED
    BY <1>1, <1>2, <2>1, <2>4, SecondsAddUp DEF Real, Datetimes, n
<1>6. QED
  BY <1>4, <1>5
=============================================================================
