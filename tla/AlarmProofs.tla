---------------------------- MODULE AlarmProofs ----------------------------
(***************************************************************************)
(* Theorems about Alarm, for any length of the day, whatever the EEPROM    *)
(* holds and the user types, with resets and at any moment of the          *)
(* interrupt: an alarm that exists goes on to, it stays at its time of     *)
(* day, and is missed by one check at most.  And about AlarmSequence,      *)
(* which it starts.                                                        *)
(***************************************************************************)
EXTENDS Alarm, AlarmSequence, RtcProofs

-----------------------------------------------------------------------------
\* Whatever half a day is added to.
LEMMA HalfDayTyped == ASSUME NEW dt \in Datetimes PROVE RTCAddHours(dt, HalfDay) \in Datetimes
<1>. DEFINE e == [dt EXCEPT !.time.hour = U8(dt.time.hour + HalfDay)]
<1>1. dt.time.hour \in Int /\ HalfDay \in Int
  BY DayAssumption DEF HalfDay, Datetimes, Times, Byte
<1>2. U8(dt.time.hour + HalfDay) \in Byte
  BY <1>1 DEF U8, Byte
<1>3. e \in Datetimes
  BY <1>2 DEF Datetimes, Times
<1>4. RTCAddHours(dt, HalfDay) = RTCProcessOverflowDatetime(e)
  BY DEF RTCAddHours
<1>. HIDE DEF e
<1>. QED  BY <1>3, <1>4, TimeTyped

\* Half a day later it is a time of the day, at the same minute, of a date that
\* exists if it did before.
LEMMA HalfDayLater ==
  ASSUME NEW dt \in Datetimes, RealTime(dt.time)
  PROVE  LET r == RTCAddHours(dt, HalfDay)
         IN  /\ r \in Datetimes /\ RealTime(r.time) /\ (CodeDate(dt.date) => CodeDate(r.date))
             /\ r.time.hour = (dt.time.hour + HalfDay) % HOURS
             /\ r.time.minute = dt.time.minute /\ r.time.second = dt.time.second
<1>. DEFINE t == dt.time
            d == dt.date
            h == t.hour + HalfDay
            e == [dt EXCEPT !.time.hour = U8(h)]
            o == RTCProcessOverflowTime(e)
            r == RTCAddHours(dt, HalfDay)
<1>1. /\ t.hour \in 0 .. HOURS - 1 /\ t.minute \in 0 .. MINUTES - 1
      /\ t.second \in 0 .. SECONDS - 1 /\ d \in Dates
      /\ t = Time(t.hour, t.minute, t.second) /\ dt = [date |-> d, time |-> t]
  <2>2. t \in Times /\ d \in Dates /\ dt = [date |-> d, time |-> t]
    BY DEF Datetimes
  <2>4. t.hour \in Nat /\ t.minute \in Nat /\ t.second \in Nat
    BY <2>2 DEF Times, Byte
  <2>5. t = Time(t.hour, t.minute, t.second)
    BY <2>2 DEF Times, Time
  <2>6. /\ t.hour \in 0 .. HOURS - 1 /\ t.minute \in 0 .. MINUTES - 1
        /\ t.second \in 0 .. SECONDS - 1
    BY <2>4, DayAssumption DEF RealTime
  <2>. QED  BY <2>2, <2>5, <2>6
<1>2. HalfDay \in 0 .. 12 /\ HalfDay <= HOURS
  BY DayAssumption DEF HalfDay
<1>3. h \in 0 .. 2 * HOURS - 1 /\ U8(h) = h /\ h \in 0 .. 47
  <2>1. HalfDay + HalfDay <= HOURS
    BY DayAssumption DEF HalfDay
  <2>2. h \in 0 .. 2 * HOURS - 1 /\ h \in 0 .. 47
    BY <1>1, <1>2, <2>1, DayAssumption
  <2>. QED  BY <2>2 DEF U8
<1>4. e.date = d /\ e.time.hour = h /\ e.time.minute = t.minute /\ e.time.second = t.second
  BY <1>1, <1>3 DEF Time
<1>. HIDE DEF e, h
<1>5. t.second \div SECONDS = 0 /\ t.second % SECONDS = t.second
  BY <1>1, NoCarry, DayAssumption
<1>6. t.minute \div MINUTES = 0 /\ t.minute % MINUTES = t.minute /\ U8(t.minute + 0) = t.minute
  <2>1. MINUTES \in 1 .. 60 /\ t.minute \in 0 .. MINUTES - 1
    BY <1>1, DayAssumption
  <2>. HIDE DEF t
  <2>2. t.minute + 0 = t.minute /\ t.minute % 256 = t.minute
    BY <2>1
  <2>. QED  BY <2>1, <2>2, NoCarry DEF U8
<1>7. h \div HOURS \in {0, 1} /\ h % HOURS \in 0 .. HOURS - 1 /\ U8(h + 0) = h
  BY <1>3, CarryAtMostOnce, DayAssumption DEF U8
<1>8. /\ o.time = Time(h % HOURS, t.minute, t.second)
      /\ o.date = [d EXCEPT !.day = U8(d.day + h \div HOURS)]
      /\ o = [date |-> o.date, time |-> o.time]
  BY <1>4, <1>5, <1>6, <1>7 DEF RTCProcessOverflowTime
<1>9. r = [o EXCEPT !.date = RTCProcessOverflowDate(o.date)]
  BY DEF RTCAddHours, RTCProcessOverflowDatetime, e, h
<1>. HIDE DEF o, r
<1>10. r.time = o.time /\ r.date = RTCProcessOverflowDate(o.date)
       /\ r = [date |-> r.date, time |-> r.time]
  BY <1>8, <1>9
<1>11. r.time \in Times /\ RealTime(r.time) /\ r.time.hour = h % HOURS
       /\ r.time.minute = t.minute /\ r.time.second = t.second
  BY <1>1, <1>7, <1>8, <1>10, DayAssumption DEF Times, Time, RealTime, Byte
<1>12. ASSUME CodeDate(d) PROVE CodeDate(r.date)
  <2>0. d.day \in 1 .. 31
    BY <1>1, <1>12, MonthLength DEF CodeDate
  <2>1. CASE h \div HOURS = 0
    <3>1. o.date = d
      BY <1>1, <1>8, <2>0, <2>1 DEF U8, Dates
    <3>. QED  BY <1>1, <1>10, <1>12, <3>1, DayAfterExists
  <2>2. CASE h \div HOURS = 1
    <3>1. o.date = [d EXCEPT !.day = d.day + 1]
      BY <1>1, <1>8, <2>0, <2>2 DEF U8
    <3>. QED  BY <1>1, <1>10, <1>12, <3>1, DayAfterExists
  <2>. QED  BY <1>7, <2>1, <2>2
<1>13. r \in Datetimes
  BY HalfDayTyped DEF r
<1>. QED  BY <1>11, <1>12, <1>13 DEF r, h

\* Half a day is the same on both halves.
LEMMA SameHalf ==
  ASSUME HOURS % 2 = 0, NEW x \in 0 .. HOURS - 1
  PROVE  ((x + HalfDay) % HOURS) % HalfDay = x % HalfDay
<1>1. PICK k \in 1 .. 12 : HOURS = 2 * k
  BY DayAssumption
<1>2. HalfDay = k
  BY <1>1 DEF HalfDay
<1>3. x < k \/ x >= k
  BY <1>1
<1>4. (x + k) % HOURS = IF x < k THEN x + k ELSE x - k
  BY <1>1
<1>5. x % k = IF x < k THEN x ELSE x - k
  BY <1>1, CarryAtMostOnce
<1>6. (x + k) % k = x % k
  BY <1>1
<1>7. x >= k => (x - k) % k = x - k
  BY <1>1, CarryAtMostOnce
<1>. QED  BY <1>2, <1>3, <1>4, <1>5, <1>6, <1>7

-----------------------------------------------------------------------------
(* The inductive invariant.  Neither the clock nor the alarm need show a   *)
(* date that exists.  A time of day that has been set stays one.           *)

AlarmTyped ==
  /\ datetime \in Datetimes /\ alarm \in Datetimes /\ alarmEEPROM \in Datetimes
  /\ chosen \in Times
  /\ today \in [Fields -> Byte \cup {-1}]

Kept ==
  RealTime(chosen) =>
    \A a \in {alarm, alarmEEPROM} :
      /\ RealTime(a.time)
      /\ HOURS % 2 = 0 => a.time.hour % HalfDay = chosen.hour % HalfDay
      /\ a.time.minute = chosen.minute /\ a.time.second = chosen.second

AlarmInv == AlarmTyped /\ Kept

LEMMA ExistsIsCode ==
  ASSUME NEW a \in Datetimes
  PROVE  Exists(a) <=> CodeDate(a.date) /\ RealTime(a.time)
<1>1. a.date \in Dates /\ a.date.year \in 0 .. 255
  BY DEF Datetimes, Dates, Byte
<1>2. ASSUME a.date.year <= 99, a.date.month \in 1 .. 12
      PROVE  DaysOf(a.date.month, a.date.year) = RTCGetDaysInMonth(a.date.month, a.date.year)
  BY <1>1, <1>2 DEF DaysOf, RTCGetDaysInMonth, LeapYear, RTCGetIsLeapYear
<1>. QED  BY <1>1, <1>2 DEF Exists, CodeDate

LEMMA InitIInv == Init => AlarmInv
<1>. SUFFICES ASSUME Init PROVE AlarmInv
  OBVIOUS
<1>1. /\ datetime \in Datetimes /\ alarm \in Datetimes
      /\ alarmEEPROM = alarm /\ chosen = alarm.time
  BY StartsAssumption, AlarmStartsAssumption DEF Init
<1>2. AlarmTyped
  BY <1>1 DEF Init, AlarmTyped, Unread, Datetimes
<1>3. Kept
  BY <1>1 DEF Kept
<1>. QED  BY <1>2, <1>3 DEF AlarmInv

\* The alarm and its copy are kept, saved or loaded.
LEMMA CopySound ==
  ASSUME AlarmInv, chosen' = chosen, datetime' \in Datetimes,
         today' \in [Fields -> Byte \cup {-1}],
         alarm' \in {alarm, alarmEEPROM}, alarmEEPROM' \in {alarm, alarmEEPROM}
  PROVE  AlarmInv'
<1>1. AlarmTyped'
  BY DEF AlarmInv, AlarmTyped
<1>2. Kept'
  BY DEF AlarmInv, Kept, RealTime
<1>. QED  BY <1>1, <1>2 DEF AlarmInv

\* What RTCUpdateDate makes of the fields that were read.
LEMMA UpdatedExists ==
  ASSUME AlarmInv, \A f \in Fields : today[f] # -1
  PROVE  LET d == Date(today["year"], today["month"], today["day"])
             n == RTCUpdateDate(alarm.date, d)
         IN  n \in Dates /\ (CodeDate(alarm.date) => CodeDate(n))
<1>. DEFINE d == Date(today["year"], today["month"], today["day"])
<1>1. today["year"] \in Byte /\ today["month"] \in Byte /\ today["day"] \in Byte
  BY DEF AlarmInv, AlarmTyped, Fields
<1>2. d \in Dates
  BY <1>1 DEF Date, Dates
<1>3. Accepted(d) => CodeDate(d)
  BY DEF Accepted, CodeDate
<1>4. alarm.date \in Dates
  BY DEF AlarmInv, AlarmTyped, Datetimes
<1>. HIDE DEF d
<1>5. RTCUpdateDate(alarm.date, d) \in Dates
      /\ (CodeDate(alarm.date) => CodeDate(RTCUpdateDate(alarm.date, d)))
  BY <1>2, <1>3, <1>4 DEF RTCUpdateDate
<1>. QED  BY <1>5 DEF d

LEMMA MoveKeeps ==
  ASSUME AlarmInv, Move
  PROVE  AlarmInv' /\ (Exists(alarm) => Exists(alarm)')
<1>. DEFINE d == Date(today["year"], today["month"], today["day"])
            n == RTCUpdateDate(alarm.date, d)
            a == [alarm EXCEPT !.date = n]
<1>1. n \in Dates /\ (CodeDate(alarm.date) => CodeDate(n))
  BY UpdatedExists DEF Move
<1>. HIDE DEF d, n
<1>2. /\ a \in Datetimes /\ a.date = n /\ a.time = alarm.time
      /\ alarm.time \in Times /\ alarm \in Datetimes
  BY <1>1 DEF AlarmInv, AlarmTyped, Datetimes
<1>3. alarm' = IF moves = "halfday" THEN RTCAddHours(a, HalfDay)
               ELSE [a EXCEPT !.date = RTCAddDate(a.date, 0, 0, 1)]
  BY DEF Move, Moved, n, d
<1>. HIDE DEF a
<1>4. /\ datetime' = datetime /\ chosen' = chosen /\ alarmEEPROM' = alarmEEPROM
      /\ today' = Unread
  BY DEF Move, Return, user
<1>5. /\ n.year \in Byte /\ n.month \in Byte /\ n.day \in Byte
      /\ n = Date(n.year, n.month, n.day)
  BY <1>1 DEF Dates, Date
<1>6. RTCAddDate(n, 0, 0, 1) \in Dates
  <2>1. U8(n.year + 0) \in Byte /\ U8(n.month + 0) \in Byte /\ U8(n.day + 1) \in Byte
    BY <1>5 DEF U8, Byte
  <2>2. Date(U8(n.year + 0), U8(n.month + 0), U8(n.day + 1)) \in Dates
    BY <2>1 DEF Date, Dates
  <2>. QED  BY <2>2, OverflowTyped DEF RTCAddDate
<1>7. alarm' \in Datetimes
  BY <1>2, <1>3, <1>6, HalfDayTyped DEF Datetimes
<1>8. ASSUME RealTime(alarm.time)
      PROVE  /\ RealTime(alarm'.time)
             /\ alarm'.time.minute = alarm.time.minute
             /\ alarm'.time.second = alarm.time.second
             /\ \/ alarm'.time.hour = (alarm.time.hour + HalfDay) % HOURS
                \/ alarm'.time.hour = alarm.time.hour
  <2>1. CASE moves = "halfday"
    BY <1>2, <1>3, <1>8, <2>1, HalfDayLater
  <2>2. CASE moves # "halfday"
    <3>1. alarm'.time = alarm.time
      BY <1>2, <1>3, <2>2 DEF Datetimes
    <3>. QED  BY <1>8, <3>1
  <2>. QED  BY <2>1, <2>2
<1>9. ASSUME Exists(alarm) PROVE Exists(alarm')
  <2>1. CodeDate(n) /\ RealTime(alarm.time)
    BY <1>1, <1>2, <1>9, ExistsIsCode
  <2>2. CodeDate(alarm'.date)
    <3>1. CASE moves = "halfday"
      BY <1>2, <1>3, <2>1, <3>1, HalfDayLater
    <3>2. CASE moves # "halfday"
      <4>1. n.day \in 1 .. 31
        BY <2>1, MonthLength DEF CodeDate
      <4>2. Date(U8(n.year + 0), U8(n.month + 0), U8(n.day + 1)) = [n EXCEPT !.day = n.day + 1]
        BY <1>5, <4>1 DEF U8, Byte, Date
      <4>3. RTCAddDate(n, 0, 0, 1) = RTCProcessOverflowDate([n EXCEPT !.day = n.day + 1])
        BY <4>2 DEF RTCAddDate
      <4>4. CodeDate(RTCAddDate(n, 0, 0, 1))
        BY <1>1, <2>1, <4>3, DayAfterExists
      <4>5. alarm'.date = RTCAddDate(n, 0, 0, 1)
        BY <1>2, <1>3, <3>2 DEF Datetimes
      <4>. QED  BY <4>4, <4>5
    <3>. QED  BY <3>1, <3>2
  <2>. QED  BY <1>7, <1>8, <2>1, <2>2, ExistsIsCode
<1>10. AlarmTyped'
  BY <1>4, <1>7 DEF AlarmInv, AlarmTyped, Unread
<1>11. Kept'
  <2>. SUFFICES ASSUME RealTime(chosen)
                PROVE  /\ RealTime(alarm'.time)
                       /\ HOURS % 2 = 0 => alarm'.time.hour % HalfDay = chosen.hour % HalfDay
                       /\ alarm'.time.minute = chosen.minute /\ alarm'.time.second = chosen.second
    BY <1>4 DEF AlarmInv, Kept, RealTime
  <2>1. /\ RealTime(alarm.time)
        /\ HOURS % 2 = 0 => alarm.time.hour % HalfDay = chosen.hour % HalfDay
        /\ alarm.time.minute = chosen.minute /\ alarm.time.second = chosen.second
    BY DEF AlarmInv, Kept
  <2>2. alarm.time.hour \in 0 .. HOURS - 1
    <3>1. alarm.time.hour \in 0 .. 255
      BY <1>2 DEF Times, Byte
    <3>2. alarm.time.hour < HOURS /\ HOURS \in Int
      BY <2>1, DayAssumption DEF RealTime
    <3>. QED  BY <3>1, <3>2
  <2>3. HOURS % 2 = 0 => alarm'.time.hour % HalfDay = alarm.time.hour % HalfDay
    BY <1>8, <2>1, <2>2, SameHalf
  <2>. QED  BY <1>8, <2>1, <2>3
<1>12. (Exists(alarm))' <=> Exists(alarm')
  BY DEF Exists
<1>. QED  BY <1>9, <1>10, <1>11, <1>12 DEF AlarmInv

LEMMA LineKeeps ==
  ASSUME AlarmInv, NEW text, NEW d \in DateInputs, NEW t \in TimeInputs, Line(text, d, t)
  PROVE  /\ AlarmInv'
         /\ Exists(alarm) /\ Exists(alarmEEPROM) => Exists(alarm)' /\ Exists(alarmEEPROM)'
<1>1. d \in Dates /\ t \in Times /\ alarm \in Datetimes /\ datetime \in Datetimes
  BY InputsAssumption DEF AlarmInv, AlarmTyped
<1>2. Unread \in [Fields -> Byte \cup {-1}]
  BY DEF Unread
<1>3. CASE AlarmLine(text)
  <2>1. UNCHANGED <<datetime, alarm, alarmEEPROM, chosen>> /\ today' \in {today, Unread}
    BY <1>3 DEF AlarmLine, Test, call
  <2>. QED  BY <1>2, <2>1, CopySound DEF AlarmInv, AlarmTyped, Exists
<1>4. CASE DateLine(text, d)
  <2>1. /\ datetime' = [datetime EXCEPT !.date = d] /\ alarm' = [alarm EXCEPT !.date = d]
        /\ alarmEEPROM' = alarm /\ chosen' = chosen /\ today' = Unread /\ Accepted(d)
    BY <1>4 DEF DateLine, Test
  <2>2. CodeDate(d)
    BY <2>1 DEF Accepted, CodeDate
  <2>3. /\ datetime' \in Datetimes /\ alarm' \in Datetimes
        /\ alarm'.date = d /\ alarm'.time = alarm.time
    BY <1>1, <2>1 DEF Datetimes
  <2>4. AlarmTyped'
    BY <1>2, <2>1, <2>3 DEF AlarmInv, AlarmTyped
  <2>5. Kept'
    BY <2>1, <2>3 DEF AlarmInv, Kept, RealTime
  <2>6. Exists(alarm) => Exists(alarm') /\ Exists(alarmEEPROM')
    BY <1>1, <2>1, <2>2, <2>3, ExistsIsCode
  <2>. QED  BY <2>4, <2>5, <2>6 DEF AlarmInv, Exists
<1>5. CASE TimeLine(text, t)
  <2>1. /\ datetime' = [datetime EXCEPT !.time = t] /\ UNCHANGED <<alarm, chosen>>
        /\ alarmEEPROM' = alarm /\ today' = Unread
    BY <1>5 DEF TimeLine, Test
  <2>2. datetime' \in Datetimes
    BY <1>1, <2>1 DEF Datetimes
  <2>. QED  BY <1>2, <2>1, <2>2, CopySound DEF Exists
<1>6. CASE AlarmTimeLine(text, t)
  <2>1. /\ alarm' = [alarm EXCEPT !.time = t] /\ chosen' = t /\ datetime' = datetime
        /\ alarmEEPROM' = alarm' /\ today' = Unread /\ RTCIsValidtime(t)
    BY <1>6 DEF AlarmTimeLine, SetAlarm, Test
  <2>2. alarm' \in Datetimes /\ alarm'.date = alarm.date /\ alarm'.time = t
    BY <1>1, <2>1 DEF Datetimes
  <2>3. AlarmTyped'
    BY <1>1, <1>2, <2>1, <2>2 DEF AlarmInv, AlarmTyped
  <2>4. RealTime(t)
    BY <2>1 DEF RTCIsValidtime, RealTime
  <2>5. Kept'
    BY <2>1, <2>2, <2>4 DEF Kept, RealTime
  <2>6. Exists(alarm) => Exists(alarm') /\ Exists(alarmEEPROM')
    BY <1>1, <2>1, <2>2, <2>4, ExistsIsCode
  <2>. QED  BY <2>3, <2>5, <2>6 DEF AlarmInv, Exists
<1>. QED  BY <1>3, <1>4, <1>5, <1>6 DEF Line

LEMMA StepKeepsIInv ==
  ASSUME AlarmInv, [Next]_vars
  PROVE  /\ AlarmInv'
         /\ Exists(alarm) /\ Exists(alarmEEPROM) => Exists(alarm)' /\ Exists(alarmEEPROM)'
<1>. DEFINE Goal ==
       /\ AlarmInv'
       /\ Exists(alarm) /\ Exists(alarmEEPROM) => Exists(alarm)' /\ Exists(alarmEEPROM)'
<1>1. CASE RTC_OVF
  <2>1. UNCHANGED <<alarm, alarmEEPROM, chosen, today>> /\ datetime' = RTCProcessTime(datetime)
    BY <1>1 DEF RTC_OVF, user
  <2>2. datetime' \in Datetimes
    BY <2>1, TickTyped DEF AlarmInv, AlarmTyped
  <2>. QED  BY <2>1, <2>2, CopySound DEF AlarmInv, AlarmTyped, Exists
<1>2. CASE CompareDates \/ CompareTimes \/ alarmCheck
  <2>1. UNCHANGED <<datetime, alarm, alarmEEPROM, chosen>> /\ today' \in {today, Unread}
    BY <1>2 DEF CompareDates, CompareTimes, alarmCheck, Test, Return, user
  <2>. QED  BY <2>1, CopySound DEF AlarmInv, AlarmTyped, Unread, Exists
<1>3. ASSUME NEW f \in Fields, ReadField(f)
      PROVE  Goal
  <2>1. /\ UNCHANGED <<datetime, alarm, alarmEEPROM, chosen>>
        /\ today' = [today EXCEPT ![f] = datetime.date[f]]
    BY <1>3 DEF ReadField, user
  <2>2. datetime.date[f] \in Byte
    BY DEF AlarmInv, AlarmTyped, Datetimes, Dates, Fields
  <2>. QED  BY <2>1, <2>2, CopySound DEF AlarmInv, AlarmTyped, Exists
<1>4. CASE Move
  <2>1. alarmEEPROM' = alarmEEPROM
    BY <1>4 DEF Move, user
  <2>. QED  BY <1>4, <2>1, MoveKeeps DEF Exists
<1>5. ASSUME NEW text \in Texts, NEW d \in DateInputs, NEW t \in TimeInputs, Line(text, d, t)
      PROVE  Goal
  BY <1>5, LineKeeps
<1>6. CASE writeTimeToEE
  <2>1. UNCHANGED <<datetime, alarm, chosen, today>> /\ alarmEEPROM' = alarm
    BY <1>6 DEF writeTimeToEE, call
  <2>. QED  BY <2>1, CopySound DEF AlarmInv, AlarmTyped, Exists
<1>7. CASE Reset
  <2>1. /\ datetime' \in Datetimes /\ alarm' = alarmEEPROM
        /\ UNCHANGED <<alarmEEPROM, chosen>> /\ today' = Unread
    BY <1>7, StartsAssumption DEF Reset, Return, user
  <2>. QED  BY <2>1, CopySound DEF Unread, Exists
<1>8. CASE UNCHANGED vars
  BY <1>8, CopySound DEF vars, user, call, AlarmInv, AlarmTyped, Exists
<1>. QED  BY <1>1, <1>2, <1>3, <1>4, <1>5, <1>6, <1>7, <1>8 DEF Next

\* The invariant holds for every length of the day and everything that is
\* loaded and typed.
THEOREM AlarmInvariant == Spec => []AlarmInv
<1>1. AlarmInv /\ [Next]_vars => AlarmInv'
  BY StepKeepsIInv
<1>. QED  BY InitIInv, <1>1, PTL DEF Spec

\* Whatever the EEPROM held, whatever is typed, and whenever the board is reset
\* or the interrupt comes between the reads: an alarm that exists, as its copy
\* does, is only ever replaced by one that exists.
THEOREM AlarmIsAlwaysReal == Spec => AlarmStaysReal
<1>1. AlarmInv /\ [Next]_vars =>
        [Exists(alarm) /\ Exists(alarmEEPROM) => Exists(alarm)' /\ Exists(alarmEEPROM)']_vars
  BY StepKeepsIInv
<1>. QED  BY AlarmInvariant, <1>1, PTL DEF Spec, AlarmStaysReal

\* In days of an even number of hours the alarm and its copy stay at the time of
\* day, or half a day from the time, to which the alarm was set.
THEOREM AlarmKeepsItsTime ==
  ASSUME HOURS % 2 = 0
  PROVE  Spec => []AlarmTimeKept
<1>1. AlarmInv => AlarmTimeKept
  BY DEF AlarmInv, Kept, AlarmTimeKept, HalfDay
<1>. QED  BY AlarmInvariant, <1>1, PTL

-----------------------------------------------------------------------------
(* The order of the comparisons.                                           *)

USE DayAssumption

\* A day of any year of the code's calendar has a number.
LEMMA DayNumbers ==
  ASSUME NEW d \in Dates, CodeDate(d)
  PROVE  /\ DayNumber(d) \in Int /\ DaysBeforeYear(d.year) <= DayNumber(d)
         /\ DaysBeforeYear(d.year) \in Int /\ DaysBeforeMonth(d.month, d.year) \in Nat
<1>1. d.year \in Byte /\ d.month \in 1 .. 12 /\ d.day \in 1 .. 31
  BY MonthLength DEF CodeDate, Dates
<1>2. DaysBeforeYear(d.year) \in Int
  BY <1>1 DEF DaysBeforeYear, Byte
<1>3. DaysBeforeMonth(d.month, d.year) \in Nat
  BY <1>1 DEF DaysBeforeMonth
<1>. HIDE DEF CodeDate
<1>. QED  BY <1>1, <1>2, <1>3 DEF DayNumber

LEMMA YearsGrow ==
  ASSUME NEW y \in 0 .. 99, NEW z \in Byte, y < z
  PROVE  DaysBeforeYear(y + 1) <= DaysBeforeYear(z)
<1>1. (z + 3) \div 4 >= (y + 4) \div 4
  BY DEF Byte
<1>2. DaysBeforeYear(y + 1) = 365 * (y + 1) + (y + 4) \div 4
  BY DEF DaysBeforeYear
<1>3. CASE z <= 100
  BY <1>1, <1>2, <1>3 DEF DaysBeforeYear, Byte
<1>4. CASE z > 100
  BY <1>1, <1>2, <1>4 DEF DaysBeforeYear, Byte
<1>. QED  BY <1>3, <1>4 DEF Byte

LEMMA MonthsGrow ==
  ASSUME NEW y \in 0 .. 99, NEW m \in 1 .. 12, NEW n \in 1 .. 12, m < n
  PROVE  DaysBeforeMonth(m, y) + DaysOf(m, y) <= DaysBeforeMonth(n, y)
<1>1. m \in 1 .. 11 /\ DaysBeforeMonth(m + 1, y) = DaysBeforeMonth(m, y) + DaysOf(m, y)
  BY MonthsAddUp
<1>2. \A k \in 2 .. 11 : DaysBeforeMonth(k, y) <= DaysBeforeMonth(k + 1, y)
  <2>1. ASSUME NEW k \in 2 .. 11 PROVE DaysBeforeMonth(k, y) <= DaysBeforeMonth(k + 1, y)
    <3>1. DaysBeforeMonth(k + 1, y) = DaysBeforeMonth(k, y) + DaysOf(k, y)
      BY MonthsAddUp
    <3>2. k \in 1 .. 12 /\ DaysBeforeMonth(k, y) \in Int
      BY MonthsAddUp
    <3>3. DaysOf(k, y) \in 28 .. 31
      BY <3>2, RealMonth
    <3>. QED  BY <3>1, <3>2, <3>3
  <2>. QED  BY <2>1
<1>3. \A k \in 2 .. 12 : DaysBeforeMonth(k, y) \in Int
  BY MonthsAddUp
<1>. DEFINE B(k) == DaysBeforeMonth(k, y)
<1>4. /\ B(2) <= B(3) /\ B(3) <= B(4) /\ B(4) <= B(5) /\ B(5) <= B(6) /\ B(6) <= B(7)
      /\ B(7) <= B(8) /\ B(8) <= B(9) /\ B(9) <= B(10) /\ B(10) <= B(11) /\ B(11) <= B(12)
  BY <1>2
<1>5. \A i \in 2 .. 12, j \in 2 .. 12 : i <= j => B(i) <= B(j)
  <2>1. ASSUME NEW i \in 2 .. 12, NEW j \in 2 .. 12, i <= j PROVE B(i) <= B(j)
    <3>. HIDE DEF B
    <3>1. i \in {2, 3, 4, 5, 6, 7, 8, 9, 10, 11, 12} /\ j \in {2, 3, 4, 5, 6, 7, 8, 9, 10, 11, 12}
      OBVIOUS
    <3>2. \A k \in 2 .. 12 : B(k) \in Int
      BY <1>3 DEF B
    <3>. QED  BY <1>4, <2>1, <3>1, <3>2
  <2>. QED  BY <2>1
<1>6. B(m + 1) <= B(n)
  BY <1>1, <1>5
<1>. QED  BY <1>1, <1>6

\* A date that is not surpassed is not later.
LEMMA LaterIsSurpassed ==
  ASSUME NEW d \in Dates, RealDate(d), d.year <= 99, NEW a \in Dates, CodeDate(a),
         DayNumber(d) > DayNumber(a)
  PROVE  RTCIsSurpassedDate(d, a)
<1>1. /\ d.year \in 0 .. 99 /\ d.month \in 1 .. 12 /\ d.day \in 1 .. DaysOf(d.month, d.year)
      /\ DaysOf(d.month, d.year) \in 28 .. 31
  BY RealMonth DEF RealDate, Dates, Byte
<1>2. /\ a.year \in Byte /\ a.month \in 1 .. 12 /\ a.day \in Nat /\ a.day >= 1
  BY MonthLength DEF CodeDate, Dates
<1>3. /\ DayNumber(a) \in Int /\ DaysBeforeYear(a.year) <= DayNumber(a)
      /\ DaysBeforeYear(a.year) \in Int /\ DaysBeforeMonth(a.month, a.year) \in Int
  BY DayNumbers
<1>4. DaysBeforeYear(d.year) \in Int /\ DaysBeforeMonth(d.month, d.year) \in Int
  BY <1>1, MonthsAddUp
<1>5. DayNumber(d) = DaysBeforeYear(d.year) + DaysBeforeMonth(d.month, d.year) + d.day - 1
  BY DEF DayNumber
<1>6. DayNumber(a) = DaysBeforeYear(a.year) + DaysBeforeMonth(a.month, a.year) + a.day - 1
  BY DEF DayNumber
<1>7. SUFFICES ASSUME ~RTCIsSurpassedDate(d, a) PROVE DayNumber(d) <= DayNumber(a)
  BY <1>1, <1>3, <1>4, <1>5
<1>8. \/ d.year < a.year
      \/ d.year = a.year /\ d.month < a.month
      \/ d.year = a.year /\ d.month = a.month /\ d.day <= a.day
  <2>1. /\ ~(d.year > a.year) /\ ~(d.year = a.year /\ d.month > a.month)
        /\ ~(d.year = a.year /\ d.month = a.month /\ d.day > a.day)
    BY <1>7 DEF RTCIsSurpassedDate
  <2>2. d.day \in Int /\ a.day \in Int /\ d.year \in Int /\ a.year \in Int
    BY <1>1, <1>2 DEF Byte
  <2>. QED  BY <1>1, <1>2, <2>1, <2>2
<1>9. CASE d.year < a.year
  <2>1. DaysBeforeYear(d.year + 1) <= DaysBeforeYear(a.year)
    BY <1>1, <1>2, <1>9, YearsGrow
  <2>2. DaysBeforeYear(d.year + 1) = DaysBeforeYear(d.year) + DaysBeforeMonth(12, d.year) + 31
    <3>1. DaysBeforeMonth(1, d.year + 1) = 0 /\ DaysOf(12, d.year) = 31
      BY DEF DaysBeforeMonth, DaysOf
    <3>2. DaysBeforeYear(d.year + 1) \in Int
      BY <1>1 DEF DaysBeforeYear
    <3>. QED  BY <1>1, <3>1, <3>2, MonthsAddUp
  <2>3. DaysBeforeMonth(12, d.year) \in Int
    BY <1>1, MonthsAddUp
  <2>4. DaysBeforeMonth(d.month, d.year) + d.day <= DaysBeforeMonth(12, d.year) + 31
    <3>1. CASE d.month = 12
      BY <1>1, <1>4, <3>1
    <3>2. CASE d.month < 12
      <4>1. DaysBeforeMonth(d.month, d.year) + DaysOf(d.month, d.year)
              <= DaysBeforeMonth(12, d.year)
        <5>1. d.year \in 0 .. 99 /\ d.month \in 1 .. 12 /\ 12 \in 1 .. 12
          BY <1>1
        <5>. QED  BY <3>2, <5>1, MonthsGrow
      <4>. QED  BY <1>1, <1>4, <2>3, <4>1
    <3>. QED  BY <1>1, <3>1, <3>2
  <2>. QED  BY <1>1, <1>3, <1>4, <1>5, <2>1, <2>2, <2>3, <2>4
<1>10. CASE d.year = a.year /\ d.month < a.month
  <2>1. DaysBeforeMonth(d.month, d.year) + DaysOf(d.month, d.year)
          <= DaysBeforeMonth(a.month, a.year)
    BY <1>1, <1>2, <1>10, MonthsGrow
  <2>. QED  BY <1>1, <1>2, <1>3, <1>4, <1>5, <1>6, <1>10, <2>1
<1>11. CASE d.year = a.year /\ d.month = a.month /\ d.day <= a.day
  BY <1>1, <1>2, <1>4, <1>5, <1>6, <1>11
<1>. QED  BY <1>8, <1>9, <1>10, <1>11

\* A time of day that is not surpassed is not later, although the comparison of
\* the minutes lets an earlier one through.
LEMMA LaterInTheDay ==
  ASSUME NEW t \in Times, RealTime(t), NEW a \in Times, RealTime(a),
         SecondOfDay(t) > SecondOfDay(a)
  PROVE  RTCIsSurpassedTime(t, a)
<1>. DEFINE M(x) == x.hour * MINUTES + x.minute
<1>1. /\ t.hour \in Nat /\ t.minute \in 0 .. MINUTES - 1 /\ t.second \in 0 .. SECONDS - 1
      /\ a.hour \in Nat /\ a.minute \in 0 .. MINUTES - 1 /\ a.second \in 0 .. SECONDS - 1
  <2>1. \A x \in Times : x.hour \in Nat /\ x.minute \in Nat /\ x.second \in Nat
    BY DEF Times, Byte
  <2>2. \A x \in Times : RealTime(x) => x.minute < MINUTES /\ x.second < SECONDS
    BY DEF RealTime
  <2>. QED  BY <2>1, <2>2
<1>2. \A i \in Nat, j \in Nat, k \in Nat : i <= j => i * k <= j * k /\ i * k \in Nat
  OBVIOUS
<1>3. /\ M(t) \in Nat /\ M(a) \in Nat
      /\ SecondOfDay(t) = M(t) * SECONDS + t.second
      /\ SecondOfDay(a) = M(a) * SECONDS + a.second
  BY <1>1, <1>2 DEF SecondOfDay
<1>4. t.hour < a.hour => M(t) + 1 <= M(a)
  <2>. SUFFICES ASSUME t.hour < a.hour PROVE M(t) + 1 <= M(a)
    OBVIOUS
  <2>1. (t.hour + 1) * MINUTES <= a.hour * MINUTES /\ t.hour * MINUTES \in Nat
        /\ a.hour * MINUTES \in Nat
    BY <1>1, <1>2
  <2>2. (t.hour + 1) * MINUTES = t.hour * MINUTES + MINUTES
    BY <1>1
  <2>. QED  BY <1>1, <2>1, <2>2
<1>5. t.hour = a.hour /\ t.minute <= a.minute => M(t) <= M(a)
  BY <1>1, <1>2
<1>. HIDE DEF M
<1>6. SUFFICES ASSUME ~RTCIsSurpassedTime(t, a) PROVE SecondOfDay(t) <= SecondOfDay(a)
  <2>1. SecondOfDay(t) \in Int /\ SecondOfDay(a) \in Int
    BY SecondsOfADay
  <2>. QED  BY <1>6, <2>1
<1>7. CASE M(t) + 1 <= M(a)
  <2>1. (M(t) + 1) * SECONDS <= M(a) * SECONDS /\ M(t) * SECONDS \in Nat
        /\ M(a) * SECONDS \in Nat
    BY <1>2, <1>3, <1>7
  <2>2. (M(t) + 1) * SECONDS = M(t) * SECONDS + SECONDS
    BY <1>3
  <2>. QED  BY <1>1, <1>3, <2>1, <2>2
<1>8. CASE M(t) <= M(a) /\ t.second <= a.second
  <2>1. M(t) * SECONDS <= M(a) * SECONDS /\ M(t) * SECONDS \in Nat /\ M(a) * SECONDS \in Nat
    BY <1>2, <1>3, <1>8
  <2>. QED  BY <1>1, <1>3, <1>8, <2>1
<1>9. t.hour < a.hour \/ (t.hour = a.hour /\ t.minute <= a.minute /\ t.second <= a.second)
  BY <1>1, <1>6 DEF RTCIsSurpassedTime
<1>. QED  BY <1>4, <1>5, <1>7, <1>8, <1>9

-----------------------------------------------------------------------------
(* The checks that miss an alarm.  Up to the end of 2099 the clock shows a *)
(* date of the calendar; the alarm may have been put off into 2100.        *)

UpTo2099 ==
  /\ LastDay < DaysBeforeYear(100)
  /\ \A dt \in Starts : dt.date.year <= 99
  /\ \A d \in DateInputs : d.year <= 99

OnCalendar == Real(datetime) /\ datetime.date.year <= 99

Later == DayNumber(datetime.date) > DayNumber(alarm.date)

\* A check that has begun with the alarm past finds it past; and one that has
\* missed it leaves it to a check that sees it by the date alone.
Watched ==
  /\ missed \in {0, 1}
  /\ missed = 1 => Later /\ Exists(alarm) /\ pc # "times" /\ moves = "halfday"
  /\ overdue /\ pc \in {"dates", "times"} => Past(datetime, alarm)

LEMMA Numbers ==
  ASSUME AlarmInv, OnCalendar, Exists(alarm)
  PROVE  /\ DayNumber(datetime.date) \in Int /\ DayNumber(alarm.date) \in Int
         /\ SecondOfDay(datetime.time) \in 0 .. DayLength - 1
         /\ SecondOfDay(alarm.time) \in 0 .. DayLength - 1
         /\ DayLength \in Nat /\ DayLength > 0
<1>1. /\ datetime.date \in Dates /\ RealDate(datetime.date) /\ datetime.date.year <= 99
      /\ datetime.time \in Times /\ RealTime(datetime.time)
      /\ alarm.date \in Dates /\ CodeDate(alarm.date)
      /\ alarm.time \in Times /\ RealTime(alarm.time)
  BY ExistsIsCode DEF AlarmInv, AlarmTyped, OnCalendar, Real, Datetimes
<1>2. CodeDate(datetime.date)
  BY <1>1, RealIsCode
<1>. QED  BY <1>1, <1>2, DayNumbers, SecondsOfADay

\* What is past is of an earlier day, or earlier in the same.
LEMMA PastIsEarlier ==
  ASSUME AlarmInv, OnCalendar, Exists(alarm)
  PROVE  /\ Later => Past(datetime, alarm)
         /\ Past(datetime, alarm) /\ ~Later
              => SecondOfDay(datetime.time) > SecondOfDay(alarm.time)
<1>. DEFINE k == DayNumber(datetime.date) - DayNumber(alarm.date)
            x == SecondOfDay(datetime.time)
            y == SecondOfDay(alarm.time)
<1>1. k \in Int /\ x \in 0 .. DayLength - 1 /\ y \in 0 .. DayLength - 1 /\ DayLength \in Nat
      /\ (Later <=> k > 0)
  BY Numbers DEF Later
<1>2. Past(datetime, alarm) <=> k * DayLength + x - y > 0
  BY DEF Past, Elapsed
<1>. HIDE DEF k, x, y
<1>3. k > 0 => k * DayLength >= DayLength /\ k * DayLength \in Int
  BY <1>1
<1>4. k <= 0 => k * DayLength <= 0 /\ k * DayLength \in Int
  BY <1>1
<1>. QED  BY <1>1, <1>2, <1>3, <1>4 DEF x, y

\* The interrupt brings the clock forward, and a later time stays later.
LEMMA TickIsForward ==
  ASSUME UpTo2099, AlarmInv, OnCalendar, RTC_OVF
  PROVE  /\ OnCalendar'
         /\ Exists(alarm) => (Later => Later')
         /\ Past(datetime, alarm) => Past(datetime', alarm')
<1>. DEFINE d == datetime.date
            n == datetime'
<1>1. /\ datetime \in Datetimes /\ Real(datetime) /\ d.year <= 99 /\ d \in Dates /\ RealDate(d)
      /\ n = RTCProcessTime(datetime) /\ DayNumber(n.date) <= LastDay /\ alarm' = alarm
  BY DEF AlarmInv, AlarmTyped, OnCalendar, Real, Datetimes, RTC_OVF
<1>2. /\ n \in Datetimes /\ Real(n) /\ (n.date.year <= 99 \/ n.date = Date(100, 1, 1))
      /\ Elapsed(datetime, n) = 1
  BY <1>1, TickIsOneSecond
<1>3. n.date.year <= 99
  <2>1. DayNumber(Date(100, 1, 1)) = DaysBeforeYear(100) /\ DaysBeforeYear(100) \in Int
    BY DEF DayNumber, Date, DaysBeforeYear, DaysBeforeMonth
  <2>. QED  BY <1>1, <1>2, <2>1, LastDayAssumption DEF UpTo2099
<1>4. OnCalendar'
  BY <1>2, <1>3 DEF OnCalendar
<1>5. n.date = d \/ (n.date = DayAfter(d) /\ DayNumber(n.date) = DayNumber(d) + 1)
  BY <1>1, TickIsSecondAfter, DayAfterIsNext
<1>. DEFINE D == DayNumber(d)
            N == DayNumber(n.date)
            A == DayNumber(alarm.date)
            x == SecondOfDay(datetime.time)
            z == SecondOfDay(n.time)
            y == SecondOfDay(alarm.time)
<1>. SUFFICES ASSUME Exists(alarm)
              PROVE  /\ Later => Later'
                     /\ Past(datetime, alarm) => Past(n, alarm)
  BY <1>1, <1>4 DEF Past
<1>6. D \in Int /\ A \in Int /\ x \in Int /\ y \in Int /\ DayLength \in Nat
  BY Numbers
<1>7. N = D \/ N = D + 1
  BY <1>5
<1>8. z \in Int
  BY <1>2, SecondsOfADay DEF Datetimes, Real
<1>9. (N - D) * DayLength + z - x = 1
  BY <1>2 DEF Elapsed
<1>10. /\ Past(datetime, alarm) <=> (D - A) * DayLength + x - y > 0
       /\ Past(n, alarm) <=> (N - A) * DayLength + z - y > 0
       /\ Later <=> D > A
       /\ Later' <=> N > A
  BY <1>1 DEF Past, Elapsed, Later
<1>. HIDE DEF D, N, A, x, z, y
<1>11. (N - A) * DayLength = (N - D) * DayLength + (D - A) * DayLength
  BY <1>6, <1>7
<1>12. Later => Later'
  BY <1>6, <1>7, <1>10
<1>13. Past(datetime, alarm) => Past(n, alarm)
  <2>1. (N - D) * DayLength \in Int /\ (D - A) * DayLength \in Int
    BY <1>6, <1>7
  <2>. QED  BY <1>6, <1>8, <1>9, <1>10, <1>11, <2>1
<1>. QED  BY <1>12, <1>13

LEMMA LineIsOnCalendar ==
  ASSUME UpTo2099, AlarmInv, OnCalendar, NEW text, NEW d \in DateInputs, NEW t \in TimeInputs,
         Line(text, d, t)
  PROVE  OnCalendar' /\ missed' = 0 /\ overdue' = FALSE
<1>1. d \in Dates /\ d.year <= 99
  BY InputsAssumption DEF UpTo2099
<1>2. missed' = 0 /\ overdue' = FALSE
  BY DEF Line, AlarmLine, DateLine, TimeLine, AlarmTimeLine, Afresh
<1>3. CASE AlarmLine(text) \/ AlarmTimeLine(text, t)
  <2>1. datetime' = datetime
    BY <1>3 DEF AlarmLine, AlarmTimeLine
  <2>. QED  BY <1>2, <2>1 DEF OnCalendar
<1>4. CASE DateLine(text, d)
  <2>1. datetime' = [datetime EXCEPT !.date = d] /\ Accepted(d)
    BY <1>4 DEF DateLine
  <2>2. RealDate(d)
    BY <1>1, <2>1, CodeIsReal DEF Accepted, CodeDate
  <2>3. datetime'.date = d /\ datetime'.time = datetime.time
    BY <2>1 DEF AlarmInv, AlarmTyped, Datetimes
  <2>. QED  BY <1>1, <1>2, <2>2, <2>3 DEF OnCalendar, Real
<1>5. CASE TimeLine(text, t)
  <2>1. datetime' = [datetime EXCEPT !.time = t] /\ RTCIsValidtime(t)
    BY <1>5 DEF TimeLine
  <2>2. datetime'.date = datetime.date /\ datetime'.time = t
    BY <2>1 DEF AlarmInv, AlarmTyped, Datetimes
  <2>. QED  BY <1>2, <2>1, <2>2 DEF OnCalendar, Real, RTCIsValidtime, RealTime
<1>. QED  BY <1>3, <1>4, <1>5 DEF Line

LEMMA StepIsOnCalendar ==
  ASSUME UpTo2099, AlarmInv, OnCalendar, [Next]_vars
  PROVE  OnCalendar'
<1>1. CASE UNCHANGED datetime
  BY <1>1 DEF OnCalendar
<1>2. CASE RTC_OVF
  BY <1>2, TickIsForward
<1>4. CASE Reset
  BY <1>4, StartsAssumption DEF Reset, UpTo2099, OnCalendar
<1>3. CASE \E text \in Texts, d \in DateInputs, t \in TimeInputs : Line(text, d, t)
  BY <1>3, LineIsOnCalendar
<1>. QED
  BY <1>1, <1>2, <1>3, <1>4
     DEF Next, vars, CompareDates, CompareTimes, Move, ReadField, alarmCheck, writeTimeToEE

LEMMA StepIsWatched ==
  ASSUME UpTo2099, AlarmInv, OnCalendar, Watched, [Next]_vars
  PROVE  Watched'
<1>1. CASE RTC_OVF
  <2>1. UNCHANGED <<alarm, missed, pc, moves, overdue>>
    BY <1>1 DEF RTC_OVF, seen
  <2>2. (Exists(alarm))' <=> Exists(alarm)
    BY <2>1 DEF Exists
  <2>3. Past(datetime, alarm) => (Past(datetime, alarm))'
    BY <1>1, TickIsForward DEF Past, Elapsed, Exists
  <2>. QED  BY <1>1, <2>1, <2>2, <2>3, TickIsForward DEF Watched
<1>2. CASE CompareDates
  <2>1. UNCHANGED <<datetime, alarm, missed, moves, overdue>> /\ pc = "dates"
    BY <1>2 DEF CompareDates, seen
  <2>2. Later' <=> Later
    BY <2>1 DEF Later
  <2>3. Later /\ Exists(alarm) => pc' = "read"
    <3>. SUFFICES ASSUME Later, Exists(alarm) PROVE pc' = "read"
      OBVIOUS
    <3>1. /\ datetime.date \in Dates /\ RealDate(datetime.date) /\ datetime.date.year <= 99
          /\ alarm.date \in Dates /\ CodeDate(alarm.date)
      BY ExistsIsCode DEF AlarmInv, AlarmTyped, OnCalendar, Real, Datetimes
    <3>. QED  BY <1>2, <3>1, LaterIsSurpassed DEF CompareDates, Later
  <2>. QED  BY <2>1, <2>2, <2>3 DEF Watched
<1>3. CASE CompareTimes
  <2>1. UNCHANGED <<datetime, alarm>> /\ pc = "times" /\ missed = 0
    BY <1>3 DEF CompareTimes, Watched
  <2>2. CASE RTCIsSurpassedTime(datetime.time, alarm.time)
    <3>1. UNCHANGED <<missed, overdue>> /\ pc' = "read"
      BY <1>3, <2>2 DEF CompareTimes, seen
    <3>. QED  BY <2>1, <3>1 DEF Watched
  <2>3. CASE ~RTCIsSurpassedTime(datetime.time, alarm.time)
    <3>1. Return /\ Unseen /\ overdue' = FALSE
      BY <1>3, <2>3 DEF CompareTimes
    <3>2. CASE moves = "halfday" /\ overdue
      <4>1. Past(datetime, alarm) /\ Exists(alarm)
        BY <2>1, <3>2 DEF Watched, Past
      <4>2. ~(SecondOfDay(datetime.time) > SecondOfDay(alarm.time))
        <5>1. /\ datetime.time \in Times /\ RealTime(datetime.time)
              /\ alarm.time \in Times /\ RealTime(alarm.time)
          BY <4>1, ExistsIsCode DEF AlarmInv, AlarmTyped, OnCalendar, Real, Datetimes
        <5>. QED  BY <2>3, <5>1, LaterInTheDay
      <4>3. Later
        BY <4>1, <4>2, PastIsEarlier
      <4>4. Later'
        BY <2>1, <4>3 DEF Later
      <4>5. Exists(alarm)'
        BY <2>1, <4>1 DEF Exists
      <4>. QED  BY <2>1, <3>1, <3>2, <4>4, <4>5 DEF Watched, Return, Unseen
    <3>3. CASE ~(moves = "halfday" /\ overdue)
      BY <2>1, <3>1, <3>3 DEF Watched, Unseen
    <3>. QED  BY <3>2, <3>3
  <2>. QED  BY <2>2, <2>3
<1>4. CASE Move
  <2>1. missed' = 0 /\ overdue' = FALSE
    BY <1>4 DEF Move, Seen, Watched
  <2>. QED  BY <2>1 DEF Watched
<1>5. ASSUME NEW f \in Fields, ReadField(f) PROVE Watched'
  BY <1>5 DEF ReadField, seen, Watched, Later
<1>6. CASE alarmCheck
  <2>1. /\ UNCHANGED <<datetime, alarm>> /\ pc' = "dates" /\ moves' = "halfday"
        /\ overdue' = Past(datetime, alarm)
        /\ missed' = IF Past(datetime, alarm) THEN missed ELSE 0
    BY <1>6 DEF alarmCheck, Test
  <2>2. Later => Later'
    BY <2>1 DEF Later
  <2>. QED  BY <2>1, <2>2 DEF Watched
<1>7. ASSUME NEW text \in Texts, NEW d \in DateInputs, NEW t \in TimeInputs, Line(text, d, t)
      PROVE  Watched'
  <2>1. missed' = 0 /\ overdue' = FALSE
    BY <1>7, LineIsOnCalendar
  <2>. QED  BY <2>1 DEF Watched
<1>8. CASE writeTimeToEE
  <2>1. UNCHANGED <<datetime, alarm, pc, moves, missed, overdue>>
    BY <1>8 DEF writeTimeToEE, call, seen
  <2>. QED  BY <2>1 DEF Watched, Later, Past, Exists
<1>9. CASE Reset
  <2>1. missed' = 0 /\ overdue' = FALSE
    BY <1>9 DEF Reset, Afresh
  <2>. QED  BY <2>1 DEF Watched
<1>10. CASE UNCHANGED vars
  BY <1>10 DEF vars, call, seen, Watched, Later, Past, Exists
<1>. QED
  BY <1>1, <1>2, <1>3, <1>4, <1>5, <1>6, <1>7, <1>8, <1>9, <1>10 DEF Next

\* Up to the end of 2099 an alarm that is past is seen by the next check, or by
\* the one after it, whenever the interrupt comes (rtcDriver.c:185-220).
THEOREM AlarmMissedAtMostOnce ==
  ASSUME UpTo2099
  PROVE  Spec => []MissesAtMostOne
<1>. DEFINE Inv == AlarmInv /\ OnCalendar /\ Watched
<1>1. Init => Inv
  <2>. SUFFICES ASSUME Init PROVE OnCalendar /\ Watched
    BY InitIInv
  <2>1. OnCalendar
    BY StartsAssumption, AlarmStartsAssumption DEF Init, UpTo2099, OnCalendar
  <2>. QED  BY <2>1 DEF Init, Watched
<1>2. Inv /\ [Next]_vars => Inv'
  BY StepKeepsIInv, StepIsOnCalendar, StepIsWatched
<1>3. Inv => MissesAtMostOne
  BY DEF Watched, MissesAtMostOne
<1>. QED  BY <1>1, <1>2, <1>3, PTL DEF Spec

-----------------------------------------------------------------------------
(* The power sequence that the alarm starts presses every button twice,    *)
(* for a board with any number of devices, however often it is started     *)
(* anew or the board is reset.                                             *)

USE NumberAssumption

\* Division with a remainder has one answer: for a dividend of less than three
\* times the divisor it is found by subtraction.
LEMMA Remainder ==
  ASSUME NEW k \in 1 .. 2 * numberTotal
  PROVE  k % numberTotal = IF k < numberTotal THEN k
                           ELSE IF k < 2 * numberTotal THEN k - numberTotal ELSE 0
<1> DEFINE q == k \div numberTotal
           r == k % numberTotal
<1>1. q \in Int /\ r \in 0 .. numberTotal - 1 /\ k = numberTotal * q + r
  OBVIOUS
<1> HIDE DEF q, r
<1>2. q \in 0 .. 2
  <2>1. CASE q < 0
    <3>1. numberTotal * q <= -numberTotal
      BY <1>1, <2>1
    <3>2. QED
      BY <1>1, <3>1
  <2>2. CASE q > 2
    <3>1. numberTotal * q >= 3 * numberTotal
      BY <1>1, <2>2
    <3>2. QED
      BY <1>1, <3>1
  <2>3. QED
    BY <1>1, <2>1, <2>2
<1>3. q = 0 \/ q = 1 \/ q = 2
  BY <1>2
<1>4. r = IF k < numberTotal THEN k
          ELSE IF k < 2 * numberTotal THEN k - numberTotal ELSE 0
  BY <1>1, <1>3
<1>5. QED
  BY <1>4 DEF r

\* The device that is next in turn, for each number of runs that are left.
LEMMA NextDevice ==
  ASSUME NEW n \in 1 .. 2 * numberTotal
  PROVE  Device(n - 1) =
           LET k == 2 * numberTotal - n + 1
           IN  IF k < numberTotal THEN k ELSE IF k < 2 * numberTotal THEN k - numberTotal ELSE 0
<1> DEFINE k == 2 * numberTotal - n + 1
<1>1. k \in 1 .. 2 * numberTotal /\ 2 * numberTotal - (n - 1) = k
  OBVIOUS
<1>2. k % numberTotal = IF k < numberTotal THEN k
                        ELSE IF k < 2 * numberTotal THEN k - numberTotal ELSE 0
  BY <1>1, Remainder
<1>3. QED
  BY <1>1, <1>2 DEF Device

-----------------------------------------------------------------------------
\* A sequence that is broken off hands what it has pressed once over to left.
LEMMA BreakingOffKeepsInvariant ==
  ASSUME IInv, left' = SymDiff(left, Once), Once' = {},
         powered' = powered, wanted' = wanted
  PROVE  left' \in SUBSET Devices /\ powered' = SymDiff(wanted', SymDiff(left', Once'))
BY DEF IInv, TypeOK, SymDiff, Once

LEMMA StartKeepsInvariant ==
  ASSUME IInv, Start
  PROVE  IInv'
<1>1. /\ repeation' = 2 * numberTotal /\ ended' = FALSE
      /\ presses' = [d \in Devices |-> 0]
      /\ left' = SymDiff(left, Once) /\ powered' = powered /\ wanted' = wanted
  BY DEF Start, Runs
<1>2. Once' = {}
  BY <1>1 DEF Once
<1>3. TypeOK'
  <2>1. repeation' \in 0 .. 2 * numberTotal
    BY <1>1
  <2>2. presses' \in [Devices -> 0 .. 2]
    BY <1>1
  <2>. QED  BY <1>1, <1>2, <2>1, <2>2, BreakingOffKeepsInvariant DEF IInv, TypeOK
<1>4. \A d \in Devices : Turns(d)' = 0
  BY <1>1 DEF Turns, Done, Devices
<1>5. InTurn'
  BY <1>1, <1>4 DEF InTurn
<1>. QED  BY <1>1, <1>2, <1>3, <1>5, BreakingOffKeepsInvariant DEF IInv

LEMMA ResetKeepsInvariant ==
  ASSUME IInv, SequenceReset
  PROVE  IInv'
<1>1. /\ repeation' = 0 /\ left' = SymDiff(left, Once)
      /\ UNCHANGED <<powered, wanted, presses, ended>>
  BY DEF SequenceReset
<1>2. Once' = {}
  BY <1>1 DEF Once
<1>3. TypeOK'
  BY <1>1, <1>2, BreakingOffKeepsInvariant DEF IInv, TypeOK
<1>4. InTurn'
  <2>. SUFFICES ASSUME ended PROVE InTurn'
    BY <1>1 DEF InTurn
  <2>1. repeation' = repeation
    BY <1>1 DEF IInv
  <2>. QED  BY <1>1, <2>1 DEF IInv, InTurn, Turns, Done
<1>. QED  BY <1>1, <1>2, <1>3, <1>4, BreakingOffKeepsInvariant DEF IInv

LEMMA PowerKeepsInvariant ==
  ASSUME IInv, NEW d \in Devices, Power(d)
  PROVE  IInv'
<1>1. /\ UNCHANGED <<repeation, presses, ended, left>>
      /\ powered' = SymDiff(powered, Pressed(d)) /\ wanted' = SymDiff(wanted, Pressed(d))
      /\ Pressed(d) \subseteq Devices
  BY DEF Power, Pressed
<1>2. Once' = Once /\ InTurn' /\ (ended' => repeation' = 0)
  BY <1>1 DEF Once, IInv, InTurn, Turns, Done
<1>3. TypeOK'
  BY <1>1 DEF IInv, TypeOK, SymDiff
<1>4. powered' = SymDiff(wanted', SymDiff(left', Once'))
  BY <1>1, <1>2 DEF IInv, SymDiff
<1>. QED  BY <1>2, <1>3, <1>4 DEF IInv

LEMMA RunKeepsInvariant ==
  ASSUME IInv, alarmPowerOnCallback
  PROVE  IInv'
<1>. DEFINE e == Device(repeation - 1)
<1>1. /\ repeation \in 1 .. 2 * numberTotal /\ repeation' = repeation - 1
      /\ ended' = (repeation' = 0) /\ ~ended
      /\ powered' = SymDiff(powered, Pressed(e))
      /\ presses' = [presses EXCEPT ![e] = IF e \in Reached THEN @ + 1 ELSE @]
      /\ wanted' = wanted /\ left' = left
  BY DEF alarmPowerOnCallback, IInv, TypeOK
<1>2. /\ e \in Devices
      /\ \A d \in Devices : Turns(d)' = Turns(d) + IF d = e THEN 1 ELSE 0
  <2>1. e = LET k == Done + 1
            IN  IF k < numberTotal THEN k ELSE IF k < 2 * numberTotal THEN k - numberTotal ELSE 0
    BY <1>1, NextDevice DEF Done
  <2>. HIDE DEF e
  <2>2. Done \in 0 .. 2 * numberTotal - 1 /\ Done' = Done + 1
    BY <1>1 DEF Done
  <2>3. e \in Devices
    BY <2>1, <2>2 DEF Devices
  <2>4. ASSUME NEW d \in Devices
        PROVE  Turns(d)' = Turns(d) + IF d = e THEN 1 ELSE 0
    BY <2>1, <2>2 DEF Devices, Turns
  <2>. QED  BY <2>3, <2>4
<1>. HIDE DEF e
<1>3. /\ presses \in [Devices -> 0 .. 2]
      /\ \A d \in Devices : presses[d] = IF d \in Reached THEN Turns(d) ELSE 0
  BY <1>1 DEF IInv, TypeOK, InTurn
<1>4. \A d \in Devices : Turns(d) \in 0 .. 2 /\ Turns(d)' \in 0 .. 2
  BY DEF Turns
<1>5. \A d \in Devices : presses'[d] = IF d \in Reached THEN Turns(d)' ELSE 0
  BY <1>1, <1>2, <1>3, <1>4
<1>6. presses' \in [Devices -> 0 .. 2]
  <2>1. e \in Reached => presses[e] + 1 \in 0 .. 2
    BY <1>2, <1>3, <1>4
  <2>. QED  BY <1>1, <1>2, <1>3, <2>1
<1>7. InTurn'
  BY <1>5 DEF InTurn, Reached
<1>8. TypeOK'
  <2>1. powered' \in SUBSET Devices
    BY <1>1, <1>2 DEF IInv, TypeOK, SymDiff, Pressed
  <2>. QED  BY <1>1, <1>6, <2>1 DEF IInv, TypeOK
<1>9. Once' = SymDiff(Once, Pressed(e))
  <2>1. Once = {d \in Devices : presses[d] = 1}
    BY <1>1 DEF Once
  <2>2. Once' = {d \in Devices : presses'[d] = 1}
    <3>1. CASE repeation' > 0
      BY <3>1 DEF Once
    <3>2. CASE ~(repeation' > 0)
      <4>1. repeation' = 0
        BY <1>1, <3>2
      <4>2. \A d \in Devices : Turns(d)' = 2
        BY <4>1 DEF Turns, Done, Devices
      <4>3. \A d \in Devices : presses'[d] # 1
        BY <1>5, <4>2
      <4>. QED  BY <3>2, <4>3 DEF Once
    <3>. QED  BY <3>1, <3>2
  <2>3. e \in Reached => presses[e] \in {0, 1} /\ presses'[e] = presses[e] + 1
    BY <1>1, <1>2, <1>3, <1>4
  <2>4. \A d \in Devices : ~(d = e /\ e \in Reached) => presses'[d] = presses[d]
    BY <1>1, <1>3
  <2>. QED  BY <1>2, <2>1, <2>2, <2>3, <2>4 DEF SymDiff, Pressed
<1>10. powered' = SymDiff(wanted', SymDiff(left', Once'))
  BY <1>1, <1>9 DEF IInv, SymDiff
<1>. QED  BY <1>1, <1>7, <1>8, <1>10 DEF IInv

LEMMA StepKeepsInvariant ==
  ASSUME IInv, [SequenceNext]_sequence
  PROVE  IInv'
<1>1. CASE UNCHANGED sequence
  BY <1>1 DEF sequence, IInv, TypeOK, InTurn, Once, Turns, Done
<1>. QED
  BY <1>1, StartKeepsInvariant, RunKeepsInvariant, PowerKeepsInvariant, ResetKeepsInvariant
     DEF SequenceNext

\* The buttons have been pressed in turn, and what is not as the user would
\* have it is what a sequence under way, or one broken off by a new alarm or a
\* reset, has pressed once (menu.c:740-789, peripherals.c:110-143).
THEOREM SequenceInvariant == SequenceSpec => []IInv
<1>1. SequenceInit => IInv
  <2>. SUFFICES ASSUME SequenceInit PROVE IInv
    OBVIOUS
  <2>1. repeation \in 0 .. 2 * numberTotal /\ presses \in [Devices -> 0 .. 2]
    BY DEF SequenceInit
  <2>2. TypeOK
    BY <2>1 DEF SequenceInit, TypeOK
  <2>3. InTurn
    BY DEF SequenceInit, InTurn
  <2>4. powered = SymDiff(wanted, SymDiff(left, Once))
    BY DEF SequenceInit, SymDiff, Once
  <2>. QED  BY <2>2, <2>3, <2>4 DEF IInv, SequenceInit
<1>. QED  BY <1>1, StepKeepsInvariant, PTL DEF SequenceSpec

\* A sequence that runs to its end has pressed every device that the key
\* reaches twice, and the BEIN receivers beyond the pins of a byte not at all
\* (menu.c:741 and 767-786, remoteDriver.c:306).
THEOREM PressesEveryDeviceTwice == SequenceSpec => []EveryDeviceTwice
<1>1. IInv => EveryDeviceTwice
  <2>. SUFFICES ASSUME IInv, ended
                PROVE  \A d \in Devices : presses[d] = IF d \in Reached THEN 2 ELSE 0
    BY DEF EveryDeviceTwice
  <2>1. \A d \in Devices : Turns(d) = 2
    BY DEF IInv, Turns, Done, Devices
  <2>. QED  BY <2>1 DEF IInv, InTurn
<1>. QED  BY <1>1, SequenceInvariant, PTL

\* Only sequences that were broken off leave devices the other way round, and
\* none that follows puts these right.
THEOREM LeavesDevicesAsTheyWere == SequenceSpec => []Restored
<1>1. IInv => Restored
  <2>. SUFFICES ASSUME IInv, repeation = 0 PROVE powered = SymDiff(wanted, left)
    BY DEF Restored
  <2>1. Once = {}
    BY DEF Once
  <2>. QED  BY <2>1 DEF IInv, SymDiff
<1>. QED  BY <1>1, SequenceInvariant, PTL
=============================================================================
