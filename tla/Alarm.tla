-------------------------------- MODULE Alarm --------------------------------
(***************************************************************************)
(* The daily alarm (menu.c): alarmCheck compares the clock with the alarm, *)
(* and when the alarm is surpassed moves it to twelve hours from then and  *)
(* starts the power sequence; the commands of the settings menu set the    *)
(* clock and the alarm and put an alarm that is past off until tomorrow.   *)
(*                                                                         *)
(* The clock goes on under the main thread: the RTC interrupt may come     *)
(* between the comparison of the dates and that of the times (two          *)
(* ATOMIC_BLOCKs), and between the reads of year, month and day that are   *)
(* the arguments of RTCUpdateDate, in an order the compiler chooses.  It   *)
(* comes once a second, so at most once in a call.                         *)
(*                                                                         *)
(* roomInit loads the alarm from EEPROM as it is, without a look at it:    *)
(* erased bytes, zeros, or, when the power was cut while it was saved, a   *)
(* mixture of two alarms.  A behaviour may start with any of them.         *)
(***************************************************************************)
EXTENDS Rtc

CONSTANTS
  AlarmStarts, \* what the EEPROM holds of the alarm when the model starts
  LastDay      \* bound: the clock stops at the end of this day (DayNumber)

ASSUME AlarmStartsAssumption == AlarmStarts \subseteq Datetimes
ASSUME LastDayAssumption == LastDay \in Nat

VARIABLES
  alarm, alarmEnabled,   \* of hardware
  alarmEEPROM,           \* the copy of the alarm (that of alarmEnabled is always the same)
  pc,      \* "loop"; in a call "dates", "times" (comparing), "read"
  moves,   \* where the call moves an alarm that is past: "halfday" (alarmCheck),
           \* "tomorrow" (the menu)
  today,   \* the fields of the date that have been read for RTCUpdateDate
  ticked,  \* the interrupt has come in this call
  overdue, \* history: the alarm was past when this call of alarmCheck began
  missed,  \* history: checks in a row that did not see an alarm that was past
  chosen   \* history: the time of day the alarm was last set to

user == <<alarmEnabled, chosen, alarmEEPROM>>
call == <<pc, moves, today, ticked>>
seen == <<overdue, missed>>
vars == <<datetime, alarm, user, call, seen>>

Fields == {"year", "month", "day"}
Unread == [f \in Fields |-> -1]

\* A date and time that exist.  The leap rule of the code ends with 2099.
Exists(a) ==
  /\ RealTime(a.time)
  /\ a.date.month \in 1 .. 12
  /\ a.date.day \in 1 .. IF a.date.year <= 99 THEN DaysOf(a.date.month, a.date.year)
                         ELSE RTCGetDaysInMonth(a.date.month, a.date.year)

Past(dt, a) == Exists(a) /\ Elapsed(a, dt) > 0

-----------------------------------------------------------------------------
Init ==
  /\ datetime \in Starts /\ alarm \in AlarmStarts
  /\ alarmEnabled \in BOOLEAN
  /\ pc = "loop" /\ moves = "halfday" /\ today = Unread /\ ticked = FALSE
  /\ overdue = FALSE /\ missed = 0
  /\ alarmEEPROM = alarm /\ chosen = alarm.time

RTC_OVF ==
  /\ pc = "loop" \/ ~ticked
  /\ DayNumber(RTCProcessTime(datetime).date) <= LastDay
  /\ datetime' = RTCProcessTime(datetime)
  /\ ticked' = (pc # "loop")
  /\ UNCHANGED <<alarm, user, pc, moves, today, seen>>

-----------------------------------------------------------------------------
(* if (RTCIsSurpassedDatetime(&hardware.datetime, &hardware.alarm)) ...     *)
(* An earlier date falls through to the comparison of the times of day.    *)

Test(to) == pc' = "dates" /\ moves' = to /\ today' = Unread /\ ticked' = FALSE

Return == pc' = "loop" /\ moves' = "halfday" /\ today' = Unread /\ ticked' = FALSE

CompareDates ==
  /\ pc = "dates"
  /\ pc' = IF RTCIsSurpassedDate(datetime.date, alarm.date) THEN "read" ELSE "times"
  /\ UNCHANGED <<datetime, alarm, user, moves, today, ticked, seen>>

\* A check that is over without an alarm, and one that has the alarm.
Unseen == missed' = IF moves = "halfday" /\ overdue THEN missed + 1 ELSE missed
Seen   == missed' = IF moves = "halfday" THEN 0 ELSE missed

CompareTimes ==
  /\ pc = "times"
  /\ IF RTCIsSurpassedTime(datetime.time, alarm.time)
     THEN pc' = "read" /\ UNCHANGED <<moves, today, ticked, seen>>
     ELSE Return /\ Unseen /\ overdue' = FALSE
  /\ UNCHANGED <<datetime, alarm, user>>

ReadField(f) ==
  /\ pc = "read" /\ today[f] = -1
  /\ today' = [today EXCEPT ![f] = datetime.date[f]]
  /\ UNCHANGED <<datetime, alarm, user, pc, moves, ticked, seen>>

\* The twelve hours of alarmCheck.
HalfDay == HOURS \div 2

Moved ==
  LET d == Date(today["year"], today["month"], today["day"])
      a == [alarm EXCEPT !.date = RTCUpdateDate(@, d)]
  IN  IF moves = "halfday" THEN RTCAddHours(a, HalfDay)
      ELSE [a EXCEPT !.date = RTCAddDate(@, 0, 0, 1)]

\* alarmCheck goes on to start the power sequence (AlarmSequence).
Move ==
  /\ pc = "read" /\ \A f \in Fields : today[f] # -1
  /\ alarm' = Moved
  /\ Return /\ Seen /\ overdue' = FALSE
  /\ UNCHANGED <<datetime, user>>

alarmCheck ==
  /\ pc = "loop" /\ alarmEnabled
  /\ Test("halfday")
  /\ overdue' = Past(datetime, alarm)
  /\ missed' = IF Past(datetime, alarm) THEN missed ELSE 0
  /\ UNCHANGED <<datetime, alarm, user>>

-----------------------------------------------------------------------------
(* roomKeysMenuSettings: the lines that the user may type.  Any line that  *)
(* has "alarm" in it ends up in the branch of "alarm on" and "alarm off".  *)

Texts == {"alarm on", "alarm off", "alarm h:m:s", "date y:m:d", "time h:m:s", "a h:m:s"}

Branch(text) ==
  CASE text \in {"alarm on", "alarm off", "alarm h:m:s"} -> "alarm"
    [] text = "date y:m:d" -> "date"
    [] text = "time h:m:s" -> "time"
    [] text = "a h:m:s"    -> "update alarm"

\* The history of checks starts again when a line is typed.
Afresh == overdue' = FALSE /\ missed' = 0

AlarmLine(text) ==
  /\ pc = "loop" /\ Branch(text) = "alarm"
  /\ \/ text = "alarm on"  /\ alarmEnabled' = TRUE  /\ Test("tomorrow")
     \/ text = "alarm off" /\ alarmEnabled' = FALSE /\ UNCHANGED call
     \/ text \notin {"alarm on", "alarm off"} /\ UNCHANGED <<alarmEnabled, call>>
  /\ Afresh
  /\ UNCHANGED <<datetime, alarm, alarmEEPROM, chosen>>

\* The other lines save the clock and the alarm, before the alarm is put off,
\* and that of the date before it is given the date, too.
DateLine(text, d) ==
  /\ pc = "loop" /\ Branch(text) = "date" /\ Accepted(d)
  /\ datetime' = [datetime EXCEPT !.date = d]
  /\ alarmEEPROM' = alarm
  /\ alarm' = [alarm EXCEPT !.date = d]
  /\ Test("tomorrow") /\ Afresh
  /\ UNCHANGED <<alarmEnabled, chosen>>

TimeLine(text, t) ==
  /\ pc = "loop" /\ Branch(text) = "time" /\ RTCIsValidtime(t)
  /\ datetime' = [datetime EXCEPT !.time = t]
  /\ alarmEEPROM' = alarm
  /\ Test("tomorrow") /\ Afresh
  /\ UNCHANGED <<alarm, alarmEnabled, chosen>>

\* Mutant of SetAlarm: the alarm is saved before it is set.
SetAfterSave(t) == alarmEEPROM' = alarm /\ alarm' = [alarm EXCEPT !.time = t]

SetAlarm(t) == alarm' = [alarm EXCEPT !.time = t] /\ alarmEEPROM' = alarm'

AlarmTimeLine(text, t) ==
  /\ pc = "loop" /\ Branch(text) = "update alarm" /\ RTCIsValidtime(t)
  /\ SetAlarm(t) /\ chosen' = t
  /\ Test("tomorrow") /\ Afresh
  /\ UNCHANGED <<datetime, alarmEnabled>>

Line(text, d, t) ==
  AlarmLine(text) \/ DateLine(text, d) \/ TimeLine(text, t) \/ AlarmTimeLine(text, t)

-----------------------------------------------------------------------------
(* The copy in EEPROM.                                                     *)

\* The event of every 15 minutes.
writeTimeToEE ==
  /\ pc = "loop"
  /\ alarmEEPROM' = alarm
  /\ UNCHANGED <<datetime, alarm, alarmEnabled, chosen, call, seen>>

\* The watchdog, the power or softwareReset, which saves first: main calls
\* roomInit.  The clock is set to its own copy (ClockBackup, DayPlan).
Reset ==
  /\ alarm' = alarmEEPROM
  /\ datetime' \in Starts
  /\ Return /\ Afresh
  /\ UNCHANGED user

Next ==
  \/ RTC_OVF
  \/ CompareDates \/ CompareTimes \/ Move
  \/ \E f \in Fields : ReadField(f)
  \/ alarmCheck
  \/ writeTimeToEE \/ Reset
  \/ \E text \in Texts, d \in DateInputs, t \in TimeInputs : Line(text, d, t)

Spec == Init /\ [][Next]_vars

-----------------------------------------------------------------------------
(* Properties                                                              *)

\* The alarm and its copy, once they are dates and times that exist, remain so,
\* whatever is typed, whenever the board is reset and whenever the interrupt
\* comes: a date of which the fields were read on both sides of midnight is
\* refused, or is a date (menu.c:222-290 and 734-737).
AlarmStaysReal ==
  [][Exists(alarm) /\ Exists(alarmEEPROM) => Exists(alarm)' /\ Exists(alarmEEPROM)']_vars

\* Being moved by half days and to other dates, and through resets, the alarm
\* stays at the time of day, or twelve hours from the time, to which it was set,
\* and so does the copy that the next reset brings back (menu.c:276-279 and 737).
\* A loaded time that does not exist is kept until the alarm is moved.
AlarmTimeKept ==
  RealTime(chosen) =>
    \A a \in {alarm, alarmEEPROM} :
      /\ a.time.hour % (HOURS \div 2) = chosen.hour % (HOURS \div 2)
      /\ a.time.minute = chosen.minute /\ a.time.second = chosen.second

\* The comparison errs on one side only: an alarm that is past is seen by the
\* next check, or by the one after when midnight comes between the comparison
\* of the dates and that of the times (rtcDriver.c:185-220).
MissesAtMostOne == missed <= 1
=============================================================================
