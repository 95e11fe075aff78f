---------------------------- MODULE ClockBackup ----------------------------
(***************************************************************************)
(* The copy of the clock in EEPROM, byte by byte.  writeTimeToEE saves the *)
(* alarm and then the clock, each as one block under an ATOMIC_BLOCK, and  *)
(* the power may be cut at any moment of it; roomInit loads whatever is    *)
(* there, without a check, over the clock that RTCInit has checked.        *)
(*                                                                         *)
(* eeprom_update_block writes the bytes that differ, from the end of the   *)
(* block to its beginning (the address is counted down in                  *)
(* Debug/RVBZv2.lss:11034-11043), and a byte is 0xFF between being erased  *)
(* and being written.  The block of the alarm is one step: a cut in it     *)
(* leaves that of the clock as it was.                                     *)
(***************************************************************************)
EXTENDS Rtc, Sequences

CONSTANTS
  MaxTicks,    \* bound: interrupts of the clock between two power cuts
  MaxCuts      \* bound: power cuts

ASSUME BoundsAssumption == MaxTicks \in Nat /\ MaxCuts \in Nat

VARIABLES
  timeEEPROM,  \* the bytes of timeEEPROM
  pc,          \* "loop"; in writeTimeToEE "alarm" (is saved), "time" (being saved)
  left,        \* bytes of the block that are still to be looked at
  ticks, cuts, \* counters of the bounds
  kept,        \* history: the clock goes on from the last whole copy, which is of
               \* a real time up to 2099, nothing having been typed since
  age,         \* history: interrupts since that copy was the clock
  whole        \* history: the EEPROM has held a whole copy since it was last
               \* caught with an erased byte

vars == <<datetime, timeEEPROM, pc, left, ticks, cuts, kept, age, whole>>

Erased == 255

\* datetime_t in memory, and back.
Bytes(dt) == <<dt.time.hour, dt.time.minute, dt.time.second,
               dt.date.year, dt.date.month, dt.date.day>>
FromBytes(b) == [time |-> Time(b[1], b[2], b[3]), date |-> Date(b[4], b[5], b[6])]

Blank == [i \in 1 .. 6 |-> Erased]

Keeps(dt) == Real(dt) /\ dt.date.year <= 99

-----------------------------------------------------------------------------
\* A board whose clock has been set and which has not been saved yet, or one
\* that has been saved just now.
Init ==
  /\ datetime \in Starts
  /\ timeEEPROM \in {Blank, Bytes(datetime)}
  /\ pc = "loop" /\ left = 0 /\ ticks = 0 /\ cuts = 0
  /\ whole = (timeEEPROM # Blank) /\ kept = (whole /\ Keeps(datetime)) /\ age = 0

\* Both blocks are saved with the interrupts masked.
Tick ==
  /\ pc # "time" /\ ticks < MaxTicks /\ ticks' = ticks + 1
  /\ datetime' = RTCProcessTime(datetime) /\ age' = age + 1
  /\ UNCHANGED <<timeEEPROM, pc, left, cuts, kept, whole>>

writeTimeToEE ==
  /\ pc = "loop" /\ pc' = "alarm"
  /\ UNCHANGED <<datetime, timeEEPROM, left, ticks, cuts, kept, age, whole>>

SaveTime ==
  /\ pc = "alarm" /\ pc' = "time" /\ left' = Len(timeEEPROM)
  /\ UNCHANGED <<datetime, timeEEPROM, ticks, cuts, kept, age, whole>>

\* Mutant of Address: the block is written from its beginning.
Upwards == Len(timeEEPROM) + 1 - left

\* The byte that eeprom_update_block looks at.
Address == left

UpdateByte ==
  /\ pc = "time"
  /\ timeEEPROM' = [timeEEPROM EXCEPT ![Address] = Bytes(datetime)[Address]]
  /\ left' = left - 1
  /\ IF left = 1
     THEN pc' = "loop" /\ whole' = Real(datetime) /\ kept' = Keeps(datetime) /\ age' = 0
     ELSE UNCHANGED <<pc, whole, kept, age>>
  /\ UNCHANGED <<datetime, ticks, cuts>>

\* "date y:m:d" sets the clock and saves it.
DateLine(d) ==
  /\ pc = "loop" /\ Accepted(d)
  /\ datetime' = [datetime EXCEPT !.date = d]
  /\ pc' = "alarm" /\ kept' = FALSE
  /\ UNCHANGED <<timeEEPROM, left, ticks, cuts, age, whole>>

\* "time h:m:s" likewise.
TimeLine(t) ==
  /\ pc = "loop" /\ RTCIsValidtime(t)
  /\ datetime' = [datetime EXCEPT !.time = t]
  /\ pc' = "alarm" /\ kept' = FALSE
  /\ UNCHANGED <<timeEEPROM, left, ticks, cuts, age, whole>>

\* The clock that the board starts with after a power cut: initHardware checks
\* the one it was built with (RTCInit) and then has roomInit load the copy.
roomInit == FromBytes(timeEEPROM')

PowerCut ==
  /\ cuts < MaxCuts /\ cuts' = cuts + 1
  /\ \/ UNCHANGED <<timeEEPROM, whole>>
     \/ /\ pc = "time" /\ timeEEPROM[Address] # Bytes(datetime)[Address]
        /\ timeEEPROM' = [timeEEPROM EXCEPT ![Address] = Erased]
        /\ whole' = FALSE
  /\ datetime' = roomInit
  /\ pc' = "loop" /\ left' = 0 /\ ticks' = 0 /\ age' = 0
  /\ kept' = (kept /\ whole' /\ pc # "time")

Next ==
  \/ Tick
  \/ writeTimeToEE \/ SaveTime \/ UpdateByte
  \/ \E d \in DateInputs : DateLine(d)
  \/ \E t \in TimeInputs : TimeLine(t)
  \/ PowerCut

Spec == Init /\ [][Next]_vars

-----------------------------------------------------------------------------
(* Properties                                                              *)

\* Dates that the calendar has, and the two kinds that come before them: day 0
\* of a month and month 0 of a year, which the clock counts through like others.
Countable(d) == d.month \in 0 .. 12 /\ d.day \in 0 .. RTCGetDaysInMonth(d.month, d.year)

\* Whatever is found in the EEPROM (nothing, a copy, the last bytes of a copy
\* over an older one or over nothing, with or without an erased byte), from
\* its first second on the clock shows a time that exists and a date that goes
\* on into the calendar: no field is past its end (menu.c:81,
\* rtcDriver.c:223-263).  Day 0 and month 0 do come up.
LoadedClockRuns == ticks > 0 => RealTime(datetime.time) /\ Countable(datetime.date)

\* A power cut in the middle of a save, between two bytes, sets a clock that
\* nobody has touched less than a day forward and at most a year back, however
\* many bytes of the new copy there are, if the old copy is at most a day old
\* (menu.c:530-535; main.cpp:96 saves every quarter of an hour).
TornClockNear ==
  [][cuts' > cuts /\ kept /\ whole' /\ age <= DayLength =>
       /\ Real(datetime) /\ Real(datetime')
       /\ Elapsed(datetime, datetime') < DayLength
       /\ Elapsed(datetime', datetime) <= 366 * DayLength]_vars
=============================================================================
