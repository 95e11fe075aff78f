------------------------------ MODULE DayPlan ------------------------------
(***************************************************************************)
(* The hard-coded alarms of board 10 (alarmCheck in menu.c) on top of the  *)
(* power switches of RemotePower, and the clock that both a power cycle    *)
(* and the watchdog set back to the copy that writeTimeToEE keeps in       *)
(* EEPROM.                                                                 *)
(*                                                                         *)
(* Time goes by in ticks of one alarmCheck period (5 s).  The reboot       *)
(* callback, due every 250 ms, is over within one: a tick waits for it.    *)
(* Nothing that happens while the program is caught in a loop is kept, so  *)
(* the 8 s of the watchdog take no ticks.                                  *)
(***************************************************************************)
EXTENDS Integers

CONSTANTS
  numberTotal, Masks, Keys, ChannelBits,  \* see RemotePower
  Night,        \* devices of the 03:00 and 06:00 alarms (0xFF)
  Day,          \* ticks of a day
  Minute,       \* ticks for which hour and minute keep their value
  SavePeriod,   \* ticks between two calls of writeTimeToEE (15 minutes)
  T0300, T0600, T0610, T1300, T1900,      \* ticks at which these minutes begin
  MaxTyped      \* bound: commands typed by the user

ASSUME TimesAssumption ==
  /\ {Day, T0300, T0600, T0610, T1300, T1900} \subseteq Nat
  /\ Minute \in Nat \ {0} /\ SavePeriod \in Nat /\ SavePeriod > Minute
  /\ T0300 + Minute <= T0600 /\ T0600 + Minute <= T0610 /\ T0610 + Minute <= T1300
  /\ T1300 + Minute <= T1900 /\ T1900 + Minute <= Day
ASSUME NightAssumption == Night \in Masks /\ MaxTyped \in Nat

VARIABLES
  power, powerOnDevices, powerOffDevices, devices_poweron, devices_poweroff,
  slot, pc, order,   \* see RemotePower
  clock,        \* the time of day in hardware.datetime
  timeEEPROM,   \* its copy in EEPROM
  saveIn,       \* ticks until writeTimeToEE is due
  alarmNumber,  \* static of alarmCheck: the next alarm of the day
  checked,      \* alarmCheck has been called in this tick: "no", "yes"
  typed         \* commands typed so far

Power == INSTANCE RemotePower

ASSUME PowerAssumption ==
  /\ Power!NumberAssumption /\ Power!MasksAssumption
  /\ Power!KeysAssumption /\ Power!ChannelAssumption

switches == <<power, powerOnDevices, powerOffDevices, devices_poweron,
              devices_poweroff, slot, pc, order>>
time == <<clock, timeEEPROM, saveIn>>
vars == <<switches, time, alarmNumber, checked, typed>>

During(t) == clock \in t .. t + Minute - 1

-----------------------------------------------------------------------------
Init ==
  /\ Power!Init
  /\ clock \in 0 .. Day - 1
  /\ timeEEPROM = clock
  /\ saveIn = SavePeriod
  /\ alarmNumber = 0 /\ checked = "yes" /\ typed = 0

\* The interrupts of one tick.
Later(c) == (c + 1) % Day

\* Mutant of writeTimeToEE: it is registered for a single call.
SaveOnce == saveIn' = saveIn - 1 /\ timeEEPROM' = IF saveIn = 1 THEN clock' ELSE timeEEPROM

\* The event that calls writeTimeToEE; in the table it comes before alarmCheck.
writeTimeToEE ==
  IF saveIn = 1 THEN saveIn' = SavePeriod /\ timeEEPROM' = clock'
                ELSE saveIn' = saveIn - 1 /\ UNCHANGED timeEEPROM

Tick ==
  /\ pc = "loop" /\ ~Power!Busy
  /\ checked = "yes" /\ checked' = "no"
  /\ clock' = Later(clock)
  /\ writeTimeToEE
  /\ UNCHANGED <<switches, alarmNumber, typed>>

\* When the minute of an alarm begins, and the switches' key that it sends:
\* the alarms from 06:10 on send keys of the devices, which change nothing here.
Begins(n) == CASE n = 0 -> T0300
               [] n = 1 -> T0600
               [] n \in 2 .. 4  -> T0610
               [] n \in 5 .. 7  -> T1300
               [] n \in 8 .. 10 -> T1900

Send(n) == CASE n = 0 -> Power!remoteSendCommand("poweroff_switch", Night)
             [] n = 1 -> Power!remoteSendCommand("poweron_switch", Night)
             [] OTHER -> UNCHANGED switches

alarmCheck ==
  /\ pc = "loop" /\ checked = "no" /\ checked' = "yes"
  /\ IF During(Begins(alarmNumber))
     THEN Send(alarmNumber) /\ alarmNumber' = (alarmNumber + 1) % 11
     ELSE UNCHANGED <<switches, alarmNumber>>
  /\ UNCHANGED <<time, typed>>

Callback ==
  /\ Power!remoteRebootCallback
  /\ UNCHANGED <<time, alarmNumber, checked, typed>>

\* The keys x, f, z and g of the remote menu.
Command(key, S) ==
  /\ typed < MaxTyped /\ typed' = typed + 1
  /\ Power!remoteSendCommand(key, S)
  /\ UNCHANGED <<time, alarmNumber, checked>>

\* "time h:m:s" in the settings, which also saves it.
SetTime(t) ==
  /\ pc = "loop" /\ typed < MaxTyped /\ typed' = typed + 1
  /\ clock' = t /\ timeEEPROM' = t
  /\ UNCHANGED <<switches, saveIn, alarmNumber, checked>>

\* After a reset, roomInit loads the clock; alarmCheck is due one period later.
WatchdogReset ==
  /\ Power!WatchdogReset
  /\ clock' = timeEEPROM /\ saveIn' = SavePeriod
  /\ alarmNumber' = 0 /\ checked' = "yes"
  /\ UNCHANGED <<timeEEPROM, typed>>

\* softwareReset saves the time before it resets.
softwareReset ==
  /\ typed < MaxTyped /\ typed' = typed + 1
  /\ Power!softwareReset
  /\ timeEEPROM' = clock /\ saveIn' = SavePeriod
  /\ alarmNumber' = 0 /\ checked' = "yes"
  /\ UNCHANGED clock

Next ==
  \/ Tick
  \/ alarmCheck
  \/ Callback
  \/ WatchdogReset
  \/ \E key \in Keys, S \in Masks : Command(key, S)
  \/ \E t \in 0 .. Day - 1 : SetTime(t)
  \/ softwareReset

Spec == Init /\ [][Next]_vars

\* Time goes by, the scheduler makes its calls and the watchdog is hardware.
FairSpec ==
  /\ Spec
  /\ WF_vars(Tick) /\ WF_vars(alarmCheck) /\ WF_vars(Callback) /\ WF_vars(WatchdogReset)

-----------------------------------------------------------------------------
(* Properties                                                              *)

\* What a reset would set the clock back by.
Lag == (clock - timeEEPROM + Day) % Day

TypeOK ==
  /\ clock \in 0 .. Day - 1 /\ timeEEPROM \in 0 .. Day - 1
  /\ saveIn \in 1 .. SavePeriod
  /\ alarmNumber \in 0 .. 10 /\ checked \in {"no", "yes"} /\ typed \in 0 .. MaxTyped

\* A reset, whenever it comes, sets the clock back by less than one period of
\* writeTimeToEE, through any sequence of resets, saves and settings
\* (main.cpp:93, menu.c:81 and 530-535).
LosesLessThanPeriod == Lag < SavePeriod /\ Lag <= SavePeriod - saveIn

\* menu.c:640, "Device off at 03:00, on at 06:00": the 03:00 alarm is followed
\* by the 06:00 alarm.
OnAgainAtSix == alarmNumber = 1 ~> alarmNumber = 2
=============================================================================
