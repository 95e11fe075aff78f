# RVBZ firmware: TLA+ specification

The repository holds the firmware of the RVBZ v5 board (ATxmega128, C, in
`src/rvbzv2`): it switches the power of up to twelve satellite receivers, sends
them infrared keys, reads currents and a temperature, keeps a clock with a
daily alarm, and is controlled through a menu over USB. This directory models
the parts of it that decide something over time, checks them with TLC and
proves the most important properties with TLAPS. Paths below are relative to
`src/rvbzv2`.

Contents: [inventory](#1-inventory), [modules](#2-modules-and-how-they-correspond-to-the-code),
[runs](#3-what-the-runs-check), [fairness](#4-fairness), [proofs](#5-what-is-proved),
[disagreements](#6-where-the-code-disagrees-with-what-it-says),
[not modelled](#7-what-is-not-modelled), [plan](#8-plan).

## 1. Inventory

One thread runs everything: `main` registers functions in an event table and
enters `eventControllerLoop`, which makes a pass over the table after every
wake-up. Callbacks call each other directly and edit the event table. Four
interrupts run underneath: RTC overflow (the clock, once a second), TWI master
(the sensor bus), TCD0 compare (the USB task, every 20 ms) and the bus events of
USB, and beyond them the watchdog's reset (8 s).

| component (file) | state | operations | hard part | what makes it correct |
|---|---|---|---|---|
| event scheduler (`timeEvent.c`) | the table `events[20]` of function, interval, time left, repetitions | `eventAdd`, `Remove`, `TimerRestart`, `TimerTrigger`, `SetTimeleft`, `SetInterval`, `SetRepeation`; a pass | callbacks edit the table in the middle of the pass and take time themselves; repetition count; catching up after a long pass | an event is run as often as asked, early only by time that had gone by when it was armed, after a trigger in time; lookups and free slots agree |
| power switches (`remoteDriver.c`, `GPIOSet` in `peripherals.c`) | two global masks, two static ones, the port lines, an entry of the table | `remoteSendCommand`, `remoteRebootCallback` every 250 ms, resets | endless loops; second command; a reset in the middle | only the devices asked for are cut, one by one and once; they come back |
| calendar and clock (`rtcDriver.c`) | `hardware.datetime` | interrupt, `RTCUpdateDate/Time`, `RTCAdd...`, comparisons | 8-bit fields, ends of months, leap years; interrupt against main thread | the clock is a real date and counts seconds |
| daily alarm (`menu.c`) | `hardware.alarm`, `alarmEnabled`, the alarm's copy in EEPROM | `alarmCheck` every 5 s, the lines of the settings menu, `writeTimeToEE`, resets | the clock moves during the comparison and the reads; the copy is loaded unchecked | the alarm, once real, stays so; it is at its time, and seen |
| power sequence (`menu.c`) | an event with 2n runs | start, `alarmPowerOnCallback` every 2 s, resets | restart or reset in the middle, user's keys, pins that a key does not reach | every device that the key reaches is pressed twice, so left as it was; what is left the other way round comes from sequences that were broken off |
| hard-coded alarms of board 10 (`menu.c`) | static `alarmNumber`, time in EEPROM | `alarmCheck`, `writeTimeToEE` every 15 min | a reset loses the number and sets the clock back | off at 03:00, on at 06:00; little time lost |
| TWI master (`twiDriver.c`) | status, result, counts, buffers | `twiMasterWriteRead`, interrupt handler | handler against caller; NACKs and bus errors; buffer limit | ready means idle; OK means all bytes |
| temperature sensor (`peripherals.c`) | `isInitialized`, output buffer; the sensor's pointer | `TMP112Read` every 125 ms | transactions outlast their delay; refusals | readings are whole and of the temperature |
| saved clock (`menu.c`, `peripherals.h`) | the bytes of `timeEEPROM` | `writeTimeToEE` every 15 min and after every setting, `roomInit` | a power cut between two bytes; an EEPROM never written; no check on loading | the loaded clock runs, and is near the one that was lost |
| USB terminal (`menu.c`, `appUI.c`, `timeEvent.c`, and of LUFA the CDC class and the endpoint functions) | device state, the selected endpoint, handle and FIFO of each endpoint | `roomKeys` every 100 ms, `roomClean`, printing; interrupts TCD0_CCA and USB_BUSEVENT; the host | three levels share one selected endpoint; requests are read at whatever position the FIFO has; prints wait for the host with all interrupts masked; reset, suspend and resume race with the accesses of a configuration | keys are what the host sent, from the head of their packets; a connection has its endpoints; nothing waits for ever |
| menu input, screen buffer, current measurement, serial rings, infrared | see section 7 | | | |

Interactions: the menu and the alarms call `remoteSendCommand`; this and
`alarmCheck` register events with the scheduler; `TMP112Read` drives the TWI
driver and polls its status; the clock interrupt writes what the alarm reads;
the menu reads its keys and every component prints through the USB terminal,
which two interrupts serve as well; a reset, by the watchdog or typed, restarts
all of them from RAM's initial values, port lines high, and the time in EEPROM.

The full list of hazards, with lines, is in `PROJECT.json`.

## 2. Modules and how they correspond to the code

| module | models | composes |
|---|---|---|
| `TimeEvent` | the scheduler, slot by slot | |
| `RemotePower` | the power switches | implements `Outage` |
| `Outage` | abstract: what the switches promise the devices | |
| `Rtc` | the clock, the operators of the calendar, and the reference calendar | |
| `RtcClock` | the running clock | extends `Rtc` |
| `Alarm` | the daily alarm and its settings | extends `Rtc` |
| `AlarmSequence` | the alarm's power sequence | |
| `DayPlan` | board 10's alarms, saved clock, resets | instance of `RemotePower` |
| `TwiMaster` | caller, interrupt handler and bus | implements `Transaction` |
| `Transaction` | abstract: what the driver promises its caller | |
| `Tmp112` | the sensor over the driver | extends `TwiMaster` |
| `ClockBackup` | the saved clock, byte by byte, and power cuts | extends `Rtc` |
| `UsbTerminal` | main program, two interrupts and host on the endpoints of the terminal | |
| `...Proofs` | theorems and proofs of the module of that name; `AlarmProofs` also about `AlarmSequence`, `ClockBackupProofs` about `RtcClock`, `TwiMasterProofs` about `Tmp112` | extend these |
| `RtcProofs` | lemmas about the operators of `Rtc` | |
| `MC...` | constants for TLC | |

**TimeEvent.** `events` is the table. One action registers main's events
(`MainAdd`); a pass is `StartPass`, then for each slot `SkipSlot`, `CountDown`
or `Execute`, then `EndPass`. Between `Execute` and `Return` a callback may make
up to `MaxOps` calls of any of the seven functions, with any argument: the
callbacks of the firmware are instances of this. `pc = "lastcall"` is the local
`isContinueExecution` being false. The do-while loop of the catch-up is its
closed form, `CatchUp`. The sleep (`StartPass(ms)`) and the callbacks
(`Work(ms)`) take time. The code measures the sample of a pass from the start of
the call of `eventsPerform` before, so it is the time in the callbacks of the pass
before, `spent` (a 16-bit timer: it wraps, `TimerRange`), and the sleep after it.
Four history variables record promises: `wait` (delay since the last
arming), `early` (by how much an arming was backdated), `owed` (runs), `trig` (passes
since a trigger). An event that is armed is not armed as of that moment: it will
lose the time that callbacks have taken in this pass so far, and, if the pass has yet
to reach its slot, the sample of the pass (`Backdated`). `NeverEarly` states the
promise with exactly that allowance. One
assumption on callbacks is explicit, `OwnSlotSpared`: no callback writes a new
event into its own slot during its last run, where the final `memset` would
wipe it; no function of the firmware does. `repeation` is a 7-bit
field (`% 128`).

**RemotePower.** A mask is the set of its bits. `Scan` says what becomes of a
loop `for (i = 0; i < numberTotal || mask == 0; i++)`: it finds a bit, is over, or is
endless; `pc` then says which loop holds the program, and only `WatchdogReset`
is left. `order` is a history variable: the devices that the present reboot
is for. `Outage` has two variables, the devices asked for and those that are
down; the refinement maps them to `order` and the complement of `power`.

**Rtc, RtcClock.** `Rtc` declares the clock, `datetime`, and what may be typed, for
the three modules that set and count it. The operators are named as in the code; fields are 8 bits
wide (`U8`). The loop over months is nine applications of `Spill`, enough for
a day of 255. The lengths of minutes, hours and days (`SECONDS`, `MINUTES`,
`HOURS`) are parameters, so that TLC can run through a leap cycle with days of
eight seconds; the proofs leave them open. `DayNumber`, `Elapsed` and `Real` are the
reference: the Gregorian calendar, stated independently of the code.

**Alarm.** A call of `RTCIsSurpassedDatetime` is two steps (its two atomic
blocks) and the arguments of `RTCUpdateDate` are three reads in any order; the
interrupt may come once between any two of them (a call takes far less than
a second). The lines of the settings menu are inputs; `Branch` is the chain of
`else if` that decides which code sees a line. `alarmEEPROM` is the copy that
`writeTimeToEE` saves, by itself and at the lines that save, in the code's
order of saving and setting; `Reset` loads it, in the middle of anything. A
behaviour may start with anything in it: zeros, erased bytes, or a torn alarm, as
`roomInit` does not look at what it loads.

**AlarmSequence.** `repeation` is that of the sequence's slot, counted down by
the scheduler before the call, as `TimeEvent!Execute` does. A start and a reset
(`SequenceReset`) break off the sequence under way. A press reaches only the devices
in `Reached`: `remoteSend_BEIN` takes a mask of 8 bits. The history is what relates
the devices over many sequences: `wanted`, the devices that would be on without any
sequence; `presses` and `ended`, of the sequence started last; `left`, what all
sequences that were broken off have left the other way round. No start forgets it.

**DayPlan.** One tick is one period of `alarmCheck`. The switches are those of
`RemotePower`, every action of which is used as it stands; what is said of the
switches is said there and not repeated.

**TwiMaster, Tmp112.** The bus and the slave are external: at each point the
slave may acknowledge or refuse, deliver data, or the peripheral report a bus
error or a lost arbitration. A handler call is one action: interrupts do not
nest, and the caller does not touch the driver while it is busy, which `IInv`
confirms. After an overflow the handler
issues two contradicting commands; what the peripheral makes of them is a
nondeterministic choice. `Tmp112` adds the pointer register of the sensor,
which the first written byte sets and a reset of the board does not.

**ClockBackup.** `writeTimeToEE` is one step for the block of the alarm and one
for every byte of the block of the clock, in the order of `eeprom_update_block`
(the last byte first; the C library is external, its order is read off
`Debug/RVBZv2.lss:11034-11043`). `PowerCut` may come at any of them and leave
the byte that is being written erased; `roomInit` loads what is there. The
lines "date y:m:d" and "time h:m:s" of the settings menu set the clock and save it.
`kept`, `age` and `whole` are history: the clock goes on from the last whole copy, so
many seconds ago, and the EEPROM has held one since it was last caught with an
erased byte.

**UsbTerminal.** There are three levels. The main program is `pc`: a read
(`roomKeys`, `roomClean`) goes through the calls of the CDC class (`stage`) and
within them through the accesses of the endpoint functions (`at`), one action
per access, since an interrupt may come between any two; a print is one action
per byte, with nothing in between, as it is in an atomic block. The timer
interrupt is `isr`; `BUSEVENT`, of a higher level, may come between any two
of its stages. It flushes the text, with a wait where a full packet must be followed by
an empty one, then selects the control endpoint (`DeviceTask`) and serves a request:
the header is read from the position that the FIFO has (`ReadHeader`; a header that is
misread is stalled), SETUP is cleared, and SetLineEncoding waits for its packet
or SetConfiguration configures one endpoint (`target`) after the other. Each is
configured in three accesses, of which the second and the third write to the endpoint
that *is selected*: after a reset in between, to the control endpoint, which is then of
the wrong type (not `on`). The
host and the bus are external: `BusReset` (also plugging in), `Suspend` (also
unplugging), `Resume`, `Request` (SetConfiguration, then SetLineEncoding; again
after a stall), `GiveUp` (no answer: reset the bus), `Taken`, `Typed`.
`WatchdogReset` ends a print that waits for frames that do not come, and an
interrupt that waits for a line encoding that a reset has taken back. `Over`, `Then`
and `Follow` are the control flow of
`roomKeys` (menu.c:127-137), which `roomClean` is the tail of. An endpoint is a
record of what its handle and its FIFO hold; `"txOut"` is the OUT direction of the
endpoint for IN, which `Endpoint_IsOUTReceived` selects when the timer
interrupt has changed the selected endpoint before it. `FOREIGN` stands for a
byte of another FIFO or from beyond one. `head` is history: the first key of the
last packet. One step each are `SelectEndpoint` (an address and two pointers) and
the eight reads of a header.

## 3. What the runs check

| run | module / cfg | bounds | shows |
|---|---|---|---|
| `scheduler` | `MCTimeEvent` | 2 slots, 2 functions, intervals 1 and 3, repetitions 0-2, sleeps of 0 and 2 ms, callbacks that take 2 ms any number of times, a timer modulo 4, 1 edit per callback | type and inductive invariant; `FindsOnlyLive`, `RunsAsOften`, `NeverEarly`, `TriggerAnswered`; `Served` |
| `power` | `MCRemotePower` | 6 devices, single, all and all-but-the-last masks | bookkeeping of the masks, refinement of `Outage`, `ComesBack` |
| `clock` | `MCRtcClock` | 2000 to 2004, eight-second days, valid and invalid dates and times typed at any moment | `ClockIsReal`, `CountsSeconds` |
| `alarm` | `MCAlarm` | New Year 2023/24, four-hour days, typed dates on both sides of the year's end and one that does not exist; the EEPROM holds an alarm, zeros, erased bytes or a torn alarm; resets at any moment | `AlarmStaysReal`, `AlarmTimeKept`, `MissesAtMostOne` |
| `sequence` | `MCAlarmSequence` | 4 devices, BEIN receivers at the second and the last position, 2 pins for them; starts, resets and keys at any moment | `IInv`, `EveryDeviceTwice`, `Restored` |
| `dayplan` | `MCDayPlan` | day of 24 ticks, 3 devices, 2 commands typed | `LosesLessThanPeriod` |
| `dayplan_night` | `MCDayPlanNight` | same, no commands | violated |
| `twi` | `MCTwiMaster` | buffer of 3, every request of up to 3 + 3 bytes | `ReadyMeansIdle`, refinement of `Transaction`, `Ends` |
| `sensor` | `MCTmp112` | the three transactions of the code | `ConfigurationIsAddressed`, `WholeReadings` |
| `backup` | `MCClockBackup` | last two seconds of every month of 2019 and of February 2020, and the end of 2099, 2 cuts, 3 interrupts between two cuts, dates and times typed | `LoadedClockRuns`, `TornClockNear` |
| `usb` | `MCUsbTerminal` | packets and headers of 2 bytes, positions modulo 4, texts of 3 bytes, 2 keys typed, 1 interrupt inside a read, 2 of these, suspends and further resets together | `DataEndpointReady`, `IInv`, `KeyIsFirst`; `MainReturns`, `PacketReleased`, `Enumerates` |
| `usb_keys` | `MCUsbTerminalKeys` | same | violated |

Why the bounds are enough. *Scheduler*: what can go wrong lies between the slot
being run, one before or after it and the edits of one callback; two slots hold all
relations (own, earlier, later, full table), interval 1 against a pass of
2 ms needs the catch-up loop more than once, interval 3 leaves a remainder; callbacks
of 2, 4, ... ms take more than the interval, and two of them let the timer wrap. The
theorems remove the bounds for all but `Served`. *Power*: the callback treats
devices one by one; six give masks with gaps at either end, and the theorems
hold for any number. *Clock*: one whole leap cycle, so every length of month in
every kind of year; the theorems cover 2000 to 2099 and every day length. *Alarm*: the end
of a year moves all three fields of the date at once, which is the worst a
torn read can meet; hours halve evenly as 24 does; a torn copy is one that lacks the
day and the hour, so that its date is past any that exists. *Sequence*: one of the two
BEIN receivers is within reach and one is not; proved for any number. *DayPlan*: every alarm minute has three ticks, as alarms 2-4, 5-7 and
8-10 need to fire within their minute, and the save period (5) divides neither
the day nor the distances between alarms, so resets come at every phase. *TWI*: the handler only
compares counts with the request and the buffer, proved for any size.

*Backup*: two cuts are a torn copy over
an older one and a torn copy over a torn one; the starting dates are those in
which two copies a second apart differ in every byte, real days and hours are
used because the distances are what is checked; the theorems have neither bound. *USB*: a text
one byte longer than a packet fills it, waits for the host, and leaves one byte or
a full packet for the timer's flush; two keys make one packet of two, or two of
one; one interrupt in a read, at any of its accesses, is
enough to break `KeysAreTyped`, and two events to have a header misread (a reset in a
read) or the control endpoint made a bulk endpoint (a reset in a configuration). The theorems about `UsbTerminal` have no such
bounds; the three liveness properties have them.

`CHECK_DEADLOCK FALSE` is set for two runs: in `clock` the model stops at
`LastYear`, in `backup` after the last interrupt and power cut that are allowed.

## 4. Fairness

- `TimeEvent!Fairness`: the main loop and the callbacks keep running (weak);
  passes that find time elapsed keep coming (strong, as passes that find less
  than a millisecond may come in between): the loop restarts the timer in every
  pass, and the compare interrupt wakes it 20 ms later at the latest.
- `RemotePower!FairSpec`: the scheduler calls a registered callback again and
  again (this is what `Served` shows of the scheduler), and the watchdog
  is hardware. No fairness is assumed of commands.
- `DayPlan!FairSpec`: the same, and time goes by (for `OnAgainAtSix`, which is violated
  although it does).
- `TwiMaster!FairSpec`: the peripheral reports on what it was asked to do and
  interrupts are served. A slave that stretches the clock for ever is thereby
  left out; the driver has no timeout against it.

- `UsbTerminal!FairSpec`: the processor goes on with what it has begun (`Main`,
  `Interrupt`), frames come while the bus is active, and a host that is there
  goes on with its requests or, when the control endpoint is dead, gives up and resets
  the bus (weak); the watchdog ends a wait that nothing else ends (weak); the scheduler calls `roomKeys` again and again
  whatever is printed in between, and an interrupt that is pending is let in
  although prints mask it again and again (strong). Nothing is assumed of the host
  taking text or of the user typing. A pending interrupt of the
  AVR is served at the first instruction after the mask is lifted, which the
  loop reaches between any two prints.

## 5. What is proved

All proofs hold for every value of the constants under the named assumptions of
the modules (`...Assumption`), and under the hypotheses named below. They rest on
inductive invariants. `IInv` stands in the component's module, and TLC checks it in
the corresponding run as well; those that only the proofs need stand beside
them: `AlarmInv`, `OnCalendar` and `Watched` for the alarm, `Sound` and `Followed`
for the saved clock, `Steady` for the sensor.

- **TimeEventProofs**: `SchedulerInvariant` (`Spec => []IInv`), and from it
  `TypeCorrect`, `LookupsAgree`, `RepetitionIsExact`, `NoEarlyRun`,
  `TriggersAreAnswered`. The properties are not inductive: `NeverEarly` speaks of the
  moment an event is due, so `Timing` carries, for every slot and every point
  of a pass, the relation between the promised delay and the time left,
  including what this pass and, for the time in its callbacks, the next have yet to
  take off (`ToTakeOff`); `Triggers` does the same for
  triggered events. The seven editing functions share the lemma that an edit
  which re-arms one slot (or clears some) keeps the invariant (`EditKeepsIInv`);
  `CatchUpWaits` is the arithmetic of the catch-up. `NoEarlyRun` allows exactly the time
  that had gone by when the event was armed, nothing else; that the code does run an event early
  by this time is a disagreement (section 6).
- **RemotePowerProofs**: `PowerInvariant`, `ExactOutage`, and
  `SwitchesKeepPromise`: `Spec => OutageSafe`, the refinement. It needs the
  invariant that a device the reboot is to cut is in exactly one place (down,
  or pending in exactly one of the two masks), in ascending order, which gives
  the abstract `Drop` its guard. `LowestExists`, that
  the loop finds a lowest bit, is induction over finite sets, taken from the
  library's well-founded subset ordering.
- **RtcProofs** has the lemmas that the clock, the alarm and the saved clock share:
  a day overflow is the next calendar day (`OverflowIsDayAfter`, `DayAfterIsNext`), a
  carry of seconds, minutes and hours happens at most once (`CarryOnce`), and so a
  tick is one second of the calendar (`TickIsOneSecond`), on the same date or on the
  next (`TickIsSecondAfter`). No length of a minute, an hour or a day is fixed in them.
- **ClockBackupProofs**, about the running clock, `RtcClock`: `ClockStaysReal` and
  `ClockCountsSeconds`. Hypothesis: `LastYear <= 99`, and the clock starts before
  the end of that year; for 2100 the statement is false (section 6).
- **ClockBackupProofs**, about the saved clock: `LoadedClockAlwaysRuns` and
  `TornClockIsNear`, for any number of cuts. The first does not hold of all
  contents of the EEPROM: bytes that no torn copy produces (month 9, day 181, say) need two
  interrupts. Its invariant says which contents can come about: every byte is one that
  its field may have in a running clock or in a loaded one, or an erased one
  (`Fits`, `Loadable`), which every step of a save and every cut keeps, whatever is mixed;
  and from such bytes the first tick gets into the calendar. Hypothesis: `TheDay`,
  the 24, 60 and 60 of the firmware, as what 255 hours are in days depends on it.
  For the second, `Followed` keeps the copy that the clock goes on from: what has
  not been written over yet is that copy, and the clock is `age` seconds after it, on the
  same day or the next (`Near`). A torn copy then has, of the date, nothing, the day, or
  month and day from the day after (`TornDate`), in this order because the block
  is written from its end; that is what bounds the distance. Its bound is
  a year because the first of January may be dated into the year before.
- **TwiMasterProofs**: `TwiInvariant`, `NothingAfterReady`, and
  `DriverImplementsTransaction`, the refinement of `Transaction`. The invariant
  relates the counters of the driver with the bytes that the slave has seen in
  every phase of the bus. Hypothesis: `RequestsFit`, no request reads more
  than the buffer holds; see section 6 for what happens otherwise.
- **TwiMasterProofs**, about the temperature sensor, `Tmp112`:
  `ConfigurationIsAlwaysAddressed` and `ReadingsAreWhole`. The sensor relies on what the driver promises, and its proof takes it from the refinement:
  `PromiseKept` (OK means READY, and that all bytes asked for were moved) is shown
  of the steps of `Transaction`, not of the driver. `Phase` adds what the calls of
  `TMP112Read` keep: the transaction in progress, or the last one, is the one the
  call waits for, and a register stays in the buffer until its bytes are out.
  Hypothesis: `BUFSIZE >= 2`, the two bytes of a temperature fit; it is 32.
- **AlarmProofs**, about the power sequence, `AlarmSequence`: `SequenceInvariant`,
  `PressesEveryDeviceTwice`, `LeavesDevicesAsTheyWere`, for any number of devices
  from two on, any number of pins and any positions of BEIN receivers, with starts and resets
  at any moment. The invariant says how often each device has been pressed after k runs
  (`InTurn`) and, over all sequences, that what is not as the user would have it is what a sequence under
  way has pressed once or one that was broken off has left; `Remainder` is the
  arithmetic of the index modulo the number of devices.
- **DayPlanProofs**: `PlanInvariant`, `PlanTypeCorrect`, `ResetLosesLessThanPeriod`. `LosesLessThanPeriod` is inductive with the types: its
  second conjunct bounds the lag by the ticks since the last save, and
  `LagGrowsByOne` is the arithmetic, modulo a day of any length, of one tick.
- **AlarmProofs**: `AlarmIsAlwaysReal` and `AlarmKeepsItsTime`, from `AlarmInvariant`.
  Nothing is assumed of what the EEPROM holds: the first says that an alarm that exists,
  as its copy does, is never replaced by one that does not, the second that both keep their time of
  day from the moment it is set. Existence is proved in the code's own calendar (`CodeDate`, for all the
  years a byte holds), which up to 2099 is the calendar (`CodeIsReal`). The
  clock need not be real: a date whose fields were read on both sides of midnight
  is refused by `RTCUpdateDate` or exists (`ReadSound`), and what is left, a day or
  half a day later, is again a date that exists (`DayAfterExists`, `HalfDayLater`).
  `AlarmKeepsItsTime` assumes an even number of hours in a day.
- **AlarmProofs**: `AlarmMissedAtMostOnce`. A check misses an alarm only when
  midnight falls between its two comparisons: the dates were compared on the
  alarm's day, the times after it. `MissesAtMostOne` is not inductive; `Watched` says
  why there is no second miss: the clock is then on a `Later` day than the alarm, no
  tick takes that back, and the next check sees it by the date alone. That the code's
  two comparisons are one comparison of numbers is shown in `PastIsEarlier` and the
  lemmas before it. Hypothesis: `UpTo2099`; the clock is then a real date
  (`OnCalendar`), while the alarm may have been put off to the first day of 2100.
- **UsbTerminalProofs**: `TerminalInvariant`, `ConnectionHasEndpoints`, `KeyIsTheFirst`.
  `DataEndpointReady` is not inductive, as a resume makes a connection of
  whatever number the configuration has: `ConfiguredHasEndpoints` says that a number
  comes with its endpoints or with a configuration under way that has written those before
  `target` (`Progress`), and `AnswersControl` that the stages up to it work on the
  control endpoint. For `KeyIsFirst` the invariant adds that a complete
  packet begins with the last head (`PacketHeld`) and that a read, as long as
  no interrupt has come into one, finds the position of the OUT endpoint at the
  start and leaves it there (`PositionAtStart`), also when a reset between two reads
  has cut a packet off.

In **RemotePowerProofs** `NothingIsLeftOver` and `MasksAreWhole` state the two
parts of the invariant about the masks on their own.

Only model-checked: liveness (`Served`, `ComesBack`, `Ends`,
`MainReturns`, `PacketReleased`, `Enumerates`), which is out of the reach of the
prover. Every invariant and every action property that a passing run checks is
stated by a theorem as well.

## 6. Where the code disagrees with what it says

Two disagreements take several steps of several actors to show; each is a run in
which TLC finds the property violated, and `PROJECT.json` quotes the lines.

| run | property | what happens |
|---|---|---|
| `dayplan_night` | `OnAgainAtSix` | the 03:00 alarm is caught in the endless loop of the reboot callback, the watchdog resets the board, the static `alarmNumber` is lost, and the 06:00 alarm never comes. The reset sets the clock back by less than a save period and begins the period anew, so 03:00 comes again before the clock is saved past it: the board repeats this without end |
| `usb_keys` | `KeysAreTyped` | `CDC_Device_ReceiveByte` returns the "next received byte from the host, or a negative value" (`CDCClassDevice.h:259`). `roomKeys` reads outside any atomic block; an interrupt between two accesses (the run: a reset of the bus) selects another endpoint, and a byte of another FIFO is acted on as a key. With the timer interrupt in its place, the length of the text's FIFO is overwritten with a count, and an old packet may be sent again |

Others can be read off one or two actions and have no run:

| lines | what happens | in the model |
|---|---|---|
| `rtcDriver.c:219`, `rtcDriver.h:60` | an alarm for a later day is surpassed by the time of day alone: an alarm that was put off to tomorrow, and is earlier than the present time of day, fires at the next check and at every one until midnight | `Alarm!CompareDates`, `Alarm!CompareTimes`; an action property "moved only when past" fails |
| `timeEvent.c:247` to `260` | the sample of a pass begins with the pass before it: an event that a callback arms or that runs after one that took long (infrared keys, prints) loses that time again in the next pass, and comes early by it | `TimeEvent!Sample`, `Backdated`; `NeverEarly` without its allowance fails |
| `menu.c:80` | the alarm is loaded without a check; zeros or erased bytes are no alarm until a line sets it, or, if they compare as past, until the alarm is moved | `Alarm!Init`, `Reset`; "the alarm exists" fails |
| `menu.c:737` | an alarm that is moved is not saved: a reset by the watchdog or the power before the next save brings the old one back, with the clock from before it, and it fires once more | `Alarm!Move`, `Reset` |
| `menu.c:740`, `peripherals.c:110` | a sequence that is broken off by the next alarm or a reset leaves the devices it has pressed once switched over, for good | `AlarmSequence!Start`, `SequenceReset`, `left` |
| `remoteDriver.c:306` | the mask of `remoteSend_BEIN` is a `uint8_t`: BEIN receivers at positions 9 to 12 get no key, so no power key of the sequence either | `AlarmSequence!Reached` |
| `Endpoint_XMEGA.c:172`, `DeviceStandardReq.c:58`, `CDCClassDevice.c:72` | a reset of the bus in the middle of a configuration makes the control endpoint a bulk endpoint; one in a read leaves a position from which the next header is misread; one before the line encoding leaves the interrupt waiting. The host's next reset, its next try or the watchdog end these | `UsbTerminal!WriteType`, `ReadHeader`, `SetLineEncoding`; `Enumerates` |
| `peripherals.c:531`, `535` | "TMP112 init success!" although the sensor refused the pointer: ready means that the transaction is over, `twi.result` is not looked at; the configuration is then read as a temperature | `Tmp112!Initialized`; "isInitialized implies the pointer is at the temperature" fails |
| `remoteDriver.c:118`, `131`, `142` | the loops `... || mask == 0` never end once a mask is empty: "Reboot finished!" is not reached and every reboot ends with a watchdog reset | `RemotePower!Scan` |
| `remoteDriver.c:189`, `remoteDriver.h:108` | a channel number is never typed: the loop over its digits decrements `i` in place of `j` | `RemotePower!ChannelNumber` |
| `rtcDriver.c:79`, `299` | the leap rule is "only needed for > year 2099", and the setter accepts 2100 | `Rtc!Accepted`, `CountsSeconds` fails for it |
| `menu.c:214`, `396` | the line "alarm h:m:s" shown in the menu does nothing | `Alarm!Branch` |
| `menu.c:788` | "Alarm reboot finished!" is printed one press before the end: the scheduler has counted the run before the call | `AlarmSequence` (messages left out) |
| `twiDriver.c:247` to `260` | after an overflow the handler goes on to ask for another byte | `TwiMaster!twiMasterReadHandler`; `ReadyMeansIdle` fails for requests longer than the buffer |

`ComesBack` deserves a remark: devices do come back after a reboot, but only
because the endless loop runs into the watchdog and a reset raises all lines.

## 7. What is not modelled

- TWI slave: complete in `twiDriver.c` but never configured. Planned.
- Text input: characters, backspace, Escape, overflow of the line. Planned.
- EEPROM: the bytes of the saved alarm (one step of `ClockBackup` and of `Alarm`, of which the
  torn copies are among the loaded ones) and the other settings, which the menu clamps.
- Screen buffer (`appUI.c`), current sums (`adcDriver.cpp`), rings of `serial.c` and
  `md_serial.c` (the latter is not in the build). Planned.
- The tick counter of the loop below the millisecond (`TC_CPU`, cut down in every pass;
  its wrap is in `TimeEvent`). Planned.
- Infrared protocols: bit timing by busy-waiting. The toggle bit is planned.
- USB: descriptors and addresses, the data and status packets of the control endpoint, a host
  that takes the configuration back (`SetConfiguration(0)`), the bytes of the
  text. The rest of LUFA (host mode, other classes, other processors) is
  not part of the build. System clock, DMA and Ethernet drivers are register
  access; `remoteInterface.c` is commented out.

## 8. Plan

Done, in this order: scheduler; power switches with `Outage`; calendar and
clock; TWI driver with `Transaction`; sensor; alarm; sequence; board 10; saved
clock; USB terminal; theorems about all of them.

Next:

1. Proofs: what the abstract specifications promise, as theorems about `Outage` and
   `Transaction` themselves (a device that is down is one that was asked for; OK comes
   once), carried over to the firmware by the refinements; and for the saved
   clock, that a cut which finds the copy whole sets the clock back by its age.
2. `LoopClock`: the tick counter of the loop and its truncation to milliseconds;
   property: bounds on how late the scheduler's time may run.
3. `TwiSlave`: the slave half, and its composition with the master.
4. `SerialRing`: the rings and the RS-485 driver enable of
   `md_serial.c` under their interrupts, against a bounded FIFO; neither file has
   a user in the firmware today.
5. `TextInput`: the input line and the rooms on top of `UsbTerminal`; `AppUIBuffer`:
   the position of the page buffer; `AdcSum`: the sum over two groups and its width.
