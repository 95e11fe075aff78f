---------------------------- MODULE RemotePower ----------------------------
(***************************************************************************)
(* The power switches of the devices (remoteDriver.c): the commands that   *)
(* reach remoteSendCommand from the keyboard and the alarms, the callback  *)
(* that the scheduler then makes every 250 ms to switch the devices off    *)
(* and on one by one, and the resets, after which GPIOSet drives every     *)
(* switch on.  Everything runs in the main thread, one call at a time.     *)
(*                                                                         *)
(* Both loops of the callback run while "i < numberTotal || mask == 0": a  *)
(* loop over an empty mask does not end, and only the watchdog does.  A    *)
(* mask is the set of its bits.                                            *)
(***************************************************************************)
EXTENDS Integers

CONSTANTS
  numberTotal,  \* devices of the board (12 in the firmware)
  Masks,        \* masks that commands carry
  Keys,         \* keys that are sent
  ChannelBits   \* bits of a mask that a channel_number command looks at (8)

Devices    == 0 .. numberTotal - 1
SwitchKeys == {"power_switch", "poweron_switch", "poweroff_switch"}

ASSUME NumberAssumption  == numberTotal \in Nat \ {0}
ASSUME MasksAssumption   == Masks \subseteq (SUBSET Devices) \ {{}}
ASSUME KeysAssumption    == Keys \subseteq SwitchKeys \cup {"channel_number"}
ASSUME ChannelAssumption == ChannelBits \in Nat

VARIABLES
  power,             \* devices whose switches (A and B) are on
  powerOnDevices,    \* global, written by a command
  powerOffDevices,   \* global, written by a command
  devices_poweron,   \* static of the callback
  devices_poweroff,  \* static of the callback
  slot,              \* the callback's entry in the event table: "free", "armed"
  pc,                \* "loop" (the event loop), or the loop the program is
                     \* caught in: "reboot" or "channel"
  order              \* history: devices the reboot in progress is to cut

masks == <<powerOnDevices, powerOffDevices, devices_poweron, devices_poweroff>>
vars  == <<power, masks, slot, pc, order>>

\* The callback is in the event table (eventFindCount is not 0).
Busy == slot = "armed"

Lowest(S) == CHOOSE d \in S : \A e \in S : d <= e

-----------------------------------------------------------------------------
(* Reset: RAM as main() finds it, every switch on.                         *)

\* Mutant of GPIOSet: the port registers are left as they were.
GPIOKept == power' = power

GPIOSet == power' = Devices

Init ==
  /\ power = Devices
  /\ powerOnDevices = {} /\ powerOffDevices = {}
  /\ devices_poweron = {} /\ devices_poweroff = {}
  /\ slot = "free" /\ pc = "loop" /\ order = {}

Reset ==
  /\ GPIOSet
  /\ powerOnDevices' = {} /\ powerOffDevices' = {}
  /\ devices_poweron' = {} /\ devices_poweroff' = {}
  /\ slot' = "free" /\ pc' = "loop" /\ order' = {}

\* Only the event loop restarts the watchdog (8 s).
WatchdogReset == pc # "loop" /\ Reset

\* "reset", "restart" or "reboot" typed in the settings.
softwareReset == pc = "loop" /\ Reset

-----------------------------------------------------------------------------
(* remoteSendCommand                                                       *)

\* Mutant of Refused: a second reboot is started while one is in progress.
NeverRefused == FALSE

Refused == Busy

Reboot(key, S) ==
  /\ pc = "loop" /\ key \in SwitchKeys
  /\ ~Refused
  /\ slot' = "armed"                          \* eventAdd(250, 0, callback)
  /\ powerOnDevices'  = IF key = "poweroff_switch" THEN {} ELSE S
  /\ powerOffDevices' = IF key = "poweron_switch"  THEN {} ELSE S
  /\ order' = powerOffDevices'
  /\ UNCHANGED <<power, devices_poweron, devices_poweroff, pc>>

\* "Already busy rebooting"
RebootRefused(key) ==
  /\ pc = "loop" /\ key \in SwitchKeys
  /\ Refused
  /\ UNCHANGED vars

\* The inner loop counts i down in place of j and never ends; it is entered
\* at the first device among the low bits.
ChannelNumber(key, S) ==
  /\ pc = "loop" /\ key = "channel_number"
  /\ pc' = IF \E d \in S : d < ChannelBits THEN "channel" ELSE "loop"
  /\ UNCHANGED <<power, masks, slot, order>>

remoteSendCommand(key, S) ==
  Reboot(key, S) \/ RebootRefused(key) \/ ChannelNumber(key, S)

-----------------------------------------------------------------------------
(* remoteRebootCallback                                                    *)

\* Mutant of Scan: the loops stop one device short.
ScanShort(mask) == IF mask = {} THEN "endless"
                   ELSE IF mask \cap 0 .. numberTotal - 2 # {} THEN "found" ELSE "over"

\* What becomes of "for (i = 0; i < numberTotal || mask == 0; i++)", which
\* returns at the first bit of the mask.
Scan(mask) == IF mask = {} THEN "endless"
              ELSE IF mask \cap Devices # {} THEN "found" ELSE "over"

\* Mutant of Pick: the loop counts down from the last device.
PickLast(mask) == CHOOSE d \in mask \cap Devices : \A e \in mask \cap Devices : e <= d

Pick(mask) == Lowest(mask \cap Devices)

\* Mutant of SetPowerGPIO: the whole mask is handed on.
SetPowerWhole(isPowerOn, mask, d) ==
  power' = IF isPowerOn THEN power \cup mask ELSE power \ mask

\* remoteSetPowerGPIO(isPowerOn, devicegroup_AB, 1 << d)
SetPowerGPIO(isPowerOn, mask, d) ==
  power' = IF isPowerOn THEN power \cup {d} ELSE power \ {d}

remoteRebootCallback ==
  /\ pc = "loop" /\ Busy
  /\ LET fresh == powerOnDevices # {} \/ powerOffDevices # {}
         on    == IF fresh THEN powerOnDevices  ELSE devices_poweron
         off   == IF fresh THEN powerOffDevices ELSE devices_poweroff
         loop  == IF Scan(off) = "over" THEN <<"on", Scan(on)>> ELSE <<"off", Scan(off)>>
     IN
     /\ powerOnDevices' = {} /\ powerOffDevices' = {}
     /\ devices_poweroff' = IF loop = <<"off", "found">> THEN off \ {Pick(off)} ELSE off
     /\ devices_poweron'  = IF loop = <<"on", "found">>  THEN on \ {Pick(on)}   ELSE on
     /\ CASE loop = <<"off", "found">> -> SetPowerGPIO(FALSE, off, Pick(off))
          [] loop = <<"on", "found">>  -> SetPowerGPIO(TRUE, on, Pick(on))
          [] OTHER -> UNCHANGED power
     /\ pc'   = IF loop[2] = "endless" THEN "reboot" ELSE pc
     /\ slot' = IF loop[2] = "over" THEN "free" ELSE slot   \* "Reboot finished!"
  /\ UNCHANGED order

-----------------------------------------------------------------------------
Next ==
  \/ \E key \in Keys, S \in Masks : remoteSendCommand(key, S)
  \/ remoteRebootCallback
  \/ WatchdogReset
  \/ softwareReset

Spec == Init /\ [][Next]_vars

\* The event loop calls the callback every 250 ms as long as it is registered;
\* the watchdog is hardware.
FairSpec == Spec /\ WF_vars(remoteRebootCallback) /\ WF_vars(WatchdogReset)

-----------------------------------------------------------------------------
(* Properties                                                              *)

\* Each mask is a set of devices, and the callback is registered at most once.
TypeOK ==
  /\ power \subseteq Devices
  /\ powerOnDevices \subseteq Devices /\ powerOffDevices \subseteq Devices
  /\ devices_poweron \subseteq Devices /\ devices_poweroff \subseteq Devices
  /\ slot \in {"free", "armed"} /\ pc \in {"loop", "reboot", "channel"}
  /\ order \subseteq Devices

Down == Devices \ power

\* The devices the callback has yet to cut.
Pending == powerOffDevices \cup devices_poweroff

\* The bookkeeping that two pairs of masks and the ports share, whatever
\* commands come between two callbacks (remoteDriver.c:107-114 and 159-174):
\* a device that the reboot in progress is to cut is in exactly one place (it
\* is down, or its bit waits in exactly one of the two masks), no other
\* device is down, and they go in ascending order.
EveryDeviceOnce ==
  /\ Down \cap Pending = {}
  /\ powerOffDevices \cap devices_poweroff = {}
  /\ Down \cup Pending = order
  /\ \A d \in Down, e \in Pending : d < e

\* Part of the inductive invariant only, and not a promise to anyone: with
\* "poweroff_switch" devices are meant to stay off (menu.c:640).  It holds
\* because the callback never gets to unregister itself while a device is
\* down: Scan is endless first.
OffOnlyWhileBusy == Down # {} => Busy

\* A reboot that has gone off is not forgotten: as long as the callback is not
\* registered, no mask has a bit left that the next reboot would pick up.
NothingLeftOver ==
  ~Busy => powerOnDevices = {} /\ devices_poweron = {} /\ Pending = {}

\* The masks of a command are buffered as a whole, and only while the callback
\* has not made a step of its own (remoteDriver.c:107-114).
BufferedWhole ==
  powerOnDevices # {} \/ powerOffDevices # {} =>
      Busy /\ Down = {} /\ devices_poweron = {} /\ devices_poweroff = {}

IInv == TypeOK /\ EveryDeviceOnce /\ OffOnlyWhileBusy /\ NothingLeftOver /\ BufferedWhole

\* The switches keep the promise of Outage: one outage at a time, for the
\* devices that were asked for, that all of them come back from.
Promise == INSTANCE Outage WITH asked <- order, down <- Down

OutageSafe == Promise!Spec

\* Every device that loses its power gets it back: the callback never does it,
\* the watchdog always does (peripherals.c:113 and GPIOSet).
ComesBack == \A d \in Devices : d \notin power ~> d \in power
=============================================================================
