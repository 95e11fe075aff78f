---------------------------- MODULE AlarmSequence ----------------------------
(***************************************************************************)
(* The power sequence that the daily alarm starts (menu.c): an event that  *)
(* runs 2 * numberTotal times, two seconds apart, and presses the power    *)
(* button of one device in each run, so that every device is switched off  *)
(* and on again (or on and off).  The alarm may start it anew at any time, *)
(* a reset of the board clears the table of events and with it a sequence  *)
(* under way, and the user may press the button of a device in between.    *)
(*                                                                         *)
(* The button is sent in the codes of all three makes.  Those of a HUMAX   *)
(* and an MBC are sent three times, which switches as one press does.      *)
(* That of a BEIN goes to eight pins only.                                 *)
(***************************************************************************)
EXTENDS Integers

CONSTANTS
  numberTotal,  \* devices of the board (12 in the firmware)
  PinBits,      \* pins of remoteSend_BEIN, a uint8_t (8 in the firmware)
  Bein          \* the positions of the devices that are of this make

Devices == 0 .. numberTotal - 1

ASSUME NumberAssumption == numberTotal \in Nat /\ numberTotal >= 2
ASSUME BeinAssumption   == PinBits \in Nat /\ Bein \subseteq Devices

VARIABLES
  repeation,  \* of the slot of alarmPowerOnCallback; 0: it is not in the table
  powered,    \* the devices that are on
  wanted,     \* history: the devices that would be, had no sequence ever run
  presses,    \* history: presses of each device by the sequence started last
  ended,      \* history: which has run to its end
  left        \* history: devices that the sequences that were broken off, taken
              \* together, have left the other way round

sequence == <<repeation, powered, wanted, presses, ended, left>>

SymDiff(S, T) == (S \ T) \cup (T \ S)

\* The devices that the power key reaches.
Reached == {d \in Devices : d \in Bein => d < PinBits}

\* What a press of the button of a device switches over.
Pressed(d) == {d} \cap Reached

\* The devices that a sequence under way has switched over.
Once == {d \in Devices : repeation > 0 /\ presses[d] = 1}

-----------------------------------------------------------------------------
SequenceInit ==
  /\ repeation = 0 /\ ended = FALSE /\ left = {}
  /\ powered \in SUBSET Devices /\ wanted = powered
  /\ presses = [d \in Devices |-> 0]

\* Mutant of Runs: the devices are pressed one time too few.
RunsLess == 2 * numberTotal - 1

Runs == 2 * numberTotal

\* The end of alarmCheck: eventRemove and eventAdd.
Start ==
  /\ repeation' = Runs
  /\ presses' = [d \in Devices |-> 0] /\ ended' = FALSE
  /\ left' = SymDiff(left, Once)
  /\ UNCHANGED <<powered, wanted>>

\* Mutants of Device: the last device is left out; the second time around goes
\* backwards.
LastLeftOut(count) == count % (numberTotal - 1)
Turned(count) ==
  (IF count < numberTotal THEN count ELSE 2 * numberTotal - count) % numberTotal

Device(count) == (2 * numberTotal - count) % numberTotal

\* eventsPerform has counted the run when it makes the call, and clears the
\* slot after the last one.
alarmPowerOnCallback ==
  /\ repeation > 0
  /\ LET count == repeation - 1
         d     == Device(count)
     IN  /\ repeation' = count /\ ended' = (count = 0)
         /\ powered' = SymDiff(powered, Pressed(d))
         /\ presses' = [presses EXCEPT ![d] = IF d \in Reached THEN @ + 1 ELSE @]
  /\ UNCHANGED <<wanted, left>>

\* The user's key 'p'.
Power(d) ==
  /\ powered' = SymDiff(powered, Pressed(d)) /\ wanted' = SymDiff(wanted, Pressed(d))
  /\ UNCHANGED <<repeation, presses, ended, left>>

\* The watchdog, a reset that is typed, or the power of the board: the devices
\* stay as they are.
SequenceReset ==
  /\ repeation' = 0
  /\ left' = SymDiff(left, Once)
  /\ UNCHANGED <<powered, wanted, presses, ended>>

SequenceNext == Start \/ alarmPowerOnCallback \/ (\E d \in Devices : Power(d)) \/ SequenceReset

SequenceSpec == SequenceInit /\ [][SequenceNext]_sequence

-----------------------------------------------------------------------------
(* Properties                                                              *)

TypeOK ==
  /\ repeation \in 0 .. 2 * numberTotal /\ ended \in BOOLEAN
  /\ powered \in SUBSET Devices /\ wanted \in SUBSET Devices /\ left \in SUBSET Devices
  /\ presses \in [Devices -> 0 .. 2]

\* After k runs the devices 1, ..., k have been pressed, counted around from 0
\* to the last and around again.
Done == 2 * numberTotal - repeation

Turns(d) == LET k == IF d = 0 THEN numberTotal ELSE d
            IN  (IF Done >= k THEN 1 ELSE 0) + (IF Done >= k + numberTotal THEN 1 ELSE 0)

InTurn ==
  repeation > 0 \/ ended => \A d \in Devices : presses[d] = IF d \in Reached THEN Turns(d) ELSE 0

\* The inductive invariant: the buttons have been pressed in turn, and what is
\* not as the user would have it is what a sequence under way, or one that was
\* broken off, has pressed once (menu.c:740-789).
IInv ==
  /\ TypeOK /\ InTurn /\ (ended => repeation = 0)
  /\ powered = SymDiff(wanted, SymDiff(left, Once))

\* A sequence that runs to its end has pressed the button of every device that
\* the key reaches twice, whatever was broken off before it.  A BEIN receiver
\* at position 9 or higher is not pressed at all: its bit is lost when the mask
\* is cut to a uint8_t (menu.c:741, 767-786, remoteDriver.c:306).
EveryDeviceTwice ==
  ended => \A d \in Devices : presses[d] = IF d \in Reached THEN 2 ELSE 0

\* When no sequence is under way, the devices are as the user's own presses
\* would have left them, but for those that the sequences broken off by a new
\* alarm or a reset have left the other way round: no sequence after it, whole
\* as it may be, puts these right (menu.c:740-741, peripherals.c:110-143).
Restored == repeation = 0 => powered = SymDiff(wanted, left)
=============================================================================
