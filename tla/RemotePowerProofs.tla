------------------------- MODULE RemotePowerProofs -------------------------
(***************************************************************************)
(* The power switches for a board of any size and any masks: what the      *)
(* bookkeeping of a reboot guarantees, and that the detailed switches      *)
(* implement Outage.                                                       *)
(***************************************************************************)
EXTENDS RemotePower, FiniteSetTheorems, WellFoundedInduction, TLAPS

\* A set of device numbers has a least element: the sets of smaller members
\* are finite, so one of them contains no other.
LEMMA LowestExists ==
  ASSUME NEW S \in SUBSET Devices, S # {}
  PROVE  \E d \in S : \A e \in S : d <= e
<1> DEFINE below(d) == {e \in S : e < d}
           T == {below(d) : d \in S}
<1>1. IsFiniteSet(S)
  <2>1. IsFiniteSet(0 .. numberTotal - 1)
    BY FS_Interval, NumberAssumption
  <2>2. QED
    BY <2>1, FS_Subset DEF Devices
<1>2. T \subseteq FiniteSubsetsOf(S) /\ T # {}
  <2>1. \A d \in S : below(d) \in SUBSET S /\ IsFiniteSet(below(d))
    BY <1>1, FS_Subset
  <2>2. QED
    BY <2>1 DEF FiniteSubsetsOf
<1>3. PICK x \in T : \A y \in T : ~(<<y, x>> \in StrictSubsetOrdering(S))
  <2> HIDE DEF T
  <2>1. IsWellFoundedOn(StrictSubsetOrdering(S), FiniteSubsetsOf(S))
    BY FS_StrictSubsetOrderingWellFounded
  <2>2. QED
    BY <1>2, <2>1, WFMin, Zenon
<1>4. PICK d \in S : x = below(d)
  BY <1>3
<1>5. ASSUME NEW e \in S, ~(d <= e)
      PROVE  FALSE
  <2>1. e < d /\ \A b \in S : b < e => b < d
    BY <1>5, NumberAssumption DEF Devices
  <2>2. e \in below(d) /\ e \notin below(e)
    BY <2>1 DEF Devices
  <2>3. below(e) \subseteq below(d) /\ below(e) # below(d)
    BY <2>1, <2>2
  <2>4. <<below(e), below(d)>> \in StrictSubsetOrdering(S)
    BY <2>3 DEF StrictSubsetOrdering
  <2>5. below(e) \in T
    OBVIOUS
  <2>6. QED
    BY <1>3, <1>4, <2>4, <2>5
<1>6. QED
  BY <1>5

USE NumberAssumption, MasksAssumption, KeysAssumption, ChannelAssumption

\* What the loops of the callback pick: the least device of the mask.
LEMMA PickIsLowest ==
  ASSUME NEW S \in SUBSET Devices, S # {}
  PROVE  Pick(S) \in S /\ \A e \in S : Pick(S) <= e
<1>1. S \cap Devices = S
  OBVIOUS
<1>2. QED
  BY <1>1, LowestExists DEF Pick, Lowest

\* A mask that has devices is scanned up to one of them, an empty one forever:
\* neither loop ever runs through.
LEMMA ScanEnds ==
  ASSUME NEW S \in SUBSET Devices
  PROVE  Scan(S) = IF S = {} THEN "endless" ELSE "found"
BY DEF Scan

-----------------------------------------------------------------------------
(* A step of the callback, in the two cases that the invariant leaves.     *)

\* The mask of the devices to cut, as the callback sees it once buffered.
Off == IF powerOnDevices # {} \/ powerOffDevices # {} THEN powerOffDevices
       ELSE devices_poweroff

On == IF powerOnDevices # {} \/ powerOffDevices # {} THEN powerOnDevices
      ELSE devices_poweron

LEMMA CallbackCuts ==
  ASSUME IInv, remoteRebootCallback
  PROVE  /\ pc = "loop" /\ Busy /\ UNCHANGED <<slot, order>>
         /\ Off = Pending /\ On \subseteq Devices
         /\ powerOnDevices' = {} /\ powerOffDevices' = {} /\ devices_poweron' = On
         /\ IF Off = {}
            THEN devices_poweroff' = {} /\ UNCHANGED power /\ pc' = "reboot"
            ELSE /\ devices_poweroff' = Off \ {Pick(Off)}
                 /\ power' = power \ {Pick(Off)} /\ pc' = pc
<1>1. Off = Pending /\ Off \subseteq Devices /\ On \subseteq Devices
  BY DEF IInv, TypeOK, BufferedWhole, Off, On, Pending
<1>2. Scan(Off) = IF Off = {} THEN "endless" ELSE "found"
  BY <1>1, ScanEnds
<1>3. CASE Off = {}
  <2>1. Scan(Off) = "endless"
    BY <1>2, <1>3
  <2>2. QED
    BY <1>1, <1>3, <2>1 DEF remoteRebootCallback, Off, On, Busy
<1>4. CASE Off # {}
  <2>1. Scan(Off) = "found"
    BY <1>2, <1>4
  <2>2. QED
    BY <1>1, <1>4, <2>1 DEF remoteRebootCallback, SetPowerGPIO, Off, On, Busy
<1>5. QED
  BY <1>3, <1>4

\* A reset leaves the state in which main() begins.
LEMMA ResetIsFresh == Reset => IInv'
BY DEF Reset, GPIOSet, IInv, TypeOK, EveryDeviceOnce, OffOnlyWhileBusy,
       NothingLeftOver, BufferedWhole, Down, Pending, Busy

-----------------------------------------------------------------------------
(* The inductive invariant.                                                *)

LEMMA InitHolds == Init => IInv
BY DEF Init, IInv, TypeOK, EveryDeviceOnce, OffOnlyWhileBusy,
       NothingLeftOver, BufferedWhole, Down, Pending, Busy

LEMMA RebootKeeps ==
  ASSUME IInv, NEW key, NEW S \in Masks, Reboot(key, S)
  PROVE  IInv'
<1>1. ~Busy /\ Down = {} /\ S \subseteq Devices /\ S # {}
  BY DEF IInv, OffOnlyWhileBusy, Reboot, Refused
<1>2. TypeOK'
  BY <1>1 DEF IInv, TypeOK, Reboot
<1>3. powerOnDevices = {} /\ devices_poweron = {} /\ Pending = {}
  BY <1>1 DEF IInv, NothingLeftOver
<1>4. EveryDeviceOnce'
  BY <1>1, <1>3 DEF EveryDeviceOnce, Reboot, Down, Pending
<1>5. OffOnlyWhileBusy' /\ NothingLeftOver'
  BY DEF OffOnlyWhileBusy, NothingLeftOver, Reboot, Busy
<1>6. BufferedWhole'
  BY <1>1, <1>3 DEF BufferedWhole, Reboot, Down, Pending, Busy
<1>7. QED
  BY <1>2, <1>4, <1>5, <1>6 DEF IInv

LEMMA CallbackKeeps ==
  ASSUME IInv, remoteRebootCallback
  PROVE  IInv'
<1> DEFINE d == Pick(Off)
<1>1. /\ pc = "loop" /\ Busy /\ UNCHANGED <<slot, order>>
      /\ Off = Pending /\ On \subseteq Devices
      /\ powerOnDevices' = {} /\ powerOffDevices' = {} /\ devices_poweron' = On
  BY CallbackCuts
<1>2. CASE Off = {}
  <2>1. devices_poweroff' = {} /\ UNCHANGED power /\ pc' = "reboot"
    BY <1>2, CallbackCuts
  <2>2. TypeOK'
    BY <1>1, <2>1 DEF IInv, TypeOK
  <2>3. EveryDeviceOnce'
    BY <1>1, <1>2, <2>1 DEF IInv, EveryDeviceOnce, Down, Pending
  <2>4. OffOnlyWhileBusy' /\ NothingLeftOver' /\ BufferedWhole'
    BY <1>1 DEF OffOnlyWhileBusy, NothingLeftOver, BufferedWhole, Busy
  <2>5. QED
    BY <2>2, <2>3, <2>4 DEF IInv
<1>3. CASE Off # {}
  <2>1. devices_poweroff' = Off \ {d} /\ power' = power \ {d} /\ pc' = pc
    BY <1>3, CallbackCuts
  <2>2. d \in Off /\ (\A e \in Off : d <= e) /\ Off \subseteq Devices
    <3>1. Off \subseteq Devices
      BY <1>1 DEF IInv, TypeOK, Pending
    <3>2. QED
      BY <1>3, <3>1, PickIsLowest
  <2> HIDE DEF d
  <2>3. TypeOK'
    BY <1>1, <2>1, <2>2 DEF IInv, TypeOK
  <2>4. Down' = Down \cup {d} /\ Pending' = Pending \ {d}
    BY <1>1, <2>1, <2>2 DEF Down, Pending
  <2>5. EveryDeviceOnce'
    <3>1. (Down \cap Pending = {})' /\ (Down \cup Pending = order)'
      BY <1>1, <2>2, <2>4 DEF IInv, EveryDeviceOnce
    <3>2. (powerOffDevices \cap devices_poweroff = {})'
      BY <1>1
    <3>3. ASSUME NEW c \in Down', NEW e \in Pending'
          PROVE  c < e
      <4>1. e \in Pending /\ e # d /\ e \in Devices /\ d \in Devices /\ d <= e
        BY <1>1, <2>2, <2>4, <3>3
      <4>2. CASE c \in Down
        BY <4>1, <4>2 DEF IInv, EveryDeviceOnce
      <4>3. CASE c = d
        BY <4>1, <4>3 DEF Devices
      <4>4. QED
        BY <2>4, <3>3, <4>2, <4>3
    <3>4. QED
      BY <3>1, <3>2, <3>3 DEF EveryDeviceOnce
  <2>6. OffOnlyWhileBusy' /\ NothingLeftOver' /\ BufferedWhole'
    BY <1>1 DEF OffOnlyWhileBusy, NothingLeftOver, BufferedWhole, Busy
  <2>7. QED
    BY <2>3, <2>5, <2>6 DEF IInv
<1>4. QED
  BY <1>2, <1>3

LEMMA CommandKeeps ==
  ASSUME IInv, NEW key, NEW S \in Masks, remoteSendCommand(key, S)
  PROVE  IInv'
<1>1. CASE Reboot(key, S)
  BY <1>1, RebootKeeps
<1>2. CASE RebootRefused(key) \/ ChannelNumber(key, S)
  BY <1>2 DEF RebootRefused, ChannelNumber, IInv, TypeOK, EveryDeviceOnce, OffOnlyWhileBusy,
              NothingLeftOver, BufferedWhole, Down, Pending, Busy, vars, masks
<1>3. QED
  BY <1>1, <1>2 DEF remoteSendCommand

LEMMA StepKeeps ==
  ASSUME IInv, [Next]_vars
  PROVE  IInv'
<1>1. CASE \E key \in Keys, S \in Masks : remoteSendCommand(key, S)
  BY <1>1, CommandKeeps
<1>2. CASE remoteRebootCallback
  BY <1>2, CallbackKeeps
<1>3. CASE WatchdogReset \/ softwareReset
  BY <1>3, ResetIsFresh DEF WatchdogReset, softwareReset
<1>4. CASE UNCHANGED vars
  BY <1>4 DEF IInv, TypeOK, EveryDeviceOnce, OffOnlyWhileBusy, NothingLeftOver,
              BufferedWhole, Down, Pending, Busy, vars, masks
<1>5. QED
  BY <1>1, <1>2, <1>3, <1>4 DEF Next

\* The invariant of the power switches, on any board and for any masks.
THEOREM PowerInvariant == Spec => []IInv
<1>1. Init => IInv
  BY InitHolds
<1>2. IInv /\ [Next]_vars => IInv'
  BY StepKeeps
<1>3. QED
  BY <1>1, <1>2, PTL DEF Spec

\* No command that comes between two callbacks makes a reboot lose a device,
\* cut one twice or cut one it was not asked for.
THEOREM ExactOutage == Spec => []EveryDeviceOnce
<1>1. IInv => EveryDeviceOnce
  BY DEF IInv
<1>2. QED
  BY <1>1, PowerInvariant, PTL

\* No mask has a bit left for the next reboot to pick up.
THEOREM NothingIsLeftOver == Spec => []NothingLeftOver
<1>1. IInv => NothingLeftOver
  BY DEF IInv
<1>2. QED
  BY <1>1, PowerInvariant, PTL

\* The masks of a command are buffered as a whole.
THEOREM MasksAreWhole == Spec => []BufferedWhole
<1>1. IInv => BufferedWhole
  BY DEF IInv
<1>2. QED
  BY <1>1, PowerInvariant, PTL

-----------------------------------------------------------------------------
(* The switches implement Outage.                                          *)

LEMMA InitMaps == Init => Promise!Init
BY DEF Init, Promise!Init, Down

LEMMA StepMaps ==
  ASSUME IInv, [Next]_vars
  PROVE  [Promise!Next]_(Promise!vars)
<1> USE DEF Promise!vars, vars, masks
<1>1. ASSUME NEW key \in Keys, NEW S \in Masks, remoteSendCommand(key, S)
      PROVE  [Promise!Next]_(Promise!vars)
  <2>1. CASE Reboot(key, S)
    <3>1. Down' = Down /\ order' \subseteq Devices /\ order = {}
      BY <2>1 DEF IInv, EveryDeviceOnce, OffOnlyWhileBusy, NothingLeftOver,
                  Reboot, Refused, Down, Pending
    <3>2. CASE order' = {}
      BY <3>1, <3>2
    <3>3. CASE order' # {}
      <4>1. Promise!Ask(order')
        BY <3>1, <3>3 DEF Promise!Ask
      <4>2. QED
        BY <3>1, <4>1 DEF Promise!Next
    <3>4. QED
      BY <3>2, <3>3
  <2>2. CASE RebootRefused(key) \/ ChannelNumber(key, S)
    BY <2>2 DEF RebootRefused, ChannelNumber, Down
  <2>3. QED
    BY <1>1, <2>1, <2>2 DEF remoteSendCommand
<1>2. CASE remoteRebootCallback
  <2>1. UNCHANGED order /\ Off = Pending /\ Off \subseteq Devices
    BY <1>2, CallbackCuts DEF IInv, TypeOK, Pending
  <2>2. CASE Off = {}
    BY <1>2, <2>1, <2>2, CallbackCuts DEF Down
  <2>3. CASE Off # {}
    <3> DEFINE d == Pick(Off)
    <3>1. d \in Off /\ (\A e \in Off : d <= e) /\ d \in Devices
      BY <2>1, <2>3, PickIsLowest
    <3>2. power' = power \ {d}
      BY <1>2, <2>3, CallbackCuts
    <3> HIDE DEF d
    <3>3. Down' = Down \cup {d}
      BY <3>1, <3>2 DEF Down
    <3>4. order \ Down = Off
      BY <2>1 DEF IInv, EveryDeviceOnce
    <3>5. Promise!Drop(d)
      BY <2>1, <3>1, <3>3, <3>4 DEF Promise!Drop
    <3>6. QED
      BY <3>1, <3>5 DEF Promise!Next
  <2>4. QED
    BY <2>2, <2>3
<1>3. CASE WatchdogReset \/ softwareReset
  <2>1. Promise!Restore
    BY <1>3 DEF WatchdogReset, softwareReset, Reset, GPIOSet, Promise!Restore, Down
  <2>2. QED
    BY <2>1 DEF Promise!Next
<1>4. CASE UNCHANGED vars
  BY <1>4 DEF Down
<1>5. QED
  BY <1>1, <1>2, <1>3, <1>4 DEF Next

\* Whatever the switches do is an outage of Outage: one at a time, for the
\* devices asked for, in ascending order, ended for all of them together.
THEOREM SwitchesKeepPromise == Spec => OutageSafe
<1>1. Init => Promise!Init
  BY InitMaps
<1>2. IInv /\ [Next]_vars => [Promise!Next]_(Promise!vars)
  BY StepMaps
<1>3. QED
  BY <1>1, <1>2, PowerInvariant, PTL DEF Spec, OutageSafe, Promise!Spec
=============================================================================
