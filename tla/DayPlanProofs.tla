--------------------------- MODULE DayPlanProofs ---------------------------
(***************************************************************************)
(* Theorems about DayPlan: for every length of a day and every period of   *)
(* saving a reset loses less than a period.                                *)
(***************************************************************************)
EXTENDS DayPlan, TLAPS

-----------------------------------------------------------------------------
(* The clock and its copy.                                                 *)

\* The remainder by a day of what is less than two days.
LEMMA WithinDay ==
  ASSUME NEW x \in 0 .. 2 * Day - 1
  PROVE  x % Day = IF x < Day THEN x ELSE x - Day
<1>1. Day \in Nat /\ Day > 0
  BY TimesAssumption
<1>. DEFINE q == x \div Day
            r == x % Day
<1>2. q \in Int /\ r \in 0 .. Day - 1 /\ x = Day * q + r
  BY <1>1
<1>. HIDE DEF q, r
<1>3. q = IF x < Day THEN 0 ELSE 1
  <2>1. q >= 2 => Day * q >= Day * 2
    BY <1>1, <1>2
  <2>2. q <= -1 => Day * q <= Day * (-1)
    BY <1>1, <1>2
  <2>3. q \in {0, 1}
    BY <1>1, <1>2, <2>1, <2>2
  <2>. QED  BY <1>1, <1>2, <2>3
<1>4. r = IF x < Day THEN x ELSE x - Day
  BY <1>1, <1>2, <1>3
<1>. QED  BY <1>4 DEF r

\* One tick adds at most one to the lag.
LEMMA LagGrowsByOne ==
  ASSUME NEW c \in 0 .. Day - 1, NEW e \in 0 .. Day - 1
  PROVE  /\ Later(c) \in 0 .. Day - 1
         /\ (c - e + Day) % Day \in 0 .. Day - 1
         /\ (Later(c) - e + Day) % Day <= ((c - e + Day) % Day) + 1
<1>1. Day \in Nat /\ Day > 0
  BY TimesAssumption
<1>2. Later(c) = IF c + 1 < Day THEN c + 1 ELSE 0
  BY <1>1, WithinDay DEF Later
<1>3. (c - e + Day) % Day = IF c < e THEN c - e + Day ELSE c - e
  BY <1>1, WithinDay
<1>4. Later(c) \in 0 .. Day - 1
  BY <1>1, <1>2
<1>5. (Later(c) - e + Day) % Day = IF Later(c) < e THEN Later(c) - e + Day ELSE Later(c) - e
  BY <1>1, <1>4, WithinDay
<1>. QED  BY <1>1, <1>2, <1>3, <1>4, <1>5

LEMMA NoLag == ASSUME NEW c \in 0 .. Day - 1 PROVE (c - c + Day) % Day = 0
<1>1. Day \in Nat /\ Day > 0 /\ c - c + Day = Day
  BY TimesAssumption
<1>. QED  BY <1>1, WithinDay

IInv == TypeOK /\ LosesLessThanPeriod

LEMMA InitIInv == Init => IInv
<1>. SUFFICES ASSUME Init PROVE IInv
  OBVIOUS
<1>1. TypeOK
  BY TimesAssumption, NightAssumption DEF Init, TypeOK
<1>2. LosesLessThanPeriod
  <2>1. timeEEPROM = clock /\ clock \in 0 .. Day - 1 /\ saveIn = SavePeriod
    BY DEF Init
  <2>2. Lag = 0
    BY <2>1, NoLag DEF Lag
  <2>. QED  BY <2>1, <2>2, TimesAssumption DEF LosesLessThanPeriod
<1>. QED  BY <1>1, <1>2 DEF IInv

LEMMA StepKeepsIInv == ASSUME IInv, [Next]_vars PROVE IInv'
<1>. USE DEF IInv
<1>1. CASE Tick
  <2>1. UNCHANGED <<switches, alarmNumber, typed>> /\ checked' = "no" /\ clock' = Later(clock)
    BY <1>1 DEF Tick
  <2>2. clock' \in 0 .. Day - 1 /\ Lag \in 0 .. Day - 1
    BY <2>1, LagGrowsByOne DEF TypeOK, Lag
  <2>3. TypeOK' /\ LosesLessThanPeriod'
    <3>1. CASE saveIn = 1
      <4>1. saveIn' = SavePeriod /\ timeEEPROM' = clock'
        BY <1>1, <3>1 DEF Tick, writeTimeToEE
      <4>2. Lag' = 0
        BY <2>2, <4>1, NoLag DEF Lag
      <4>. QED  BY <2>1, <2>2, <4>1, <4>2, TimesAssumption DEF TypeOK, LosesLessThanPeriod
    <3>2. CASE saveIn # 1
      <4>1. saveIn' = saveIn - 1 /\ timeEEPROM' = timeEEPROM
        BY <1>1, <3>2 DEF Tick, writeTimeToEE
      <4>2. Lag' <= Lag + 1 /\ Lag' \in Int
        <5>1. Lag' = (Later(clock) - timeEEPROM + Day) % Day
          BY <2>1, <4>1 DEF Lag
        <5>2. Lag' \in 0 .. Day - 1
          BY <2>2, <4>1, LagGrowsByOne DEF TypeOK, Lag
        <5>. QED  BY <5>1, <5>2, LagGrowsByOne DEF TypeOK, Lag
      <4>. QED  BY <2>1, <2>2, <3>2, <4>1, <4>2, TimesAssumption
                   DEF TypeOK, LosesLessThanPeriod
    <3>. QED  BY <3>1, <3>2
  <2>. QED  BY <2>3
<1>2. CASE alarmCheck
  <2>1. UNCHANGED <<time, typed>> /\ checked' = "yes"
    BY <1>2 DEF alarmCheck
  <2>2. alarmNumber' \in 0 .. 10
    BY <1>2 DEF alarmCheck, TypeOK
  <2>. QED  BY <2>1, <2>2 DEF TypeOK, LosesLessThanPeriod, Lag, time
<1>3. CASE Callback
  BY <1>3 DEF Callback, TypeOK, LosesLessThanPeriod, Lag, time
<1>4. ASSUME NEW key \in Keys, NEW S \in Masks, Command(key, S)
      PROVE  IInv'
  <2>1. typed' \in 0 .. MaxTyped
    BY <1>4, NightAssumption DEF Command, TypeOK
  <2>2. UNCHANGED <<time, alarmNumber, checked>>
    BY <1>4 DEF Command
  <2>. QED  BY <2>1, <2>2 DEF TypeOK, LosesLessThanPeriod, Lag, time
<1>5. ASSUME NEW t \in 0 .. Day - 1, SetTime(t)
      PROVE  IInv'
  <2>1. typed' \in 0 .. MaxTyped
    BY <1>5, NightAssumption DEF SetTime, TypeOK
  <2>2. UNCHANGED <<saveIn, alarmNumber, checked>> /\ clock' = t /\ timeEEPROM' = t
    BY <1>5 DEF SetTime
  <2>3. Lag' = 0
    BY <2>2, NoLag DEF Lag
  <2>. QED  BY <2>1, <2>2, <2>3, TimesAssumption
               DEF TypeOK, LosesLessThanPeriod
<1>6. CASE WatchdogReset
  <2>1. /\ UNCHANGED <<timeEEPROM, typed>> /\ clock' = timeEEPROM /\ saveIn' = SavePeriod
        /\ alarmNumber' = 0 /\ checked' = "yes"
    BY <1>6 DEF WatchdogReset
  <2>2. Lag' = 0
    BY <2>1, NoLag DEF Lag, TypeOK
  <2>. QED  BY <2>1, <2>2, TimesAssumption DEF TypeOK, LosesLessThanPeriod
<1>7. CASE softwareReset
  <2>1. /\ UNCHANGED clock /\ timeEEPROM' = clock /\ saveIn' = SavePeriod
        /\ alarmNumber' = 0 /\ checked' = "yes"
    BY <1>7 DEF softwareReset
  <2>2. typed' \in 0 .. MaxTyped
    BY <1>7, NightAssumption DEF softwareReset, TypeOK
  <2>3. Lag' = 0
    BY <2>1, NoLag DEF Lag, TypeOK
  <2>. QED  BY <2>1, <2>2, <2>3, TimesAssumption DEF TypeOK, LosesLessThanPeriod
<1>8. CASE UNCHANGED vars
  BY <1>8 DEF vars, time, TypeOK, LosesLessThanPeriod, Lag
<1>. QED  BY <1>1, <1>2, <1>3, <1>4, <1>5, <1>6, <1>7, <1>8 DEF Next

THEOREM PlanInvariant == Spec => []IInv
<1>1. IInv /\ [Next]_vars => IInv'
  BY StepKeepsIInv
<1>. QED  BY InitIInv, <1>1, PTL DEF Spec

\* The clock, its copy and the number of the next alarm are in their ranges.
THEOREM PlanTypeCorrect == Spec => []TypeOK
<1>1. IInv => TypeOK
  BY DEF IInv
<1>. QED  BY PlanInvariant, <1>1, PTL

\* A reset, whenever it comes, sets the clock back by less than one period of
\* writeTimeToEE.
THEOREM ResetLosesLessThanPeriod == Spec => []LosesLessThanPeriod
<1>1. IInv => LosesLessThanPeriod
  BY DEF IInv
<1>. QED  BY PlanInvariant, <1>1, PTL
=============================================================================
