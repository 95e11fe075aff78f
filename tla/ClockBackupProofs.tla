-------------------------- MODULE ClockBackupProofs --------------------------
(***************************************************************************)
(* Theorems about ClockBackup, for any clock, anything typed, any moments  *)
(* of the interrupts and of the power cuts, and any number of them:        *)
(* whatever a cut leaves in the EEPROM, the clock that is loaded from it   *)
(* goes on into the calendar; and a copy that is torn is a near one.       *)
(***************************************************************************)
EXTENDS ClockBackup, RtcClock, SequenceTheorems, RtcProofs

\* The day of the firmware.
TheDay == HOURS = 24 /\ MINUTES = 60 /\ SECONDS = 60

-----------------------------------------------------------------------------
(* The block of six bytes.                                                 *)

Blocks == [1 .. 6 -> Byte]

LEMMA SixBytes == ASSUME NEW b \in Blocks PROVE Len(b) = 6
<1>1. b \in Seq(Byte)
  BY SeqDef DEF Blocks
<1>2. Len(b) \in Nat /\ 1 .. Len(b) = 1 .. 6
  BY <1>1, LenProperties DEF Blocks
<1>3. \A n \in Nat : 1 .. n = 1 .. 6 => n = 6
  <2>1. ASSUME NEW n \in Nat, 1 .. n = 1 .. 6 PROVE n = 6
    <3>1. 6 \in 1 .. n
      BY <2>1
    <3>2. n \in 1 .. 6
      BY <2>1, <3>1
    <3>. QED  BY <3>1, <3>2
  <2>. QED  BY <2>1
<1>. QED  BY <1>2, <1>3

LEMMA BytesTyped ==
  ASSUME NEW dt \in Datetimes
  PROVE  /\ Bytes(dt) \in Blocks /\ FromBytes(Bytes(dt)) = dt
         /\ Bytes(dt)[1] = dt.time.hour /\ Bytes(dt)[2] = dt.time.minute
         /\ Bytes(dt)[3] = dt.time.second /\ Bytes(dt)[4] = dt.date.year
         /\ Bytes(dt)[5] = dt.date.month /\ Bytes(dt)[6] = dt.date.day
<1>1. /\ dt.time.hour \in Byte /\ dt.time.minute \in Byte /\ dt.time.second \in Byte
      /\ dt.date.year \in Byte /\ dt.date.month \in Byte /\ dt.date.day \in Byte
  BY DEF Datetimes, Dates, Times
<1>2. /\ dt = [date |-> dt.date, time |-> dt.time]
      /\ dt.date = Date(dt.date.year, dt.date.month, dt.date.day)
      /\ dt.time = Time(dt.time.hour, dt.time.minute, dt.time.second)
  BY DEF Datetimes, Dates, Times, Date, Time
<1>3. /\ Bytes(dt)[1] = dt.time.hour /\ Bytes(dt)[2] = dt.time.minute
      /\ Bytes(dt)[3] = dt.time.second /\ Bytes(dt)[4] = dt.date.year
      /\ Bytes(dt)[5] = dt.date.month /\ Bytes(dt)[6] = dt.date.day
  BY DEF Bytes
<1>4. Bytes(dt) \in Blocks
  BY <1>1 DEF Bytes, Blocks
<1>5. FromBytes(Bytes(dt)) = dt
  BY <1>2, <1>3 DEF FromBytes
<1>. QED  BY <1>3, <1>4, <1>5

LEMMA FromBytesTyped ==
  ASSUME NEW b \in Blocks
  PROVE  FromBytes(b) \in Datetimes /\ \A i \in 1 .. 6 : Bytes(FromBytes(b))[i] = b[i]
<1>1. FromBytes(b) \in Datetimes
  BY DEF Blocks, FromBytes, Datetimes, Dates, Times, Date, Time
<1>2. \A i \in 1 .. 6 : Bytes(FromBytes(b))[i] = b[i]
  BY DEF Bytes, FromBytes, Date, Time
<1>. QED  BY <1>1, <1>2

-----------------------------------------------------------------------------
(* The types, and what is in the EEPROM while the clock is being saved.    *)

TypeOK ==
  /\ datetime \in Datetimes /\ timeEEPROM \in Blocks
  /\ pc \in {"loop", "alarm", "time"} /\ left \in 0 .. 6
  /\ ticks \in Nat /\ cuts \in Nat /\ age \in Nat
  /\ kept \in BOOLEAN /\ whole \in BOOLEAN

Written ==
  pc = "time" => left > 0 /\ \A i \in 1 .. 6 : i > left => timeEEPROM[i] = Bytes(datetime)[i]

LEMMA InitTyped == Init => TypeOK /\ Written
<1>. SUFFICES ASSUME Init PROVE TypeOK /\ Written
  OBVIOUS
<1>1. datetime \in Datetimes
  BY StartsAssumption DEF Init
<1>2. Blank \in Blocks
  BY DEF Blank, Blocks, Erased, Byte
<1>3. whole \in BOOLEAN /\ kept \in BOOLEAN
  BY DEF Init
<1>. QED  BY <1>1, <1>2, <1>3, BytesTyped DEF Init, TypeOK, Written

\* A byte is rewritten.
LEMMA ByteTyped ==
  ASSUME TypeOK, Written, pc = "time",
         NEW v \in Byte, timeEEPROM' = [timeEEPROM EXCEPT ![Address] = v]
  PROVE  /\ timeEEPROM' \in Blocks
         /\ \A i \in 1 .. 6 : timeEEPROM'[i] = IF i = left THEN v ELSE timeEEPROM[i]
BY DEF TypeOK, Written, Address, Blocks

LEMMA UpdateTyped ==
  ASSUME TypeOK, Written, UpdateByte
  PROVE  /\ TypeOK' /\ Written'
         /\ \A i \in 1 .. 6 : timeEEPROM'[i] = IF i = left THEN Bytes(datetime)[i]
                                               ELSE timeEEPROM[i]
<1>1. datetime \in Datetimes /\ left \in 1 .. 6 /\ pc = "time" /\ datetime' = datetime
  BY DEF TypeOK, Written, UpdateByte
<1>2. Bytes(datetime)[left] \in Byte
  BY <1>1, BytesTyped DEF Blocks
<1>3. timeEEPROM' = [timeEEPROM EXCEPT ![Address] = Bytes(datetime)[left]]
  BY DEF UpdateByte, Address
<1>4. /\ timeEEPROM' \in Blocks
      /\ \A i \in 1 .. 6 : timeEEPROM'[i] = IF i = left THEN Bytes(datetime)[left]
                                            ELSE timeEEPROM[i]
  BY <1>1, <1>2, <1>3, ByteTyped
<1>5. /\ left' = left - 1 /\ UNCHANGED <<datetime, ticks, cuts>>
      /\ left = 1 => pc' = "loop" /\ age' = 0
      /\ left # 1 => UNCHANGED <<pc, whole, kept, age>>
  BY DEF UpdateByte
<1>6. whole' \in BOOLEAN /\ kept' \in BOOLEAN
  <2>1. CASE left = 1
    <3>1. whole' = Real(datetime) /\ kept' = Keeps(datetime)
      BY <2>1 DEF UpdateByte
    <3>. QED  BY <3>1 DEF Real, RealDate, Keeps
  <2>2. CASE left # 1
    BY <1>5, <2>2 DEF TypeOK
  <2>. QED  BY <2>1, <2>2
<1>7. TypeOK'
  BY <1>1, <1>4, <1>5, <1>6 DEF TypeOK
<1>8. Written'
  BY <1>1, <1>4, <1>5 DEF Written
<1>. QED  BY <1>4, <1>7, <1>8

LEMMA CutTyped ==
  ASSUME TypeOK, Written, PowerCut
  PROVE  TypeOK' /\ Written' /\ datetime' = FromBytes(timeEEPROM')
<1>1. timeEEPROM' \in Blocks /\ whole' \in BOOLEAN
  <2>1. CASE UNCHANGED <<timeEEPROM, whole>>
    BY <2>1 DEF TypeOK
  <2>2. CASE pc = "time" /\ timeEEPROM' = [timeEEPROM EXCEPT ![Address] = Erased] /\ whole' = FALSE
    <3>1. Erased \in Byte
      BY DEF Erased, Byte
    <3>. QED  BY <2>2, <3>1, ByteTyped
  <2>. QED  BY <2>1, <2>2 DEF PowerCut
<1>2. datetime' = FromBytes(timeEEPROM') /\ datetime' \in Datetimes
  BY <1>1, FromBytesTyped DEF PowerCut, roomInit
<1>3. cuts' \in Nat /\ kept' \in BOOLEAN
  BY DEF PowerCut, TypeOK
<1>4. pc' = "loop" /\ left' = 0 /\ ticks' = 0 /\ age' = 0
  BY DEF PowerCut
<1>. QED  BY <1>1, <1>2, <1>3, <1>4 DEF TypeOK, Written

LEMMA TickTypes ==
  ASSUME TypeOK, Written, Tick
  PROVE  TypeOK' /\ Written'
<1>1. datetime' \in Datetimes
  BY TickTyped DEF Tick, TypeOK
<1>. QED  BY <1>1 DEF Tick, TypeOK, Written

LEMMA SaveTyped ==
  ASSUME TypeOK, Written, SaveTime
  PROVE  TypeOK' /\ Written'
<1>1. left' = 6
  BY SixBytes DEF SaveTime, TypeOK
<1>. QED  BY <1>1 DEF SaveTime, TypeOK, Written

LEMMA SettingsTyped ==
  ASSUME TypeOK, Written
  PROVE  /\ \A d \in DateInputs : DateLine(d) => TypeOK' /\ Written'
         /\ \A t \in TimeInputs : TimeLine(t) => TypeOK' /\ Written'
<1>1. ASSUME NEW d \in DateInputs, DateLine(d) PROVE TypeOK' /\ Written'
  <2>1. datetime' = [datetime EXCEPT !.date = d] /\ d \in Dates
    BY <1>1, InputsAssumption DEF DateLine
  <2>2. datetime' \in Datetimes
    BY <2>1 DEF TypeOK, Datetimes
  <2>. QED  BY <1>1, <2>2 DEF DateLine, TypeOK, Written
<1>2. ASSUME NEW t \in TimeInputs, TimeLine(t) PROVE TypeOK' /\ Written'
  <2>1. datetime' = [datetime EXCEPT !.time = t] /\ t \in Times
    BY <1>2, InputsAssumption DEF TimeLine
  <2>2. datetime' \in Datetimes
    BY <2>1 DEF TypeOK, Datetimes
  <2>. QED  BY <1>2, <2>2 DEF TimeLine, TypeOK, Written
<1>. QED  BY <1>1, <1>2

LEMMA StepTyped == ASSUME TypeOK, Written, [Next]_vars PROVE TypeOK' /\ Written'
<1>1. CASE writeTimeToEE
  BY <1>1 DEF writeTimeToEE, TypeOK, Written
<1>2. CASE UNCHANGED vars
  BY <1>2 DEF vars, TypeOK, Written
<1>. QED  BY <1>1, <1>2, TickTypes, SaveTyped, UpdateTyped, CutTyped, SettingsTyped DEF Next

-----------------------------------------------------------------------------
(* What may be found in the EEPROM: a field of a clock, or an erased byte.  *)

Field(i) == CASE i = 1 -> 0 .. HOURS - 1 \cup {Erased}
              [] i = 5 -> 0 .. 12 \cup {Erased}
              [] i = 6 -> 0 .. 31 \cup {Erased}
              [] OTHER -> Byte

Fits(b) == \A i \in 1 .. 6 : b[i] \in Field(i)

LEMMA FitsFields ==
  ASSUME NEW dt \in Datetimes
  PROVE  Fits(Bytes(dt)) <=> /\ dt.time.hour \in 0 .. HOURS - 1 \cup {Erased}
                             /\ dt.date.month \in 0 .. 12 \cup {Erased}
                             /\ dt.date.day \in 0 .. 31 \cup {Erased}
<1>. DEFINE b == Bytes(dt)
<1>1. b \in Blocks /\ b[1] = dt.time.hour /\ b[5] = dt.date.month /\ b[6] = dt.date.day
  BY BytesTyped
<1>. HIDE DEF b
<1>2. /\ Field(1) = 0 .. HOURS - 1 \cup {Erased} /\ Field(5) = 0 .. 12 \cup {Erased}
      /\ Field(6) = 0 .. 31 \cup {Erased}
      /\ \A i \in {2, 3, 4} : Field(i) = Byte
  BY DEF Field
<1>3. Fits(b) <=> b[1] \in Field(1) /\ b[5] \in Field(5) /\ b[6] \in Field(6)
  <2>1. \A i \in {2, 3, 4} : b[i] \in Byte
    BY <1>1 DEF Blocks
  <2>2. 1 .. 6 = {1, 2, 3, 4, 5, 6}
    OBVIOUS
  <2>. QED  BY <1>2, <2>1, <2>2 DEF Fits
<1>. QED  BY <1>1, <1>2, <1>3 DEF b

\* A date that goes on into the calendar fits.
LEMMA CountableFits ==
  ASSUME NEW dt \in Datetimes, Countable(dt.date), RealTime(dt.time)
  PROVE  Fits(Bytes(dt))
<1>1. dt.date.day \in 0 .. 31 /\ dt.date.month \in 0 .. 12
  BY MonthLength DEF Countable
<1>2. dt.time.hour \in 0 .. HOURS - 1
  BY DayAssumption DEF RealTime, Datetimes, Times, Byte
<1>. QED  BY <1>1, <1>2, FitsFields

-----------------------------------------------------------------------------
(* The first tick of whatever has been loaded.                             *)

\* The days that the first tick finds when the carry from the hours is in.
Carried == 0 .. 41 \cup {Erased}

LEMMA CarryOfHours ==
  ASSUME TheDay, NEW dt \in Datetimes, Fits(Bytes(dt))
  PROVE  LET o == RTCProcessOverflowTime([dt EXCEPT !.time.second = U8(dt.time.second + 1)])
         IN  /\ RealTime(o.time) /\ o.time \in Times
             /\ \E k \in Carried : o.date = Date(dt.date.year, dt.date.month, k)
             /\ o = [date |-> o.date, time |-> o.time]
<1>. DEFINE t == dt.time
            d == dt.date
            e == [dt EXCEPT !.time.second = U8(t.second + 1)]
            second == U8(t.second + 1)
            minute == U8(t.minute + second \div SECONDS)
            hour   == U8(t.hour + minute \div MINUTES)
            o == RTCProcessOverflowTime(e)
<1>1. /\ t.hour \in 0 .. 23 \cup {255} /\ t.minute \in 0 .. 255 /\ t.second \in 0 .. 255
      /\ d.day \in 0 .. 31 \cup {255} /\ d.year \in 0 .. 255 /\ d.month \in 0 .. 255
      /\ d = Date(d.year, d.month, d.day)
  <2>1. t \in Times /\ d \in Dates
    BY DEF Datetimes
  <2>2. /\ t.minute \in 0 .. 255 /\ t.second \in 0 .. 255
        /\ d.year \in 0 .. 255 /\ d.month \in 0 .. 255
    BY <2>1 DEF Times, Dates, Byte
  <2>3. t.hour \in 0 .. 23 \cup {255} /\ d.day \in 0 .. 31 \cup {255}
    BY FitsFields DEF TheDay, Erased
  <2>4. d = Date(d.year, d.month, d.day)
    BY <2>1 DEF Dates, Date
  <2>. QED  BY <2>2, <2>3, <2>4
<1>2. /\ e.date = d /\ e.time.hour = t.hour /\ e.time.minute = t.minute
      /\ e.time.second = second
  BY DEF Datetimes, Times
<1>. HIDE DEF e
<1>3. /\ o.time = Time(hour % HOURS, minute % MINUTES, second % SECONDS)
      /\ o.date = [d EXCEPT !.day = U8(d.day + hour \div HOURS)]
      /\ o = [date |-> o.date, time |-> o.time]
  BY <1>2 DEF RTCProcessOverflowTime
<1>. HIDE DEF o
<1>4. second \in 0 .. 255
  BY <1>1 DEF U8
<1>. HIDE DEF second
<1>5. minute \in 0 .. 255
  <2>1. second \div SECONDS \in 0 .. 4
    BY <1>4 DEF TheDay
  <2>2. t.minute + second \div SECONDS \in 0 .. 259
    BY <1>1, <2>1
  <2>. QED  BY <2>2 DEF U8
<1>. HIDE DEF minute
<1>6. hour \in 0 .. 27 \cup {255} /\ hour \in 0 .. 255
  <2>1. minute \div 60 \in 0 .. 4
    BY <1>5
  <2>. QED  BY <1>1, <2>1 DEF U8, TheDay
<1>. HIDE DEF hour
<1>7. hour \div 24 \in {0, 1, 10}
  BY <1>6
<1>8. U8(d.day + hour \div HOURS) \in Carried
  BY <1>1, <1>7 DEF U8, Carried, Erased, TheDay
<1>9. o.date = Date(d.year, d.month, U8(d.day + hour \div HOURS))
  BY <1>1, <1>3 DEF Date
<1>10. /\ hour % 24 \in 0 .. 23 /\ minute % 60 \in 0 .. 59 /\ second % 60 \in 0 .. 59
  BY <1>4, <1>5, <1>6
<1>11. RealTime(o.time) /\ o.time \in Times
  BY <1>3, <1>10 DEF RealTime, Time, Times, Byte, TheDay
<1>. QED  BY <1>3, <1>8, <1>9, <1>11 DEF o, e

LEMMA SpillStep ==
  ASSUME NEW y \in Byte, NEW m \in Byte, NEW k \in Nat
  PROVE  /\ k > RTCGetDaysInMonth(m, y)
              => Spill(Date(y, m, k)) = Date(y, U8(m + 1), k - RTCGetDaysInMonth(m, y))
         /\ k <= RTCGetDaysInMonth(m, y) => Spill(Date(y, m, k)) = Date(y, m, k)
         /\ RTCGetDaysInMonth(m, y) \in 28 .. 31
         /\ m # 2 => RTCGetDaysInMonth(m, y) \in 30 .. 31
<1>1. RTCGetDaysInMonth(m, y) \in 28 .. 31
  BY MonthLength
<1>2. m # 2 => RTCGetDaysInMonth(m, y) \in 30 .. 31
  BY DEF RTCGetDaysInMonth
<1>. QED  BY <1>1, <1>2 DEF Spill, Date

\* Day 255 is left after eight months: seven of them have at least 30 days.
LEMMA ErasedDay ==
  ASSUME NEW y \in Byte, NEW m \in 0 .. 12 \cup {Erased}
  PROVE  \E k \in 1 .. 28 : SpillAll(Date(y, m, Erased)) = Date(y, U8(m + 8), k)
<1>. DEFINE M(i) == U8(m + i)
            L(i) == RTCGetDaysInMonth(M(i), y)
            k3 == 255 - L(0) - L(1) - L(2)
            k6 == k3 - L(3) - L(4) - L(5)
            k8 == k6 - L(6) - L(7)
<1>1. m \in 0 .. 12 \cup {255}
  BY DEF Erased
<1>2. \A i \in 0 .. 8 : M(i) \in Byte /\ U8(M(i) + 1) = M(i + 1) /\ M(0) = m
  BY <1>1 DEF U8, Byte
<1>3. \A i \in 0 .. 8 : M(i) = 2 <=> m + i = IF m = 255 THEN 258 ELSE 2
  BY <1>1 DEF U8
<1>. HIDE DEF M
<1>4. ASSUME NEW i \in 0 .. 8, NEW k \in Nat
      PROVE  /\ k > L(i) => Spill(Date(y, M(i), k)) = Date(y, M(i + 1), k - L(i))
             /\ k <= L(i) => Spill(Date(y, M(i), k)) = Date(y, M(i), k)
             /\ L(i) \in 28 .. 31
             /\ M(i) # 2 => L(i) \in 30 .. 31
  BY <1>2, SpillStep
<1>5. \A i \in 0 .. 8 : L(i) \in 28 .. 31 /\ (M(i) # 2 => L(i) \in 30 .. 31)
  BY <1>4
<1>. HIDE DEF L
<1>6. /\ L(0) \in 28 .. 31 /\ L(1) \in 28 .. 31 /\ L(2) \in 28 .. 31 /\ L(3) \in 28 .. 31
      /\ L(4) \in 28 .. 31 /\ L(5) \in 28 .. 31 /\ L(6) \in 28 .. 31 /\ L(7) \in 28 .. 31
      /\ L(8) \in 28 .. 31
  BY <1>5
<1>7. Spill3(Date(y, m, 255)) = Date(y, M(3), k3) /\ k3 \in 162 .. 171
  <2>1. Spill(Date(y, M(0), 255)) = Date(y, M(1), 255 - L(0))
    BY <1>4, <1>6
  <2>2. Spill(Date(y, M(1), 255 - L(0))) = Date(y, M(2), 255 - L(0) - L(1))
    <3>1. 255 - L(0) \in Nat /\ 255 - L(0) > L(1)
      BY <1>6
    <3>. QED  BY <1>4, <3>1
  <2>3. Spill(Date(y, M(2), 255 - L(0) - L(1))) = Date(y, M(3), k3)
    <3>1. 255 - L(0) - L(1) \in Nat /\ 255 - L(0) - L(1) > L(2)
      BY <1>6
    <3>. QED  BY <1>4, <3>1
  <2>. QED  BY <1>2, <1>6, <2>1, <2>2, <2>3 DEF Spill3
<1>. HIDE DEF k3
<1>8. Spill3(Date(y, M(3), k3)) = Date(y, M(6), k6) /\ k6 \in 69 .. 87
  <2>1. Spill(Date(y, M(3), k3)) = Date(y, M(4), k3 - L(3))
    BY <1>4, <1>6, <1>7
  <2>2. Spill(Date(y, M(4), k3 - L(3))) = Date(y, M(5), k3 - L(3) - L(4))
    <3>1. k3 - L(3) \in Nat /\ k3 - L(3) > L(4)
      BY <1>6, <1>7
    <3>. QED  BY <1>4, <3>1
  <2>3. Spill(Date(y, M(5), k3 - L(3) - L(4))) = Date(y, M(6), k6)
    <3>1. k3 - L(3) - L(4) \in Nat /\ k3 - L(3) - L(4) > L(5)
      BY <1>6, <1>7
    <3>. QED  BY <1>4, <3>1
  <2>. QED  BY <1>6, <1>7, <2>1, <2>2, <2>3 DEF Spill3
<1>9. k8 \in 7 .. 17
  <2>1. \A i \in 0 .. 7, j \in 0 .. 7 : M(i) = 2 /\ M(j) = 2 => i = j
    BY <1>1, <1>3
  <2>2. k8 = 255 - L(0) - L(1) - L(2) - L(3) - L(4) - L(5) - L(6) - L(7)
    BY <1>6 DEF k3
  <2>. HIDE DEF k8
  <2>3. \E j \in 0 .. 7 : \A i \in 0 .. 7 : i # j => L(i) \in 30 .. 31
    <3>1. CASE \E j \in 0 .. 7 : M(j) = 2
      BY <1>5, <2>1, <3>1
    <3>2. CASE ~\E j \in 0 .. 7 : M(j) = 2
      BY <1>5, <3>2
    <3>. QED  BY <3>1, <3>2
  <2>4. PICK j \in 0 .. 7 : \A i \in 0 .. 7 : i # j => L(i) \in 30 .. 31
    BY <2>3
  <2>5. /\ j # 0 => L(0) \in 30 .. 31
        /\ j # 1 => L(1) \in 30 .. 31
        /\ j # 2 => L(2) \in 30 .. 31
        /\ j # 3 => L(3) \in 30 .. 31
        /\ j # 4 => L(4) \in 30 .. 31
        /\ j # 5 => L(5) \in 30 .. 31
        /\ j # 6 => L(6) \in 30 .. 31
        /\ j # 7 => L(7) \in 30 .. 31
    BY <2>4
  <2>. QED  BY <1>6, <2>2, <2>5
<1>10. Spill3(Date(y, M(6), k6)) = Date(y, M(8), k8)
  <2>1. Spill(Date(y, M(6), k6)) = Date(y, M(7), k6 - L(6))
    BY <1>4, <1>6, <1>8
  <2>2. Spill(Date(y, M(7), k6 - L(6))) = Date(y, M(8), k8)
    <3>1. k6 - L(6) \in Nat /\ k6 - L(6) > L(7)
      BY <1>6, <1>8
    <3>. QED  BY <1>4, <3>1
  <2>3. Spill(Date(y, M(8), k8)) = Date(y, M(8), k8)
    BY <1>4, <1>6, <1>9
  <2>. QED  BY <2>1, <2>2, <2>3 DEF Spill3
<1>11. SpillAll(Date(y, m, 255)) = Date(y, M(8), k8)
  BY <1>7, <1>8, <1>10 DEF SpillAll
<1>. QED  BY <1>9, <1>11 DEF M, Erased

\* What is left is a day of a month, counted from before January at most.
LEMMA MonthsSettle ==
  ASSUME NEW y \in Byte, NEW m \in Byte, NEW k \in 0 .. 31,
         m <= 12 => k <= RTCGetDaysInMonth(m, y),
         m > 12 => k <= 28 \/ (m = 255 /\ k <= 30) \/ (m = 13 /\ k <= 31)
  PROVE  Countable(NormalMonth(Date(y, m, k)))
<1>1. CASE m <= 12
  BY <1>1 DEF NormalMonth, Countable, Date, Byte
<1>2. CASE m > 12
  <2>. DEFINE n == ((m - 1) % 12) + 1
              x == U8(y + (m - 1) \div 12)
  <2>1. n \in 1 .. 12 /\ (m = 255 => n = 3) /\ (m = 13 => n = 1)
    BY <1>2 DEF Byte
  <2>2. NormalMonth(Date(y, m, k)) = Date(x, n, k)
    BY <1>2 DEF NormalMonth, Date
  <2>. HIDE DEF n, x
  <2>3. RTCGetDaysInMonth(n, x) \in 28 .. 31
    BY MonthLength
  <2>4. n \in {1, 3} => RTCGetDaysInMonth(n, x) = 31
    BY DEF RTCGetDaysInMonth
  <2>5. k <= RTCGetDaysInMonth(n, x)
    BY <1>2, <2>1, <2>3, <2>4
  <2>. QED  BY <2>1, <2>2, <2>5 DEF Countable, Date
<1>. QED  BY <1>1, <1>2 DEF Byte

LEMMA DateSettles ==
  ASSUME NEW y \in Byte, NEW m \in 0 .. 12 \cup {Erased}, NEW k \in Carried
  PROVE  Countable(RTCProcessOverflowDate(Date(y, m, k)))
<1>. DEFINE n == RTCGetDaysInMonth(m, y)
<1>1. m \in Byte /\ m \in 0 .. 12 \cup {255} /\ k \in 0 .. 41 \cup {255}
  BY DEF Erased, Byte, Carried
<1>2. n \in 28 .. 31 /\ (m = 255 => n = 30)
  <2>1. m = 255 => n = 30
    BY DEF RTCGetDaysInMonth
  <2>. QED  BY <2>1, MonthLength
<1>3. CASE k = Erased
  <2>1. PICK j \in 1 .. 28 : SpillAll(Date(y, m, Erased)) = Date(y, U8(m + 8), j)
    BY ErasedDay
  <2>2. U8(m + 8) \in Byte
    BY <1>1 DEF U8, Byte
  <2>3. RTCGetDaysInMonth(U8(m + 8), y) \in 28 .. 31
    BY MonthLength
  <2>4. Countable(NormalMonth(Date(y, U8(m + 8), j)))
    BY <2>2, <2>3, MonthsSettle
  <2>. QED  BY <1>3, <2>1, <2>4 DEF RTCProcessOverflowDate
<1>4. CASE k # Erased /\ k <= n
  <2>1. Date(y, m, k) \in Dates
    BY <1>1 DEF Date, Dates, Byte
  <2>2. SpillAll(Date(y, m, k)) = Date(y, m, k)
    BY <1>1, <1>4, <2>1, SpillStops DEF Date
  <2>3. k \in 0 .. 31
    BY <1>1, <1>2, <1>4
  <2>4. Countable(NormalMonth(Date(y, m, k)))
    BY <1>1, <1>2, <1>4, <2>3, MonthsSettle
  <2>. QED  BY <2>2, <2>4 DEF RTCProcessOverflowDate
<1>5. CASE k # Erased /\ k > n
  <2>. DEFINE j == k - n
              M == U8(m + 1)
  <2>1. k \in 0 .. 41 /\ j \in 1 .. 13
    BY <1>1, <1>2, <1>5 DEF Erased
  <2>2. Spill(Date(y, m, k)) = Date(y, M, j)
    BY <1>1, <1>5, <2>1, SpillStep
  <2>3. M \in Byte /\ RTCGetDaysInMonth(M, y) \in 28 .. 31
    BY <1>1, MonthLength DEF U8, Byte
  <2>. HIDE DEF j, M
  <2>4. Spill(Date(y, M, j)) = Date(y, M, j)
    BY <2>1, <2>3, SpillStep
  <2>5. SpillAll(Date(y, m, k)) = Date(y, M, j)
    BY <2>2, <2>4 DEF SpillAll, Spill3
  <2>6. Countable(NormalMonth(Date(y, M, j)))
    BY <2>1, <2>3, MonthsSettle
  <2>. QED  BY <2>5, <2>6 DEF RTCProcessOverflowDate
<1>. QED  BY <1>1, <1>2, <1>3, <1>4, <1>5 DEF Erased

LEMMA TickSettles ==
  ASSUME TheDay, NEW dt \in Datetimes, Fits(Bytes(dt))
  PROVE  LET n == RTCProcessTime(dt)
         IN  RealTime(n.time) /\ Countable(n.date)
<1>. DEFINE o == RTCProcessOverflowTime([dt EXCEPT !.time.second = U8(dt.time.second + 1)])
<1>1. PICK k \in Carried : o.date = Date(dt.date.year, dt.date.month, k)
  BY CarryOfHours
<1>2. RealTime(o.time) /\ o = [date |-> o.date, time |-> o.time]
  BY CarryOfHours
<1>. HIDE DEF o
<1>3. RTCProcessTime(dt) = [o EXCEPT !.date = RTCProcessOverflowDate(o.date)]
  BY DEF RTCProcessTime, RTCProcessOverflowDatetime, o
<1>4. dt.date.year \in Byte /\ dt.date.month \in 0 .. 12 \cup {Erased}
  BY FitsFields DEF Datetimes, Dates
<1>5. Countable(RTCProcessOverflowDate(o.date))
  BY <1>1, <1>4, DateSettles
<1>6. /\ RTCProcessTime(dt).time = o.time
      /\ RTCProcessTime(dt).date = RTCProcessOverflowDate(o.date)
  BY <1>2, <1>3
<1>. QED  BY <1>2, <1>5, <1>6

-----------------------------------------------------------------------------
(* The first theorem.                                                      *)

Loadable == Fits(Bytes(datetime)) /\ Fits(timeEEPROM)

Sound == TypeOK /\ Written /\ Loadable /\ LoadedClockRuns

LEMMA InitSound == Init => Sound
<1>. SUFFICES ASSUME Init PROVE Sound
  OBVIOUS
<1>1. TypeOK /\ Written
  BY InitTyped
<1>2. Fits(Bytes(datetime))
  <2>1. datetime \in Datetimes /\ Real(datetime)
    BY StartsAssumption DEF Init
  <2>2. datetime.date.day \in 0 .. 31 /\ datetime.date.month \in 0 .. 12
    <3>1. DaysOf(datetime.date.month, datetime.date.year) \in 28 .. 31
      BY <2>1 DEF Real, RealDate, DaysOf
    <3>. QED  BY <2>1, <3>1 DEF Real, RealDate
  <2>3. datetime.time.hour \in 0 .. HOURS - 1
    BY <2>1, DayAssumption DEF Real, RealTime, Datetimes, Times, Byte
  <2>. QED  BY <2>1, <2>2, <2>3, FitsFields
<1>3. Fits(Blank)
  BY DEF Fits, Field, Blank, Erased, Byte
<1>. QED  BY <1>1, <1>2, <1>3 DEF Init, Sound, Loadable, LoadedClockRuns

LEMMA StepSound ==
  ASSUME TheDay, Sound, [Next]_vars
  PROVE  Sound'
<1>. USE DEF Sound, Loadable
<1>1. TypeOK' /\ Written'
  BY StepTyped
<1>2. CASE Tick
  <2>1. datetime' = RTCProcessTime(datetime) /\ timeEEPROM' = timeEEPROM
    BY <1>2 DEF Tick
  <2>2. RealTime(datetime'.time) /\ Countable(datetime'.date)
    BY <2>1, TickSettles DEF TypeOK
  <2>3. Fits(Bytes(datetime'))
    BY <1>1, <2>2, CountableFits DEF TypeOK
  <2>. QED  BY <1>1, <2>1, <2>2, <2>3 DEF LoadedClockRuns
<1>3. CASE UpdateByte
  <2>1. Fits(timeEEPROM')
    BY <1>3, UpdateTyped DEF Fits
  <2>2. UNCHANGED <<datetime, ticks>>
    BY <1>3 DEF UpdateByte
  <2>. QED  BY <1>1, <2>1, <2>2 DEF LoadedClockRuns
<1>4. CASE PowerCut
  <2>1. Fits(timeEEPROM')
    <3>1. CASE UNCHANGED timeEEPROM
      BY <3>1
    <3>2. CASE pc = "time" /\ timeEEPROM' = [timeEEPROM EXCEPT ![Address] = Erased]
      <4>1. Erased \in Byte /\ \A i \in 1 .. 6 : Erased \in Field(i)
        BY DEF Erased, Byte, Field
      <4>2. \A i \in 1 .. 6 : timeEEPROM'[i] = IF i = left THEN Erased ELSE timeEEPROM[i]
        BY <3>2, <4>1, ByteTyped
      <4>. QED  BY <4>1, <4>2 DEF Fits
    <3>. QED  BY <1>4, <3>1, <3>2 DEF PowerCut
  <2>2. datetime' = FromBytes(timeEEPROM') /\ ticks' = 0 /\ timeEEPROM' \in Blocks
    BY <1>1, <1>4, CutTyped DEF PowerCut, TypeOK
  <2>3. Fits(Bytes(datetime'))
    BY <2>1, <2>2, FromBytesTyped DEF Fits
  <2>. QED  BY <1>1, <2>1, <2>2, <2>3 DEF LoadedClockRuns
<1>5. ASSUME NEW d \in DateInputs, DateLine(d) PROVE Sound'
  <2>1. /\ datetime'.date = d /\ datetime'.time = datetime.time /\ Accepted(d)
        /\ UNCHANGED <<timeEEPROM, ticks>>
    BY <1>5 DEF DateLine, TypeOK, Datetimes
  <2>2. Countable(d)
    BY <2>1, MonthLength DEF Accepted, Countable
  <2>3. d.month \in 0 .. 12 /\ d.day \in 0 .. 31
    BY <2>2, MonthLength DEF Countable
  <2>4. Fits(Bytes(datetime'))
    BY <1>1, <2>1, <2>3, FitsFields DEF TypeOK
  <2>. QED  BY <1>1, <2>1, <2>2, <2>4 DEF LoadedClockRuns
<1>6. ASSUME NEW t \in TimeInputs, TimeLine(t) PROVE Sound'
  <2>1. /\ datetime'.time = t /\ datetime'.date = datetime.date /\ RTCIsValidtime(t)
        /\ UNCHANGED <<timeEEPROM, ticks>> /\ t \in Times
    BY <1>6, InputsAssumption DEF TimeLine, TypeOK, Datetimes
  <2>2. RealTime(t) /\ t.hour \in 0 .. HOURS - 1
    BY <2>1, DayAssumption DEF RTCIsValidtime, RealTime, Times, Byte
  <2>3. Fits(Bytes(datetime'))
    BY <1>1, <2>1, <2>2, FitsFields DEF TypeOK
  <2>. QED  BY <1>1, <2>1, <2>2, <2>3 DEF LoadedClockRuns
<1>7. CASE writeTimeToEE \/ SaveTime \/ UNCHANGED vars
  <2>1. UNCHANGED <<datetime, timeEEPROM, ticks>>
    BY <1>7 DEF writeTimeToEE, SaveTime, vars
  <2>. QED  BY <1>1, <2>1 DEF LoadedClockRuns
<1>. QED  BY <1>2, <1>3, <1>4, <1>5, <1>6, <1>7 DEF Next

\* Whatever saves, cuts and an empty EEPROM leave there, from its first second on
\* the clock that is loaded shows a time that exists and a date that goes on
\* into the calendar (menu.c:81, rtcDriver.c:223-263).
THEOREM LoadedClockAlwaysRuns ==
  ASSUME TheDay
  PROVE  Spec => []LoadedClockRuns
<1>1. Sound /\ [Next]_vars => Sound'
  BY StepSound
<1>2. Sound => LoadedClockRuns
  BY DEF Sound
<1>. QED  BY InitSound, <1>1, <1>2, PTL DEF Spec

-----------------------------------------------------------------------------
(* A torn copy: the last bytes are those of the day after.                 *)

LEMMA TornDate ==
  ASSUME NEW d \in Dates, RealDate(d), d.year <= 99,
         NEW n, LET e == DayAfter(d)
                IN  n = Date(d.year, d.month, e.day) \/ n = Date(d.year, e.month, e.day)
  PROVE  /\ n \in Dates /\ RealDate(n) /\ DayNumber(n) \in Int
         /\ DayNumber(DayAfter(d)) - DayNumber(n) \in 0 .. 366
<1>. DEFINE e == DayAfter(d)
            y == d.year
            m == d.month
<1>1. /\ m \in 1 .. 12 /\ y \in 0 .. 99 /\ d.day \in 1 .. DaysOf(m, y)
      /\ DaysOf(m, y) \in 28 .. 31
  BY RealMonth DEF RealDate, Dates, Byte
<1>2. /\ DaysBeforeYear(y) \in Int /\ DaysBeforeMonth(m, y) \in Int
      /\ DaysBeforeMonth(12, y) \in Int /\ DaysBeforeMonth(1, y) = 0
  <2>1. DaysBeforeMonth(1, y) = 0
    BY DEF DaysBeforeMonth
  <2>2. DaysBeforeYear(y) \in Int
    BY <1>1, MonthsAddUp
  <2>3. DaysBeforeMonth(m, y) \in Int /\ DaysBeforeMonth(12, y) \in Int
    BY <1>1, MonthsAddUp
  <2>. QED  BY <2>1, <2>2, <2>3
<1>3. /\ RealDate(e) /\ e \in Dates /\ DayNumber(e) = DayNumber(d) + 1 /\ DayNumber(d) \in Int
  BY DayAfterIsNext
<1>4. DayNumber(d) = DaysBeforeYear(y) + DaysBeforeMonth(m, y) + d.day - 1
  BY DEF DayNumber
<1>5. CASE d.day < DaysOf(m, y)
  <2>1. e = Date(y, m, d.day + 1)
    BY <1>5 DEF DayAfter
  <2>2. n = e
    BY <2>1 DEF Date
  <2>. QED  BY <1>3, <2>2
<1>6. CASE d.day = DaysOf(m, y) /\ m < 12
  <2>1. e = Date(y, m + 1, 1)
    BY <1>1, <1>6 DEF DayAfter
  <2>2. n = Date(y, m, 1) \/ n = e
    BY <2>1 DEF Date
  <2>3. CASE n = Date(y, m, 1)
    <3>1. n \in Dates /\ RealDate(n)
      BY <1>1, <2>3 DEF Date, Dates, Byte, RealDate
    <3>2. DayNumber(n) = DaysBeforeYear(y) + DaysBeforeMonth(m, y) + 1 - 1
      BY <2>3 DEF DayNumber, Date
    <3>3. DayNumber(e) = DaysBeforeYear(y) + DaysBeforeMonth(m, y) + d.day
      BY <1>1, <1>2, <1>3, <1>4
    <3>4. DayNumber(n) \in Int /\ DayNumber(e) - DayNumber(n) = d.day
      BY <1>1, <1>2, <3>2, <3>3
    <3>5. d.day \in 0 .. 366
      BY <1>1, <1>6
    <3>. QED  BY <3>1, <3>4, <3>5
  <2>4. CASE n = e
    BY <1>3, <2>4
  <2>. QED  BY <2>2, <2>3, <2>4
<1>7. CASE d.day = DaysOf(m, y) /\ m = 12
  <2>1. e = Date(y + 1, 1, 1)
    BY <1>1, <1>7 DEF DayAfter
  <2>2. n = Date(y, 12, 1) \/ n = Date(y, 1, 1)
    BY <1>7, <2>1 DEF Date
  <2>3. DaysOf(12, y) = 31 /\ DaysOf(1, y) = 31
    BY DEF DaysOf
  <2>4. n \in Dates /\ RealDate(n)
    BY <1>1, <2>2, <2>3 DEF Date, Dates, Byte, RealDate
  <2>5. \/ DayNumber(n) = DaysBeforeYear(y) + DaysBeforeMonth(12, y) + 1 - 1
        \/ DayNumber(n) = DaysBeforeYear(y) + 0 + 1 - 1
    BY <1>2, <2>2 DEF DayNumber, Date
  <2>6. DaysBeforeMonth(12, y) \in {334, 335}
    BY DEF DaysBeforeMonth
  <2>7. DayNumber(e) = DaysBeforeYear(y) + DaysBeforeMonth(12, y) + 31
    BY <1>2, <1>3, <1>4, <1>7, <2>3
  <2>8. DayNumber(n) \in Int /\ DayNumber(e) - DayNumber(n) \in {31, 365, 366}
    BY <1>2, <2>5, <2>6, <2>7
  <2>. QED  BY <2>4, <2>8
<1>. QED  BY <1>1, <1>5, <1>6, <1>7

-----------------------------------------------------------------------------
(* The copy and the clock that goes on from it.                            *)

\* The clock is that of c, age seconds later: on the same day, or on the next.
Near(c) ==
  /\ Real(datetime)
  /\ \/ /\ datetime.date = c.date
        /\ SecondOfDay(datetime.time) - SecondOfDay(c.time) = age
     \/ /\ datetime.date = DayAfter(c.date)
        /\ SecondOfDay(datetime.time) - SecondOfDay(c.time) + DayLength = age

\* What has not been written over yet is the copy of c.
Held(c) == \A i \in 1 .. 6 : (pc = "time" /\ i > left) \/ timeEEPROM[i] = Bytes(c)[i]

Copied(c) == Keeps(c) /\ Held(c) /\ (age <= DayLength => Near(c))

Followed == kept => \E c \in Datetimes : Copied(c)

LEMMA InitFollowed == Init => Followed
<1>. SUFFICES ASSUME Init, kept PROVE \E c \in Datetimes : Copied(c)
  BY DEF Followed
<1>1. datetime \in Datetimes /\ Real(datetime)
  BY StartsAssumption DEF Init
<1>2. Keeps(datetime) /\ timeEEPROM = Bytes(datetime) /\ age = 0
  BY DEF Init
<1>3. SecondOfDay(datetime.time) \in 0 .. DayLength - 1
  BY <1>1, SecondsOfADay DEF Datetimes, Real
<1>4. Near(datetime) /\ Held(datetime)
  BY <1>1, <1>2, <1>3 DEF Near, Held
<1>. QED  BY <1>1, <1>2, <1>4 DEF Copied

\* A second later it is the same copy.
LEMMA TickFollowed ==
  ASSUME TypeOK, Tick, NEW c \in Datetimes, Copied(c)
  PROVE  Copied(c)'
<1>. DEFINE t == datetime.time
<1>1. Keeps(c) /\ Held(c)'
  BY DEF Copied, Held, Tick
<1>2. age' = age + 1 /\ age \in Nat /\ datetime' = RTCProcessTime(datetime)
  BY DEF Tick, TypeOK
<1>3. ASSUME age' <= DayLength PROVE Near(c)'
  <2>1. DayLength \in Nat /\ SecondOfDay(c.time) \in 0 .. DayLength - 1
    BY SecondsOfADay DEF Copied, Keeps, Real, Datetimes
  <2>2. age <= DayLength /\ Near(c)
    BY <1>2, <1>3, <2>1 DEF Copied
  <2>3. /\ datetime \in Datetimes /\ Real(datetime)
        /\ t \in Times /\ RealTime(t)
    BY <2>2 DEF Near, Real, Datetimes, TypeOK
  <2>4. SecondOfDay(t) \in 0 .. DayLength - 1
    BY <2>3, SecondsOfADay
  <2>5. /\ RealTime(SecondAfter(t))
        /\ SecondOfDay(SecondAfter(t)) =
             IF LastSecond(t) THEN SecondOfDay(t) + 1 - DayLength ELSE SecondOfDay(t) + 1
    BY <2>3, SecondsAddUp
  <2>6. CASE ~LastSecond(t)
    <3>1. datetime'.date = datetime.date /\ datetime'.time = SecondAfter(t)
      BY <1>2, <2>3, <2>6, TickInDay
    <3>2. Real(datetime')
      BY <2>3, <2>5, <3>1 DEF Real
    <3>3. SecondOfDay(datetime'.time) = SecondOfDay(t) + 1
      BY <2>5, <2>6, <3>1
    <3>. QED  BY <1>2, <2>1, <2>2, <2>4, <3>1, <3>2, <3>3 DEF Near
  <2>7. CASE LastSecond(t)
    <3>1. SecondOfDay(t) = DayLength - 1
      BY <2>3, <2>7, LastIsLast
    <3>2. /\ datetime.date = c.date
          /\ SecondOfDay(t) - SecondOfDay(c.time) = age
      BY <1>2, <1>3, <2>1, <2>2, <3>1 DEF Near
    <3>3. datetime.date.year <= 99
      BY <3>2 DEF Copied, Keeps
    <3>4. datetime'.date = DayAfter(c.date) /\ datetime'.time = SecondAfter(t)
      BY <1>2, <2>3, <2>7, <3>2, <3>3, TickIsSecondAfter
    <3>5. Real(datetime')
      BY <1>2, <2>3, <3>3, TickIsOneSecond
    <3>6. SecondOfDay(datetime'.time) = SecondOfDay(t) + 1 - DayLength
      BY <2>5, <2>7, <3>4
    <3>. QED  BY <1>2, <2>1, <2>4, <3>2, <3>4, <3>5, <3>6 DEF Near
  <2>. QED  BY <2>6, <2>7
<1>. QED  BY <1>1, <1>3 DEF Copied

LEMMA UpdateFollowed ==
  ASSUME TypeOK, Written, Followed, UpdateByte
  PROVE  Followed'
<1>1. datetime \in Datetimes /\ left \in 1 .. 6 /\ pc = "time" /\ datetime' = datetime
  BY DEF TypeOK, Written, UpdateByte
<1>2. \A i \in 1 .. 6 : timeEEPROM'[i] = IF i = left THEN Bytes(datetime)[i] ELSE timeEEPROM[i]
  BY UpdateTyped
<1>3. CASE left = 1
  <2>. SUFFICES ASSUME kept' PROVE Copied(datetime)'
    BY <1>1 DEF Followed
  <2>1. Keeps(datetime) /\ Real(datetime) /\ age' = 0 /\ pc' = "loop"
    BY <1>3 DEF UpdateByte, Keeps
  <2>2. \A i \in 1 .. 6 : timeEEPROM'[i] = Bytes(datetime)[i]
    BY <1>1, <1>2, <1>3 DEF Written
  <2>3. SecondOfDay(datetime.time) \in 0 .. DayLength - 1
    BY <1>1, <2>1, SecondsOfADay DEF Datetimes, Real
  <2>4. Near(datetime)' /\ Held(datetime)'
    BY <1>1, <2>1, <2>2, <2>3 DEF Near, Held
  <2>. QED  BY <1>1, <2>1, <2>4 DEF Copied
<1>4. CASE left # 1
  <2>. SUFFICES ASSUME kept' PROVE \E c \in Datetimes : Copied(c)'
    BY DEF Followed
  <2>1. UNCHANGED <<pc, kept, age, datetime>> /\ left' = left - 1
    BY <1>4 DEF UpdateByte
  <2>2. PICK c \in Datetimes : Copied(c)
    BY <2>1 DEF Followed
  <2>3. Held(c)'
    BY <1>1, <1>2, <2>1, <2>2 DEF Held, Copied
  <2>4. Near(c) => Near(c)'
    BY <2>1 DEF Near
  <2>. QED  BY <2>1, <2>2, <2>3, <2>4 DEF Copied
<1>. QED  BY <1>3, <1>4

\* Outside of a save the copy is what is loaded.
LEMMA CutFollowed ==
  ASSUME TypeOK, Followed, PowerCut
  PROVE  Followed'
<1>. SUFFICES ASSUME kept' PROVE \E c \in Datetimes : Copied(c)'
  BY DEF Followed
<1>1. kept /\ pc # "time" /\ timeEEPROM' = timeEEPROM /\ age' = 0 /\ pc' = "loop"
  BY DEF PowerCut
<1>2. PICK c \in Datetimes : Copied(c)
  BY <1>1 DEF Followed
<1>3. \A i \in 1 .. 6 : timeEEPROM'[i] = Bytes(c)[i]
  BY <1>1, <1>2 DEF Copied, Held
<1>4. datetime' = c
  <2>1. datetime' = FromBytes(Bytes(c))
    BY <1>3 DEF PowerCut, roomInit, FromBytes
  <2>. QED  BY <2>1, BytesTyped
<1>5. Keeps(c) /\ Real(c)
  BY <1>2 DEF Copied, Keeps
<1>6. SecondOfDay(c.time) \in 0 .. DayLength - 1
  BY <1>5, SecondsOfADay DEF Datetimes, Real
<1>7. Near(c)' /\ Held(c)'
  BY <1>1, <1>3, <1>4, <1>5, <1>6 DEF Near, Held
<1>. QED  BY <1>5, <1>7 DEF Copied

LEMMA StepFollowed ==
  ASSUME TypeOK, Written, Followed, [Next]_vars
  PROVE  Followed'
<1>1. CASE Tick
  <2>1. kept' = kept
    BY <1>1 DEF Tick
  <2>. QED  BY <1>1, <2>1, TickFollowed DEF Followed
<1>2. CASE writeTimeToEE \/ SaveTime \/ UNCHANGED vars
  <2>. SUFFICES ASSUME kept' PROVE \E c \in Datetimes : Copied(c)'
    BY DEF Followed
  <2>1. UNCHANGED <<datetime, timeEEPROM, kept, age>>
    BY <1>2 DEF writeTimeToEE, SaveTime, vars
  <2>2. PICK c \in Datetimes : Copied(c)
    BY <2>1 DEF Followed
  <2>3. Held(c)'
    BY <1>2, <2>1, <2>2 DEF Held, Copied, writeTimeToEE, SaveTime, vars
  <2>4. Near(c) => Near(c)'
    BY <2>1 DEF Near
  <2>. QED  BY <2>1, <2>2, <2>3, <2>4 DEF Copied
<1>3. CASE (\E d \in DateInputs : DateLine(d)) \/ (\E t \in TimeInputs : TimeLine(t))
  BY <1>3 DEF DateLine, TimeLine, Followed
<1>. QED  BY <1>1, <1>2, <1>3, UpdateFollowed, CutFollowed DEF Next

-----------------------------------------------------------------------------
(* The second theorem.                                                     *)

\* On the day of the copy only the time of day is torn, a real one.
LEMMA TornTime ==
  ASSUME NEW t \in Times, RealTime(t), NEW s \in Times, RealTime(s), NEW n \in Times,
         n.hour \in {t.hour, s.hour}, n.minute \in {t.minute, s.minute},
         n.second \in {t.second, s.second}
  PROVE  RealTime(n)
BY DEF RealTime

LEMMA NearIsNear ==
  ASSUME NEW x \in Datetimes, NEW n \in Datetimes, Real(x), Real(n),
         NEW k \in 0 .. 366, DayNumber(x.date) - DayNumber(n.date) = k,
         DayNumber(x.date) \in Int, DayNumber(n.date) \in Int,
         k > 0 => SecondOfDay(x.time) <= SecondOfDay(n.time)
  PROVE  Elapsed(x, n) < DayLength /\ Elapsed(n, x) <= 366 * DayLength
<1>1. /\ SecondOfDay(x.time) \in 0 .. DayLength - 1 /\ SecondOfDay(n.time) \in 0 .. DayLength - 1
      /\ DayLength \in Nat
  BY SecondsOfADay DEF Real, Datetimes
<1>2. k * DayLength \in Nat /\ k * DayLength <= 366 * DayLength
      /\ (-k) * DayLength = -(k * DayLength) /\ (k > 0 => k * DayLength >= DayLength)
  BY <1>1
<1>3. /\ Elapsed(x, n) = -(k * DayLength) + SecondOfDay(n.time) - SecondOfDay(x.time)
      /\ Elapsed(n, x) = k * DayLength + SecondOfDay(x.time) - SecondOfDay(n.time)
  <2>1. DayNumber(n.date) - DayNumber(x.date) = -k
    OBVIOUS
  <2>. QED  BY <1>2, <2>1 DEF Elapsed
<1>. QED  BY <1>1, <1>2, <1>3

\* The bytes are written from the last, so that the parts of the date are torn
\* in the order of their size.
LEMMA CutIsNear ==
  ASSUME TypeOK, Written, Followed, PowerCut, kept, whole', age <= DayLength
  PROVE  /\ Real(datetime) /\ Real(datetime')
         /\ Elapsed(datetime, datetime') < DayLength
         /\ Elapsed(datetime', datetime) <= 366 * DayLength
<1>. DEFINE x == datetime
            n == datetime'
            new(i) == pc = "time" /\ i > left
<1>1. x \in Datetimes /\ n \in Datetimes /\ n = FromBytes(timeEEPROM') /\ timeEEPROM' = timeEEPROM
  BY CutTyped DEF TypeOK, PowerCut
<1>2. PICK c \in Datetimes : Keeps(c) /\ Held(c) /\ Near(c)
  BY DEF Followed, Copied
<1>3. Real(x) /\ Real(c) /\ c.date \in Dates /\ RealDate(c.date) /\ c.date.year <= 99
  BY <1>2 DEF Near, Keeps, Real, Datetimes
<1>4. \A i \in 1 .. 6 : Bytes(n)[i] = IF new(i) THEN Bytes(x)[i] ELSE Bytes(c)[i]
  BY <1>1, <1>2, FromBytesTyped DEF Held, Written, TypeOK
<1>5. /\ n.time.hour = IF new(1) THEN x.time.hour ELSE c.time.hour
      /\ n.time.minute = IF new(2) THEN x.time.minute ELSE c.time.minute
      /\ n.time.second = IF new(3) THEN x.time.second ELSE c.time.second
      /\ n.date.year = IF new(4) THEN x.date.year ELSE c.date.year
      /\ n.date.month = IF new(5) THEN x.date.month ELSE c.date.month
      /\ n.date.day = IF new(6) THEN x.date.day ELSE c.date.day
  BY <1>1, <1>4, BytesTyped
<1>6. /\ x.time \in Times /\ RealTime(x.time) /\ c.time \in Times /\ RealTime(c.time)
      /\ n.time \in Times /\ n.date \in Dates /\ x.date \in Dates
  BY <1>1, <1>3 DEF Datetimes, Real
<1>7. RealTime(n.time)
  BY <1>5, <1>6, TornTime
<1>8. \A d \in Dates, e \in Dates :
        d.year = e.year /\ d.month = e.month /\ d.day = e.day => d = e
  BY DEF Dates
<1>9. \A t \in Times, s \in Times :
        t.hour = s.hour /\ t.minute = s.minute /\ t.second = s.second => t = s
  BY DEF Times
<1>10. /\ RealDate(DayAfter(c.date)) /\ DayNumber(c.date) \in Int
       /\ DayNumber(DayAfter(c.date)) = DayNumber(c.date) + 1
  BY <1>3, DayAfterIsNext
<1>11. SecondOfDay(x.time) \in 0 .. DayLength - 1 /\ SecondOfDay(c.time) \in 0 .. DayLength - 1
       /\ DayLength \in Nat
  BY <1>6, SecondsOfADay
<1>12. SUFFICES /\ RealDate(n.date) /\ DayNumber(n.date) \in Int /\ DayNumber(x.date) \in Int
                /\ DayNumber(x.date) - DayNumber(n.date) \in 0 .. 366
                /\ \/ DayNumber(x.date) = DayNumber(n.date)
                   \/ SecondOfDay(x.time) <= SecondOfDay(n.time)
  <2>. DEFINE k == DayNumber(x.date) - DayNumber(n.date)
  <2>1. k \in 0 .. 366 /\ (k > 0 => SecondOfDay(x.time) <= SecondOfDay(n.time))
    BY <1>12
  <2>2. Real(n)
    BY <1>7, <1>12 DEF Real
  <2>3. Elapsed(x, n) < DayLength /\ Elapsed(n, x) <= 366 * DayLength
    <3>. HIDE DEF n, x, k
    <3>1. x \in Datetimes /\ n \in Datetimes /\ Real(x)
      BY <1>1, <1>3
    <3>2. DayNumber(x.date) - DayNumber(n.date) = k
      BY DEF k
    <3>. QED  BY <1>12, <2>1, <2>2, <3>1, <3>2, NearIsNear
  <2>. QED  BY <1>3, <2>2, <2>3
<1>. HIDE DEF n
<1>13. CASE x.date = c.date
  <2>1. n.date = c.date
    BY <1>3, <1>5, <1>6, <1>8, <1>13
  <2>. QED  BY <1>3, <1>10, <1>13, <2>1
<1>14. CASE x.date # c.date
  <2>1. /\ x.date = DayAfter(c.date)
        /\ SecondOfDay(x.time) - SecondOfDay(c.time) + DayLength = age
    BY <1>2, <1>14 DEF Near
  <2>2. SecondOfDay(x.time) <= SecondOfDay(c.time)
    BY <1>11, <2>1 DEF TypeOK
  <2>3. CASE new(4)
    <3>1. new(5) /\ new(6)
      BY <2>3 DEF TypeOK
    <3>2. n.date = x.date
      BY <1>5, <1>6, <1>8, <2>3, <3>1
    <3>. QED  BY <1>10, <2>1, <3>2
  <2>4. CASE ~new(4)
    <3>1. ~new(1) /\ ~new(2) /\ ~new(3)
      BY <2>4 DEF TypeOK
    <3>2. n.time = c.time
      BY <1>5, <1>6, <1>9, <3>1
    <3>3. CASE ~new(6)
      <4>1. ~new(5)
        BY <3>3 DEF TypeOK
      <4>2. n.date = c.date
        BY <1>3, <1>5, <1>6, <1>8, <2>4, <3>3, <4>1
      <4>. QED  BY <1>3, <1>10, <2>1, <2>2, <3>2, <4>2
    <3>4. CASE new(6)
      <4>1. \/ n.date = Date(c.date.year, c.date.month, x.date.day)
            \/ n.date = Date(c.date.year, x.date.month, x.date.day)
        <5>1. n.date = Date(n.date.year, n.date.month, n.date.day)
          BY <1>6 DEF Dates, Date
        <5>. QED  BY <1>5, <2>4, <3>4, <5>1
      <4>2. /\ RealDate(n.date) /\ DayNumber(n.date) \in Int
            /\ DayNumber(x.date) - DayNumber(n.date) \in 0 .. 366
        BY <1>3, <2>1, <4>1, TornDate
      <4>. QED  BY <1>10, <2>1, <2>2, <3>2, <4>2
    <3>. QED  BY <3>3, <3>4
  <2>. QED  BY <2>3, <2>4
<1>. QED  BY <1>13, <1>14

\* A save cut short between two bytes sets a clock that nobody has touched less
\* than a day forward and at most a year back, if the copy was at most a day
\* old (menu.c:530-535, main.cpp:96).
THEOREM TornClockIsNear == Spec => TornClockNear
<1>. DEFINE Inv == TypeOK /\ Written /\ Followed
<1>1. Init => Inv
  BY InitTyped, InitFollowed
<1>2. Inv /\ [Next]_vars => Inv'
  BY StepTyped, StepFollowed
<1>3. Inv /\ [Next]_vars =>
        [cuts' > cuts /\ kept /\ whole' /\ age <= DayLength =>
           /\ Real(datetime) /\ Real(datetime')
           /\ Elapsed(datetime, datetime') < DayLength
           /\ Elapsed(datetime', datetime) <= 366 * DayLength]_vars
  <2>1. TypeOK /\ [Next]_vars /\ cuts' > cuts => PowerCut
    <3>1. TypeOK /\ cuts' = cuts => ~(cuts' > cuts)
      BY DEF TypeOK
    <3>. QED  BY <3>1 DEF Next, vars, Tick, writeTimeToEE, SaveTime, UpdateByte, DateLine, TimeLine
  <2>. QED  BY <2>1, CutIsNear
<1>. QED  BY <1>1, <1>2, <1>3, PTL DEF Spec, TornClockNear

-----------------------------------------------------------------------------
(* The clock while the power is on.                                        *)

\* What is typed is a date and a time that exist, or it is refused.
LEMMA SettingsAreReal ==
  ASSUME LastYear \in 0 .. 99, ClockIsReal
  PROVE  /\ \A d \in DateInputs : SetDate(d) => ClockIsReal'
         /\ \A t \in TimeInputs : SetTime(t) => ClockIsReal'
<1>. DEFINE d0 == datetime.date
            t0 == datetime.time
<1>1. /\ d0 \in Dates /\ RealDate(d0) /\ d0.year <= LastYear
      /\ t0 \in Times /\ RealTime(t0) /\ datetime = [date |-> d0, time |-> t0]
  BY DEF ClockIsReal, Datetimes, Real
<1>2. ASSUME NEW d \in DateInputs, SetDate(d) PROVE ClockIsReal'
  <2>. DEFINE n == IF Accepted(d) THEN d ELSE d0
  <2>1. d \in Dates /\ d.year <= LastYear
    BY <1>2, InputsAssumption DEF SetDate
  <2>2. datetime' = [date |-> n, time |-> t0]
    BY <1>1, <1>2 DEF SetDate, RTCUpdateDate
  <2>3. Accepted(d) => RealDate(d)
    <3>1. Accepted(d) => CodeDate(d)
      BY DEF Accepted, CodeDate
    <3>2. d.year <= 99
      BY <2>1 DEF Dates, Byte
    <3>. QED  BY <2>1, <3>1, <3>2, CodeIsReal
  <2>4. n \in Dates /\ RealDate(n) /\ n.year <= LastYear
    BY <1>1, <2>1, <2>3
  <2>. HIDE DEF n
  <2>5. datetime' \in Datetimes /\ Real(datetime') /\ datetime'.date.year <= LastYear
    BY <1>1, <2>2, <2>4 DEF Datetimes, Real
  <2>. QED  BY <2>5 DEF ClockIsReal
<1>3. ASSUME NEW t \in TimeInputs, SetTime(t) PROVE ClockIsReal'
  <2>. DEFINE n == IF RTCIsValidtime(t) THEN t ELSE t0
  <2>1. t \in Times
    BY InputsAssumption
  <2>2. datetime' = [date |-> d0, time |-> n]
    BY <1>1, <1>3 DEF SetTime, RTCUpdateTime
  <2>3. n \in Times /\ RealTime(n)
    BY <1>1, <2>1 DEF RTCIsValidtime, RealTime
  <2>. HIDE DEF n
  <2>4. datetime' \in Datetimes /\ Real(datetime') /\ datetime'.date.year <= LastYear
    BY <1>1, <2>2, <2>3 DEF Datetimes, Real
  <2>. QED  BY <2>4 DEF ClockIsReal
<1>. QED  BY <1>2, <1>3

LEMMA TickIsReal ==
  ASSUME LastYear \in 0 .. 99, ClockIsReal, RTC_OVF
  PROVE  ClockIsReal' /\ Elapsed(datetime, datetime') = 1
<1>1. datetime \in Datetimes /\ Real(datetime) /\ datetime.date.year <= 99
  BY DEF ClockIsReal, Datetimes, Dates, Byte
<1>2. datetime' = RTCProcessTime(datetime) /\ ~(datetime'.date.year > LastYear)
  BY DEF RTC_OVF, AtEnd
<1>3. datetime' \in Datetimes /\ Real(datetime') /\ Elapsed(datetime, datetime') = 1
  BY <1>1, <1>2, TickIsOneSecond
<1>4. datetime'.date.year <= LastYear
  BY <1>2, <1>3 DEF Datetimes, Dates, Byte
<1>. QED
  BY <1>3, <1>4 DEF ClockIsReal

\* Up to the end of 2099, the clock always shows a date and a time that exist
\* (rtcDriver.c:61-88 and 231-263).
THEOREM ClockStaysReal ==
  ASSUME LastYear \in 0 .. 99, \A dt \in Starts : dt.date.year <= LastYear
  PROVE  ClockSpec => []ClockIsReal
<1>1. ClockInit => ClockIsReal
  BY StartsAssumption DEF ClockInit, ClockIsReal
<1>2. ClockIsReal /\ [ClockNext]_datetime => ClockIsReal'
  BY TickIsReal, SettingsAreReal DEF ClockNext, ClockIsReal
<1>3. QED
  BY <1>1, <1>2, PTL DEF ClockSpec

\* Up to the end of 2099, every interrupt is one second on the calendar
\* (rtcDriver.c:223-308).
THEOREM ClockCountsSeconds ==
  ASSUME LastYear \in 0 .. 99, \A dt \in Starts : dt.date.year <= LastYear
  PROVE  ClockSpec => CountsSeconds
<1>1. ClockIsReal /\ [ClockNext]_datetime
        => [RTC_OVF => Elapsed(datetime, datetime') = 1]_datetime
  BY TickIsReal
<1>2. QED
  BY <1>1, ClockStaysReal, PTL DEF ClockSpec, CountsSeconds
=============================================================================
