--------------------------- MODULE TwiMasterProofs ---------------------------
(***************************************************************************)
(* The TWI driver implements Transaction and leaves nothing under way when *)
(* it says READY, for every buffer and every set of requests that the      *)
(* buffer has room for.  Without that room the second is false: the code   *)
(* goes on reading after it has reported an overflow.                      *)
(*                                                                         *)
(* And its caller Tmp112, which relies on both: it takes whole readings    *)
(* only, and configures the register that it means to.                     *)
(***************************************************************************)
EXTENDS Tmp112, TLAPS

\* No caller asks for more than the input buffer holds (TMP112Read asks for 2
\* of 32 bytes).
RequestsFit == \A q \in Requests : q[2] <= BUFSIZE

\* The transaction in progress was one of those.
Room == bytesToRead <= BUFSIZE

USE BufsizeAssumption, RequestsAssumption

-----------------------------------------------------------------------------
(* The invariant.                                                          *)

LEMMA InvariantAtStart == Init => IInv /\ Room
BY DEF Init, IInv, TypeOK, Results, ReadyMeansIdle, BusyIsAlive, Counted, FlagFits, Room

LEMMA AnyStartKeepsInvariant ==
  ASSUME IInv, Room, NEW w \in Nat, NEW r \in Nat, r <= BUFSIZE, ~(w = 0 /\ r = 0),
         twiMasterWriteRead(w, r)
  PROVE  IInv' /\ Room'
BY DEF twiMasterWriteRead, Ready, IInv, TypeOK, Results, ReadyMeansIdle,
       BusyIsAlive, Counted, FlagFits, Room

LEMMA StartKeepsInvariant ==
  ASSUME RequestsFit, IInv, Room,
         NEW q \in Requests, twiMasterWriteRead(q[1], q[2])
  PROVE  IInv' /\ Room'
<1>1. q[1] \in Nat /\ q[2] \in Nat /\ q[2] <= BUFSIZE /\ ~(q[1] = 0 /\ q[2] = 0)
  BY DEF RequestsFit
<1>2. QED
  BY <1>1, AnyStartKeepsInvariant

LEMMA BusKeepsInvariant ==
  ASSUME IInv, Room, Bus
  PROVE  IInv' /\ Room'
<1> USE DEF IInv, TypeOK, Results, ReadyMeansIdle, BusyIsAlive, Counted, FlagFits,
            Room, driver, bytes
<1>1. CASE Answer
  <2>1. CASE bus = "dataW" /\ flag' = "ack"
    BY <1>1, <2>1 DEF Answer
  <2>2. CASE ~(bus = "dataW" /\ flag' = "ack")
    BY <1>1, <2>2 DEF Answer
  <2>3. QED
    BY <2>1, <2>2
<1>2. CASE AnswerRead
  BY <1>2 DEF AnswerRead
<1>3. CASE Data
  BY <1>3 DEF Data
<1>4. CASE Fault
  BY <1>4 DEF Fault
<1>5. QED
  BY <1>1, <1>2, <1>3, <1>4 DEF Bus

LEMMA HandlerKeepsInvariant ==
  ASSUME IInv, Room, twiInterruptHandler
  PROVE  IInv' /\ Room'
<1> USE DEF IInv, TypeOK, Results, ReadyMeansIdle, BusyIsAlive, Counted, FlagFits,
            Room, bytes, Finish, Goes
<1>1. CASE Faulted
  BY <1>1 DEF twiInterruptHandler, Faulted
<1>2. CASE twiMasterWriteHandler
  <2>1. CASE flag = "nack"
    BY <1>2, <2>1 DEF twiInterruptHandler, twiMasterWriteHandler
  <2>2. CASE flag = "ack" /\ MoreToWrite
    BY <1>2, <2>2 DEF twiInterruptHandler, twiMasterWriteHandler, MoreToWrite
  <2>3. CASE flag = "ack" /\ ~MoreToWrite
    BY <1>2, <2>3 DEF twiInterruptHandler, twiMasterWriteHandler, MoreToWrite
  <2>4. QED
    BY <1>2, <2>1, <2>2, <2>3 DEF twiMasterWriteHandler
<1>3. CASE twiMasterReadHandler
  <2>1. status = "BUSY" /\ bus = "dataR" /\ bytesRead < BUFSIZE
    BY <1>3 DEF twiMasterReadHandler
  <2>2. CASE bytesRead + 1 < bytesToRead
    BY <1>3, <2>1, <2>2 DEF twiInterruptHandler, twiMasterReadHandler
  <2>3. CASE ~(bytesRead + 1 < bytesToRead)
    BY <1>3, <2>1, <2>3 DEF twiInterruptHandler, twiMasterReadHandler, Stop
  <2>4. QED
    BY <2>2, <2>3
<1>4. QED
  BY <1>1, <1>2, <1>3 DEF twiInterruptHandler

LEMMA StepKeepsInvariant ==
  ASSUME RequestsFit, IInv, Room, [Next]_vars
  PROVE  IInv' /\ Room'
<1>1. CASE Next
  BY <1>1, StartKeepsInvariant, BusKeepsInvariant, HandlerKeepsInvariant DEF Next
<1>2. CASE UNCHANGED vars
  BY <1>2 DEF vars, driver, bytes, IInv, TypeOK, Results, ReadyMeansIdle, BusyIsAlive,
              Counted, FlagFits, Room
<1>3. QED
  BY <1>1, <1>2

\* The counters, the bus and the pending interrupt always agree
\* (twiDriver.c:63-98, 168-272).
THEOREM TwiInvariant ==
  ASSUME RequestsFit
  PROVE  Spec => []IInv
<1>1. Init => IInv /\ Room
  BY InvariantAtStart
<1>2. (IInv /\ Room) /\ [Next]_vars => (IInv /\ Room)'
  BY StepKeepsInvariant
<1>3. QED
  BY <1>1, <1>2, PTL DEF Spec

\* When the driver says READY nothing is under way and no interrupt is to come
\* (twiDriver.c:168-183).
THEOREM NothingAfterReady ==
  ASSUME RequestsFit
  PROVE  Spec => []ReadyMeansIdle
<1>1. IInv => ReadyMeansIdle
  BY DEF IInv
<1>2. QED
  BY <1>1, TwiInvariant, PTL

-----------------------------------------------------------------------------
(* The refinement.                                                         *)

LEMMA StartImplements ==
  ASSUME NEW q \in Requests, twiMasterWriteRead(q[1], q[2])
  PROVE  Transfer!Next
<1>1. Transfer!Start(q[1], q[2])
  BY DEF twiMasterWriteRead, Ready, Transfer!Start, asked
<1>2. QED
  BY <1>1 DEF Transfer!Next

LEMMA BusImplements ==
  ASSUME IInv, Room, Bus
  PROVE  [Transfer!Next]_(Transfer!vars)
<1> USE DEF IInv, TypeOK, ReadyMeansIdle, Counted, asked, driver, bytes
<1>1. CASE Answer
  <2>1. CASE bus = "dataW" /\ flag' = "ack"
    <3>1. status = "BUSY" /\ moved.w < bytesToWrite
      BY <1>1, <2>1 DEF Answer
    <3>2. Transfer!Write
      BY <1>1, <2>1, <3>1 DEF Answer, Transfer!Write
    <3>3. QED
      BY <3>2 DEF Transfer!Next
  <2>2. CASE ~(bus = "dataW" /\ flag' = "ack")
    BY <1>1, <2>2 DEF Answer, Transfer!vars
  <2>3. QED
    BY <2>1, <2>2
<1>2. CASE AnswerRead
  BY <1>2 DEF AnswerRead, Transfer!vars
<1>3. CASE Data
  <2>1. status = "BUSY" /\ moved.w = bytesToWrite /\ moved.r < bytesToRead
    BY <1>3 DEF Data
  <2>2. Transfer!Read
    BY <1>3, <2>1 DEF Data, Transfer!Read
  <2>3. QED
    BY <2>2 DEF Transfer!Next
<1>4. CASE Fault
  BY <1>4 DEF Fault, Transfer!vars
<1>5. QED
  BY <1>1, <1>2, <1>3, <1>4 DEF Bus

\* When the handler reports OK the slave has taken and given every byte.
LEMMA EndImplements ==
  ASSUME IInv, Room, twiInterruptHandler,
         NEW res \in {"OK", "NACK", "BUS_ERROR", "ARBITRATION_LOST"}, Finish(res),
         res = "OK" => moved.w = bytesToWrite /\ moved.r = bytesToRead,
         UNCHANGED <<bytesToWrite, bytesToRead>>
  PROVE  Transfer!Next
<1>1. status = "BUSY"
  BY DEF twiInterruptHandler, Faulted, twiMasterWriteHandler, twiMasterReadHandler,
         IInv, TypeOK, ReadyMeansIdle
<1>2. res = "OK" => moved = asked
  BY DEF IInv, TypeOK, asked
<1>3. Transfer!End(res)
  BY <1>1, <1>2 DEF Transfer!End, Finish, asked, twiInterruptHandler
<1>4. QED
  BY <1>3 DEF Transfer!Next

LEMMA HandlerImplements ==
  ASSUME IInv, Room, twiInterruptHandler
  PROVE  [Transfer!Next]_(Transfer!vars)
<1> USE DEF IInv, TypeOK, ReadyMeansIdle, Counted, FlagFits, asked, bytes
<1>1. ASSUME Goes, UNCHANGED <<bytesToWrite, bytesToRead>>
      PROVE  UNCHANGED Transfer!vars
  BY <1>1 DEF Goes, Transfer!vars, twiInterruptHandler
<1>2. CASE Faulted
  <2>1. PICK res \in {"BUS_ERROR", "ARBITRATION_LOST"} : Finish(res)
    BY <1>2 DEF Faulted
  <2>2. QED
    BY <1>2, <2>1, EndImplements DEF Faulted
<1>3. CASE twiMasterWriteHandler
  <2>1. CASE flag = "nack"
    BY <1>3, <2>1, EndImplements DEF twiMasterWriteHandler
  <2>2. CASE flag = "ack" /\ (MoreToWrite \/ bytesRead < bytesToRead)
    <3>1. Goes /\ UNCHANGED <<bytesToWrite, bytesToRead>>
      BY <1>3, <2>2 DEF twiMasterWriteHandler
    <3>2. QED
      BY <1>1, <3>1
  <2>3. CASE flag = "ack" /\ ~MoreToWrite /\ bytesRead >= bytesToRead
    <3>1. Finish("OK") /\ UNCHANGED bytes
      BY <1>3, <2>3 DEF twiMasterWriteHandler
    <3>2. status = "BUSY" /\ bus = "dataW"
      BY <2>3 DEF MoreToWrite
    <3>3. moved.w = bytesToWrite /\ moved.r = bytesToRead
      BY <2>3, <3>2 DEF MoreToWrite
    <3>4. QED
      BY <3>1, <3>3, EndImplements
  <2>4. QED
    BY <1>3, <2>1, <2>2, <2>3 DEF twiMasterWriteHandler
<1>4. CASE twiMasterReadHandler
  <2>1. status = "BUSY" /\ bus = "dataR" /\ bytesRead < BUFSIZE
    BY <1>4 DEF Room, twiMasterReadHandler
  <2>2. CASE bytesRead + 1 < bytesToRead
    <3>1. Goes /\ UNCHANGED <<bytesToWrite, bytesToRead>>
      BY <1>4, <2>1, <2>2 DEF twiMasterReadHandler
    <3>2. QED
      BY <1>1, <3>1
  <2>3. CASE ~(bytesRead + 1 < bytesToRead)
    <3>1. Finish("OK") /\ UNCHANGED <<bytesToWrite, bytesToRead>>
      BY <1>4, <2>1, <2>3 DEF twiMasterReadHandler
    <3>2. moved.w = bytesToWrite /\ moved.r = bytesToRead
      BY <1>4, <2>1, <2>3 DEF twiMasterReadHandler
    <3>3. QED
      BY <3>1, <3>2, EndImplements
  <2>4. QED
    BY <2>2, <2>3
<1>5. QED
  BY <1>2, <1>3, <1>4 DEF twiInterruptHandler

\* The driver implements Transaction: a result is reported once, and OK means
\* that every byte has been moved (peripherals.c:541 relies on it).
THEOREM DriverImplementsTransaction ==
  ASSUME RequestsFit
  PROVE  Spec => TransactionSafe
<1>1. Init => Transfer!Init
  BY DEF Init, Transfer!Init, asked
<1>2. IInv /\ Room /\ [Next]_vars => [Transfer!Next]_(Transfer!vars)
  <2>1. SUFFICES ASSUME IInv, Room, [Next]_vars
                 PROVE  [Transfer!Next]_(Transfer!vars)
    OBVIOUS
  <2>2. CASE UNCHANGED vars
    BY <2>2 DEF vars, driver, bytes, asked, Transfer!vars
  <2>3. CASE Next
    <3>1. CASE \E q \in Requests : twiMasterWriteRead(q[1], q[2])
      BY <3>1, StartImplements
    <3>2. CASE Bus
      BY <2>1, <3>2, BusImplements
    <3>3. CASE twiInterruptHandler
      BY <2>1, <3>3, HandlerImplements
    <3>4. QED
      BY <2>3, <3>1, <3>2, <3>3 DEF Next
  <2>4. QED
    BY <2>1, <2>2, <2>3
<1>3. Spec => [](IInv /\ Room)
  BY InvariantAtStart, StepKeepsInvariant, PTL DEF Spec
<1>4. QED
  BY <1>1, <1>2, <1>3, PTL DEF Spec, TransactionSafe, Transfer!Spec

-----------------------------------------------------------------------------
(* The caller: the temperature sensor.                               *)

\* What a caller may rely on.
Promise ==
  /\ moved.w <= bytesToWrite
  /\ result = "OK" => status = "READY" /\ moved = asked

LEMMA PromiseKept ==
  ASSUME IInv, Room, Promise, Bus \/ twiInterruptHandler
  PROVE  Promise'
<1>1. /\ moved \in [w : Nat, r : Nat] /\ bytesToWrite \in Nat /\ bytesToRead \in Nat
      /\ moved' \in [w : Nat, r : Nat] /\ bytesToWrite' \in Nat /\ bytesToRead' \in Nat
  BY BusKeepsInvariant, HandlerKeepsInvariant DEF IInv, TypeOK
<1>2. [Transfer!Next]_(Transfer!vars)
  BY BusImplements, HandlerImplements
<1>3. asked.w = bytesToWrite /\ asked'.w = bytesToWrite'
  BY DEF asked
<1>4. CASE UNCHANGED Transfer!vars
  BY <1>3, <1>4 DEF Transfer!vars, Promise
<1>5. ASSUME NEW q \in Requests, Transfer!Start(q[1], q[2]) PROVE Promise'
  BY <1>1, <1>5 DEF Transfer!Start, Promise
<1>6. CASE Transfer!Write
  BY <1>1, <1>3, <1>6 DEF Transfer!Write, Promise
<1>7. CASE Transfer!Read
  BY <1>1, <1>3, <1>7 DEF Transfer!Read, Promise
<1>8. ASSUME NEW res, Transfer!End(res) PROVE Promise'
  BY <1>3, <1>8 DEF Transfer!End, Promise
<1>. QED  BY <1>2, <1>4, <1>5, <1>6, <1>7, <1>8 DEF Transfer!Next

\* The transaction in progress, or the last one, is the one that the call waits
\* for; and the register stays in the buffer until its bytes are out.
Phase ==
  /\ pointer \in {0, 1} /\ outputData \in {0, 1} /\ bytesToWrite \in {0, 1, 3}
  /\ waits = "read" => asked = [w |-> 0, r |-> 2]
  /\ bytesToWrite = 3 => outputData = 1 /\ (moved.w > 0 => pointer = 1)

Steady == IInv /\ Room /\ Promise /\ Phase

LEMMA SensorStarts == SensorInit => Steady
<1>. SUFFICES ASSUME SensorInit PROVE Steady
  OBVIOUS
<1>1. Init /\ waits = "none" /\ pointer = 0 /\ outputData = 0
  BY DEF SensorInit, TEMPERATURE
<1>. QED  BY <1>1, InvariantAtStart DEF Steady, Promise, Phase, Init

\* A call of TMP112Read only ever starts a transaction when it finds the driver
\* READY.
LEMMA Sends ==
  ASSUME BUFSIZE >= 2, IInv, Room, Idle,
         NEW q \in {ofConfig, ofPointer, ofRead}, Send(q)
  PROVE  /\ IInv' /\ Room' /\ Promise'
         /\ bytesToWrite' = q[1] /\ bytesToRead' = q[2] /\ moved' = [w |-> 0, r |-> 0]
<1>1. twiMasterWriteRead(q[1], q[2])
  BY DEF Send, Idle, Ready
<1>2. q[1] \in Nat /\ q[2] \in Nat /\ q[2] <= BUFSIZE /\ ~(q[1] = 0 /\ q[2] = 0)
  BY DEF ofConfig, ofPointer, ofRead
<1>3. IInv' /\ Room'
  BY <1>1, <1>2, AnyStartKeepsInvariant
<1>4. /\ bytesToWrite' = q[1] /\ bytesToRead' = q[2] /\ moved' = [w |-> 0, r |-> 0]
      /\ result' = "UNKNOWN"
  BY <1>1 DEF twiMasterWriteRead
<1>. QED  BY <1>2, <1>3, <1>4 DEF Promise

LEMMA CallIsSteady ==
  ASSUME BUFSIZE >= 2, Steady, TMP112Read
  PROVE  Steady'
<1>. USE DEF Steady, Phase
<1>1. CASE Configure
  <2>1. /\ Idle /\ Send(ofConfig) /\ waits' = "config" /\ outputData' = 1
        /\ pointer' = pointer
    BY <1>1 DEF Configure, CONFIGURATION
  <2>. QED  BY <2>1, Sends DEF ofConfig
<1>2. CASE Point
  <2>1. Idle /\ Send(ofPointer) /\ waits' = "pointer" /\ pointer' = pointer
        /\ outputData' = 0
    BY <1>2 DEF Point, TEMPERATURE
  <2>. QED  BY <2>1, Sends DEF ofPointer
<1>3. CASE Read \/ Initialized
  <2>1. Idle /\ Send(ofRead)
        /\ UNCHANGED <<pointer, outputData>>
    BY <1>3 DEF Read, Initialized
  <2>. QED  BY <2>1, Sends DEF ofRead, asked
<1>4. CASE Fail \/ Take
  <2>1. waits' = "none" /\ UNCHANGED <<vars, outputData, pointer>>
    BY <1>4 DEF Fail, Take
  <2>2. UNCHANGED vars
    BY <2>1
  <2>. QED
    BY <2>1, <2>2 DEF vars, driver, bytes, IInv, TypeOK, Results, ReadyMeansIdle, BusyIsAlive,
       Counted, FlagFits, Room, Promise, asked
<1>. QED  BY <1>1, <1>2, <1>3, <1>4 DEF TMP112Read

\* The first byte of a write goes to the pointer, as it is in the buffer then.
LEMMA BusIsSteady ==
  ASSUME Steady, SensorBus \/ Interrupt
  PROVE  Steady'
<1>1. Bus \/ twiInterruptHandler
  BY DEF SensorBus, Interrupt
<1>2. IInv' /\ Room' /\ Promise'
  BY <1>1, BusKeepsInvariant, HandlerKeepsInvariant, PromiseKept DEF Steady
<1>3. UNCHANGED <<waits, outputData, bytesToWrite, bytesToRead>>
  <2>1. UNCHANGED <<waits, outputData>>
    BY DEF SensorBus, Interrupt, client
  <2>2. Bus => UNCHANGED <<bytesToWrite, bytesToRead>>
    BY DEF Bus, Answer, AnswerRead, Data, Fault, driver, bytes
  <2>3. twiInterruptHandler => UNCHANGED <<bytesToWrite, bytesToRead>>
    BY DEF twiInterruptHandler, Faulted, twiMasterWriteHandler, twiMasterReadHandler, bytes
  <2>. QED  BY <1>1, <2>1, <2>2, <2>3
<1>4. CASE Interrupt
  <2>1. UNCHANGED <<moved, pointer>>
    BY <1>4 DEF Interrupt, twiInterruptHandler
  <2>. QED  BY <1>2, <1>3, <2>1 DEF Steady, Phase, asked
<1>5. CASE SensorBus
  <2>1. /\ pointer' = IF moved.w = 0 /\ moved'.w = 1 THEN outputData ELSE pointer
        /\ Bus
    BY <1>5 DEF SensorBus
  <2>2. moved.w \in Nat /\ (moved'.w = moved.w \/ moved'.w = moved.w + 1)
    BY <2>1 DEF Steady, IInv, TypeOK, Bus, Answer, AnswerRead, Data, Fault, driver
  <2>3. pointer' \in {0, 1}
    BY <2>1 DEF Steady, Phase
  <2>4. bytesToWrite = 3 => outputData = 1 /\ (moved'.w > 0 => pointer' = 1)
    <3>1. CASE moved.w = 0 /\ moved'.w = 1
      BY <2>1, <3>1 DEF Steady, Phase
    <3>2. CASE ~(moved.w = 0 /\ moved'.w = 1)
      BY <2>1, <2>2, <3>2 DEF Steady, Phase
    <3>. QED  BY <3>1, <3>2
  <2>5. waits = "read" => asked = [w |-> 0, r |-> 2]
    BY DEF Steady, Phase
  <2>. QED  BY <1>2, <1>3, <2>3, <2>4, <2>5 DEF Steady, Phase, asked
<1>. QED  BY <1>4, <1>5

\* A reset of the board; the pointer of the sensor stays as it is.
LEMMA ResetIsSteady ==
  ASSUME Steady, Reset
  PROVE  Steady'
<1>1. Init' /\ waits' = "none" /\ outputData' = 0 /\ pointer' = pointer
  BY DEF Reset, TEMPERATURE, Init
<1>2. IInv' /\ Room'
  BY <1>1 DEF Init, IInv, TypeOK, Results, ReadyMeansIdle, BusyIsAlive, Counted, FlagFits, Room
<1>. QED  BY <1>1, <1>2 DEF Steady, Promise, Phase, Init

LEMMA StepIsSteady ==
  ASSUME BUFSIZE >= 2, Steady, [SensorNext]_sensor
  PROVE  Steady'
<1>1. CASE UNCHANGED sensor
  <2>1. UNCHANGED <<status, result, bytesToWrite, bytesToRead, bytesWritten, bytesRead, bus,
                    flag, moved, waits, outputData, pointer>>
    BY <1>1 DEF sensor, vars, driver, bytes, client
  <2>. QED
    BY <2>1 DEF Steady, IInv, TypeOK, Results, ReadyMeansIdle, BusyIsAlive, Counted, FlagFits,
       Room, Promise, Phase, asked
<1>. QED  BY <1>1, CallIsSteady, BusIsSteady, ResetIsSteady DEF SensorNext

\* The bytes that go with the pointer to the configuration never reach the
\* sensor behind another pointer (peripherals.c:510-532).
THEOREM ConfigurationIsAlwaysAddressed ==
  ASSUME BUFSIZE >= 2
  PROVE  SensorSpec => []ConfigurationIsAddressed
<1>1. Steady => ConfigurationIsAddressed
  BY DEF Steady, IInv, TypeOK, Promise, Phase, ConfigurationIsAddressed,
         CONFIGURATION
<1>2. Steady /\ [SensorNext]_sensor => Steady'
  BY StepIsSteady
<1>. QED  BY SensorStarts, <1>1, <1>2, PTL DEF SensorSpec

\* A temperature is taken only when the sensor has given both bytes of the read
\* that this very call has started, and nothing is under way
\* (peripherals.c:539-541).
THEOREM ReadingsAreWhole ==
  ASSUME BUFSIZE >= 2
  PROVE  SensorSpec => WholeReadings
<1>1. Steady /\ [SensorNext]_sensor =>
        [temperature' # temperature /\ temperature' # NONE =>
           waits = "read" /\ moved = [w |-> 0, r |-> 2] /\ bus = "idle" /\ flag = "none"
        ]_sensor
  <2>. SUFFICES ASSUME Steady, SensorNext,
                       temperature' # temperature, temperature' # NONE
                PROVE  /\ waits = "read" /\ moved = [w |-> 0, r |-> 2]
                       /\ bus = "idle" /\ flag = "none"
    OBVIOUS
  <2>1. Take
    BY DEF SensorNext, TMP112Read, Configure, Read, Fail,
           Point, Initialized, SensorBus, Interrupt, Reset,
           client
  <2>2. waits = "read" /\ result = "OK"
    BY <2>1 DEF Take, Complete
  <2>3. status = "READY" /\ moved = asked /\ asked = [w |-> 0, r |-> 2]
    BY <2>2 DEF Steady, Promise, Phase
  <2>. QED  BY <2>2, <2>3 DEF Steady, IInv, ReadyMeansIdle
<1>2. Steady /\ [SensorNext]_sensor => Steady'
  BY StepIsSteady
<1>. QED  BY SensorStarts, <1>1, <1>2, PTL DEF SensorSpec, WholeReadings
=============================================================================
