------------------------------- MODULE Tmp112 -------------------------------
(***************************************************************************)
(* TMP112Read (peripherals.c): the event that reads the board's            *)
(* temperature sensor.  It starts transactions of the TWI driver and gives *)
(* each of them two milliseconds, in which anything from nothing to the    *)
(* whole transaction may happen; the next call comes 125 ms later.         *)
(*                                                                         *)
(* The sensor keeps a pointer to the register that a read is answered      *)
(* from; the first byte of a write sets it.                                *)
(***************************************************************************)
EXTENDS TwiMaster

VARIABLES
  waits,              \* the transaction whose _delay_ms runs, or "none"
  isInitialized,
  outputData,         \* its first byte: the register that a write is for
  pointer,            \* of the sensor
  temperature         \* the register that hardware.board.temperature has been set from
                      \* by the last call, NONE when it has not set it

\* The transactions of TMP112Read: how many bytes each writes and reads.
ofConfig  == <<3, 0>>
ofPointer == <<1, 0>>
ofRead    == <<0, 2>>

client == <<waits, isInitialized, outputData, temperature>>
sensor == <<vars, client, pointer>>

TEMPERATURE   == 0
CONFIGURATION == 1
NONE          == -1

-----------------------------------------------------------------------------
SensorInit ==
  /\ Init
  /\ waits = "none" /\ isInitialized = FALSE /\ outputData = TEMPERATURE
  /\ pointer = TEMPERATURE /\ temperature = NONE

\* The call does nothing while a transaction is in progress.
Send(q) == IF Ready THEN twiMasterWriteRead(q[1], q[2]) ELSE UNCHANGED vars

\* Mutant of Idle: a transaction is taken to be over when its delay is.
AlwaysIdle == TRUE

Idle == status = "READY"

\* A call with the sensor not yet initialised, and one with it initialised;
\* a call that finds the driver busy does nothing.
Configure ==
  /\ waits = "none" /\ Idle /\ ~isInitialized
  /\ outputData' = CONFIGURATION
  /\ Send(ofConfig) /\ waits' = "config" /\ temperature' = NONE
  /\ UNCHANGED <<isInitialized, pointer>>

Read ==
  /\ waits = "none" /\ Idle /\ isInitialized
  /\ Send(ofRead) /\ waits' = "read" /\ temperature' = NONE
  /\ UNCHANGED <<isInitialized, outputData, pointer>>

\* The delay is over and the transaction is not: the call gives up.
Fail ==
  /\ waits \in {"config", "pointer"} /\ ~Idle
  /\ waits' = "none"
  /\ UNCHANGED <<vars, isInitialized, outputData, pointer, temperature>>

Point ==
  /\ waits = "config" /\ Idle
  /\ outputData' = TEMPERATURE
  /\ Send(ofPointer) /\ waits' = "pointer"
  /\ UNCHANGED <<isInitialized, pointer, temperature>>

Initialized ==
  /\ waits = "pointer" /\ Idle
  /\ isInitialized' = TRUE
  /\ Send(ofRead) /\ waits' = "read"
  /\ UNCHANGED <<outputData, pointer, temperature>>

\* Mutant of Complete: the bytes are taken to be there once the driver is ready.
ReadyIsEnough == status = "READY"

Complete == result = "OK" /\ bytesRead = 2

Take ==
  /\ waits = "read" /\ waits' = "none"
  /\ temperature' = IF Complete THEN pointer ELSE temperature
  /\ UNCHANGED <<vars, isInitialized, outputData, pointer>>

TMP112Read == Configure \/ Read \/ Fail \/ Point \/ Initialized \/ Take

-----------------------------------------------------------------------------
\* The byte that sets the pointer is the one in the buffer when it is sent.
SensorBus ==
  /\ Bus
  /\ pointer' = IF moved.w = 0 /\ moved'.w = 1 THEN outputData ELSE pointer
  /\ UNCHANGED client

Interrupt == twiInterruptHandler /\ UNCHANGED <<client, pointer>>

\* A watchdog reset of the controller; the sensor keeps its power.
Reset ==
  /\ status' = "READY" /\ result' = "UNKNOWN"
  /\ bytesToWrite' = 0 /\ bytesToRead' = 0 /\ bytesWritten' = 0 /\ bytesRead' = 0
  /\ bus' = "idle" /\ flag' = "none" /\ moved' = [w |-> 0, r |-> 0]
  /\ waits' = "none" /\ isInitialized' = FALSE /\ outputData' = TEMPERATURE
  /\ temperature' = NONE /\ UNCHANGED pointer

SensorNext == TMP112Read \/ SensorBus \/ Interrupt \/ Reset

SensorSpec == SensorInit /\ [][SensorNext]_sensor

-----------------------------------------------------------------------------
(* Properties                                                              *)

\* A late answer is never mistaken for an early one: a temperature is taken
\* only when the sensor has given both bytes of the read that was started by
\* this very call, and nothing is under way (peripherals.c:539-541).
WholeReadings ==
  [][temperature' # temperature /\ temperature' # NONE =>
       waits = "read" /\ moved = [w |-> 0, r |-> 2] /\ bus = "idle" /\ flag = "none"]_sensor

\* The two bytes that go with the pointer to the configuration never reach the
\* sensor behind another pointer: the buffer is left alone while the interrupt
\* handler sends from it (peripherals.c:510-532).
ConfigurationIsAddressed == moved.w >= 2 => pointer = CONFIGURATION
=============================================================================
