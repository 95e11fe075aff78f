----------------------------- MODULE TwiMaster -----------------------------
(***************************************************************************)
(* The master half of the TWI driver (twiDriver.c): a call of the main     *)
(* thread starts a transaction, interrupts carry it on byte by byte, and   *)
(* the main thread polls status and result.  The bus (the peripheral and   *)
(* the slave) is modelled by what it reports to the interrupt handler.     *)
(*                                                                         *)
(* The board is the only master and nothing moves on the bus unless the    *)
(* driver has asked for it.                                                *)
(***************************************************************************)
EXTENDS Integers

CONSTANTS
  BUFSIZE,    \* TWI_INPUT_BUFSIZE (32)
  Requests    \* <<bytesToWrite, bytesToRead>> that callers ask for

ASSUME BufsizeAssumption  == BUFSIZE \in Nat \ {0}
ASSUME RequestsAssumption == \A q \in Requests : q \in (Nat \X Nat) \ {<<0, 0>>}

VARIABLES
  status, result,                          \* of the driver
  bytesToWrite, bytesToRead, bytesWritten, bytesRead,
  bus,    \* what is under way: "idle", "addressW", "dataW", "addressR", "dataR"
  flag,   \* what the pending interrupt reports: "none", "ack", "nack", "data",
          \* "buserr", "arblost"
  moved   \* history: bytes the slave has taken and given, as [w, r]

bytes  == <<bytesToWrite, bytesToRead, bytesWritten, bytesRead>>
driver == <<status, result, bytes>>
vars   == <<driver, bus, flag, moved>>

Results == {"UNKNOWN", "OK", "BUFFER_OVERFLOW", "ARBITRATION_LOST", "BUS_ERROR", "NACK"}

-----------------------------------------------------------------------------
Init ==
  /\ status = "READY" /\ result = "UNKNOWN"
  /\ bytesToWrite = 0 /\ bytesToRead = 0 /\ bytesWritten = 0 /\ bytesRead = 0
  /\ bus = "idle" /\ flag = "none" /\ moved = [w |-> 0, r |-> 0]

\* Mutant of Ready: a transaction is started whatever the status.
AlwaysReady == TRUE

Ready == status = "READY"

\* twiMasterWriteRead: returns at once when a transaction is in progress.  The
\* bus is idle otherwise, so that no interrupt comes between its assignments.
twiMasterWriteRead(w, r) ==
  /\ Ready
  /\ status' = "BUSY" /\ result' = "UNKNOWN"
  /\ bytesToWrite' = w /\ bytesToRead' = r /\ bytesWritten' = 0 /\ bytesRead' = 0
  /\ bus' = IF w # 0 THEN "addressW" ELSE IF r # 0 THEN "addressR" ELSE bus
  /\ flag' = "none" /\ moved' = [w |-> 0, r |-> 0]

-----------------------------------------------------------------------------
(* The bus.                                                                *)

\* The slave acknowledges its address or a byte, or nobody does.
Answer ==
  /\ flag = "none" /\ bus \in {"addressW", "dataW"}
  /\ flag' \in {"ack", "nack"}
  /\ moved' = IF bus = "dataW" /\ flag' = "ack" THEN [moved EXCEPT !.w = @ + 1] ELSE moved
  /\ UNCHANGED <<driver, bus>>

\* Addressed for reading, the slave goes on to send its first byte.
AnswerRead ==
  /\ flag = "none" /\ bus = "addressR"
  /\ \/ bus' = "dataR" /\ UNCHANGED flag
     \/ flag' = "nack" /\ UNCHANGED bus
  /\ UNCHANGED <<driver, moved>>

Data ==
  /\ flag = "none" /\ bus = "dataR"
  /\ flag' = "data"
  /\ moved' = [moved EXCEPT !.r = @ + 1]
  /\ UNCHANGED <<driver, bus>>

Fault ==
  /\ flag = "none" /\ bus # "idle"
  /\ flag' \in {"buserr", "arblost"} /\ bus' = "idle"
  /\ UNCHANGED <<driver, moved>>

-----------------------------------------------------------------------------
(* The interrupt handler.                                                  *)

Finish(res) == status' = "READY" /\ result' = res
Goes        == UNCHANGED <<status, result>>

Faulted ==
  /\ flag \in {"buserr", "arblost"}
  /\ Finish(IF flag = "buserr" THEN "BUS_ERROR" ELSE "ARBITRATION_LOST")
  /\ UNCHANGED <<bytes, bus>>

\* Mutant of MoreToWrite: the last byte is not sent.
ButLast == bytesWritten + 1 < bytesToWrite

MoreToWrite == bytesWritten < bytesToWrite

twiMasterWriteHandler ==
  /\ flag \in {"ack", "nack"}
  /\ \/ /\ flag = "nack"
        /\ bus' = "idle" /\ Finish("NACK")
        /\ UNCHANGED bytes
     \/ /\ flag = "ack" /\ MoreToWrite
        /\ bus' = "dataW" /\ bytesWritten' = bytesWritten + 1
        /\ Goes /\ UNCHANGED <<bytesToWrite, bytesToRead, bytesRead>>
     \/ /\ flag = "ack" /\ ~MoreToWrite /\ bytesRead < bytesToRead
        /\ bus' = "addressR"
        /\ Goes /\ UNCHANGED bytes
     \/ /\ flag = "ack" /\ ~MoreToWrite /\ bytesRead >= bytesToRead
        /\ bus' = "idle" /\ Finish("OK")
        /\ UNCHANGED bytes

\* Mutant of Stop: the NACK that ends a read is sent without a STOP.
NoStop == bus' = "dataR"

Stop == bus' = "idle"

\* With a full buffer, STOP is followed by the command to read on when more
\* was asked for: what the peripheral makes of the two is not specified.
twiMasterReadHandler ==
  /\ flag = "data"
  /\ bytesRead' = IF bytesRead < BUFSIZE THEN bytesRead + 1 ELSE bytesRead
  /\ IF bytesRead' < bytesToRead
     THEN IF bytesRead < BUFSIZE
          THEN bus' = "dataR" /\ Goes
          ELSE bus' \in {"idle", "dataR"} /\ Finish("BUFFER_OVERFLOW")
     ELSE Stop /\ Finish("OK")
  /\ UNCHANGED <<bytesToWrite, bytesToRead, bytesWritten>>

twiInterruptHandler ==
  /\ Faulted \/ twiMasterWriteHandler \/ twiMasterReadHandler
  /\ flag' = "none"
  /\ UNCHANGED moved

-----------------------------------------------------------------------------
Bus == Answer \/ AnswerRead \/ Data \/ Fault

Next ==
  \/ \E q \in Requests : twiMasterWriteRead(q[1], q[2])
  \/ Bus
  \/ twiInterruptHandler

Spec == Init /\ [][Next]_vars

\* Interrupts are served, and the peripheral always reports on what it was
\* asked to do (an address that nobody answers is a NACK): a slave that holds
\* the clock forever is left out.
FairSpec == Spec /\ WF_vars(Bus) /\ WF_vars(twiInterruptHandler)

-----------------------------------------------------------------------------
(* Properties                                                              *)

asked == [w |-> bytesToWrite, r |-> bytesToRead]

TypeOK ==
  /\ status \in {"READY", "BUSY"} /\ result \in Results
  /\ bytesToWrite \in Nat /\ bytesToRead \in Nat
  /\ bytesWritten \in Nat /\ bytesRead \in Nat
  /\ bus \in {"idle", "addressW", "dataW", "addressR", "dataR"}
  /\ flag \in {"none", "ack", "nack", "data", "buserr", "arblost"}
  /\ moved \in [w : Nat, r : Nat]

\* When the driver says READY, nothing is left under way on the bus and no
\* interrupt is to come: the next transaction has the bus and the counters for
\* itself (twiDriver.c:63-97 and 168-183).
ReadyMeansIdle == status = "READY" => bus = "idle" /\ flag = "none"

\* A caller that waits for READY does not wait for nothing: a transaction in
\* progress has something under way or an interrupt pending.
BusyIsAlive == status = "BUSY" => bus # "idle" \/ flag \in {"buserr", "arblost"}

\* The counters keep up with the bus: a byte is counted out when it is sent,
\* and counted in when it is fetched; no byte is sent before the address is
\* acknowledged and none is read before all are written.
Counted ==
  /\ bytesWritten <= bytesToWrite /\ bytesRead <= bytesToRead
  /\ bytesRead <= BUFSIZE
  /\ status = "BUSY" =>
       CASE bus = "addressW" -> bytesWritten = 0 /\ moved = [w |-> 0, r |-> 0] /\ bytesRead = 0
                                  /\ bytesToWrite > 0
         [] bus = "dataW" -> /\ moved.w = bytesWritten - (IF flag = "ack" THEN 0 ELSE 1)
                             /\ bytesWritten > 0 /\ moved.r = 0 /\ bytesRead = 0
         [] bus = "addressR" -> /\ bytesWritten = bytesToWrite /\ moved.w = bytesToWrite
                                /\ moved.r = 0 /\ bytesRead = 0 /\ bytesToRead > 0
         [] bus = "dataR" -> /\ bytesWritten = bytesToWrite /\ moved.w = bytesToWrite
                             /\ moved.r = bytesRead + (IF flag = "data" THEN 1 ELSE 0)
                             /\ bytesRead < bytesToRead
         [] OTHER -> TRUE

\* Which report can be pending in which phase.
FlagFits ==
  /\ flag = "ack"  => bus \in {"addressW", "dataW"}
  /\ flag = "nack" => bus \in {"addressW", "dataW", "addressR"}
  /\ flag = "data" => bus = "dataR"
  /\ flag \in {"buserr", "arblost"} => bus = "idle" /\ status = "BUSY"

IInv == TypeOK /\ ReadyMeansIdle /\ BusyIsAlive /\ Counted /\ FlagFits

\* The driver implements Transaction, with the bytes that the slave has seen:
\* OK means that it took and gave every byte (peripherals.c:541 relies on it).
Transfer == INSTANCE Transaction

TransactionSafe == Transfer!Spec

\* Every transaction ends, so that a poll for READY succeeds (twiDriver.c has
\* no timeout).
Ends == status = "BUSY" ~> status = "READY"
=============================================================================
