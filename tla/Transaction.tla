---------------------------- MODULE Transaction ----------------------------
(***************************************************************************)
(* What a caller of the TWI driver is promised: a transaction is accepted  *)
(* only when none is in progress; it moves bytes one at a time, first out  *)
(* and then in, never more than were asked for; it ends with one result,   *)
(* and with OK only when every byte has been moved.                        *)
(***************************************************************************)
EXTENDS Integers

CONSTANT Requests   \* <<bytes to write, bytes to read>> that may be asked for

VARIABLES
  status,   \* "READY" or "BUSY"
  result,   \* of the last transaction
  asked,    \* [w, r]: bytes to write and to read
  moved     \* [w, r]: bytes that the slave took and that were taken from it

vars == <<status, result, asked, moved>>

Init == status = "READY" /\ result = "UNKNOWN" /\ asked = [w |-> 0, r |-> 0] /\ moved = asked

Start(w, r) ==
  /\ status = "READY" /\ status' = "BUSY"
  /\ result' = "UNKNOWN"
  /\ asked' = [w |-> w, r |-> r] /\ moved' = [w |-> 0, r |-> 0]

Write ==
  /\ status = "BUSY" /\ moved.w < asked.w
  /\ moved' = [moved EXCEPT !.w = @ + 1]
  /\ UNCHANGED <<status, result, asked>>

Read ==
  /\ status = "BUSY" /\ moved.w = asked.w /\ moved.r < asked.r
  /\ moved' = [moved EXCEPT !.r = @ + 1]
  /\ UNCHANGED <<status, result, asked>>

End(res) ==
  /\ status = "BUSY" /\ status' = "READY"
  /\ res = "OK" => moved = asked
  /\ result' = res
  /\ UNCHANGED <<asked, moved>>

Next ==
  \/ \E q \in Requests : Start(q[1], q[2])
  \/ Write
  \/ Read
  \/ \E res \in {"OK", "NACK", "BUS_ERROR", "ARBITRATION_LOST"} : End(res)

Spec == Init /\ [][Next]_vars
=============================================================================
