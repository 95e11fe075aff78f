--------------------------- MODULE MCAlarmSequence ---------------------------
(***************************************************************************)
(* The power sequence for TLC, on a board of four devices, of which the    *)
(* second and the last are BEIN receivers, with two pins for them.         *)
(***************************************************************************)
EXTENDS AlarmSequence

SecondAndLast == {1, 3}
=============================================================================
