---------------------------- MODULE MCTimeEvent ----------------------------
(* Instances of TimeEvent for TLC: see the configurations for the values. *)
EXTENDS TimeEvent

AllOps  == OpNames
=============================================================================
