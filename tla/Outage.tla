------------------------------- MODULE Outage -------------------------------
(***************************************************************************)
(* What the remote power switches promise to the devices behind them,      *)
(* whatever the reboot code does inside: one outage at a time, asked for a *)
(* set of devices; these drop out one by one, in ascending order; nothing  *)
(* else is ever cut; and everything comes back together.                   *)
(***************************************************************************)
EXTENDS Integers

CONSTANT Devices    \* the devices, numbered

VARIABLES
  asked,            \* the devices the outage in progress was asked for
  down              \* the devices without power

vars == <<asked, down>>

Init == asked = {} /\ down = {}

Ask(S) ==
  /\ asked = {} /\ S # {}
  /\ asked' = S
  /\ UNCHANGED down

Drop(d) ==
  /\ d \in asked \ down
  /\ \A e \in asked \ down : d <= e
  /\ down' = down \cup {d}
  /\ UNCHANGED asked

Restore == asked' = {} /\ down' = {}

Next ==
  \/ \E S \in SUBSET Devices : Ask(S)
  \/ \E d \in Devices : Drop(d)
  \/ Restore

Spec == Init /\ [][Next]_vars
=============================================================================
