----------------------------- MODULE MCRtcClock -----------------------------
(***************************************************************************)
(* Instances of RtcClock for TLC.  Days of eight seconds let the clock run *)
(* through whole leap cycles.                                              *)
(***************************************************************************)
EXTENDS RtcClock

Midnight == Time(0, 0, 0)
At(y, m, d) == [date |-> Date(y, m, d), time |-> Midnight]

Cycle   == {At(0, 1, 1)}       \* from 2000-01-01 to 2004-12-31

DatesTyped == {Date(y, m, d) : y \in {0, 1, 4}, m \in {0, 2, 12, 13}, d \in {0, 29, 31}}
TimesTyped == {Time(h, m, s) : h \in {1, 2}, m \in {0, 2}, s \in {1, 2}}
=============================================================================
