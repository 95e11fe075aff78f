--------------------------- MODULE MCClockBackup ---------------------------
(***************************************************************************)
(* ClockBackup for TLC, with the days of the firmware: the last seconds of *)
(* months and years, leap and common, so that two copies a second apart    *)
(* differ in all of their bytes.                                           *)
(***************************************************************************)
EXTENDS ClockBackup

LastSecond == Time(23, 59, 58)
Late(y, m, d) == [date |-> Date(y, m, d), time |-> LastSecond]

Evenings == {Late(19, m, DaysOf(m, 19)) : m \in 1 .. 12}
              \cup {Late(20, 2, 28), Late(20, 2, 29), Late(99, 12, 31)}
DatesTyped == {Date(20, 3, 1), Date(21, 5, 31), Date(20, 2, 30)}
TimesTyped == {Time(0, 0, 0), Time(23, 60, 0)}
=============================================================================
