-------------------------- MODULE TimeEventProofs --------------------------
(***************************************************************************)
(* The promises of the scheduler, for a table of any size, any callbacks   *)
(* and any elapsed times.                                                  *)
(***************************************************************************)
EXTENDS TimeEvent, TLAPS

USE EventMaxAssumption, FuncsAssumption, IntervalsAssumption, RepsAssumption,
    TimerAssumption, OpsAssumption DEF Calling

\* The catch-up loop leaves at least one whole interval.
LEMMA CatchUpWaits ==
  ASSUME NEW tl \in Nat, NEW iv \in Nat \ {0}, NEW elapsed \in Nat, tl <= elapsed
  PROVE  LET c == tl + iv * (((elapsed - tl) \div iv) + 1)
         IN  c \in Nat /\ c >= iv
<1> DEFINE q == (elapsed - tl) \div iv
<1>1. q \in Nat
  OBVIOUS
<1>2. iv * (q + 1) = iv * q + iv
  BY <1>1
<1>3. iv * q \in Nat
  BY <1>1
<1> HIDE DEF q
<1>4. tl + iv * (q + 1) \in Nat /\ tl + iv * (q + 1) >= iv
  BY <1>1, <1>2, <1>3
<1>5. QED
  BY <1>4 DEF q

-----------------------------------------------------------------------------
(* What any function that edits the table does, slot by slot.              *)

Event == [funcPtr : Funcs \cup {NULL}, interval : Nat, timeLeft : Nat,
          repeation : 0 .. 127]

TableOK ==
  /\ events \in [Slots -> Event]
  /\ wait  \in [Slots -> Nat]
  /\ early \in [Slots -> Nat]
  /\ owed  \in [Slots -> 0 .. Forever]
  /\ trig  \in [Slots -> Nat]

SlotKept(t) ==
  /\ events'[t] = events[t]
  /\ wait'[t] = wait[t] /\ early'[t] = early[t] /\ trig'[t] = trig[t]
  /\ owed'[t] = owed[t]

SlotCleared(t) ==
  /\ events'[t] = Cleared
  /\ wait'[t] = 0 /\ early'[t] = 0 /\ trig'[t] = 0
  /\ owed'[t] = 0

\* Still the same registration, or a new one that owes what its counter says.
SlotCounts(t) ==
  \/ Live(t) /\ owed'[t] = owed[t] /\ events'[t].repeation = events[t].repeation
  \/ /\ ~LastRun(t)
     /\ events'[t].repeation \in 0 .. 127
     /\ owed'[t] = Owes(events'[t].repeation)

SlotArmed(t) ==
  /\ events'[t].interval # 0 /\ events'[t].funcPtr # NULL
  /\ wait'[t] = events'[t].timeLeft
  /\ early'[t] = Backdated(t)
  /\ trig'[t] = 0 \/ (trig'[t] = 1 /\ events'[t].timeLeft = 0)
  /\ SlotCounts(t)

SlotRecounted(t) ==
  /\ Live(t) /\ SlotCounts(t)
  /\ events'[t].interval = events[t].interval
  /\ events'[t].timeLeft = events[t].timeLeft
  /\ events'[t].funcPtr = events[t].funcPtr
  /\ wait'[t] = wait[t] /\ early'[t] = early[t] /\ trig'[t] = trig[t]

Edit ==
  /\ TableOK'
  /\ \A t \in Slots : SlotKept(t) \/ SlotCleared(t) \/ SlotArmed(t) \/ SlotRecounted(t)

LEMMA EditKeepsIInv ==
  ASSUME IInv, Edit, pc # "scan", UNCHANGED control, ops' \in 0 .. MaxOps
  PROVE  IInv'
<1> USE DEF IInv, Edit, control
<1>1. TypeOK'
  BY DEF TypeOK, TableOK, Event, Slots
<1>2. FindsOnlyLive'
  <2> SUFFICES ASSUME NEW t \in Slots
               PROVE  (Live(t) <=> events[t].funcPtr # NULL)'
    BY DEF FindsOnlyLive
  <2> QED
    BY DEF FindsOnlyLive, SlotKept, SlotCleared, SlotArmed, SlotRecounted, Live, Cleared
<1>3. RunsAsOften'
  <2> SUFFICES ASSUME NEW t \in Slots
               PROVE  (IF LastRun(t) THEN owed[t] = 0
                       ELSE /\ Live(t) <=> owed[t] # 0
                            /\ events[t].repeation = owed[t] % 128)'
    BY DEF RunsAsOften
  <2>1. LastRun(t)' <=> LastRun(t)
    BY DEF LastRun
  <2>2. CASE SlotKept(t)
    BY <2>1, <2>2 DEF RunsAsOften, SlotKept, Live
  <2>3. CASE SlotCleared(t)
    BY <2>1, <2>3 DEF SlotCleared, Live, Cleared
  <2>4. CASE SlotCounts(t) /\ Live(t)'
    <3>1. events'[t].repeation \in 0 .. 127 /\ owed[t] \in 0 .. 128
      BY DEF TypeOK, TableOK, Event, Forever
    <3>2. CASE Live(t) /\ owed'[t] = owed[t] /\ events'[t].repeation = events[t].repeation
      BY <2>1, <2>4, <3>2 DEF RunsAsOften
    <3>3. CASE ~LastRun(t) /\ owed'[t] = Owes(events'[t].repeation)
      BY <2>1, <2>4, <3>1, <3>3 DEF Owes, Forever
    <3>4. QED
      BY <2>4, <3>2, <3>3 DEF SlotCounts
  <2>5. QED
    BY <2>2, <2>3, <2>4 DEF SlotArmed, SlotRecounted, Live
<1>4. Timing'
  <2> SUFFICES ASSUME NEW t \in Slots, (Live(t) /\ ~LastRun(t) /\ wait[t] > 0)'
               PROVE  (wait[t] + ToTakeOff(t) <= events[t].timeLeft + early[t])'
    BY DEF Timing
  <2>1. (LastRun(t)' <=> LastRun(t)) /\ ToTakeOff(t)' = ToTakeOff(t)
    BY DEF LastRun, ToTakeOff, Pending, Ahead
  <2>2. CASE SlotKept(t)
    BY <2>1, <2>2 DEF Timing, SlotKept, Live
  <2>3. CASE SlotCleared(t)
    BY <2>3 DEF SlotCleared, Live, Cleared
  <2>4. CASE SlotArmed(t)
    <3>1. sample \in Nat /\ spent \in Nat /\ events'[t].timeLeft \in Nat
      BY DEF TypeOK, TableOK, Event
    <3>2. ToTakeOff(t) = Backdated(t) /\ Backdated(t) \in Nat
      BY <3>1 DEF ToTakeOff, Pending, Backdated
    <3> QED
      BY <2>1, <2>4, <3>1, <3>2 DEF SlotArmed
  <2>5. CASE SlotRecounted(t)
    BY <2>1, <2>5 DEF Timing, SlotRecounted, Live
  <2>6. QED
    BY <2>2, <2>3, <2>4, <2>5
<1>5. Triggers'
  <2> SUFFICES ASSUME NEW t \in Slots
               PROVE  (/\ trig[t] > 0 => Live(t) /\ events[t].timeLeft = 0
                       /\ trig[t] <= IF Pending(t) THEN 2 ELSE 1)'
    BY DEF Triggers
  <2>1. Pending(t)' <=> Pending(t)
    BY DEF Pending, Ahead
  <2>2. CASE SlotKept(t) \/ SlotRecounted(t)
    BY <2>1, <2>2 DEF Triggers, SlotKept, SlotRecounted, Live
  <2>3. CASE SlotCleared(t) \/ SlotArmed(t)
    BY <2>3 DEF SlotCleared, SlotArmed, Live
  <2>4. QED
    BY <2>2, <2>3
<1>6. QED
  BY <1>1, <1>2, <1>3, <1>4, <1>5

-----------------------------------------------------------------------------
(* Each function that edits the table is such an Edit.                     *)

LEMMA FirstIsMember == ASSUME NEW S, NEW t, First(S, t) PROVE t \in S
  BY DEF First

\* The frame of an edit that touches one slot.
LEMMA ArmFrame ==
  ASSUME IInv, NEW t \in Slots, NEW ms \in Nat, NEW b \in BOOLEAN, Arm(t, ms, b)
  PROVE  /\ wait'  \in [Slots -> Nat]
         /\ early' \in [Slots -> Nat]
         /\ trig'  \in [Slots -> Nat]
         /\ wait'[t] = ms
         /\ early'[t] = Backdated(t)
         /\ trig'[t] = IF b THEN 1 ELSE 0
         /\ \A u \in Slots \ {t} :
              wait'[u] = wait[u] /\ early'[u] = early[u] /\ trig'[u] = trig[u]
<1>1. Backdated(t) \in Nat
  BY DEF Backdated, IInv, TypeOK
<1>2. QED
  BY <1>1 DEF Arm, IInv, TypeOK

\* Only slot t of the table changes, and it ends up in use.
Rewritten(t) ==
  /\ events' \in [Slots -> Event]
  /\ \A u \in Slots \ {t} : events'[u] = events[u] /\ owed'[u] = owed[u]
  /\ events'[t].interval # 0 /\ events'[t].funcPtr # NULL

LEMMA OneSlotEdit ==
  ASSUME IInv, NEW t \in Slots, NEW b \in BOOLEAN, Rewritten(t),
         NEW ms \in Nat, ms = events'[t].timeLeft, Arm(t, ms, b), b => ms = 0,
         owed' \in [Slots -> 0 .. Forever], SlotCounts(t)
  PROVE  Edit
<1>1. TableOK'
  BY ArmFrame DEF TableOK, Rewritten
<1>2. SlotArmed(t)
  BY ArmFrame DEF SlotArmed, Rewritten
<1>3. ASSUME NEW u \in Slots \ {t} PROVE SlotKept(u)
  BY ArmFrame DEF SlotKept, Rewritten
<1>4. QED
  BY <1>1, <1>2, <1>3 DEF Edit

LEMMA UnchangedIsEdit == ASSUME IInv, UNCHANGED table PROVE Edit
  BY DEF IInv, TypeOK, table, Edit, TableOK, SlotKept, Event

\* What a slot found by its function pointer holds.
LEMMA FoundIsLive ==
  ASSUME IInv, NEW f \in Funcs, NEW t \in Slots, First(Found(f), t)
  PROVE  events[t] \in Event /\ events[t].funcPtr = f /\ Live(t)
  BY DEF IInv, TypeOK, FindsOnlyLive, First, Found, Event

LEMMA AddIsEdit ==
  ASSUME IInv, NEW f \in Funcs, NEW ms \in Intervals, NEW rep \in Reps,
         eventAdd(f, ms, rep), \A t \in Slots : First(Free, t) => ~LastRun(t)
  PROVE  Edit
<1>1. CASE Free = {} /\ UNCHANGED table
  BY <1>1, UnchangedIsEdit
<1>2. ASSUME NEW t \in Slots, First(Free, t),
             events' = [events EXCEPT ![t] = [funcPtr |-> f, interval |-> ms,
                                        timeLeft |-> ms, repeation |-> rep % 128]],
             owed' = [owed EXCEPT ![t] = Owes(rep % 128)],
             Arm(t, ms, FALSE)
      PROVE  Edit
  <2> DEFINE ev == [funcPtr |-> f, interval |-> ms, timeLeft |-> ms, repeation |-> rep % 128]
  <2>1. rep % 128 \in 0 .. 127 /\ ms \in Nat \ {0} /\ f # NULL
    OBVIOUS
  <2>2. ev \in Event /\ Owes(rep % 128) \in 0 .. Forever
    BY <2>1 DEF Event, Owes, Forever
  <2>3. ~LastRun(t)
    BY <1>2
  <2>4. /\ events' \in [Slots -> Event] /\ owed' \in [Slots -> 0 .. Forever]
        /\ events'[t] = ev /\ owed'[t] = Owes(rep % 128)
        /\ \A u \in Slots \ {t} : events'[u] = events[u] /\ owed'[u] = owed[u]
    BY <1>2, <2>2 DEF IInv, TypeOK, Event
  <2>5. Rewritten(t) /\ SlotCounts(t) /\ events'[t].timeLeft = ms
    BY <2>1, <2>3, <2>4 DEF Rewritten, SlotCounts
  <2>6. QED
    BY <1>2, <2>1, <2>4, <2>5, OneSlotEdit
<1>3. QED
  BY <1>1, <1>2 DEF eventAdd

LEMMA RemoveIsEdit ==
  ASSUME IInv, NEW f \in Funcs, eventRemove(f)
  PROVE  Edit
<1> DEFINE S == {t \in Slots : events[t].funcPtr = f /\ Live(t)}
<1>1. TableOK'
  BY DEF eventRemove, Clear, IInv, TypeOK, TableOK, Event, Cleared, Forever
<1>2. ASSUME NEW t \in S PROVE SlotCleared(t)
  BY DEF eventRemove, Clear, SlotCleared
<1>3. ASSUME NEW t \in Slots \ S PROVE SlotKept(t)
  BY DEF eventRemove, Clear, SlotKept
<1>4. QED
  BY <1>1, <1>2, <1>3 DEF Edit

\* Restart, trigger, setting the time left or the interval arm a slot in use.
LEMMA RearmIsEdit ==
  ASSUME IInv, NEW t \in Slots, Live(t), Rewritten(t),
         NEW ms \in Nat, ms = events'[t].timeLeft,
         NEW b \in BOOLEAN, b => ms = 0, Arm(t, ms, b),
         events'[t].repeation = events[t].repeation, UNCHANGED owed
  PROVE  Edit
<1>1. SlotCounts(t) /\ owed' \in [Slots -> 0 .. Forever]
  BY DEF SlotCounts, IInv, TypeOK
<1>2. QED
  BY <1>1, OneSlotEdit

LEMMA RestartIsEdit ==
  ASSUME IInv, NEW f \in Funcs, eventTimerRestart(f)
  PROVE  Edit
<1>1. CASE UNCHANGED table
  BY <1>1, UnchangedIsEdit
<1>2. ASSUME NEW t \in Slots, First(Found(f), t),
             events' = [events EXCEPT ![t].timeLeft = events[t].interval],
             Arm(t, events[t].interval, FALSE), UNCHANGED owed
      PROVE  Edit
  <2>1. events \in [Slots -> Event] /\ events[t].funcPtr = f /\ Live(t)
    BY <1>2, FoundIsLive DEF IInv, TypeOK, Event
  <2>2. events[t].interval \in Nat \ {0} /\ events[t].interval \in Nat
    BY <2>1 DEF Event, Live
  <2>3. /\ events' \in [Slots -> Event]
        /\ events'[t].timeLeft = events[t].interval /\ events'[t].interval = events[t].interval
        /\ events'[t].funcPtr = f /\ events'[t].repeation = events[t].repeation
        /\ \A u \in Slots \ {t} : events'[u] = events[u]
    BY <1>2, <2>1, <2>2 DEF Event
  <2>4. Rewritten(t)
    BY <1>2, <2>2, <2>3 DEF Rewritten
  <2>5. QED
    BY <1>2, <2>1, <2>2, <2>3, <2>4, RearmIsEdit
<1>3. QED
  BY <1>1, <1>2 DEF eventTimerRestart

LEMMA TriggerIsEdit ==
  ASSUME IInv, NEW f \in Funcs, eventTimerTrigger(f)
  PROVE  Edit
<1>1. CASE UNCHANGED table
  BY <1>1, UnchangedIsEdit
<1>2. ASSUME NEW t \in Slots, First(Found(f), t),
             events' = [events EXCEPT ![t].timeLeft = 0],
             Arm(t, 0, TRUE), UNCHANGED owed
      PROVE  Edit
  <2>1. events \in [Slots -> Event] /\ events[t].funcPtr = f /\ Live(t)
    BY <1>2, FoundIsLive DEF IInv, TypeOK, Event
  <2>2. events[t].interval \in Nat \ {0} /\ 0 \in Nat
    BY <2>1 DEF Event, Live
  <2>3. /\ events' \in [Slots -> Event]
        /\ events'[t].timeLeft = 0 /\ events'[t].interval = events[t].interval
        /\ events'[t].funcPtr = f /\ events'[t].repeation = events[t].repeation
        /\ \A u \in Slots \ {t} : events'[u] = events[u]
    BY <1>2, <2>1, <2>2 DEF Event
  <2>4. Rewritten(t)
    BY <1>2, <2>2, <2>3 DEF Rewritten
  <2>5. QED
    BY <1>2, <2>1, <2>2, <2>3, <2>4, RearmIsEdit
<1>3. QED
  BY <1>1, <1>2 DEF eventTimerTrigger

LEMMA SetTimeleftIsEdit ==
  ASSUME IInv, NEW f \in Funcs, NEW ms \in Intervals, eventSetTimeleft(f, ms)
  PROVE  Edit
<1>1. CASE UNCHANGED table
  BY <1>1, UnchangedIsEdit
<1>2. ASSUME NEW t \in Slots, First(Found(f), t),
             events' = [events EXCEPT ![t].timeLeft = ms],
             Arm(t, ms, FALSE), UNCHANGED owed
      PROVE  Edit
  <2>1. events \in [Slots -> Event] /\ events[t].funcPtr = f /\ Live(t)
    BY <1>2, FoundIsLive DEF IInv, TypeOK, Event
  <2>2. events[t].interval \in Nat \ {0} /\ ms \in Nat
    BY <2>1 DEF Event, Live
  <2>3. /\ events' \in [Slots -> Event]
        /\ events'[t].timeLeft = ms /\ events'[t].interval = events[t].interval
        /\ events'[t].funcPtr = f /\ events'[t].repeation = events[t].repeation
        /\ \A u \in Slots \ {t} : events'[u] = events[u]
    BY <1>2, <2>1, <2>2 DEF Event
  <2>4. Rewritten(t)
    BY <1>2, <2>2, <2>3 DEF Rewritten
  <2>5. QED
    BY <1>2, <2>1, <2>2, <2>3, <2>4, RearmIsEdit
<1>3. QED
  BY <1>1, <1>2 DEF eventSetTimeleft

LEMMA SetIntervalIsEdit ==
  ASSUME IInv, NEW f \in Funcs, NEW ms \in Intervals, eventSetInterval(f, ms, ms)
  PROVE  Edit
<1>1. CASE UNCHANGED table
  BY <1>1, UnchangedIsEdit
<1>2. ASSUME NEW t \in Slots, First(Found(f), t),
             events' = [events EXCEPT ![t].interval = ms, ![t].timeLeft = ms],
             Arm(t, ms, FALSE), UNCHANGED owed
      PROVE  Edit
  <2>1. events \in [Slots -> Event] /\ events[t].funcPtr = f /\ Live(t)
    BY <1>2, FoundIsLive DEF IInv, TypeOK, Event
  <2>2. ms \in Nat \ {0}
    OBVIOUS
  <2>3. /\ events' \in [Slots -> Event]
        /\ events'[t].timeLeft = ms /\ events'[t].interval = ms
        /\ events'[t].funcPtr = f /\ events'[t].repeation = events[t].repeation
        /\ \A u \in Slots \ {t} : events'[u] = events[u]
    <3> DEFINE e == [events EXCEPT ![t].interval = ms]
    <3>1. /\ e \in [Slots -> Event] /\ e[t].interval = ms
          /\ e[t].funcPtr = f /\ e[t].repeation = events[t].repeation
          /\ \A u \in Slots \ {t} : e[u] = events[u]
      BY <2>1, <2>2 DEF Event
    <3>2. events' = [e EXCEPT ![t].timeLeft = ms]
      BY <1>2
    <3> HIDE DEF e
    <3>3. QED
      BY <2>2, <3>1, <3>2 DEF Event
  <2>4. Rewritten(t)
    BY <1>2, <2>2, <2>3 DEF Rewritten
  <2>5. QED
    BY <1>2, <2>1, <2>2, <2>3, <2>4, RearmIsEdit
<1>3. QED
  BY <1>1, <1>2 DEF eventSetInterval

LEMMA SetRepeationIsEdit ==
  ASSUME IInv, NEW f \in Funcs, NEW rep \in Reps, eventSetRepeation(f, rep),
         \A t \in Slots : First(Found(f), t) => ~LastRun(t)
  PROVE  Edit
<1>1. CASE UNCHANGED table
  BY <1>1, UnchangedIsEdit
<1>2. ASSUME NEW t \in Slots, First(Found(f), t),
             events' = [events EXCEPT ![t].repeation = rep % 128],
             owed' = [owed EXCEPT ![t] = Owes(rep % 128)],
             UNCHANGED <<wait, early, trig>>
      PROVE  Edit
  <2> DEFINE n == rep % 128
  <2>1. n \in 0 .. 127
    OBVIOUS
  <2> HIDE DEF n
  <2>2. events[t] \in Event /\ Live(t) /\ ~LastRun(t) /\ events \in [Slots -> Event]
    BY <1>2, FoundIsLive DEF IInv, TypeOK, Event
  <2>3. Owes(n) \in 0 .. Forever
    BY <2>1 DEF Owes, Forever
  <2>4. /\ events' \in [Slots -> Event] /\ owed' \in [Slots -> 0 .. Forever]
        /\ events'[t] = [events[t] EXCEPT !.repeation = n] /\ owed'[t] = Owes(n)
        /\ \A u \in Slots \ {t} : events'[u] = events[u] /\ owed'[u] = owed[u]
    BY <1>2, <2>1, <2>2, <2>3 DEF IInv, TypeOK, Event, n
  <2>5. TableOK'
    BY <1>2, <2>4 DEF IInv, TypeOK, TableOK, Event
  <2>6. SlotRecounted(t)
    BY <1>2, <2>1, <2>2, <2>4 DEF SlotRecounted, SlotCounts, Event
  <2>7. ASSUME NEW u \in Slots \ {t} PROVE SlotKept(u)
    BY <1>2, <2>4 DEF SlotKept
  <2>8. QED
    BY <2>5, <2>6, <2>7 DEF Edit
<1>3. QED
  BY <1>1, <1>2 DEF eventSetRepeation

-----------------------------------------------------------------------------
(* The inductive invariant.                                                *)

LEMMA InitIInv == Init => IInv
<1> SUFFICES ASSUME Init PROVE IInv
  OBVIOUS
<1> USE DEF Init
<1>1. TypeOK
  BY DEF TypeOK, Cleared, Slots, Forever
<1>2. FindsOnlyLive
  BY DEF FindsOnlyLive, Live, Cleared
<1>3. RunsAsOften
  BY DEF RunsAsOften, LastRun, Live, Cleared
<1>4. Timing
  BY DEF Timing, Live, Cleared
<1>5. Triggers
  BY DEF Triggers, Pending, Ahead
<1>6. QED
  BY <1>1, <1>2, <1>3, <1>4, <1>5 DEF IInv

LEMMA MainIInv ==
  ASSUME IInv, NEW f \in Funcs, NEW ms \in Intervals, NEW rep \in Reps, MainAdd(f, ms, rep)
  PROVE  IInv'
<1>1. Edit
  BY AddIsEdit DEF MainAdd, LastRun
<1>2. ops' \in 0 .. MaxOps
  BY DEF MainAdd, IInv, TypeOK
<1>3. QED
  BY <1>1, <1>2, EditKeepsIInv DEF MainAdd

LEMMA CallOpIInv == ASSUME IInv, CallOp PROVE IInv'
<1>1. PICK f \in Funcs, ms \in Intervals :
        \/ \E rep \in Reps : OwnSlotSpared(Free) /\ eventAdd(f, ms, rep)
        \/ eventRemove(f)
        \/ eventTimerRestart(f)
        \/ eventTimerTrigger(f)
        \/ eventSetTimeleft(f, ms)
        \/ eventSetInterval(f, ms, ms)
        \/ \E rep \in Reps : OwnSlotSpared(Found(f)) /\ eventSetRepeation(f, rep)
  BY DEF CallOp
<1>2. ASSUME NEW S, OwnSlotSpared(S)
      PROVE  \A t \in Slots : First(S, t) => ~LastRun(t)
  BY <1>2 DEF OwnSlotSpared, LastRun
<1>3. Edit
  BY <1>1, <1>2, AddIsEdit, RemoveIsEdit, RestartIsEdit, TriggerIsEdit,
     SetTimeleftIsEdit, SetIntervalIsEdit, SetRepeationIsEdit
<1>4. ops' \in 0 .. MaxOps
  BY DEF CallOp, IInv, TypeOK
<1>5. QED
  BY <1>3, <1>4, EditKeepsIInv DEF CallOp

\* Steps that leave the table alone: only where the pass is changes.
LEMMA EnterLoopIInv == ASSUME IInv, EnterLoop PROVE IInv'
<1> USE DEF IInv, EnterLoop, table
<1>1. TypeOK'
  BY DEF TypeOK
<1>2. FindsOnlyLive'
  BY DEF FindsOnlyLive, Live
<1>3. RunsAsOften'
  BY DEF RunsAsOften, LastRun, Live
<1>4. Timing'
  BY DEF Timing, ToTakeOff, LastRun, Live, Pending, Ahead
<1>5. Triggers'
  BY DEF Triggers, Live, Pending, Ahead
<1>6. QED
  BY <1>1, <1>2, <1>3, <1>4, <1>5

\* What is left of every wait after ms have gone by.
LEMMA PassedWaits ==
  ASSUME IInv, NEW ms \in Nat, Passed(ms)
  PROVE  /\ wait' \in [Slots -> Nat]
         /\ \A t \in Slots : wait'[t] > 0 => wait[t] > 0 /\ wait'[t] = wait[t] - ms
<1>1. wait \in [Slots -> Nat]
  BY DEF IInv, TypeOK
<1>2. \A t \in Slots : wait'[t] = IF wait[t] > ms THEN wait[t] - ms ELSE 0
  BY DEF Passed
<1>3. ASSUME NEW t \in Slots
      PROVE  wait[t] \in Nat /\ (IF wait[t] > ms THEN wait[t] - ms ELSE 0) \in Nat
  BY <1>1
<1>4. QED
  BY <1>1, <1>2, <1>3 DEF Passed

LEMMA StartPassIInv == ASSUME IInv, NEW ms \in Sleeps, StartPass(ms) PROVE IInv'
<1> USE DEF IInv
<1>1. /\ pc = "sleep" /\ pc' = "scan" /\ i' = 0 /\ ms \in Nat
      /\ spent \in Nat /\ sample' = spent + ms /\ spent' = 0
      /\ trig' \in [Slots -> Nat]
      /\ UNCHANGED <<events, early, owed, ops>>
      /\ \A t \in Slots : trig'[t] = IF trig[t] > 0 THEN trig[t] + 1 ELSE 0
  BY DEF StartPass, Sample, TypeOK
<1>2. /\ wait' \in [Slots -> Nat]
      /\ \A t \in Slots : wait'[t] > 0 => wait[t] > 0 /\ wait'[t] = wait[t] - ms
  BY <1>1, PassedWaits DEF StartPass
<1>3. TypeOK'
  BY <1>1, <1>2 DEF TypeOK
<1>4. FindsOnlyLive'
  BY <1>1 DEF FindsOnlyLive, Live
<1>5. RunsAsOften'
  BY <1>1 DEF RunsAsOften, LastRun, Live
<1>6. Timing'
  <2> SUFFICES ASSUME NEW t \in Slots, Live(t), wait'[t] > 0
               PROVE  (wait[t] + ToTakeOff(t) <= events[t].timeLeft + early[t])'
    BY <1>1 DEF Timing, Live
  <2>1. ~LastRun(t) /\ ~Pending(t) /\ Pending(t)'
    BY <1>1 DEF LastRun, Pending, Ahead, Slots
  <2>2. ToTakeOff(t) = spent /\ ToTakeOff(t)' = spent + ms
    BY <1>1, <2>1 DEF ToTakeOff
  <2>3. wait[t] + spent <= events[t].timeLeft + early[t] /\ wait'[t] = wait[t] - ms
    BY <1>2, <2>1, <2>2 DEF Timing
  <2>4. wait[t] \in Nat
    BY DEF TypeOK
  <2>5. QED
    BY <1>1, <2>2, <2>3, <2>4
<1>7. Triggers'
  <2> SUFFICES ASSUME NEW t \in Slots
               PROVE  (/\ trig[t] > 0 => Live(t) /\ events[t].timeLeft = 0
                       /\ trig[t] <= IF Pending(t) THEN 2 ELSE 1)'
    BY DEF Triggers
  <2>1. ~Pending(t) /\ Pending(t)'
    BY <1>1 DEF Pending, Ahead, Slots
  <2>2. trig[t] \in Nat /\ trig[t] <= 1
    BY <2>1 DEF Triggers, TypeOK
  <2>3. QED
    BY <1>1, <2>1, <2>2 DEF Triggers, Live
<1>8. QED
  BY <1>3, <1>4, <1>5, <1>6, <1>7

\* A callback takes its time: the waits and the timer go on together, and the
\* timer never ahead.
LEMMA WorkIInv == ASSUME IInv, NEW ms \in Takes, Work(ms) PROVE IInv'
<1> USE DEF IInv
<1>1. /\ ms \in Nat /\ spent \in Nat
      /\ spent' \in 0 .. TimerRange - 1 /\ spent' <= spent + ms
      /\ UNCHANGED <<events, early, owed, trig, pc, i, sample, ops>>
  <2>1. spent \in Nat /\ ms \in Nat /\ spent' = (spent + ms) % TimerRange
    BY DEF Work, TypeOK
  <2>2. \A n \in Nat : n % TimerRange \in 0 .. TimerRange - 1 /\ n % TimerRange <= n
    OBVIOUS
  <2>3. UNCHANGED <<events, early, owed, trig, pc, i, sample, ops>>
    BY DEF Work
  <2>4. spent + ms \in Nat
    BY <2>1
  <2>5. QED
    BY <2>1, <2>2, <2>3, <2>4
<1>2. /\ wait' \in [Slots -> Nat]
      /\ \A t \in Slots : wait'[t] > 0 => wait[t] > 0 /\ wait'[t] = wait[t] - ms
  BY <1>1, PassedWaits DEF Work
<1>3. TypeOK'
  BY <1>1, <1>2 DEF TypeOK
<1>4. FindsOnlyLive'
  BY <1>1 DEF FindsOnlyLive, Live
<1>5. RunsAsOften'
  BY <1>1 DEF RunsAsOften, LastRun, Live
<1>6. Timing'
  <2> SUFFICES ASSUME NEW t \in Slots, Live(t), ~LastRun(t), wait'[t] > 0
               PROVE  (wait[t] + ToTakeOff(t) <= events[t].timeLeft + early[t])'
    BY <1>1 DEF Timing, Live, LastRun
  <2>1. PICK rest \in Nat : ToTakeOff(t) = spent + rest /\ ToTakeOff(t)' = spent' + rest
    <3>1. (Pending(t)' <=> Pending(t)) /\ sample' = sample /\ sample \in Nat
      BY <1>1 DEF Pending, Ahead, TypeOK
    <3>2. CASE Pending(t)
      BY <3>1, <3>2 DEF ToTakeOff
    <3>3. CASE ~Pending(t)
      BY <3>1, <3>3 DEF ToTakeOff
    <3>4. QED
      BY <3>2, <3>3
  <2>2. wait[t] + (spent + rest) <= events[t].timeLeft + early[t] /\ wait'[t] = wait[t] - ms
    BY <1>2, <2>1 DEF Timing
  <2>3. wait[t] \in Nat /\ events[t].timeLeft \in Nat /\ early[t] \in Nat
    BY DEF TypeOK
  <2>4. wait'[t] + (spent' + rest) <= events[t].timeLeft + early[t]
    BY <1>1, <2>2, <2>3
  <2>5. QED
    BY <1>1, <2>1, <2>4
<1>7. Triggers'
  BY <1>1 DEF Triggers, Live, Pending, Ahead
<1>8. QED
  BY <1>3, <1>4, <1>5, <1>6, <1>7

\* Moving on from slot i: only slot i stops being pending.
LEMMA NextPending ==
  ASSUME IInv, i \in Slots, i' = i + 1, pc' = "scan",
         pc = "scan" \/ Calling, NEW t \in Slots
  PROVE  /\ t # i => (Pending(t)' <=> Pending(t))
         /\ t = i => ~Pending(t)'
  BY DEF Pending, Ahead, Slots

LEMMA SkipSlotIInv == ASSUME IInv, SkipSlot PROVE IInv'
<1> USE DEF IInv
<1>1. /\ i \in Slots /\ pc = "scan" /\ pc' = "scan" /\ i' = i + 1 /\ ~Live(i)
      /\ UNCHANGED <<events, wait, early, owed, trig, sample, spent, ops>>
  BY DEF SkipSlot, AtSlot, table
<1>2. TypeOK'
  <2>1. i + 1 \in 0 .. EVENT_MAX
    BY <1>1 DEF Slots
  <2>2. QED
    BY <1>1, <2>1 DEF TypeOK
<1>3. FindsOnlyLive'
  BY <1>1 DEF FindsOnlyLive, Live
<1>4. RunsAsOften'
  BY <1>1 DEF RunsAsOften, LastRun, Live
<1>5. Timing'
  BY <1>1, NextPending DEF Timing, ToTakeOff, LastRun, Live
<1>6. Triggers'
  BY <1>1, NextPending DEF Triggers, Live, TypeOK
<1>7. QED
  BY <1>2, <1>3, <1>4, <1>5, <1>6

LEMMA EndPassIInv == ASSUME IInv, EndPass PROVE IInv'
<1> USE DEF IInv
<1>1. /\ pc = "scan" /\ pc' = "sleep" /\ i = EVENT_MAX /\ i' = 0 /\ sample' = 0
      /\ UNCHANGED <<events, wait, early, owed, trig, spent, ops>>
  BY DEF EndPass, table
<1>2. ASSUME NEW t \in Slots PROVE ~Pending(t) /\ ~Pending(t)' /\ ~LastRun(t) /\ ~LastRun(t)'
  BY <1>1 DEF Pending, Ahead, Slots, LastRun
<1>3. TypeOK'
  BY <1>1 DEF TypeOK
<1>4. FindsOnlyLive'
  BY <1>1 DEF FindsOnlyLive, Live
<1>5. RunsAsOften'
  BY <1>1, <1>2 DEF RunsAsOften, Live
<1>6. Timing'
  BY <1>1, <1>2 DEF Timing, ToTakeOff, Live
<1>7. Triggers'
  BY <1>1, <1>2 DEF Triggers, Live
<1>8. QED
  BY <1>3, <1>4, <1>5, <1>6, <1>7

LEMMA CountDownIInv == ASSUME IInv, CountDown PROVE IInv'
<1> USE DEF IInv
<1>1. /\ i \in Slots /\ pc = "scan" /\ pc' = "scan" /\ i' = i + 1 /\ Live(i)
      /\ events[i].timeLeft > sample
      /\ events[i] \in Event /\ sample \in Nat /\ events \in [Slots -> Event]
      /\ UNCHANGED <<wait, early, owed, trig, sample, spent, ops>>
      /\ events' = [events EXCEPT ![i].timeLeft = @ - sample]
  BY DEF CountDown, AtSlot, Due, TypeOK, Event
<1>2. /\ events' \in [Slots -> Event]
      /\ events'[i].interval = events[i].interval /\ events'[i].funcPtr = events[i].funcPtr
      /\ events'[i].repeation = events[i].repeation
      /\ events'[i].timeLeft = events[i].timeLeft - sample
      /\ \A t \in Slots \ {i} : events'[t] = events[t]
  BY <1>1 DEF Event
<1>3. TypeOK'
  <2>1. i + 1 \in 0 .. EVENT_MAX
    BY <1>1 DEF Slots
  <2>2. QED
    BY <1>1, <1>2, <2>1 DEF TypeOK, Event
<1>4. FindsOnlyLive'
  BY <1>1, <1>2 DEF FindsOnlyLive, Live
<1>5. RunsAsOften'
  BY <1>1, <1>2 DEF RunsAsOften, LastRun, Live
<1>6. Timing'
  <2> SUFFICES ASSUME NEW t \in Slots, Live(t)', wait[t] > 0
               PROVE  (wait[t] + ToTakeOff(t) <= events[t].timeLeft + early[t])'
    BY <1>1 DEF Timing
  <2>1. CASE t # i
    BY <1>1, <1>2, <2>1, NextPending DEF Timing, ToTakeOff, LastRun, Live
  <2>2. CASE t = i
    <3>1. Pending(i) /\ ~Pending(t)' /\ ~LastRun(i)
      <4>1. Pending(i) /\ ~LastRun(i)
        BY <1>1 DEF Pending, LastRun, Slots
      <4>2. ~Pending(t)'
        BY <1>1, <2>2, NextPending
      <4>3. QED
        BY <4>1, <4>2
    <3>2. ToTakeOff(i) = spent + sample /\ ToTakeOff(t)' = spent
      BY <1>1, <3>1 DEF ToTakeOff, TypeOK
    <3>3. wait[i] + (spent + sample) <= events[i].timeLeft + early[i]
      BY <1>1, <2>2, <3>1, <3>2 DEF Timing
    <3>4. wait[i] \in Nat /\ early[i] \in Nat /\ events[i].timeLeft \in Nat /\ spent \in Nat
      BY <1>1 DEF TypeOK, Event
    <3>5. QED
      BY <1>1, <1>2, <2>2, <3>2, <3>3, <3>4
  <2>3. QED
    BY <2>1, <2>2
<1>7. Triggers'
  <2>1. trig[i] = 0
    BY <1>1 DEF Triggers, TypeOK, Event
  <2>2. QED
    BY <1>1, <1>2, <2>1, NextPending DEF Triggers, Live, TypeOK
<1>8. QED
  BY <1>3, <1>4, <1>5, <1>6, <1>7

LEMMA ReturnIInv == ASSUME IInv, Return PROVE IInv'
<1> USE DEF IInv
<1>1. /\ i \in Slots /\ Calling /\ pc' = "scan" /\ i' = i + 1 /\ ops' = 0
      /\ UNCHANGED <<owed, sample, spent>>
  BY DEF Return, TypeOK
<1>2. /\ TableOK'
      /\ \A t \in Slots : ~LastRun(t) => /\ events'[t] = events[t] /\ wait'[t] = wait[t]
                                         /\ early'[t] = early[t] /\ trig'[t] = trig[t]
      /\ \A t \in Slots : LastRun(t) => /\ events'[t] = Cleared /\ wait'[t] = 0
                                        /\ early'[t] = 0 /\ trig'[t] = 0
  <2>1. TableOK
    BY DEF TypeOK, TableOK, Event
  <2>2. CASE pc = "call" /\ UNCHANGED <<events, wait, early, trig>>
    BY <1>1, <2>1, <2>2 DEF TableOK, LastRun
  <2>3. CASE pc = "lastcall" /\ Clear({i})
    <3>1. Cleared \in Event
      BY DEF Cleared, Event
    <3>2. QED
      BY <1>1, <2>1, <2>3, <3>1 DEF TableOK, LastRun, Clear
  <2>4. QED
    BY <2>2, <2>3 DEF Return
<1>3. TypeOK'
  <2>1. i + 1 \in 0 .. EVENT_MAX
    BY <1>1 DEF Slots
  <2>2. QED
    BY <1>1, <1>2, <2>1 DEF TypeOK, TableOK, Event
<1>4. FindsOnlyLive'
  BY <1>2 DEF FindsOnlyLive, Live, Cleared
<1>5. RunsAsOften'
  BY <1>1, <1>2 DEF RunsAsOften, LastRun, Live, Cleared
<1>6. ASSUME NEW t \in Slots PROVE Pending(t)' <=> Pending(t)
  BY <1>1, NextPending DEF Pending, Ahead, Slots
<1>7. Timing'
  BY <1>1, <1>2, <1>6 DEF Timing, ToTakeOff, LastRun, Live, Cleared
<1>8. Triggers'
  <2> SUFFICES ASSUME NEW t \in Slots
               PROVE  (/\ trig[t] > 0 => Live(t) /\ events[t].timeLeft = 0
                       /\ trig[t] <= IF Pending(t) THEN 2 ELSE 1)'
    BY DEF Triggers
  <2>1. CASE LastRun(t)
    BY <1>2, <2>1
  <2>2. CASE ~LastRun(t)
    BY <1>2, <1>6, <2>2 DEF Triggers, Live
  <2>3. QED
    BY <2>1, <2>2
<1>9. QED
  BY <1>3, <1>4, <1>5, <1>7, <1>8

LEMMA ExecuteIInv == ASSUME IInv, Execute PROVE IInv'
<1> USE DEF IInv
<1> DEFINE cont == events[i].repeation # 1
           left == IF cont THEN CatchUp(events[i], sample) ELSE events[i].timeLeft
           runs == Counted(events[i].repeation)
<1>1. /\ i \in Slots /\ pc = "scan" /\ Live(i) /\ events[i] \in Event /\ sample \in Nat
      /\ events[i].timeLeft <= sample
  BY DEF Execute, AtSlot, Due, TypeOK, Event
<1>2. left \in Nat /\ (cont => left >= events[i].interval)
  BY <1>1, CatchUpWaits DEF CatchUp, Event, Live
<1>3. runs \in 0 .. 127
  BY <1>1 DEF Counted, Event
<1>4. events' = [events EXCEPT ![i].timeLeft = left, ![i].repeation = runs]
  BY DEF Execute
<1> HIDE DEF left, runs
<1>5. /\ events' \in [Slots -> Event]
      /\ events'[i].interval = events[i].interval /\ events'[i].funcPtr = events[i].funcPtr
      /\ events'[i].timeLeft = left /\ events'[i].repeation = runs
      /\ \A t \in Slots \ {i} : events'[t] = events[t]
  <2> DEFINE e == [events EXCEPT ![i].timeLeft = left]
  <2>1. /\ e \in [Slots -> Event] /\ e[i].timeLeft = left
        /\ e[i].interval = events[i].interval /\ e[i].funcPtr = events[i].funcPtr
        /\ \A t \in Slots \ {i} : e[t] = events[t]
    BY <1>1, <1>2 DEF TypeOK, Event
  <2>2. events' = [e EXCEPT ![i].repeation = runs]
    BY <1>4
  <2> HIDE DEF e
  <2>3. QED
    BY <1>1, <1>3, <2>1, <2>2 DEF Event
<1>6. owed[i] # 0 /\ owed[i] \in 0 .. 128 /\ events[i].repeation = owed[i] % 128
  BY <1>1 DEF RunsAsOften, LastRun, TypeOK, Forever
<1>7. /\ i' = i /\ sample' = sample /\ spent' = spent /\ spent \in Nat /\ ops' = 0
      /\ pc' = IF cont THEN "call" ELSE "lastcall"
      /\ owed' = [owed EXCEPT ![i] = IF @ = Forever THEN @ ELSE @ - 1]
      /\ wait' = [wait EXCEPT ![i] = events[i].interval]
      /\ early' = [early EXCEPT ![i] = spent]
      /\ trig' = [trig EXCEPT ![i] = 0]
  <2>1. spent \in Nat /\ Backdated(i) = spent
    BY <1>1 DEF Backdated, Ahead, TypeOK
  <2>2. QED
    BY <2>1 DEF Execute
<1>8. TypeOK'
  <2>1. owed' \in [Slots -> 0 .. Forever]
    BY <1>1, <1>6, <1>7 DEF TypeOK, Forever
  <2>2. wait' \in [Slots -> Nat] /\ early' \in [Slots -> Nat]
        /\ trig' \in [Slots -> Nat]
    BY <1>1, <1>7 DEF TypeOK, Event
  <2>3. QED
    BY <1>1, <1>5, <1>7, <2>1, <2>2 DEF TypeOK, Event
<1>9. FindsOnlyLive'
  BY <1>1, <1>5 DEF FindsOnlyLive, Live
<1>10. RunsAsOften'
  <2> SUFFICES ASSUME NEW t \in Slots
               PROVE  (IF LastRun(t) THEN owed[t] = 0
                       ELSE /\ Live(t) <=> owed[t] # 0
                            /\ events[t].repeation = owed[t] % 128)'
    BY DEF RunsAsOften
  <2>1. CASE t # i
    BY <1>1, <1>5, <1>7, <2>1 DEF RunsAsOften, LastRun, Live, TypeOK
  <2>2. CASE t = i /\ owed[i] = Forever
    BY <1>1, <1>5, <1>6, <1>7, <2>2 DEF LastRun, Live, TypeOK, Forever, runs, Counted
  <2>3. CASE t = i /\ owed[i] \in 1 .. 127
    <3>1. events[i].repeation = owed[i]
      BY <1>6, <2>3
    <3>2. owed'[i] = owed[i] - 1 /\ runs = owed[i] - 1
      BY <1>1, <1>7, <2>3, <3>1 DEF TypeOK, Forever, runs, Counted
    <3>3. (owed[i] - 1) % 128 = owed[i] - 1
      BY <2>3
    <3>4. QED
      BY <1>1, <1>5, <1>7, <2>3, <3>1, <3>2, <3>3 DEF LastRun, Live
  <2>4. QED
    BY <1>6, <2>1, <2>2, <2>3 DEF Forever
<1>11. Timing'
  <2> SUFFICES ASSUME NEW t \in Slots, (Live(t) /\ ~LastRun(t) /\ wait[t] > 0)'
               PROVE  (wait[t] + ToTakeOff(t) <= events[t].timeLeft + early[t])'
    BY DEF Timing
  <2>1. CASE t = i
    <3>1. cont /\ ~Pending(t)'
      BY <1>1, <1>7, <2>1 DEF LastRun, Pending, Ahead, Slots
    <3>2. /\ wait'[t] = events[i].interval /\ early'[t] = spent
          /\ events'[t].timeLeft = left /\ ToTakeOff(t)' = spent
      BY <1>1, <1>5, <1>7, <2>1, <3>1 DEF TypeOK, ToTakeOff
    <3>3. events[i].interval \in Nat
      BY <1>1 DEF Event
    <3>4. QED
      BY <1>2, <1>7, <3>1, <3>2, <3>3
  <2>2. CASE t # i
    <3>1. Pending(t)' <=> Pending(t)
      BY <1>1, <1>7, <2>2 DEF Pending, Ahead, Slots
    <3>2. QED
      BY <1>1, <1>5, <1>7, <2>2, <3>1 DEF Timing, ToTakeOff, LastRun, Live, TypeOK
  <2>3. QED
    BY <2>1, <2>2
<1>12. Triggers'
  <2> SUFFICES ASSUME NEW t \in Slots
               PROVE  (/\ trig[t] > 0 => Live(t) /\ events[t].timeLeft = 0
                       /\ trig[t] <= IF Pending(t) THEN 2 ELSE 1)'
    BY DEF Triggers
  <2>1. CASE t = i
    BY <1>1, <1>7, <2>1 DEF TypeOK
  <2>2. CASE t # i
    <3>1. Pending(t)' <=> Pending(t)
      BY <1>1, <1>7, <2>2 DEF Pending, Ahead, Slots
    <3>2. QED
      BY <1>1, <1>5, <1>7, <2>2, <3>1 DEF Triggers, Live, TypeOK
  <2>3. QED
    BY <2>1, <2>2
<1>13. QED
  BY <1>8, <1>9, <1>10, <1>11, <1>12

LEMMA NextIInv == IInv /\ [Next]_vars => IInv'
<1> SUFFICES ASSUME IInv, [Next]_vars PROVE IInv'
  OBVIOUS
<1>1. ASSUME NEW f \in Funcs, NEW ms \in Intervals, NEW rep \in Reps, MainAdd(f, ms, rep)
      PROVE  IInv'
  BY <1>1, MainIInv
<1>2. ASSUME NEW ms \in Sleeps, StartPass(ms) PROVE IInv'
  BY <1>2, StartPassIInv
<1>3. CASE EnterLoop BY <1>3, EnterLoopIInv
<1>4. CASE SkipSlot  BY <1>4, SkipSlotIInv
<1>5. CASE CountDown BY <1>5, CountDownIInv
<1>6. CASE Execute   BY <1>6, ExecuteIInv
<1>7. CASE CallOp    BY <1>7, CallOpIInv
<1>8. CASE Return    BY <1>8, ReturnIInv
<1>9. CASE EndPass   BY <1>9, EndPassIInv
<1>10. CASE UNCHANGED vars
  BY <1>10 DEF vars, table, control, IInv, TypeOK, FindsOnlyLive, RunsAsOften, Timing,
               Triggers, ToTakeOff, LastRun, Live, Pending, Ahead
<1>11. ASSUME NEW ms \in Takes, Work(ms) PROVE IInv'
  BY <1>11, WorkIInv
<1>12. QED
  BY <1>1, <1>2, <1>3, <1>4, <1>5, <1>6, <1>7, <1>8, <1>9, <1>10, <1>11 DEF Next

\* The scheduler's invariant holds in every state the firmware reaches, for a
\* table of any size and whatever the callbacks do to it.
THEOREM SchedulerInvariant == Spec => []IInv
<1>1. QED
  BY InitIInv, NextIInv, PTL DEF Spec

-----------------------------------------------------------------------------
(* What callers were promised.                                             *)

\* Type correctness of the table and the loop.
THEOREM TypeCorrect == Spec => []TypeOK
<1>1. IInv => TypeOK
  BY DEF IInv
<1>2. QED
  BY <1>1, SchedulerInvariant, PTL

\* eventFind, eventFindCount and eventAdd agree on which slots are in use.
THEOREM LookupsAgree == Spec => []FindsOnlyLive
<1>1. IInv => FindsOnlyLive
  BY DEF IInv
<1>2. QED
  BY <1>1, SchedulerInvariant, PTL

\* An event runs exactly as often as was asked.
THEOREM RepetitionIsExact == Spec => []RunsAsOften
<1>1. IInv => RunsAsOften
  BY DEF IInv
<1>2. QED
  BY <1>1, SchedulerInvariant, PTL

\* No event runs early, but by the time that was taken off for what had gone
\* by before it was armed: the pass so far, and the sample still to come.
THEOREM NoEarlyRun == Spec => []NeverEarly
<1>1. IInv => NeverEarly
  <2> SUFFICES ASSUME IInv, AtSlot(i), Live(i), Due(i) PROVE wait[i] <= early[i]
    BY DEF NeverEarly
  <2>1. Pending(i) /\ ~LastRun(i) /\ i \in Slots
    BY DEF AtSlot, Pending, LastRun, IInv, TypeOK
  <2>2. /\ events[i].timeLeft \in Nat /\ events[i].timeLeft <= sample
        /\ wait[i] \in Nat /\ early[i] \in Nat /\ sample \in Nat /\ spent \in Nat
    BY <2>1 DEF IInv, TypeOK, Due
  <2>3. CASE wait[i] = 0
    BY <2>2, <2>3
  <2>4. CASE wait[i] > 0
    <3>1. wait[i] + (spent + sample) <= events[i].timeLeft + early[i]
      BY <2>1, <2>4 DEF IInv, Timing, ToTakeOff
    <3>2. QED
      BY <2>2, <3>1
  <2>5. QED
    BY <2>2, <2>3, <2>4
<1>2. QED
  BY <1>1, SchedulerInvariant, PTL

\* A trigger is answered in the pass under way or in the next.
THEOREM TriggersAreAnswered == Spec => []TriggerAnswered
<1>1. IInv => TriggerAnswered
  BY DEF IInv, TypeOK, Triggers, TriggerAnswered, Pending, Ahead
<1>2. QED
  BY <1>1, SchedulerInvariant, PTL
=============================================================================
