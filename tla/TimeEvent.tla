----------------------------- MODULE TimeEvent -----------------------------
(***************************************************************************)
(* The cooperative scheduler of the firmware (timeEvent.c): a table of     *)
(* EVENT_MAX slots, the functions that edit it, and the loop that makes a  *)
(* pass over the table after every wake-up and calls what is due.  A pass  *)
(* takes one step per slot, because the callbacks it makes edit the very   *)
(* table that is being scanned.                                            *)
(*                                                                         *)
(* Time goes by while callbacks run and while the processor sleeps.  What  *)
(* a pass takes off the countdowns is the time since the pass before it    *)
(* began, as a 16-bit timer has counted it.                                *)
(*                                                                         *)
(* Four history variables (wait, early, owed, trig) record what the        *)
(* callers were promised; the code does not have them.                     *)
(***************************************************************************)
EXTENDS Integers

CONSTANTS
  EVENT_MAX,  \* slots of the table (20 in the firmware)
  Funcs,      \* the functions that are registered as callbacks
  NULL,       \* the null function pointer of a cleared slot
  Intervals,  \* intervals and delays, in ms, that callers ask for
  Reps,       \* repetition counts that callers ask for (0: forever)
  Sleeps,     \* ms that the processor may sleep between two passes
  Takes,      \* ms that a callback may take from one of its steps to the next
  TimerRange, \* ms after which TC_CPU.CNT starts again (174)
  Ops,        \* table functions the callbacks use
  MaxOps      \* bound: calls of table functions made by one callback

OpNames == {"eventAdd", "eventRemove", "eventTimerRestart", "eventTimerTrigger",
            "eventSetTimeleft", "eventSetInterval", "eventSetRepeation"}

ASSUME EventMaxAssumption  == EVENT_MAX \in Nat \ {0}
ASSUME FuncsAssumption     == NULL \notin Funcs
ASSUME IntervalsAssumption == Intervals \subseteq Nat \ {0}
ASSUME RepsAssumption      == Reps \subseteq Nat
ASSUME TimerAssumption ==
  Sleeps \subseteq Nat /\ Takes \subseteq Nat \ {0} /\ TimerRange \in Nat \ {0}
ASSUME OpsAssumption       == Ops \subseteq OpNames /\ MaxOps \in Nat

VARIABLES
  events,               \* the table
  pc,      \* "main", "sleep", "scan"; in a callback "call", or "lastcall" when
           \* isContinueExecution is false: the event makes its last run
  i,       \* the slot the pass is at
  sample,  \* cpu_total_sample of the pass: ms since the one before it began
  spent,   \* ms that TC_CPU has counted of the pass, the first part of the next sample
  ops,     \* table functions the running callback has called
  wait,   \* history: ms a slot must still wait, counted from its last arming; 0 at least
  early,  \* history: ms by which that arming was backdated
  owed,   \* history: runs a slot still owes its caller
  trig    \* history: passes begun since a trigger not yet answered, plus one

table   == <<events, wait, early, owed, trig>>
control == <<pc, i, sample, spent>>
vars    == <<table, control, ops>>

Slots   == 0 .. EVENT_MAX - 1
Forever == 128  \* what a slot with repeation 0 owes
Cleared == [funcPtr |-> NULL, interval |-> 0, timeLeft |-> 0, repeation |-> 0]

Live(t) == events[t].interval # 0
Free    == {t \in Slots : ~Live(t)}
First(S, t) == t \in S /\ \A u \in S : t <= u

\* eventFind: the first slot with this function pointer, in use or not.
Found(f) == {t \in Slots : events[t].funcPtr = f}

\* The pass has yet to reach slot t, and will take its sample off it.
Calling  == pc \in {"call", "lastcall"}
Ahead(t) == Calling /\ t > i

\* The callback of slot t is making its last run.
LastRun(t) == pc = "lastcall" /\ i = t

Owes(n) == IF n = 0 THEN Forever ELSE n

-----------------------------------------------------------------------------
(* The functions that edit the table.                                      *)

\* What will be taken off slot t for time that has gone by already: the pass
\* under way so far, and the time before it if the pass has yet to reach t.
Backdated(t) == spent + IF Ahead(t) THEN sample ELSE 0

Arm(t, ms, isTrigger) ==
  /\ wait'  = [wait EXCEPT ![t] = ms]
  /\ early' = [early EXCEPT ![t] = Backdated(t)]
  /\ trig'  = [trig EXCEPT ![t] = IF isTrigger THEN 1 ELSE 0]

\* Mutant of Clear: a slot is given up by its interval alone.
ClearIntervalOnly(S) ==
  /\ events' = [t \in Slots |-> IF t \in S THEN [events[t] EXCEPT !.interval = 0]
                                          ELSE events[t]]
  /\ wait'   = [t \in Slots |-> IF t \in S THEN 0 ELSE wait[t]]
  /\ early'  = [t \in Slots |-> IF t \in S THEN 0 ELSE early[t]]
  /\ trig'   = [t \in Slots |-> IF t \in S THEN 0 ELSE trig[t]]

\* memset(&events[t], 0, sizeof * events)
Clear(S) ==
  /\ events' = [t \in Slots |-> IF t \in S THEN Cleared ELSE events[t]]
  /\ wait'   = [t \in Slots |-> IF t \in S THEN 0 ELSE wait[t]]
  /\ early'  = [t \in Slots |-> IF t \in S THEN 0 ELSE early[t]]
  /\ trig'   = [t \in Slots |-> IF t \in S THEN 0 ELSE trig[t]]

eventAdd(f, ms, rep) ==
  \/ Free = {} /\ UNCHANGED table                 \* "Event overflow error!"
  \/ \E t \in Slots :
       /\ First(Free, t)
       /\ events' = [events EXCEPT ![t] = [funcPtr |-> f, interval |-> ms,
                                           timeLeft |-> ms, repeation |-> rep % 128]]
       /\ owed' = [owed EXCEPT ![t] = Owes(rep % 128)]
       /\ Arm(t, ms, FALSE)

eventRemove(f) ==
  LET S == {t \in Slots : events[t].funcPtr = f /\ Live(t)}
  IN  Clear(S) /\ owed' = [t \in Slots |-> IF t \in S THEN 0 ELSE owed[t]]

eventTimerRestart(f) ==
  \/ Found(f) = {} /\ UNCHANGED table
  \/ \E t \in Slots :
       /\ First(Found(f), t)
       /\ events' = [events EXCEPT ![t].timeLeft = events[t].interval]
       /\ Arm(t, events[t].interval, FALSE)
       /\ UNCHANGED owed

eventTimerTrigger(f) ==
  \/ Found(f) = {} /\ UNCHANGED table
  \/ \E t \in Slots :
       /\ First(Found(f), t)
       /\ events' = [events EXCEPT ![t].timeLeft = 0]
       /\ Arm(t, 0, TRUE)
       /\ UNCHANGED owed

eventSetTimeleft(f, ms) ==
  \/ Found(f) = {} /\ UNCHANGED table
  \/ \E t \in Slots :
       /\ First(Found(f), t)
       /\ events' = [events EXCEPT ![t].timeLeft = ms]
       /\ Arm(t, ms, FALSE)
       /\ UNCHANGED owed

eventSetInterval(f, interval, ms) ==
  \/ Found(f) = {} /\ UNCHANGED table
  \/ \E t \in Slots :
       /\ First(Found(f), t)
       /\ events' = [events EXCEPT ![t].interval = interval, ![t].timeLeft = ms]
       /\ Arm(t, ms, FALSE)
       /\ UNCHANGED owed

eventSetRepeation(f, rep) ==
  \/ Found(f) = {} /\ UNCHANGED table
  \/ \E t \in Slots :
       /\ First(Found(f), t)
       /\ events' = [events EXCEPT ![t].repeation = rep % 128]
       /\ owed' = [owed EXCEPT ![t] = Owes(rep % 128)]
       /\ UNCHANGED <<wait, early, trig>>

-----------------------------------------------------------------------------
Init ==
  /\ events = [t \in Slots |-> Cleared]
  /\ pc = "main" /\ i = 0 /\ sample = 0 /\ spent = 0 /\ ops = 0
  /\ wait  = [t \in Slots |-> 0]
  /\ early = [t \in Slots |-> 0]
  /\ owed  = [t \in Slots |-> 0]
  /\ trig  = [t \in Slots |-> 0]

\* main: register the periodic events, then enter the loop for good.
MainAdd(f, ms, rep) ==
  /\ pc = "main"
  /\ Free # {}
  /\ eventAdd(f, ms, rep)
  /\ UNCHANGED <<control, ops>>

EnterLoop ==
  /\ pc = "main"
  /\ pc' = "sleep"
  /\ UNCHANGED <<table, i, sample, spent, ops>>

-----------------------------------------------------------------------------
(* eventControllerLoop and eventsPerform: one pass over the table.         *)

\* ms go by.
Passed(ms) == wait' = [t \in Slots |-> IF wait[t] > ms THEN wait[t] - ms ELSE 0]

Sample(ms) == spent + ms

\* An interrupt ends the sleep of ms.
StartPass(ms) ==
  /\ pc = "sleep"
  /\ pc' = "scan" /\ i' = 0 /\ sample' = Sample(ms) /\ spent' = 0
  /\ Passed(ms)
  /\ trig' = [t \in Slots |-> IF trig[t] > 0 THEN trig[t] + 1 ELSE 0]
  /\ UNCHANGED <<events, early, owed, ops>>

\* Mutants of Due: strictly less; and only when no time is left.
DueStrictly(t) == events[t].timeLeft < sample
DueAtZero(t)   == events[t].timeLeft = 0

Due(t) == events[t].timeLeft <= sample

AtSlot(t) == pc = "scan" /\ i = t /\ t \in Slots

\* Mutant of SkipSlot: "continue" in a while loop, which counts at its end.
SkipForever ==
  /\ AtSlot(i) /\ ~Live(i)
  /\ UNCHANGED vars

SkipSlot ==
  /\ AtSlot(i) /\ ~Live(i)
  /\ i' = i + 1
  /\ UNCHANGED <<table, pc, sample, spent, ops>>

\* A slot that is not due loses the elapsed time.
CountDown ==
  /\ AtSlot(i) /\ Live(i) /\ ~Due(i)
  /\ events' = [events EXCEPT ![i].timeLeft = @ - sample]
  /\ i' = i + 1
  /\ UNCHANGED <<wait, early, owed, trig, pc, sample, spent, ops>>

\* Mutant of CatchUp: the alternative commented out in eventsPerform.
CatchUpOnce(ev, elapsed) == ev.timeLeft + ev.interval - elapsed

\* do timeLeft += interval; while (timeLeft <= elapsed)
CatchUp(ev, elapsed) ==
  ev.timeLeft + ev.interval * (((elapsed - ev.timeLeft) \div ev.interval) + 1)

\* Mutant of Counted: an endless event is counted down too.
CountedAlways(rep) == (rep + 127) % 128

\* if (repeation >= 1) repeation--;
Counted(rep) == IF rep >= 1 THEN rep - 1 ELSE rep

\* A slot that is due: put off its next run, count this one, call funcPtr.
Execute ==
  /\ AtSlot(i) /\ Live(i) /\ Due(i)
  /\ LET ev   == events[i]
         cont == ev.repeation # 1
     IN  /\ pc' = IF cont THEN "call" ELSE "lastcall"
         /\ events' = [events EXCEPT
              ![i].timeLeft  = IF cont THEN CatchUp(ev, sample) ELSE @,
              ![i].repeation = Counted(@)]
  /\ owed'  = [owed EXCEPT ![i] = IF @ = Forever THEN @ ELSE @ - 1]
  /\ wait'  = [wait EXCEPT ![i] = events[i].interval]
  /\ early' = [early EXCEPT ![i] = Backdated(i)]
  /\ trig'  = [trig EXCEPT ![i] = 0]
  /\ ops' = 0
  /\ UNCHANGED <<i, sample, spent>>

\* The callback takes its time: a command of the infrared keys, a print.
Work(ms) ==
  /\ Calling
  /\ spent' = (spent + ms) % TimerRange
  /\ Passed(ms)
  /\ UNCHANGED <<events, early, owed, trig, pc, i, sample, ops>>

\* What a callback writes into its own slot during its last run is lost when
\* it returns; no callback of the firmware does that.
OwnSlotSpared(S) == pc = "lastcall" => ~First(S, i)

\* The callback edits the table.
CallOp ==
  /\ Calling /\ ops < MaxOps
  /\ \E f \in Funcs, ms \in Intervals :
       \/ "eventAdd" \in Ops /\ \E rep \in Reps :
            OwnSlotSpared(Free) /\ eventAdd(f, ms, rep)
       \/ "eventRemove" \in Ops /\ eventRemove(f)
       \/ "eventTimerRestart" \in Ops /\ eventTimerRestart(f)
       \/ "eventTimerTrigger" \in Ops /\ eventTimerTrigger(f)
       \/ "eventSetTimeleft" \in Ops /\ eventSetTimeleft(f, ms)
       \/ "eventSetInterval" \in Ops /\ eventSetInterval(f, ms, ms)
       \/ "eventSetRepeation" \in Ops /\ \E rep \in Reps :
            OwnSlotSpared(Found(f)) /\ eventSetRepeation(f, rep)
  /\ ops' = ops + 1
  /\ UNCHANGED control

\* The callback returns; the slot of a last run is cleared.
Return ==
  /\ \/ pc = "call" /\ UNCHANGED <<events, wait, early, trig>>
     \/ pc = "lastcall" /\ Clear({i})
  /\ pc' = "scan" /\ i' = i + 1 /\ ops' = 0
  /\ UNCHANGED <<owed, sample, spent>>

EndPass ==
  /\ pc = "scan" /\ i = EVENT_MAX
  /\ pc' = "sleep" /\ i' = 0 /\ sample' = 0
  /\ UNCHANGED <<table, spent, ops>>

Next ==
  \/ \E f \in Funcs, ms \in Intervals, rep \in Reps : MainAdd(f, ms, rep)
  \/ EnterLoop
  \/ \E ms \in Sleeps : StartPass(ms)
  \/ \E ms \in Takes : Work(ms)
  \/ SkipSlot \/ CountDown \/ Execute \/ CallOp \/ Return \/ EndPass

Spec == Init /\ [][Next]_vars

\* TCD0 interrupts every EVENT_REFRESH_TIME_MS, so passes that find time
\* elapsed keep coming; the loop and the callbacks keep running.
Fairness ==
  /\ WF_vars(EnterLoop)
  /\ SF_vars(\E ms \in Sleeps \ {0} : StartPass(ms))
  /\ WF_vars(SkipSlot \/ CountDown \/ Execute \/ EndPass)
  /\ WF_vars(Return)

FairSpec == Spec /\ Fairness

-----------------------------------------------------------------------------
(* Properties.                                                             *)

\* Type invariant of the table, the loop's variables and the history.
TypeOK ==
  /\ events \in [Slots -> [funcPtr : Funcs \cup {NULL}, interval : Nat,
                           timeLeft : Nat, repeation : 0 .. 127]]
  /\ pc \in {"main", "sleep", "scan", "call", "lastcall"}
  /\ i \in 0 .. EVENT_MAX
  /\ Calling => i \in Slots
  /\ sample \in Nat /\ spent \in 0 .. TimerRange - 1
  /\ ops \in 0 .. MaxOps
  /\ wait  \in [Slots -> Nat]
  /\ early \in [Slots -> Nat]
  /\ owed  \in [Slots -> 0 .. Forever]
  /\ trig  \in [Slots -> Nat]

\* eventFind and eventFindCount look at funcPtr alone and eventAdd at interval
\* alone: the two agree on which slots are in use, so an event that was
\* removed or has finished is never found, restarted or counted.
FindsOnlyLive == \A t \in Slots : Live(t) <=> events[t].funcPtr # NULL

\* eventsPerform runs an event exactly as often as its caller asked (main.cpp
\* lists "repeat off by 1" as a bug once fixed): the counter is the number of
\* runs still owed, and a slot is given up only when nothing is owed.
RunsAsOften ==
  \A t \in Slots : IF LastRun(t) THEN owed[t] = 0
                   ELSE /\ Live(t) <=> owed[t] # 0
                        /\ events[t].repeation = owed[t] % 128

\* eventsPerform runs an event too early only by what was taken off for time
\* before it was armed.  The timer is restarted at the beginning of a pass
\* (timeEvent.c:247): an event that is armed or run in a pass loses what the
\* callbacks had taken by then, and, if the pass comes to its slot later, the
\* sample of this pass too.  Nothing else shortens a delay, counted from the
\* last run, restart or registration, whatever edits follow.
NeverEarly == AtSlot(i) /\ Live(i) /\ Due(i) => wait[i] <= early[i]

\* "Change timeLeft to zero and trigger immediately": a triggered event runs in
\* the pass under way or in the one after it, whatever slot it is in.
TriggerAnswered ==
  \A t \in Slots : trig[t] <= 2 /\ (pc = "sleep" => trig[t] <= 1)

\* The time a slot has left covers what its caller was promised: with what the
\* pass under way will still take off an unvisited slot, what the next pass
\* will take off for this one, and what was backdated.
Pending(t) == (pc = "scan" /\ t >= i) \/ Ahead(t)

ToTakeOff(t) == spent + IF Pending(t) THEN sample ELSE 0

Timing ==
  \A t \in Slots : Live(t) /\ ~LastRun(t) /\ wait[t] > 0 =>
    wait[t] + ToTakeOff(t) <= events[t].timeLeft + early[t]

Triggers ==
  \A t \in Slots : /\ trig[t] > 0 => Live(t) /\ events[t].timeLeft = 0
                   /\ trig[t] <= IF Pending(t) THEN 2 ELSE 1

\* The inductive invariant: every edit of the table by a callback, at any point
\* of a pass, keeps the promises made to all the others.
IInv == TypeOK /\ FindsOnlyLive /\ RunsAsOften /\ Timing /\ Triggers

\* A callback puts the next run of slot t off.
PutOff(t) == CallOp /\ wait'[t] > 0 /\ wait'[t] > wait[t]

\* A registered event runs again and again, or is removed, whatever the other
\* callbacks do: unless they put it off again and again (menu.c:149 and 150
\* do this with every key; timeEvent.c:305-350).
Served ==
  \A t \in Slots : []<>(~Live(t) \/ (Calling /\ i = t)) \/ []<><<PutOff(t)>>_vars
=============================================================================
