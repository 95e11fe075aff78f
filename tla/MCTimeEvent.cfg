SPECIFICATION FairSpec
CONSTANTS
  EVENT_MAX = 2
  Funcs = {f, g}
  f = f
  g = g
  NULL = NULL
  Intervals = {1, 3}
  Reps = {0, 1, 2}
  Sleeps = {0, 2}
  Takes = {2}
  TimerRange = 4
  Ops <- AllOps
  MaxOps = 1
INVARIANTS
  TypeOK
  FindsOnlyLive
  RunsAsOften
  NeverEarly
  TriggerAnswered
  IInv
PROPERTIES
  Served
