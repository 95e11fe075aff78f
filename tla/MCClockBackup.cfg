SPECIFICATION Spec
CONSTANTS
  HOURS = 24
  MINUTES = 60
  SECONDS = 60
  Starts <- Evenings
  DateInputs <- DatesTyped
  TimeInputs <- TimesTyped
  MaxTicks = 3
  MaxCuts = 2
INVARIANTS
  LoadedClockRuns
PROPERTIES
  TornClockNear
CHECK_DEADLOCK FALSE
