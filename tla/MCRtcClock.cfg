SPECIFICATION ClockSpec
CONSTANTS
  HOURS = 2
  MINUTES = 2
  SECONDS = 2
  Starts <- Cycle
  DateInputs <- DatesTyped
  TimeInputs <- TimesTyped
  LastYear = 4
INVARIANTS
  ClockIsReal
PROPERTIES
  CountsSeconds
CHECK_DEADLOCK FALSE
