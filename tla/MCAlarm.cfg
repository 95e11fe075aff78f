SPECIFICATION Spec
CONSTANTS
  HOURS = 4
  MINUTES = 2
  SECONDS = 2
  Starts <- NewYear
  AlarmStarts <- Loaded
  DateInputs <- Typed
  TimeInputs <- Hours
  LastDay <- NewYearsEnd
INVARIANTS
  AlarmTimeKept
  MissesAtMostOne
PROPERTY
  AlarmStaysReal
