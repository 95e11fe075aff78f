SPECIFICATION FairSpec
CONSTANTS
  numberTotal = 3
  Masks <- SomeMasks
  Keys <- SwitchOnly
  ChannelBits = 2
  Night <- FirstTwo
  Day = 24
  Minute = 3
  SavePeriod = 5
  T0300 = 3
  T0600 = 8
  T0610 = 12
  T1300 = 16
  T1900 = 20
  MaxTyped = 2
INVARIANTS
  TypeOK
  LosesLessThanPeriod
