SPECIFICATION SequenceSpec
CONSTANTS
  numberTotal = 4
  PinBits = 2
  Bein <- SecondAndLast
INVARIANTS
  IInv
  EveryDeviceTwice
  Restored
