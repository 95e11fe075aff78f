SPECIFICATION FairSpec
CONSTANTS
  BUFSIZE = 3
  Requests <- Fitting
INVARIANTS
  IInv
  ReadyMeansIdle
PROPERTIES
  TransactionSafe
  Ends
