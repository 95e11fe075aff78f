SPECIFICATION FairSpec
CONSTANTS
  Size = 2
  Header = 2
  PositionRange = 4
  Texts <- Longer
  MaxTyped = 2
  MaxHits = 1
  MaxEvents = 2
INVARIANTS
  DataEndpointReady
  IInv
PROPERTIES
  KeyIsFirst
  MainReturns
  PacketReleased
  Enumerates
