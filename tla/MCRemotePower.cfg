SPECIFICATION FairSpec
CONSTANTS
  numberTotal = 6
  Masks <- FirmwareMasks
  Keys <- AllKeys
  ChannelBits = 4
INVARIANTS
  EveryDeviceOnce
  NothingLeftOver
  BufferedWhole
  IInv
PROPERTIES
  OutageSafe
  ComesBack
