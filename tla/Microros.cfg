SPECIFICATION FairSpec
CONSTANT Sizes <- MCSizes
INVARIANTS
  SyncInv
  PublishOnLiveSession
  BufferHoldsImage
  CleanRestart
PROPERTIES
  SessionSpec
  SessionNears
  Connects
