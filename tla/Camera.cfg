SPECIFICATION Spec
CONSTANTS
  Tasks = {t1, t2}
  NoTask = NoTask
INVARIANTS
  OneCaptureTask
  BufferHasOneOwner
PROPERTIES
  LostOnlyByDelete
  StateDivergesByOverlap
  OnlyStopRecovers
