SPECIFICATION FairSpec
CONSTANTS
  Clients = {c1, c2}
  Nobody = Nobody
  QUEUE_LEN = 3
  HeapRoom = 8
INVARIANTS
  CopiesAccounted
  AbortsOnlyByLeak
PROPERTIES
  CaptureGoesOn
  StatusAnswered
