\* Two pids; every EXEC is delivered.
SPECIFICATION MemoSpec
CONSTANTS
  p1 = p1
  p2 = p2
  i1 = i1
  i2 = i2
  ProcessIds = {p1, p2}
  Ids = {i1}
  NoId = NoId
  Gone = Gone
  Stale = Stale
  None = None
  Lossy = FALSE
  Forking = FALSE
  MaxSeq = 2
  MaxQueue = 1
SYMMETRY Symmetric
INVARIANT MemoTypeOK
INVARIANT NoStaleId
