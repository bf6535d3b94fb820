\* Three applications compete for two owner slots and one replay slot.
SPECIFICATION Spec
CONSTANTS
  None = None
  a1 = a1
  a2 = a2
  a3 = a3
  g1 = g1
  g2 = g2
  g3 = g3
  p1 = p1
  p2 = p2
  Zero = Zero
  Apps = {a1, a2, a3}
  Games = {}
  Companions = {p1, p2}
  Bodies = {b1}
  DetectedAs <- OneSlotDetected
  AppsOf <- AllApps
  ChannelOf <- IpcOnly
  Abrupt = {}
  Mortal = {p1}
  Connected = FALSE
  Refreshing = FALSE
  Overlap = TRUE
  MaxQueue = 1
  MAX_HANDOFF_ENTRIES = 2
  MAX_CACHED_ACTIVITIES = 1
INVARIANT TablesBounded
PROPERTY LiveOwnersEvictedLast
