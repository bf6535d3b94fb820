\* Two companions race for one slot on two event loops while its game is scanned.
SPECIFICATION Spec
CONSTANTS
  None = None
  a1 = a1
  a2 = a2
  a3 = a3
  g1 = g1
  g2 = g2
  g3 = g3
  p1 = p1
  p2 = p2
  Zero = Zero
  Apps = {a1}
  Games = {g1}
  Companions = {p1, p2}
  Bodies = {b1}
  DetectedAs <- OneSlotDetected
  AppsOf <- OneSlotApps
  ChannelOf <- SplitChannels
  Abrupt = {}
  Mortal = {}
  Connected = FALSE
  Refreshing = FALSE
  Overlap = TRUE
  MaxQueue = 1
  MAX_HANDOFF_ENTRIES = 2
  MAX_CACHED_ACTIVITIES = 4
INVARIANT TypeOK
INVARIANT OwnerStillWants
INVARIANT LastFrameCached
PROPERTY OwnershipImplemented
