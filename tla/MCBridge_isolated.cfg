\* Two slots, each handled one frame or event at a time, with the refresh thread.
SPECIFICATION FairSpec
CONSTANTS
  None = None
  a1 = a1
  a2 = a2
  a3 = a3
  g1 = g1
  g2 = g2
  g3 = g3
  p1 = p1
  p2 = p2
  Zero = Zero
  Apps = {a1, a2}
  Games = {g1, g2}
  Companions = {p1, p2}
  Bodies = {b1}
  DetectedAs <- TwoSlotsDetected
  AppsOf <- TwoSlotsApps
  ChannelOf <- SplitChannels
  Abrupt = {p1}
  Mortal = {g1, g2}
  Connected = TRUE
  Refreshing = TRUE
  Overlap = FALSE
  MaxQueue = 1
  MAX_HANDOFF_ENTRIES = 4
  MAX_CACHED_ACTIVITIES = 8
INVARIANT CardsAgree
PROPERTY GenericReturns
