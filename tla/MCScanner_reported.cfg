\* A game that keeps running, and another that comes and goes.
SPECIFICATION FairSpec
CONSTANTS
  None = None
  a1 = a1
  a2 = a2
  p1 = p1
  p2 = p2
  p3 = p3
  Pids = {p1, p2}
  Apps = {a1, a2}
  AppOf <- TwoGames
  Ignored = {}
  Watching = TRUE
  Racing = TRUE
  Manual = FALSE
  Freezable = {p1}
  MaxEvents = 1
INVARIANT WakeIsNotLost
PROPERTY RunningIsReported
