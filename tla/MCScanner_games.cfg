\* A game and its helper process share an application, and manual scans.
SPECIFICATION Spec
CONSTANTS
  None = None
  a1 = a1
  a2 = a2
  p1 = p1
  p2 = p2
  p3 = p3
  Pids = {p1, p2}
  Apps = {a1}
  AppOf <- WithHelper
  Ignored = {}
  Watching = TRUE
  Racing = FALSE
  Manual = TRUE
  Freezable = {p1}
  MaxEvents = 1
INVARIANT TypeOK
INVARIANT SentIsScanned
