SPECIFICATION Spec
CONSTANTS
  None = None
  c1 = c1
  c2 = c2
  c3 = c3
  u1 = u1
  u2 = u2
  Clients = {c1, c2}
  PortOf <- MostlyJson
  FormatOf <- AsThePort
  ServedSockets = {s1}
  ServedCards = {k1}
  Casters = {"ipc"}
  Fields = {"username"}
  Values = {u1, u2}
  Startup <- FirstIdentity
  Controllers = {c1}
  MaxCasts = 2
  MaxControls = 1
  Daemons = {d1, d2}
  Writers = {"loop", "refresh"}
  Presences = {x}
  MAX_STATE_SLOTS = 2
  STATE_STALE = 1
  REFRESH_INTERVAL = 3
  Apart = TRUE
  Busy = TRUE
  Alone = TRUE
  MaxTime = 3
CHECK_DEADLOCK FALSE
INVARIANT OutletsTypeOK
INVARIANT TableKeepsUp
 
PROPERTY CardsReachClients
