\* One server, two Closes.
SPECIFICATION SocketsFairSpec
CONSTANTS
  s1 = s1
  s2 = s2
  g1 = g1
  g2 = g2
  Servers = {s1}
  Games = {g1, g2}
  MaxIndex = 1
  Serial = TRUE
  MaxListeners = 3
  MaxQuits = 0
  MaxCloses = 2
  None = None
  Knock = Knock
\* The listeners may run out.
CHECK_DEADLOCK FALSE
PROPERTY AlwaysServed
