SPECIFICATION Spec
CONSTANTS
  s1 = s1
  s2 = s2
  g1 = g1
  g2 = g2
  Servers = {s1, s2}
  Games = {g1, g2}
  MaxIndex = 1
  Serial = TRUE
  MaxListeners = 5
  MaxQuits = 2
  MaxCloses = 2
  None = None
  Knock = Knock
  w1 = w1
  w2 = w2
  n1 = n1
  n2 = n2
  q1 = q1
  q2 = q2
  NoWsPid = NoWsPid
  WsApps = {n1, n2}
  WsPids = {q1, q2}
  FirstPort = 0
  LastPort = 1
  HeldPorts <- HeldFirst
  SetActivityOn = TRUE
  SecondaryOn = TRUE
  WsClients = {w1, w2}
  WsCommands <- FewCards
  WsQueries <- FewQueries
  MaxSaid = 2
  Modulus = 8
  ROUNDS = 3
  MaxInFlight = 2
  Cpus = {k1, k2}
  FirstSeqs = {6}
  MaxBatch = 2
  MaxMessages = 4
  Restarting = FALSE
  Libraries = {home, disk1, stray}
  Home = home
  Listable = {disk1}
  Mounts = {stray}
  Installs = {d1}
  ProtonPrefixes = {}
  AppIds = {i1}
  Custom = TRUE
  PROBE = 2
  RacingScan = FALSE
  MaxClock = 3
  Tokens <- MCTokens
  Native = "linux"
  MinLength = 3
  Digits = {"10", "40", "60"}
  ShortcutIds = {"sc"}
  Excluded <- MCExcluded
  InstallDirs <- MCInstallDirs
  Processes <- MCProcesses
  Databases <- MCDatabases
CHECK_DEADLOCK FALSE
INVARIANT IntakeTypeOK
INVARIANT AllFound
INVARIANT HitIsRight
INVARIANT CardsMirrorClients
INVARIANT AnsweredInOrder
INVARIANT MissedIsLost
INVARIANT IndexIsCurrent
PROPERTY LiveLeftAlone
 
PROPERTY WatchDecides
PROPERTY SteamSettles
