\* API calls and rebuilds one at a time.
SPECIFICATION DetectFairSpec
CONSTANTS
  None = None
  Contents = {empty, bundled, newer, huge}
  NoGames = empty
  Bundled = bundled
  Unbuildable = {huge}
  Forms = {f1, f2}
  OverrideNames = {n1}
  PatternLists <- SomeLists
  MAX_PATTERN_BYTES = 4
  Racing = FALSE
  BlindStart = FALSE
CHECK_DEADLOCK FALSE
INVARIANT DetectTypeOK
 
PROPERTY NeverBlinded
PROPERTY DatabaseCatchesUp
