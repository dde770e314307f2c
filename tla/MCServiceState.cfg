SPECIFICATION ServiceSpec
CONSTANTS
  c1 = c1
  c2 = c2
  t1 = t1
  t2 = t2
  NoFix = NoFix
  NoCall = NoCall
  Worlds <- MCWorlds
  MaxReplies = 2
  MaxSleeps = 2
  GeoCall = {c1, c2}
  Task = {t1, t2}
  Files <- MCFiles
  Setting = {"gps", "network", "passive"}
  MaxStatus = 2
  Report <- MCReport
  Origin = {"equator"}
  MaxTime = 3
  Ages = {0, 1}
SYMMETRY Symmetry
INVARIANTS
  ServiceTypeOK
  
  NoConnectionOfTheDead
  KnownWhenQuiet
  OneResumePerSleep
  MessagesAreKept
  SettingsAgree
  EngineKnown
  FilesAreKept
PROPERTIES
  NeverBackInTime
CHECK_DEADLOCK FALSE
