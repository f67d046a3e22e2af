SPECIFICATION LiveSpec
CONSTANTS
  Procs = {p1}
  Readers = {r1}
  Inodes = {i1}
  None = None
  Geoms = {ga}
  NoNotify = {}
  LeftBehind = {"minor"}
  Crashes = FALSE
  Faults = {"readers"}
  Rm = TRUE
  MaxFiles = 2
  MaxValues = 2
  Calls = {"wait", "alive"}
  ATTACH_RETRIES = 2
  Lap = 1
  Timed = {TRUE}
INVARIANTS NoLostWakeUp ReplacedIsRetired
PROPERTIES WaitReturns
