SPECIFICATION Spec
CONSTANTS
  Procs = {p1}
  Readers = {r1}
  Inodes = {i1}
  None = None
  Geoms = {ga, gb}
  NoNotify = {}
  LeftBehind = {"absent"}
  Crashes = TRUE
  Faults = {}
  Rm = FALSE
  MaxFiles = 2
  MaxValues = 2
  Calls = {"read"}
  ATTACH_RETRIES = 2
  Lap = 2
  Timed = {}
INVARIANTS ReplacedIsRetired
