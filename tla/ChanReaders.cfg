SPECIFICATION Spec
CONSTANTS
  Procs = {p1, p2}
  Readers = {r1}
  Inodes = {i1, i2}
  None = None
  Geoms = {ga}
  NoNotify = {}
  LeftBehind = {"absent", "corrupt"}
  Crashes = FALSE
  Faults = {}
  Rm = FALSE
  MaxFiles = 2
  MaxValues = 2
  Calls = {"read", "describe"}
  ATTACH_RETRIES = 2
  Lap = 1
  Timed = {}
SYMMETRY Symmetry
PROPERTIES NeverOlder AttachedMarksNewFile
