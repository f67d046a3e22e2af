SPECIFICATION Spec
CONSTANTS
  Procs = {p1, p2}
  Readers = {}
  Inodes = {i1, i2}
  None = None
  Geoms = {ga, gb}
  NoNotify = {}
  LeftBehind = {"ok", "minor", "retired", "foreign"}
  Crashes = TRUE
  Faults = {"writers"}
  Rm = TRUE
  MaxFiles = 2
  MaxValues = 2
  Calls = {}
  ATTACH_RETRIES = 2
  Lap = 2
  Timed = {}
SYMMETRY Symmetry
INVARIANTS WriterKeepsFile CreateIsAtomic
PROPERTIES GenerationsDiffer LockSpec
