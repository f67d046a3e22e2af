SPECIFICATION ProgramsLive
CONSTANTS
  Procs = {p1}
  Readers = {r1}
  Inodes = {i1}
  None = None
  Geoms = {ga, gb, gn}
  NoNotify = {gn}
  LeftBehind = {"ok", "bad", "corrupt"}
  Crashes = FALSE
  Faults = {}
  Rm = FALSE
  MaxFiles = 2
  MaxValues = 2
  Calls = {"read", "describe", "wait", "alive"}
  ATTACH_RETRIES = 2
  Lap = 1
  Timed = {TRUE}
  ga = ga
  gb = gb
  gn = gn
  Setups <- MotorAndWatch
  MotorGeoms = {ga}
  SameLength = {ga, gb}
  BUSY_RETRIES = 2
PROPERTIES PrintedInOrder PrintsOwnType StopEnds WatchShowsValue
