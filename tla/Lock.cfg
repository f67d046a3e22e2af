SPECIFICATION LockLive
CONSTANTS
  Procs = {p1, p2, p3}
  Readers = {r1}
  Inodes = {i1, i2, i3}
  None = None
PROPERTIES LockReturns AliveSeesHolder
INVARIANTS OneHolder
