\* Publishing by copying and in place, with aborts and one crash.
CONSTANTS
  SLOT_MOD = 2
  TAG_MOD = 4
  Readers = {r1}
  SlotCount = 2
  Capacity = 1
  Unit = {0, 1, 2}
  Zero = 0
  Payloads <- OnePayload
  AppUnits = {2}
  AppLens = {1}
  BufSizes = {1}
  RandomGens = {14}
  NoNotify = FALSE
  READ_RETRIES = 2
  MaxOpens = 2
  MaxCommits = 3
SPECIFICATION Spec
INVARIANTS LatestStable
PROPERTIES ReadIsAtomic IsRegister ChangeDetected
