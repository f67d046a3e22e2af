\* Narrow words and a long run: seq, tag, generation and notify wrap around.
CONSTANTS
  SLOT_MOD = 2
  TAG_MOD = 2
  Readers = {r1}
  SlotCount = 2
  Capacity = 1
  Unit = {0, 1}
  Zero = 0
  Payloads <- OnePayload
  AppUnits = {}
  AppLens = {}
  BufSizes = {0}
  RandomGens = {6}
  NoNotify = FALSE
  READ_RETRIES = 2
  MaxOpens = 1
  MaxCommits = 9
SPECIFICATION LiveSpec
INVARIANTS TypeOK
PROPERTIES NeverOlder ReadReturns BusyOnlyIfLapped
