SPECIFICATION Spec
CONSTANTS
  SLOT_MOD = 4
  TAG_MOD = 32
  PSMI_HEADER_SIZE = 8
  PSMI_SLOT_HEADER_SIZE = 5
  PSMI_SLOT_ALIGN = 4
  PSMI_MIN_SLOTS = 2
  PSMI_MAX_SLOTS = 4
  PSMSGR_STATE_MAX_CAPACITY = 16
  PSMSGR_STATE_DEFAULT_SLOTS = 3
  PSMSGR_NAME_MAX = 20
  Chars <- Lengths
  BadWords = {"b/d"}
  Names <- ShortNames
  TmpSuffixes = {"sixchr", "SIXCHR"}
  OneName <- One
  Sizes = {0, 3, 4, 6, 8, 10, 16, 23, 24, 28, 31, 32, 40}
  Capacities = {1, 16, 17}
  SlotCounts = {1, 2, 4, 5}
  Edges = {0, 1, 2, 4, 5, 7, 8, 12, 16, 17, 24, 56, 250, 251, 252, 255}
  MaxDamage = 2
INVARIANTS OptionsHonoured CreatedIsAccepted SlotsInside DumpAgrees
PROPERTY SweepSpares
CHECK_DEADLOCK FALSE
