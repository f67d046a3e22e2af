SPECIFICATION Spec
CONSTANTS
  slot_count = 2
  READ_RETRIES = 2
  MaxBegins = 5
INVARIANTS OrderedReadIsAtomic SleepKnows
PROPERTY OrderedNeverOlder
CHECK_DEADLOCK FALSE
