----------------------------- MODULE FileFormat -----------------------------
(***************************************************************************)
(* The geometry of a data file, and the two programs that judge a file     *)
(* they did not write: the library when it attaches or reads               *)
(* (src/src/state.c) and psmsgr-dump (src/tools/psmsgr-dump.c).  The magic *)
(* number and the major version of a header are ours or not: Booleans.     *)
(*                                                                         *)
(* A definition X_Change that comes before X is X with a plausible mistake *)
(* in it; PROJECT.json says which property notices.                        *)
(***************************************************************************)
EXTENDS Layout, SequencesExt


CONSTANTS
  PSMI_HEADER_SIZE, PSMI_SLOT_HEADER_SIZE, PSMI_SLOT_ALIGN, PSMI_MIN_SLOTS, PSMI_MAX_SLOTS,
  PSMSGR_STATE_MAX_CAPACITY

ASSUME FormatAssumption ==
  /\ PSMI_HEADER_SIZE \in Nat
  /\ PSMI_SLOT_HEADER_SIZE \in Nat
  /\ PSMI_SLOT_ALIGN \in Nat \ {0}
  /\ PSMI_MIN_SLOTS \in Nat
  /\ PSMI_MAX_SLOTS \in Nat
  /\ PSMSGR_STATE_MAX_CAPACITY \in Nat
  /\ PSMI_SLOT_HEADER_SIZE + PSMSGR_STATE_MAX_CAPACITY + PSMI_SLOT_ALIGN <= U32_MOD

Header == [magic : BOOLEAN, version_major : BOOLEAN, header_size : U32, slot_header_size : U32,
           slot_count : U32, slot_stride : U32, capacity : U32]

\* The sum is a uint32_t; the mask clears the bits below PSMI_SLOT_ALIGN.
psmi_slot_stride(capacity) ==
  LET sum == (PSMI_SLOT_HEADER_SIZE + capacity + PSMI_SLOT_ALIGN - 1) % U32_MOD
  IN sum - (sum % PSMI_SLOT_ALIGN)

psmi_file_size(slot_count, slot_stride) == PSMI_HEADER_SIZE + slot_count * slot_stride

NewHeader_Unaligned(capacity, slot_count) ==
  [magic |-> TRUE, version_major |-> TRUE, header_size |-> PSMI_HEADER_SIZE,
   slot_header_size |-> PSMI_SLOT_HEADER_SIZE, slot_count |-> slot_count,
   slot_stride |-> PSMI_SLOT_HEADER_SIZE + capacity, capacity |-> capacity]

\* What create_file stores.
NewHeader(capacity, slot_count) ==
  [magic |-> TRUE, version_major |-> TRUE, header_size |-> PSMI_HEADER_SIZE,
   slot_header_size |-> PSMI_SLOT_HEADER_SIZE, slot_count |-> slot_count,
   slot_stride |-> psmi_slot_stride(capacity), capacity |-> capacity]

header_valid_AnyCapacity(h, file_bytes) ==
  /\ h.magic
  /\ h.version_major
  /\ h.header_size = PSMI_HEADER_SIZE
  /\ h.slot_header_size = PSMI_SLOT_HEADER_SIZE
  /\ h.slot_count \in PSMI_MIN_SLOTS .. PSMI_MAX_SLOTS
  /\ h.slot_stride = psmi_slot_stride(h.capacity)
  /\ psmi_file_size(h.slot_count, h.slot_stride) <= file_bytes

header_valid(h, file_bytes) ==
  /\ h.magic
  /\ h.version_major
  /\ h.header_size = PSMI_HEADER_SIZE
  /\ h.slot_header_size = PSMI_SLOT_HEADER_SIZE
  /\ h.slot_count \in PSMI_MIN_SLOTS .. PSMI_MAX_SLOTS
  /\ h.capacity <= PSMSGR_STATE_MAX_CAPACITY
  /\ h.slot_stride = psmi_slot_stride(h.capacity)
  /\ psmi_file_size(h.slot_count, h.slot_stride) <= file_bytes

\* What read_latest returns for the named slot, with sequence number seq and
\* length n, while nobody writes.
ReadVerdict(h, latest, seq, n) ==
  IF latest = PSMI_LATEST_NONE THEN "NODATA"
  ELSE IF ~psmi_latest_valid(latest, h.slot_count) THEN "FORMAT"
  ELSE IF seq % 2 = 1 \/ psmi_latest(psmi_latest_slot(latest), seq) # latest THEN "BUSY"
  ELSE IF n > h.capacity THEN "FORMAT" ELSE "OK"

-----------------------------------------------------------------------------
(* psmsgr-dump. *)

\* The problems that header_problem looks for, in its order.
Problems(h, file_bytes) ==
  << ~h.magic,
     ~h.version_major,
     h.header_size # PSMI_HEADER_SIZE,
     h.slot_header_size # PSMI_SLOT_HEADER_SIZE,
     h.slot_count < PSMI_MIN_SLOTS \/ h.slot_count > PSMI_MAX_SLOTS,
     h.capacity > PSMSGR_STATE_MAX_CAPACITY,
     h.slot_stride # psmi_slot_stride(h.capacity),
     psmi_file_size(h.slot_count, h.slot_stride) > file_bytes >>

\* The number of the first problem, 0 for none.
header_problem(h, file_bytes) == SelectInSeq(Problems(h, file_bytes), LAMBDA p : p)

print_latest_Unsigned(h, latest, seq, n) ==
  IF latest = PSMI_LATEST_NONE THEN "none"
  ELSE IF psmi_latest_slot(latest) >= h.slot_count THEN "INVALID"
  ELSE IF seq % 2 = 1 \/ psmi_latest(psmi_latest_slot(latest), seq) # latest THEN "STALE"
  ELSE IF n > h.capacity THEN "INVALID" ELSE "ok"

print_latest(h, latest, seq, n) ==
  IF latest = PSMI_LATEST_NONE THEN "none"
  ELSE IF ~psmi_latest_valid(latest, h.slot_count) THEN "INVALID"
  ELSE IF seq % 2 = 1 \/ psmi_latest(psmi_latest_slot(latest), seq) # latest THEN "STALE"
  ELSE IF n > h.capacity THEN "INVALID" ELSE "ok"

-----------------------------------------------------------------------------

SlotAt(h, i) == PSMI_HEADER_SIZE + i * h.slot_stride

\* A file whose header is accepted holds all its slots: each begins behind the
\* header, and its header and payload end before the next one and the end of
\* the file.  Readers and the writer access nothing else through the mapping.
SlotsFit(h, file_bytes) ==
  \A i \in 0 .. (h.slot_count - 1) :
    /\ SlotAt(h, i) >= PSMI_HEADER_SIZE
    /\ SlotAt(h, i) + PSMI_SLOT_HEADER_SIZE + h.capacity <= SlotAt(h, i + 1)
    /\ SlotAt(h, i + 1) <= file_bytes
=============================================================================
