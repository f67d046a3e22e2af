------------------------------- MODULE Layout -------------------------------
(***************************************************************************)
(* The 32-bit words of a state channel data file: how header.latest packs  *)
(* a slot index with the version of that slot, and how a generation is     *)
(* followed by the next one (src/src/layout.h, src/src/state.c).           *)
(*                                                                         *)
(* The widths are parameters.  The code has SLOT_MOD = 2^4 (bits 0-3 of    *)
(* `latest') and TAG_MOD = 2^27 (bits 4-30); with the spare bit 31 they    *)
(* make up the 32-bit word, so a uint32_t is a number modulo U32_MOD.      *)
(***************************************************************************)
EXTENDS Integers

CONSTANTS
  SLOT_MOD,   \* PSMI_LATEST_SLOT_MASK + 1
  TAG_MOD     \* PSMI_LATEST_TAG_MASK + 1

ASSUME LayoutAssumption == /\ SLOT_MOD \in Nat \ {0}
                           /\ TAG_MOD \in Nat \ {0}

\* Bits 0-30 of a word, and the whole word: what a uint32_t counts modulo.
LATEST_MOD == TAG_MOD * SLOT_MOD
U32_MOD == 2 * LATEST_MOD
U32 == 0 .. (U32_MOD - 1)

PSMI_LATEST_NONE == U32_MOD - 1

\* header.latest for slot i committed with the (even) seq.
psmi_latest(i, seq) == ((seq \div 2) % TAG_MOD) * SLOT_MOD + i

psmi_latest_slot(latest) == latest % SLOT_MOD

psmi_latest_valid(latest, slot_count) ==
  \/ latest = PSMI_LATEST_NONE
  \/ latest < LATEST_MOD /\ psmi_latest_slot(latest) < slot_count

\* 0 is never a valid generation.
Generation == 1 .. (U32_MOD - 1)
next_generation(gen) == IF gen = U32_MOD - 1 THEN 1 ELSE gen + 1
=============================================================================
