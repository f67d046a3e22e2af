------------------------- MODULE StateRingInvariant -------------------------
(***************************************************************************)
(* The inductive invariant of the ring, for any number of readers, slots   *)
(* and commits, any widths of the words and any payloads, and that every   *)
(* step of the writer preserves it.                                        *)
(*                                                                         *)
(* First come the facts about the packing of header.latest on which it     *)
(* rests: the slot index can be taken out again, the packed word is never  *)
(* PSMI_LATEST_NONE, and two versions of a slot that are less than TAG_MOD *)
(* commits apart are never packed into the same word.                      *)
(***************************************************************************)
EXTENDS StateRing, TLAPS

-----------------------------------------------------------------------------
(* Order of counters and timestamps. *)

\* A count that is not above another is not above its successor.
LEMMA LeSucc == \A a, b \in Nat : a <= b => a <= b + 1
OBVIOUS

\* An odd counter is not the even one before it.
LEMMA SuccDiffers == \A a \in Int : a + 1 # a
OBVIOUS

\* One more publish takes the writer no closer to a sample.
LEMMA MoreApart == \A a, b \in Nat, c \in Int : a - b >= c => (a + 1) - b >= c
OBVIOUS

\* The next version is above every version so far, and as far as was allowed.
LEMMA SuccAbove ==
  \A a, b, c \in Nat :
    a >= b /\ c = a + 1 /\ a + 1 - b < TAG_MOD => b < c /\ c - b < TAG_MOD /\ c # b
OBVIOUS

\* What is not newer than a value is not newer than its successor.
LEMMA LeLess == \A a, b, c \in Nat : a <= b /\ b < c => a <= c
OBVIOUS

-----------------------------------------------------------------------------
(* Division with remainder. *)

\* Quotient and remainder are in range and make up the number.
LEMMA DivMod ==
  ASSUME NEW a \in Nat, NEW M \in Nat, M >= 1
  PROVE  /\ a \div M \in Nat /\ a % M \in 0 .. (M - 1)
         /\ a = M * (a \div M) + (a % M)
OBVIOUS

\* The same, to pick quotient and remainder from.
LEMMA DivModExists ==
  ASSUME NEW a \in Nat, NEW M \in Nat, M >= 1
  PROVE  \E p \in Nat, r \in 0 .. (M - 1) : a = M * p + r /\ r = a % M
<1>1. a \div M \in Nat /\ a % M \in 0 .. (M - 1) /\ a = M * (a \div M) + (a % M)
  BY DivMod, Zenon
<1> QED BY <1>1, Zenon

\* Multiplication by a larger natural number gives no smaller a product.
LEMMA MulMono ==
  ASSUME NEW M \in Nat, NEW p \in Int, NEW q \in Int, p <= q
  PROVE  M * p <= M * q /\ M * p \in Int /\ M * q \in Int
OBVIOUS

\* Quotient and remainder are unique.
LEMMA Uniq ==
  ASSUME NEW M \in Nat, M >= 1, NEW p \in Nat, NEW q \in Nat,
         NEW r \in 0 .. (M - 1), NEW s \in 0 .. (M - 1),
         M * p + r = M * q + s
  PROVE  p = q /\ r = s
<1>1. CASE p < q
  <2>1. M * (p + 1) <= M * q
    BY <1>1, MulMono
  <2>2. M * (p + 1) = M * p + M
    OBVIOUS
  <2> QED BY <2>1, <2>2, MulMono
<1>2. CASE q < p
  <2>1. M * (q + 1) <= M * p
    BY <1>2, MulMono
  <2>2. M * (q + 1) = M * q + M
    OBVIOUS
  <2> QED BY <2>1, <2>2, MulMono
<1>3. CASE p = q
  <2>1. M * p = M * q /\ M * p \in Int
    BY <1>3, MulMono
  <2> QED BY <1>3, <2>1
<1> QED BY <1>1, <1>2, <1>3

\* A number written as M * p + r with a small r has remainder r.
LEMMA ModOf ==
  ASSUME NEW M \in Nat, M >= 1, NEW p \in Nat, NEW r \in 0 .. (M - 1),
         NEW a \in Nat, a = M * p + r
  PROVE  a % M = r /\ a \div M = p
<1>1. /\ a \div M \in Nat /\ a % M \in 0 .. (M - 1)
      /\ a = M * (a \div M) + (a % M)
  BY DivMod, Zenon
<1>2. \A x \in Nat, y \in 0 .. (M - 1) : a = M * x + y => x = p /\ y = r
  <2> TAKE x \in Nat, y \in 0 .. (M - 1)
  <2> HAVE a = M * x + y
  <2>1. M * x + y = M * p + r
    BY Zenon
  <2> QED BY <2>1, Uniq
<1> QED BY <1>1, <1>2, Zenon

\* Numbers less than M apart with the same remainder are equal.
LEMMA ModInj ==
  ASSUME NEW M \in Nat, M >= 1, NEW a \in Nat, NEW b \in Nat,
         a <= b, b - a < M, a % M = b % M
  PROVE  a = b
<1>1. PICK p \in Nat, r \in 0 .. (M - 1) : a = M * p + r /\ r = a % M
  BY DivModExists, Zenon
<1>2. PICK q \in Nat, s \in 0 .. (M - 1) : b = M * q + s /\ s = b % M
  BY DivModExists, Zenon
<1>3. r = s
  BY <1>1, <1>2, Zenon
<1>4. M * p \in Int /\ M * q \in Int
  BY MulMono
<1>5. CASE p < q
  <2>1. M * (p + 1) <= M * q
    BY <1>5, MulMono
  <2>2. M * (p + 1) = M * p + M
    OBVIOUS
  <2> QED BY <2>1, <2>2, <1>1, <1>2, <1>3, <1>4
<1>6. CASE q <= p
  <2>1. M * q <= M * p
    BY <1>6, MulMono
  <2> QED BY <2>1, <1>1, <1>2, <1>3, <1>4
<1> QED BY <1>5, <1>6

\* Adding one inside or outside the remainder makes no difference.
LEMMA ModSucc ==
  ASSUME NEW M \in Nat, M >= 1, NEW a \in Nat
  PROVE  ((a % M) + 1) % M = (a + 1) % M
<1>1. PICK p \in Nat, r \in 0 .. (M - 1) : a = M * p + r /\ r = a % M
  BY DivModExists, Zenon
<1>2. M * p \in Nat /\ M * 0 = 0 /\ M * 1 = M
  BY MulMono
<1>3. CASE r + 1 < M
  <2>1. r + 1 \in 0 .. (M - 1)
    BY <1>3
  <2>2. \A t \in 0 .. (M - 1), b \in Nat : b = M * p + t => b % M = t
    BY ModOf
  <2>3. a + 1 = M * p + (r + 1) /\ a + 1 \in Nat
    BY <1>1, <1>2
  <2>4. \A t \in 0 .. (M - 1) : t % M = t
    <3> TAKE t \in 0 .. (M - 1)
    <3>1. t = M * 0 + t
      BY <1>2
    <3> QED BY <3>1, ModOf
  <2>5. (a + 1) % M = r + 1
    BY <2>1, <2>2, <2>3, Zenon
  <2> QED BY <2>1, <2>4, <2>5, <1>1, Zenon
<1>4. CASE r + 1 = M
  <2>1. \A b \in Nat : b = M * (p + 1) + 0 => b % M = 0
    BY ModOf
  <2>2. \A x \in Nat : x = M * p => M * (p + 1) + 0 = x + M
    OBVIOUS
  <2>3. M * (p + 1) + 0 = M * p + M
    BY <2>2, <1>2, Zenon
  <2>4. a + 1 = M * p + M /\ a + 1 \in Nat
    BY <1>1, <1>2, <1>4
  <2>5. (a + 1) % M = 0
    BY <2>1, <2>3, <2>4, Zenon
  <2>6. M = M * 1 + 0
    BY <1>2
  <2>7. M % M = 0
    BY <2>6, ModOf
  <2> QED BY <2>5, <2>7, <1>4, <1>1, Zenon
<1> QED BY <1>1, <1>3, <1>4

\* Doubling commutes with taking remainders.
LEMMA DoubleMod ==
  ASSUME NEW K \in Nat, K >= 1, NEW v \in Nat
  PROVE  (2 * v) % (2 * K) = 2 * (v % K)
<1>1. PICK p \in Nat, r \in 0 .. (K - 1) : v = K * p + r /\ r = v % K
  BY DivModExists, Zenon
<1>2. 2 * r \in 0 .. ((2 * K) - 1) /\ 2 * K \in Nat /\ 2 * K >= 1 /\ 2 * v \in Nat
  OBVIOUS
<1>3. \A x \in Int : x = K * p => (2 * K) * p = 2 * x
  OBVIOUS
<1>4. K * p \in Int /\ (2 * K) * p = 2 * (K * p)
  BY <1>3, MulMono
<1>5. 2 * v = (2 * K) * p + 2 * r
  BY <1>1, <1>4
<1>6. \A M \in Nat : \A t \in 0 .. (M - 1), b \in Nat :
        M >= 1 /\ b = M * p + t => b % M = t
  BY ModOf
<1>7. (2 * v) % (2 * K) = 2 * r
  <2> DEFINE M == 2 * K  t == 2 * r  b == 2 * v
  <2>1. M \in Nat /\ M >= 1 /\ t \in 0 .. (M - 1) /\ b \in Nat /\ b = M * p + t
    BY <1>2, <1>5, Zenon
  <2> HIDE DEF M, t, b
  <2>2. b % M = t
    BY <1>6, <2>1, Zenon
  <2> QED BY <2>2, Zenon DEF M, t, b
<1> QED BY <1>1, <1>7, Zenon

\* A remainder modulo a multiple of T determines the one modulo T.
LEMMA ModMod ==
  ASSUME NEW T \in Nat, T >= 1, NEW S \in Nat, S >= 1, NEW v \in Nat
  PROVE  (v % (T * S)) % T = v % T
<1>1. PICK p \in Nat, r \in 0 .. (T - 1) : v = T * p + r /\ r = v % T
  BY DivModExists, Zenon
<1>2. PICK a \in Nat, b \in 0 .. (S - 1) : p = S * a + b /\ b = p % S
  BY DivModExists, Zenon
<1>3. T * b \in Nat /\ T * S \in Nat /\ T * S >= 1 /\ T * b + T <= T * S
  <2>1. T * (b + 1) <= T * S /\ T * 1 <= T * S
    BY MulMono
  <2>2. T * (b + 1) = T * b + T
    OBVIOUS
  <2>3. T * b \in Int /\ T * 0 <= T * b
    BY MulMono
  <2> QED BY <2>1, <2>2, <2>3
<1>4. T * p = (T * S) * a + T * b
  <2>1. T * (S * a + b) = T * (S * a) + T * b
    OBVIOUS
  <2>2. T * (S * a) = (T * S) * a
    OBVIOUS
  <2> QED BY <2>1, <2>2, <1>2, Zenon
<1>5. DEFINE c == T * b + r
<1>6. c \in 0 .. ((T * S) - 1) /\ c \in Nat
  BY <1>3
<1>7. (T * S) * a \in Int
  BY <1>3, MulMono
<1>8. v = (T * S) * a + c
  <2>1. \A x \in Int, y \in Int, z \in Int : x = y + z => x + r = y + (z + r)
    OBVIOUS
  <2>2. T * p \in Int /\ T * b \in Int
    BY <1>3, MulMono
  <2> QED BY <1>1, <1>4, <1>7, <2>1, <2>2, Zenon
<1>9. c % T = r
  BY <1>6, ModOf
<1>10. v % (T * S) = c
  <2> HIDE DEF c
  <2>1. \A M \in Nat : \A t \in 0 .. (M - 1) : M >= 1 /\ v = M * a + t => v % M = t
    BY ModOf
  <2> QED BY <2>1, <1>3, <1>6, <1>8, Zenon
<1> QED BY <1>1, <1>9, <1>10, Zenon

-----------------------------------------------------------------------------
(* Counters and header.latest. *)

\* The value of a slot's seq once it was committed v times.
EvenSeq(v) == (2 * v) % U32_MOD

\* The widths are positive.
LEMMA Widths ==
  /\ TAG_MOD \in Nat /\ TAG_MOD >= 1 /\ SLOT_MOD \in Nat /\ SLOT_MOD >= 1
  /\ LATEST_MOD \in Nat /\ LATEST_MOD >= 1 /\ U32_MOD = 2 * LATEST_MOD
<1>1. TAG_MOD \in Nat /\ TAG_MOD >= 1 /\ SLOT_MOD \in Nat /\ SLOT_MOD >= 1
  BY LayoutAssumption
<1>2. TAG_MOD * 1 <= TAG_MOD * SLOT_MOD /\ TAG_MOD * SLOT_MOD \in Int /\ TAG_MOD * 1 = TAG_MOD
  BY <1>1, MulMono
<1> QED BY <1>1, <1>2 DEF LATEST_MOD, U32_MOD

\* A committed slot's counter is an even 32-bit word, and so is begin_slot's
\* odd one in range; clearing the lowest bit of either gives the even one.
LEMMA EvenSeqWord ==
  ASSUME NEW v \in Nat
  PROVE  /\ EvenSeq(v) = 2 * (v % LATEST_MOD)
         /\ EvenSeq(v) \in U32 /\ EvenSeq(v) + 1 \in U32
         /\ EvenSeq(v) % 2 = 0 /\ (EvenSeq(v) + 1) % 2 = 1
         /\ EvenSeq(v) - (EvenSeq(v) % 2) = EvenSeq(v)
         /\ (EvenSeq(v) + 1) - ((EvenSeq(v) + 1) % 2) = EvenSeq(v)
<1>1. EvenSeq(v) = 2 * (v % LATEST_MOD)
  BY Widths, DoubleMod, Zenon DEF EvenSeq
<1>2. PICK x \in 0 .. (LATEST_MOD - 1) : x = v % LATEST_MOD
  BY Widths, DivMod, Zenon
<1>3. /\ 2 * x \in U32 /\ 2 * x + 1 \in U32
      /\ (2 * x) % 2 = 0 /\ (2 * x + 1) % 2 = 1
  BY <1>2, Widths DEF U32
<1>4. 2 * x \in Int
  OBVIOUS
<1> QED BY <1>1, <1>2, <1>3, <1>4

\* A published counter is a number.
LEMMA EvenSeqInt == ASSUME NEW v \in Nat PROVE EvenSeq(v) \in Int
<1>1. EvenSeq(v) \in U32
  BY EvenSeqWord, Zenon
<1> QED BY <1>1, Widths DEF U32

\* commit_slot's open_seq + 2, in 32 bits, is the counter of one more commit.
LEMMA EvenSeqSucc ==
  ASSUME NEW v \in Nat
  PROVE  (EvenSeq(v) + 2) % U32_MOD = EvenSeq(v + 1)
<1>1. PICK x \in 0 .. (LATEST_MOD - 1) : x = v % LATEST_MOD
  BY Widths, DivMod, Zenon
<1>2. EvenSeq(v) + 2 = 2 * (x + 1)
  BY <1>1, EvenSeqWord
<1>3. (2 * (x + 1)) % U32_MOD = 2 * ((x + 1) % LATEST_MOD)
  <2>1. \A y \in Nat : (2 * y) % (2 * LATEST_MOD) = 2 * (y % LATEST_MOD)
    BY Widths, DoubleMod, Zenon
  <2>2. x + 1 \in Nat
    BY Widths
  <2> QED BY <2>1, <2>2, Widths, Zenon
<1>4. (x + 1) % LATEST_MOD = (v + 1) % LATEST_MOD
  BY <1>1, Widths, ModSucc, Zenon
<1>5. EvenSeq(v + 1) = 2 * ((v + 1) % LATEST_MOD)
  BY EvenSeqWord
<1> QED BY <1>2, <1>3, <1>4, <1>5, Zenon

\* The tag in `latest' is the number of commits of the slot, modulo TAG_MOD.
LEMMA LatestOfEvenSeq ==
  ASSUME NEW v \in Nat, NEW i \in 0 .. (SLOT_MOD - 1)
  PROVE  psmi_latest(i, EvenSeq(v)) = SLOT_MOD * (v % TAG_MOD) + i
<1>1. PICK x \in 0 .. (LATEST_MOD - 1) : x = v % LATEST_MOD
  BY Widths, DivMod, Zenon
<1>2. EvenSeq(v) = 2 * x
  BY <1>1, EvenSeqWord, Zenon
<1>3. (2 * x) \div 2 = x
  OBVIOUS
<1>4. x % TAG_MOD = v % TAG_MOD
  BY <1>1, Widths, ModMod, Zenon DEF LATEST_MOD
<1>5. PICK t \in Nat : t = v % TAG_MOD
  BY Widths, DivMod
<1>6. t * SLOT_MOD = SLOT_MOD * t
  BY Widths
<1> QED BY <1>2, <1>3, <1>4, <1>5, <1>6, Zenon DEF psmi_latest

\* What readers rely on: the packed word is valid, is not NONE, and names the
\* slot.
LEMMA LatestWord ==
  ASSUME NEW v \in Nat, NEW n \in 1 .. SLOT_MOD, NEW i \in 0 .. (n - 1)
  PROVE  LET l == psmi_latest(i, EvenSeq(v)) IN
         /\ l \in U32 /\ l # PSMI_LATEST_NONE
         /\ psmi_latest_slot(l) = i /\ psmi_latest_valid(l, n)
<1>0. i \in 0 .. (SLOT_MOD - 1)
  BY Widths
<1>1. PICK t \in 0 .. (TAG_MOD - 1) : t = v % TAG_MOD
  BY Widths, DivMod, Zenon
<1>2. PICK x \in Nat : x = SLOT_MOD * t /\ x + SLOT_MOD <= LATEST_MOD
  <2>1. SLOT_MOD * (t + 1) <= SLOT_MOD * TAG_MOD /\ SLOT_MOD * 0 <= SLOT_MOD * t
    BY Widths, MulMono
  <2>2. SLOT_MOD * (t + 1) = SLOT_MOD * t + SLOT_MOD
    BY Widths
  <2>3. SLOT_MOD * TAG_MOD = LATEST_MOD
    BY Widths DEF LATEST_MOD
  <2>4. SLOT_MOD * t \in Int /\ SLOT_MOD * 0 = 0
    BY Widths, MulMono
  <2> QED BY <2>1, <2>2, <2>3, <2>4
<1> DEFINE l == psmi_latest(i, EvenSeq(v))
<1>3. l = x + i
  BY <1>0, <1>1, <1>2, LatestOfEvenSeq, Zenon
<1>4. l \in U32 /\ l # PSMI_LATEST_NONE /\ l < LATEST_MOD /\ l \in Nat
  BY <1>0, <1>2, <1>3, Widths DEF U32, PSMI_LATEST_NONE
<1>5. psmi_latest_slot(l) = i
  <2>1. l = SLOT_MOD * t + i
    BY <1>2, <1>3, Zenon
  <2> HIDE DEF l
  <2> QED BY <1>0, <1>4, <2>1, Widths, ModOf DEF psmi_latest_slot
<1> QED BY <1>4, <1>5 DEF psmi_latest_valid

\* Versions of a slot fewer than TAG_MOD commits apart are told apart both by
\* `latest' and by seq.
LEMMA LatestInjective ==
  ASSUME NEW i \in 0 .. (SLOT_MOD - 1), NEW v \in Nat, NEW w \in Nat,
         v <= w, w - v < TAG_MOD
  PROVE  /\ psmi_latest(i, EvenSeq(v)) = psmi_latest(i, EvenSeq(w)) => v = w
         /\ EvenSeq(v) = EvenSeq(w) => v = w
<1>1. SUFFICES ASSUME psmi_latest(i, EvenSeq(v)) = psmi_latest(i, EvenSeq(w))
               PROVE  v = w
  BY Zenon
<1>2. PICK t \in Nat : t = v % TAG_MOD
  BY Widths, DivMod
<1>3. PICK u \in Nat : u = w % TAG_MOD
  BY Widths, DivMod
<1>4. SLOT_MOD * t + i = SLOT_MOD * u + i
  BY <1>1, <1>2, <1>3, LatestOfEvenSeq
<1>5. t = u
  BY <1>4, Widths, Uniq, Zenon
<1> QED BY <1>2, <1>3, <1>5, Widths, ModInj, Zenon

-----------------------------------------------------------------------------
(* The inductive invariant. *)

latestSlot == psmi_latest_slot(latest)

\* Every counter is that of a committed slot or of one that is being written.
SeqOK == \A i \in Slots : seq[i] \in {EvenSeq(ver[i]), EvenSeq(ver[i]) + 1}

\* What `latest' says is true of the slot it names.
LatestOK ==
  IF latest = PSMI_LATEST_NONE
  THEN npub = 0 /\ pubval = NoValue
  ELSE /\ npub > 0
       /\ latestSlot \in Slots
       /\ latestSlot = (npub - 1) % SlotCount
       /\ latest = psmi_latest(latestSlot, EvenSeq(ver[latestSlot]))
       /\ seq[latestSlot] = EvenSeq(ver[latestSlot])
       /\ SlotValue(latestSlot) = pubval
       /\ Stamp(pubval) > 0

\* The writer knows the slot of `latest', works on the one after it, and puts
\* a newer timestamp there.
WriterOK ==
  /\ wpc # "closed" =>
       wlatest = (IF latest = PSMI_LATEST_NONE THEN latest ELSE latestSlot)
  /\ wpc \in {"begun", "copy", "meta", "seq", "latest"} =>
       /\ open_slot \in Slots /\ open_slot = target_slot
       /\ open_slot = npub % SlotCount
       /\ latest # PSMI_LATEST_NONE => open_slot # latestSlot
  /\ wpc \in {"begun", "copy", "meta", "seq"} =>
       seq[open_slot] = EvenSeq(ver[open_slot]) + 1 /\ open_seq = EvenSeq(ver[open_slot])
  /\ wpc = "latest" =>
       seq[open_slot] = EvenSeq(ver[open_slot]) /\ committed_seq = EvenSeq(ver[open_slot])
  /\ Stamp(pubval) <= clock
  /\ (wpc \in {"meta", "seq", "latest"} /\ "timestamp" \notin mtodo) =>
       meta[open_slot]["timestamp"] = clock /\ Stamp(pubval) < clock
  /\ wpc \in {"seq", "latest"} => mtodo = {}
  /\ wpc = "copy" => mtodo = Fields

\* The slot r is reading still holds the value that `latest' published ...
Fresh(r) ==
  LET i == psmi_latest_slot(rlatest[r]) IN
  ver[i] = rver[r] /\ seq[i] = EvenSeq(rver[r]) /\ SlotValue(i) = rval[r]

\* ... or the writer has gone round the ring and came back to it.
Moved(r) ==
  LET i == psmi_latest_slot(rlatest[r]) IN
  /\ \/ ver[i] = rver[r] /\ seq[i] = EvenSeq(rver[r]) + 1
     \/ rver[r] < ver[i] /\ ver[i] - rver[r] < TAG_MOD
  /\ npub - rpub[r] >= SlotCount - 1

InAttempt(r) == rpc[r] \in {"seq", "meta", "data", "recheck"}

\* While the slot is fresh, what r copied is part of the published value.
CopyOK(r) ==
  /\ \A f \in Fields \ rmtodo[r] : rmeta[r][f] = rval[r].meta[f]
  /\ rpc[r] \in {"data", "recheck"} =>
       /\ rmtodo[r] = {}
       /\ (rcopy[r] /\ rval[r].meta["length"] <= rsize[r]) =>
            \A c \in (1 .. rval[r].meta["length"]) \ rtodo[r] : rbuf[r][c] = rval[r].data[c]
  /\ rpc[r] = "recheck" => rtodo[r] = {}

AttemptOK(r) ==
  LET i == psmi_latest_slot(rlatest[r]) IN
  /\ rlatest[r] # PSMI_LATEST_NONE
  /\ i \in Slots
  /\ rlatest[r] = psmi_latest(i, EvenSeq(rver[r]))
  /\ rpub[r] > 0 /\ rpub[r] <= npub /\ i = (rpub[r] - 1) % SlotCount
  /\ rval[r] \in window[r]
  /\ Stamp(rval[r]) <= Stamp(pubval) /\ Stamp(seen[r]) <= Stamp(rval[r])
  /\ Fresh(r) \/ Moved(r)
  /\ rpc[r] # "seq" => q1[r] = EvenSeq(rver[r]) /\ (Fresh(r) => CopyOK(r))
  /\ rpub[r] - callpub[r] >= attempt[r] * (SlotCount - 1)

ReaderOK(r) ==
  /\ Stamp(seen[r]) <= Stamp(pubval)
  /\ rpc[r] # "idle" => pubval \in window[r] /\ callpub[r] <= npub
  /\ rpc[r] = "latest" => npub - callpub[r] >= attempt[r] * (SlotCount - 1)
  /\ rpc[r] = "idle" => attempt[r] = 0
  /\ InAttempt(r) => AttemptOK(r)

IInv == TypeOK /\ SeqOK /\ LatestOK /\ WriterOK /\ \A r \in Readers : ReaderOK(r)

-----------------------------------------------------------------------------
(* Facts about the constants and about values. *)

\* There are at least two slots, and slot numbers are small words.
LEMMA SlotFacts ==
  /\ SlotCount \in Nat /\ SlotCount >= 2 /\ SlotCount \in 1 .. SLOT_MOD
  /\ \A i \in Slots : i \in Nat /\ i \in 0 .. (SLOT_MOD - 1) /\ i \in 0 .. (SlotCount - 1)
  /\ PSMI_LATEST_NONE \in U32 /\ PSMI_LATEST_NONE \notin Slots
  /\ 0 \in U32 /\ 0 \in Slots
<1>1. /\ SlotCount \in Nat /\ SlotCount >= 2 /\ SlotCount <= SLOT_MOD
      /\ SLOT_MOD \in Nat /\ LATEST_MOD \in Nat /\ LATEST_MOD >= 1
      /\ U32_MOD = 2 * LATEST_MOD
  BY RingAssumption, Widths
<1>2. LATEST_MOD >= SLOT_MOD
  <2>1. SLOT_MOD * 1 <= SLOT_MOD * TAG_MOD /\ SLOT_MOD * TAG_MOD = LATEST_MOD
    BY Widths, MulMono DEF LATEST_MOD
  <2> QED BY <2>1, Widths
<1> QED BY <1>1, <1>2 DEF Slots, U32, PSMI_LATEST_NONE

\* The slot after another one is a slot, and a different one.
LEMMA NextSlot ==
  ASSUME NEW i \in Slots
  PROVE  (i + 1) % SlotCount \in Slots /\ (i + 1) % SlotCount # i
<1>1. (i + 1) % SlotCount \in 0 .. (SlotCount - 1)
  BY SlotFacts, DivMod
<1>2. i + 1 \in Nat /\ i \in Nat /\ i < SlotCount
  BY SlotFacts
<1>3. i % SlotCount = i
  <2>1. i = SlotCount * 0 + i /\ i \in 0 .. (SlotCount - 1)
    BY SlotFacts, MulMono
  <2> QED BY <1>2, <2>1, SlotFacts, ModOf
<1>4. \A b \in Nat :
        i <= b /\ b - i < SlotCount /\ i % SlotCount = b % SlotCount => i = b
  <2>1. SlotCount \in Nat /\ SlotCount >= 1
    BY SlotFacts
  <2> TAKE b \in Nat
  <2> HAVE i <= b /\ b - i < SlotCount /\ i % SlotCount = b % SlotCount
  <2> QED BY <1>2, <2>1, ModInj, Zenon
<1>5. i % SlotCount # (i + 1) % SlotCount
  BY <1>2, <1>4, SlotFacts
<1> QED BY <1>1, <1>3, <1>5, Zenon DEF Slots

\* A value is made of a slot header and as much payload as it announces.
LEMMA ValueFacts ==
  ASSUME NEW m \in Metas, NEW d \in Datas
  PROVE  /\ Value(m, d) \in Values
         /\ Value(m, d).meta = m
         /\ InfoOnly(Value(m, d)) \in Values
         /\ InfoOnly(Value(m, d)).meta = m
<1>1. m["length"] \in 0 .. Capacity /\ Capacity \in Nat
  BY RingAssumption, Zenon DEF Metas
<1>2. [c \in 1 .. m["length"] |-> d[c]] \in [1 .. m["length"] -> Unit]
  BY <1>1 DEF Datas, Offsets
<1>3. [c \in 1 .. 0 |-> Zero] \in [1 .. 0 -> Unit]
  BY RingAssumption, Zenon
<1> DEFINE Payload == UNION {[1 .. n -> Unit] : n \in 0 .. Capacity}
<1>4. \A n \in 0 .. Capacity : [1 .. n -> Unit] \subseteq Payload
  BY Zenon
<1>5. 0 \in 0 .. Capacity
  BY <1>1
<1>6. /\ [c \in 1 .. m["length"] |-> d[c]] \in Payload
      /\ [c \in 1 .. 0 |-> Zero] \in Payload
  BY <1>1, <1>2, <1>3, <1>4, <1>5, Zenon
<1>7. Values = [meta : Metas, data : Payload]
  BY Zenon DEF Values
<1> HIDE DEF Payload
<1> QED BY <1>6, <1>7, Zenon DEF Value, InfoOnly

\* Timestamps are numbers.
LEMMA StampNat == ASSUME NEW v \in Values PROVE Stamp(v) \in Nat
<1>1. v.meta \in [Fields -> Nat]
  BY Zenon DEF Values, Metas
<1> QED BY <1>1, Zenon DEF Stamp, Fields

\* A copy whose header and announced payload agree with a value is the value.
LEMMA ValueEqual ==
  ASSUME NEW m \in Metas, NEW d \in Datas, NEW n \in Metas, NEW e \in Datas,
         m = n, \A c \in 1 .. n["length"] : d[c] = Value(n, e).data[c]
  PROVE  Value(m, d) = Value(n, e)
BY Zenon DEF Value

\* The contents of a slot that was never written.
LEMMA NothingYet == NoMeta \in Metas /\ NoData \in Datas /\ NoValue \in Values
<1>1. NoMeta \in Metas
  BY RingAssumption, SlotFacts DEF NoMeta, Metas, Fields
<1>2. NoData \in Datas
  BY RingAssumption, Zenon DEF NoData, Datas
<1> QED BY <1>1, <1>2, ValueFacts, Zenon DEF NoValue

\* Storing one field of a slot header keeps it well formed.
LEMMA MetaStore ==
  ASSUME NEW m \in Metas, NEW f \in Fields, NEW x \in Nat,
         f = "generation" => x \in U32, f = "length" => x \in 0 .. Capacity
  PROVE  [m EXCEPT ![f] = x] \in Metas
BY Zenon DEF Metas, Fields

\* The generation after any 32-bit one is a valid generation.
LEMMA NextGeneration ==
  ASSUME NEW g \in U32
  PROVE  next_generation(g) \in Generation
BY Widths DEF next_generation, Generation, U32

-----------------------------------------------------------------------------
(* Initial states. *)

\* A file that create_file made satisfies the invariant.
LEMMA InitIInv == Init => IInv
<1> SUFFICES ASSUME Init PROVE IInv
  BY Zenon
<1>1. 1 \in Generation /\ 0 \in 0 .. Capacity /\ 0 \in 0 .. (READ_RETRIES - 1)
  BY RingAssumption, Widths DEF Generation
<1>2. RingTypeOK
  BY SlotFacts, NothingYet, Zenon DEF Init, RingTypeOK
<1>3. WriterTypeOK
  BY SlotFacts, NothingYet, <1>1, Zenon DEF Init, WriterTypeOK
<1>4. ReaderTypeOK
  BY SlotFacts, NothingYet, <1>1, Zenon DEF Init, ReaderTypeOK
<1>5. SeqOK
  BY EvenSeqWord, Widths, ModOf DEF Init, SeqOK, EvenSeq
<1>6. LatestOK
  BY Zenon DEF Init, LatestOK
<1>7. WriterOK
  BY NothingYet, ValueFacts DEF Init, WriterOK, Stamp, NoValue, NoMeta, Fields
<1>8. ASSUME NEW r \in Readers PROVE ReaderOK(r)
  BY NothingYet, ValueFacts DEF Init, ReaderOK, InAttempt, Stamp, NoValue, NoMeta, Fields
<1> QED BY <1>2, <1>3, <1>4, <1>5, <1>6, <1>7, <1>8, Zenon DEF IInv, TypeOK

-----------------------------------------------------------------------------
(* What a step leaves alone keeps its part of the invariant. *)

\* Steps outside the slots and `latest' keep what is said of them.
LEMMA RingFrame ==
  ASSUME IInv, UNCHANGED <<latest, slotVars, pubVars, ver>>
  PROVE  SeqOK' /\ LatestOK'
<1> USE DEF IInv, slotVars, pubVars
<1>1. SeqOK'
  BY Zenon DEF SeqOK
<1>2. LatestOK'
  BY Zenon DEF LatestOK, latestSlot, SlotValue
<1> QED BY <1>1, <1>2, Zenon

\* Steps outside the slots and the readers keep what is said of each reader.
LEMMA ReaderFrame ==
  ASSUME IInv, UNCHANGED <<slotVars, readerVars, pubVars, ver, window>>
  PROVE  ReaderTypeOK' /\ \A r \in Readers : ReaderOK(r)'
<1>1. ReaderTypeOK'
  BY Zenon DEF IInv, TypeOK, ReaderTypeOK, readerVars
<1>2. ASSUME NEW r \in Readers PROVE ReaderOK(r)'
  <2>1. ReaderOK(r)
    BY Zenon DEF IInv
  <2>2. Fresh(r)' = Fresh(r)
    BY Zenon DEF Fresh, SlotValue, slotVars, readerVars
  <2>3. Moved(r)' = Moved(r)
    BY Zenon DEF Moved, slotVars, readerVars, pubVars
  <2>4. CopyOK(r)' = CopyOK(r)
    BY Zenon DEF CopyOK, readerVars
  <2> QED BY <2>1, <2>2, <2>3, <2>4, Zenon DEF ReaderOK, InAttempt, AttemptOK, readerVars, pubVars
<1> QED BY <1>1, <1>2, Zenon

-----------------------------------------------------------------------------
(* The writer's steps. *)

\* Opening, closing, dying: private to the writer.
LEMMA OpenStep == ASSUME IInv, writer_open PROVE IInv'
<1> USE DEF IInv, writer_open, carried_latest, headerVars
<1>1. SeqOK' /\ LatestOK' /\ ReaderTypeOK' /\ \A r \in Readers : ReaderOK(r)'
  BY RingFrame, ReaderFrame, Zenon
<1>2. RingTypeOK'
  BY Zenon DEF TypeOK, RingTypeOK, slotVars, pubVars
<1>3. latest # PSMI_LATEST_NONE => latestSlot \in Slots
  BY Zenon DEF LatestOK
<1>4. wgen' \in Generation
  <2>1. CASE latest = PSMI_LATEST_NONE
    BY <2>1, RingAssumption, Zenon DEF carried_generation
  <2>2. CASE latest # PSMI_LATEST_NONE
    <3>1. meta[latestSlot] \in Metas
      BY <1>3, <2>2, Zenon DEF TypeOK, RingTypeOK
    <3>2. meta[latestSlot]["generation"] \in U32
      BY <3>1, Zenon DEF Metas
    <3> QED BY <2>2, <3>2, NextGeneration, Zenon DEF carried_generation, latestSlot
  <2> QED BY <2>1, <2>2, Zenon
<1>5. WriterTypeOK'
  BY <1>3, <1>4 DEF TypeOK, WriterTypeOK, latestSlot
<1>6. WriterOK'
  BY Zenon DEF WriterOK, latestSlot, pubVars
<1> QED BY <1>1, <1>2, <1>5, <1>6, Zenon DEF TypeOK

\* A close or a death of the writer leaves the ring and the readers as they are.
LEMMA GoneStep == ASSUME IInv, WriterGone PROVE IInv'
<1> USE DEF IInv, WriterGone, headerVars
<1>1. SeqOK' /\ LatestOK' /\ ReaderTypeOK' /\ \A r \in Readers : ReaderOK(r)'
  BY RingFrame, ReaderFrame, Zenon
<1>2. RingTypeOK'
  BY Zenon DEF TypeOK, RingTypeOK, slotVars, pubVars
<1>3. WriterTypeOK'
  BY NothingYet, SlotFacts, RingAssumption, Widths DEF TypeOK, WriterTypeOK, Generation
<1>4. WriterOK'
  BY Zenon DEF WriterOK, pubVars
<1> QED BY <1>1, <1>2, <1>3, <1>4, Zenon DEF TypeOK

\* state_commit and state_abort: private as well.
LEMMA CommitStep == ASSUME IInv, NEW len \in AppLens, state_commit(len) PROVE IInv'
<1> USE DEF IInv, state_commit, headerVars
<1>1. SeqOK' /\ LatestOK' /\ ReaderTypeOK' /\ \A r \in Readers : ReaderOK(r)'
  BY RingFrame, ReaderFrame, Zenon
<1>2. RingTypeOK'
  BY Zenon DEF TypeOK, RingTypeOK, slotVars, pubVars
<1>3. WriterTypeOK'
  BY RingAssumption, Zenon DEF TypeOK, WriterTypeOK
<1>4. WriterOK'
  BY Zenon DEF WriterOK, target_slot, latestSlot, slotVars, pubVars, Fields
<1> QED BY <1>1, <1>2, <1>3, <1>4, Zenon DEF TypeOK

\* An abort leaves the slot odd, which SeqOK allows.
LEMMA AbortStep == ASSUME IInv, state_abort PROVE IInv'
<1> USE DEF IInv, state_abort, headerVars
<1>1. SeqOK' /\ LatestOK' /\ ReaderTypeOK' /\ \A r \in Readers : ReaderOK(r)'
  BY RingFrame, ReaderFrame, Zenon
<1>2. RingTypeOK'
  BY Zenon DEF TypeOK, RingTypeOK, slotVars, pubVars
<1>3. WriterTypeOK'
  BY Zenon DEF TypeOK, WriterTypeOK
<1>4. WriterOK'
  BY Zenon DEF WriterOK, latestSlot, pubVars
<1> QED BY <1>1, <1>2, <1>3, <1>4, Zenon DEF TypeOK

\* The futex word and the next generation.
LEMMA NotifyStep == ASSUME IInv, commit_notify PROVE IInv'
<1> USE DEF IInv, commit_notify
<1>1. SeqOK' /\ LatestOK' /\ ReaderTypeOK' /\ \A r \in Readers : ReaderOK(r)'
  BY RingFrame, ReaderFrame, Zenon
<1>2. notify' \in U32
  <2>1. notify \in Nat /\ U32_MOD \in Nat /\ U32_MOD >= 1
    BY Widths DEF TypeOK, RingTypeOK, U32
  <2>2. (notify + 1) % U32_MOD \in 0 .. (U32_MOD - 1)
    BY <2>1, DivMod
  <2> QED BY <2>2, Zenon DEF TypeOK, RingTypeOK, U32
<1>3. RingTypeOK'
  BY <1>2, Zenon DEF TypeOK, RingTypeOK, slotVars, pubVars
<1>4. wgen' \in Generation
  <2>1. wgen \in U32
    BY Widths DEF TypeOK, WriterTypeOK, U32, Generation
  <2> QED BY <2>1, NextGeneration, Zenon
<1>5. WriterTypeOK'
  BY <1>4, NothingYet, SlotFacts, RingAssumption DEF TypeOK, WriterTypeOK
<1>6. WriterOK'
  BY Zenon DEF WriterOK, latestSlot, pubVars
<1> QED BY <1>1, <1>3, <1>5, <1>6, Zenon DEF TypeOK

\* A step that writes into no slot but the open one.
OtherSlotsKept ==
  \A i \in Slots \ {open_slot} : meta'[i] = meta[i] /\ data'[i] = data[i]

\* The stores into a slot that is being written: no reader counts on it.
LEMMA TornFrame ==
  ASSUME IInv, wpc \in {"begun", "copy", "meta"},
         UNCHANGED <<seq, readerVars, pubVars, ver, window>>,
         OtherSlotsKept
  PROVE  ReaderTypeOK' /\ \A r \in Readers : ReaderOK(r)'
<1>1. ReaderTypeOK'
  BY Zenon DEF IInv, TypeOK, ReaderTypeOK, readerVars
<1>2. /\ open_slot \in Slots /\ seq[open_slot] = EvenSeq(ver[open_slot]) + 1
      /\ seq[open_slot] # EvenSeq(ver[open_slot])
  <2>1. open_slot \in Slots /\ seq[open_slot] = EvenSeq(ver[open_slot]) + 1
    BY Zenon DEF IInv, WriterOK
  <2>2. ver[open_slot] \in Nat
    BY <2>1, Zenon DEF IInv, TypeOK, RingTypeOK
  <2> QED BY <2>1, <2>2, EvenSeqInt
<1>3. ASSUME NEW r \in Readers PROVE ReaderOK(r)'
  <2>1. ReaderOK(r)
    BY Zenon DEF IInv
  <2> DEFINE i == psmi_latest_slot(rlatest[r])
  <2>2. Moved(r)' = Moved(r) /\ CopyOK(r)' = CopyOK(r)
    BY Zenon DEF Moved, CopyOK, readerVars, pubVars
  <2>3. i \in Slots => Fresh(r)' = Fresh(r)
    <3>1. CASE i = open_slot
      <4>1. ~(ver[i] = rver[r] /\ seq[i] = EvenSeq(rver[r]))
        BY <1>2, <3>1, Zenon
      <4> QED BY <4>1, Zenon DEF Fresh, readerVars
    <3>2. CASE i \in Slots /\ i # open_slot
      BY <3>2, Zenon DEF Fresh, SlotValue, readerVars, OtherSlotsKept
    <3> QED BY <3>1, <3>2, Zenon
  <2> QED BY <2>1, <2>2, <2>3, Zenon DEF ReaderOK, InAttempt, AttemptOK, readerVars, pubVars
<1> QED BY <1>1, <1>3, Zenon

\* `latest' names another slot than the one that is being written.
LEMMA TornRingFrame ==
  ASSUME IInv, wpc \in {"begun", "copy", "meta"},
         UNCHANGED <<latest, seq, pubVars, ver>>,
         OtherSlotsKept
  PROVE  SeqOK' /\ LatestOK'
<1> USE DEF IInv, pubVars
<1>1. SeqOK'
  BY Zenon DEF SeqOK
<1>2. latest # PSMI_LATEST_NONE => latestSlot \in Slots \ {open_slot}
  BY Zenon DEF LatestOK, WriterOK
<1>3. LatestOK'
  BY <1>2, Zenon DEF LatestOK, latestSlot, SlotValue, OtherSlotsKept
<1> QED BY <1>1, <1>3, Zenon

\* The copy of a publish touches only the open slot, which is odd.
LEMMA PublishCopyStep == ASSUME IInv, NEW c \in Offsets, publish_copy(c) PROVE IInv'
<1> USE DEF IInv, publish_copy, headerVars
<1>1. open_slot \in Slots
  BY Zenon DEF WriterOK
<1>2. data' \in [Slots -> Datas] /\ OtherSlotsKept
  BY <1>1, Zenon DEF TypeOK, RingTypeOK, WriterTypeOK, Datas, OtherSlotsKept
<1>3. SeqOK' /\ LatestOK' /\ ReaderTypeOK' /\ \A r \in Readers : ReaderOK(r)'
  BY <1>2, TornFrame, TornRingFrame, Zenon
<1>4. RingTypeOK'
  BY <1>2, Zenon DEF TypeOK, RingTypeOK, pubVars
<1>5. WriterTypeOK'
  BY Zenon DEF TypeOK, WriterTypeOK
<1>6. WriterOK'
  BY Zenon DEF WriterOK, target_slot, latestSlot, pubVars, Fields
<1> QED BY <1>3, <1>4, <1>5, <1>6, Zenon DEF TypeOK

\* A store of the application touches only the open slot, which is odd.
LEMMA AppStoreStep ==
  ASSUME IInv, NEW c \in Offsets, NEW u \in AppUnits, app_store(c, u)
  PROVE  IInv'
<1> USE DEF IInv, app_store, headerVars, writerVars
<1>1. open_slot \in Slots /\ u \in Unit
  BY RingAssumption, Zenon DEF WriterOK
<1>2. data' \in [Slots -> Datas] /\ OtherSlotsKept
  BY <1>1, Zenon DEF TypeOK, RingTypeOK, Datas, OtherSlotsKept
<1>3. SeqOK' /\ LatestOK' /\ ReaderTypeOK' /\ \A r \in Readers : ReaderOK(r)'
  BY <1>2, TornFrame, TornRingFrame, Zenon
<1>4. RingTypeOK'
  BY <1>2, Zenon DEF TypeOK, RingTypeOK, pubVars
<1>5. WriterTypeOK'
  BY Zenon DEF TypeOK, WriterTypeOK
<1>6. WriterOK'
  BY Zenon DEF WriterOK, target_slot, latestSlot, pubVars
<1> QED BY <1>3, <1>4, <1>5, <1>6, Zenon DEF TypeOK

\* The slot header is written only in the open slot, with a newer timestamp.
LEMMA CommitMetaStep == ASSUME IInv, NEW f \in Fields, commit_meta(f) PROVE IInv'
<1> USE DEF IInv, commit_meta, headerVars
<1>1. open_slot \in Slots /\ clock \in Nat
  BY Zenon DEF WriterOK, TypeOK, RingTypeOK
<1> DEFINE x == IF f = "generation" THEN wgen
                ELSE IF f = "length" THEN wlen ELSE clock + 1
<1>2. /\ x \in Nat /\ (f = "generation" => x \in U32)
      /\ (f = "length" => x \in 0 .. Capacity)
  BY <1>1, RingAssumption DEF TypeOK, WriterTypeOK, U32, Generation
<1>3. meta' = [meta EXCEPT ![open_slot] = [meta[open_slot] EXCEPT ![f] = x]]
  BY Zenon
<1> HIDE DEF x
<1>4. [meta[open_slot] EXCEPT ![f] = x] \in Metas
  BY <1>1, <1>2, MetaStore, Zenon DEF TypeOK, RingTypeOK
<1>5. meta' \in [Slots -> Metas] /\ OtherSlotsKept
  BY <1>1, <1>3, <1>4, Zenon DEF TypeOK, RingTypeOK, OtherSlotsKept
<1>6. SeqOK' /\ LatestOK' /\ ReaderTypeOK' /\ \A r \in Readers : ReaderOK(r)'
  BY <1>5, TornFrame, TornRingFrame, Zenon
<1>7. RingTypeOK'
  BY <1>1, <1>5 DEF TypeOK, RingTypeOK, pubVars
<1>8. WriterTypeOK'
  BY Zenon DEF TypeOK, WriterTypeOK
<1>9. WriterOK'
  <2>1. Stamp(pubval)' = Stamp(pubval) /\ Stamp(pubval) <= clock /\ Stamp(pubval) \in Nat
    BY Zenon DEF WriterOK, TypeOK, RingTypeOK, pubVars, Stamp, Values, Metas, Fields
  <2>2. "timestamp" \notin mtodo' =>
          meta'[open_slot]["timestamp"] = clock' /\ Stamp(pubval) < clock'
    <3>0. meta[open_slot] \in [Fields -> Nat]
      BY <1>1, Zenon DEF TypeOK, RingTypeOK, Metas
    <3>1. CASE f = "timestamp"
      <4>1. x = clock + 1
        BY <3>1, Zenon DEF x
      <4> QED BY <1>1, <1>3, <2>1, <3>0, <3>1, <4>1 DEF TypeOK, RingTypeOK
    <3>2. CASE f # "timestamp"
      <4>1. clock' = clock /\ ("timestamp" \notin mtodo' => "timestamp" \notin mtodo)
        BY <3>2, Zenon
      <4>2. meta'[open_slot]["timestamp"] = meta[open_slot]["timestamp"]
        BY <1>1, <1>3, <3>2, <3>0, Zenon DEF Fields, TypeOK, RingTypeOK
      <4> QED BY <4>1, <4>2, <2>1, Zenon DEF WriterOK
    <3> QED BY <3>1, <3>2, Zenon
  <2>3. Stamp(pubval) <= clock'
    BY <1>1, <2>1
  <2>4. wpc' = "seq" => mtodo' = {}
    BY Zenon
  <2> QED BY <2>1, <2>2, <2>3, <2>4, Zenon DEF WriterOK, target_slot, latestSlot, pubVars
<1> QED BY <1>6, <1>7, <1>8, <1>9, Zenon DEF TypeOK

\* begin_slot picks the slot after the published one: the slot whose turn it
\* is, and never the published one.
LEMMA Target ==
  ASSUME IInv, wpc # "closed"
  PROVE  /\ target_slot \in Slots /\ target_slot = npub % SlotCount
         /\ latest # PSMI_LATEST_NONE => target_slot # latestSlot
<1> USE DEF IInv
<1>0. SlotCount \in Nat /\ SlotCount >= 1
  BY SlotFacts
<1>1. CASE latest = PSMI_LATEST_NONE
  <2>1. target_slot = 0 /\ npub = 0
    BY <1>1, Zenon DEF WriterOK, LatestOK, target_slot
  <2>2. 0 % SlotCount = 0
    BY <1>0
  <2> QED BY <1>1, <2>1, <2>2, SlotFacts, Zenon
<1>2. CASE latest # PSMI_LATEST_NONE
  <2>1. latestSlot \in Slots /\ wlatest = latestSlot /\ wlatest # PSMI_LATEST_NONE
    BY <1>2, SlotFacts, Zenon DEF WriterOK, LatestOK
  <2>2. npub - 1 \in Nat /\ latestSlot = (npub - 1) % SlotCount
    BY <1>2 DEF LatestOK, TypeOK, RingTypeOK
  <2>3. \A a \in Nat : ((a % SlotCount) + 1) % SlotCount = (a + 1) % SlotCount
    BY <1>0, ModSucc, Zenon
  <2>4. (latestSlot + 1) % SlotCount = ((npub - 1) + 1) % SlotCount
    BY <2>2, <2>3, Zenon
  <2>5. (npub - 1) + 1 = npub
    BY DEF TypeOK, RingTypeOK
  <2> QED BY <2>1, <2>4, <2>5, NextSlot, Zenon DEF target_slot
<1> QED BY <1>1, <1>2, Zenon

\* When the writer comes to the slot of a sample, it went round the ring.
LEMMA Lapped ==
  ASSUME NEW p \in Nat, p > 0, NEW n \in Nat, p <= n,
         (p - 1) % SlotCount = n % SlotCount
  PROVE  n - p >= SlotCount - 1
<1>1. SlotCount \in Nat /\ SlotCount >= 1 /\ p - 1 \in Nat
  BY SlotFacts
<1>2. \A a \in Nat : a <= n /\ n - a < SlotCount /\ a % SlotCount = n % SlotCount => a = n
  <2> TAKE a \in Nat
  <2> HAVE a <= n /\ n - a < SlotCount /\ a % SlotCount = n % SlotCount
  <2> QED BY <1>1, ModInj, Zenon
<1>3. p - 1 <= n /\ p - 1 # n
  OBVIOUS
<1>4. ~(n - (p - 1) < SlotCount)
  BY <1>1, <1>2, <1>3, Zenon
<1> QED BY <1>1, <1>4

\* What begin_slot does to the counters.
LEMMA BeginSeq ==
  ASSUME IInv, wpc = "idle", begin_slot
  PROVE  /\ open_slot' = target_slot /\ target_slot \in Slots
         /\ open_seq' = EvenSeq(ver[target_slot])
         /\ seq' = [seq EXCEPT ![target_slot] = EvenSeq(ver[target_slot]) + 1]
         /\ open_seq' \in U32 /\ open_seq' + 1 \in U32
<1> DEFINE i == target_slot
           q == seq[i] - (seq[i] % 2)
<1>1. i \in Slots
  BY Target, Zenon
<1>2. ver[i] \in Nat /\ seq[i] \in {EvenSeq(ver[i]), EvenSeq(ver[i]) + 1}
  BY <1>1, Zenon DEF IInv, SeqOK, TypeOK, RingTypeOK
<1>3. q = EvenSeq(ver[i]) /\ EvenSeq(ver[i]) \in U32 /\ EvenSeq(ver[i]) + 1 \in U32
  BY <1>2, EvenSeqWord, Zenon
<1>4. seq' = [seq EXCEPT ![i] = q + 1] /\ open_slot' = i /\ open_seq' = q
  BY Zenon DEF begin_slot, target_slot
<1> QED BY <1>1, <1>3, <1>4, Zenon

\* begin_slot makes odd a slot that `latest' does not name: a reader in that
\* slot has been lapped.
LEMMA BeginFrame ==
  ASSUME IInv, wpc = "idle", begin_slot
  PROVE  /\ RingTypeOK' /\ SeqOK' /\ LatestOK'
         /\ ReaderTypeOK' /\ \A r \in Readers : ReaderOK(r)'
<1> USE DEF IInv
<1>1. /\ latest' = latest /\ notify' = notify /\ meta' = meta /\ data' = data
      /\ clock' = clock /\ pubval' = pubval /\ npub' = npub /\ ver' = ver
      /\ window' = window /\ UNCHANGED readerVars
  BY Zenon DEF begin_slot, headerVars, pubVars
<1>2. /\ seq' = [seq EXCEPT ![target_slot] = EvenSeq(ver[target_slot]) + 1]
      /\ EvenSeq(ver[target_slot]) + 1 \in U32 /\ target_slot \in Slots
  BY BeginSeq, Zenon
<1>3. RingTypeOK'
  BY <1>1, <1>2, Zenon DEF TypeOK, RingTypeOK
<1>4. SeqOK'
  BY <1>1, <1>2, Zenon DEF TypeOK, RingTypeOK, SeqOK
<1>5. LatestOK'
  <2>1. latest # PSMI_LATEST_NONE => seq'[latestSlot] = seq[latestSlot]
    BY <1>2, Target, Zenon DEF TypeOK, RingTypeOK, LatestOK
  <2> QED BY <1>1, <2>1, Zenon DEF LatestOK, latestSlot, SlotValue
<1>6. ReaderTypeOK'
  BY <1>1, Zenon DEF TypeOK, ReaderTypeOK, readerVars
<1>7. ASSUME NEW r \in Readers PROVE ReaderOK(r)'
  <2> DEFINE i == psmi_latest_slot(rlatest[r])
  <2>1. ReaderOK(r)
    BY Zenon
  <2>2. CopyOK(r)' = CopyOK(r)
    BY <1>1, Zenon DEF CopyOK, readerVars
  <2>3. ASSUME InAttempt(r), i # target_slot
        PROVE  Fresh(r)' = Fresh(r) /\ Moved(r)' = Moved(r)
    <3>1. i \in Slots
      BY <2>1, <2>3, Zenon DEF ReaderOK, AttemptOK
    <3>2. seq'[i] = seq[i]
      BY <1>2, <2>3, <3>1, Zenon DEF TypeOK, RingTypeOK
    <3> QED BY <1>1, <3>2, Zenon DEF Fresh, Moved, SlotValue, readerVars
  <2>4. ASSUME InAttempt(r), i = target_slot
        PROVE  ~Fresh(r)' /\ Moved(r)'
    <3>1. /\ i \in Slots /\ rpub[r] \in Nat /\ rpub[r] > 0 /\ rpub[r] <= npub
          /\ i = (rpub[r] - 1) % SlotCount /\ (Fresh(r) \/ Moved(r))
      BY <2>1, <2>4, Zenon DEF ReaderOK, AttemptOK, TypeOK, ReaderTypeOK
    <3>2. npub - rpub[r] >= SlotCount - 1
      BY <2>4, <3>1, Target, Lapped, Zenon DEF TypeOK, RingTypeOK
    <3>3. seq'[i] = EvenSeq(ver[i]) + 1 /\ ver[i] \in Nat /\ EvenSeq(ver[i]) \in Int
      BY <1>2, <2>4, <3>1, EvenSeqWord DEF TypeOK, RingTypeOK, U32
    <3>4. ver[i] = rver[r] \/ (rver[r] < ver[i] /\ ver[i] - rver[r] < TAG_MOD)
      BY <3>1, Zenon DEF Fresh, Moved
    <3>5. rlatest' = rlatest /\ rver' = rver /\ rpub' = rpub
      BY <1>1, Zenon DEF readerVars
    <3>6. Moved(r)'
      BY <1>1, <3>2, <3>3, <3>4, <3>5, Zenon DEF Moved
    <3>7. ~Fresh(r)'
      BY <1>1, <3>3, <3>5 DEF Fresh
    <3> QED BY <3>6, <3>7, Zenon
  <2> QED BY <1>1, <2>1, <2>2, <2>3, <2>4, Zenon DEF ReaderOK, InAttempt, AttemptOK, readerVars
<1> QED BY <1>3, <1>4, <1>5, <1>6, <1>7, Zenon

\* state_begin preserves the invariant.
LEMMA BeginStep == ASSUME IInv, state_begin PROVE IInv'
<1> USE DEF IInv, state_begin
<1>1. /\ RingTypeOK' /\ SeqOK' /\ LatestOK'
      /\ ReaderTypeOK' /\ \A r \in Readers : ReaderOK(r)'
  BY BeginFrame, Zenon
<1>2. /\ latest' = latest /\ meta' = meta /\ clock' = clock /\ pubval' = pubval
      /\ npub' = npub /\ ver' = ver /\ wlatest' = wlatest /\ wgen' = wgen /\ opens' = opens
  BY Zenon DEF begin_slot, headerVars, pubVars
<1>3. WriterTypeOK'
  BY <1>2, BeginSeq, Zenon DEF TypeOK, WriterTypeOK
<1>4. seq'[target_slot] = EvenSeq(ver[target_slot]) + 1
  BY BeginSeq, Zenon DEF TypeOK, RingTypeOK
<1>5. WriterOK'
  BY <1>2, <1>4, BeginSeq, Target, Zenon DEF WriterOK, target_slot, latestSlot
<1> QED BY <1>1, <1>3, <1>5, Zenon DEF TypeOK

\* The start of state_publish preserves the invariant.
LEMMA PublishStep == ASSUME IInv, NEW d \in Payloads, state_publish(d) PROVE IInv'
<1> USE DEF IInv
<1> DEFINE len == CHOOSE n \in 0 .. Capacity : DOMAIN d = 1 .. n
<1>0. /\ wpc = "idle" /\ begin_slot /\ wpc' \in {"meta", "copy"}
      /\ wbuf' = [c \in Offsets |-> IF c <= len THEN d[c] ELSE Zero]
      /\ wlen' = len /\ wtodo' = 1 .. len /\ mtodo' = Fields
  BY Zenon DEF state_publish
<1>1. /\ RingTypeOK' /\ SeqOK' /\ LatestOK'
      /\ ReaderTypeOK' /\ \A r \in Readers : ReaderOK(r)'
  BY <1>0, BeginFrame, Zenon
<1>2. /\ latest' = latest /\ meta' = meta /\ clock' = clock /\ pubval' = pubval
      /\ npub' = npub /\ ver' = ver /\ wlatest' = wlatest /\ wgen' = wgen /\ opens' = opens
  BY <1>0, Zenon DEF begin_slot, headerVars, pubVars
<1>3. len \in 0 .. Capacity /\ d \in [1 .. len -> Unit] /\ Capacity \in Nat
  <2>1. PICK n \in 0 .. Capacity : d \in [1 .. n -> Unit]
    BY RingAssumption, Zenon
  <2>2. DOMAIN d = 1 .. n
    BY <2>1, Zenon
  <2>3. len \in 0 .. Capacity /\ DOMAIN d = 1 .. len
    BY <2>2, Zenon
  <2> HIDE DEF len
  <2> QED BY <2>1, <2>2, <2>3, RingAssumption, Zenon
<1> HIDE DEF len
<1>4. wbuf' \in Datas /\ wtodo' \subseteq Offsets
  BY <1>0, <1>3, RingAssumption DEF Datas, Offsets
<1>5. WriterTypeOK'
  BY <1>0, <1>2, <1>3, <1>4, BeginSeq, Zenon DEF TypeOK, WriterTypeOK
<1>6. seq'[target_slot] = EvenSeq(ver[target_slot]) + 1
  BY <1>0, BeginSeq, Zenon DEF TypeOK, RingTypeOK
<1>7. WriterOK'
  BY <1>0, <1>2, <1>6, BeginSeq, Target, Zenon DEF WriterOK, target_slot, latestSlot, Fields
<1> QED BY <1>1, <1>5, <1>7, Zenon DEF TypeOK

\* The slot turns even with the counter of one more commit.  A reader still on
\* it came with an older `latest', and cannot mistake the new version for its
\* own.
LEMMA CommitSeqStep == ASSUME IInv, commit_seq PROVE IInv'
<1> USE DEF IInv
<1>1. /\ wpc = "seq" /\ NoTagWrap(open_slot) /\ wpc' = "latest"
      /\ seq' = [seq EXCEPT ![open_slot] = committed_seq]
      /\ ver' = [ver EXCEPT ![open_slot] = @ + 1]
      /\ latest' = latest /\ notify' = notify /\ meta' = meta /\ data' = data
      /\ clock' = clock /\ pubval' = pubval /\ npub' = npub /\ wlatest' = wlatest
      /\ open_slot' = open_slot /\ open_seq' = open_seq /\ mtodo' = mtodo
      /\ window' = window /\ UNCHANGED readerVars
  BY Zenon DEF commit_seq, headerVars, pubVars
<1>2. /\ open_slot \in Slots /\ open_seq = EvenSeq(ver[open_slot])
      /\ seq[open_slot] = EvenSeq(ver[open_slot]) + 1
      /\ latest # PSMI_LATEST_NONE => latestSlot \in Slots /\ open_slot # latestSlot
  BY <1>1, Zenon DEF WriterOK, LatestOK
<1>3. ver[open_slot] \in Nat /\ ver \in [Slots -> Nat] /\ seq \in [Slots -> U32]
  BY <1>2, Zenon DEF TypeOK, RingTypeOK
<1>4. /\ committed_seq = EvenSeq(ver[open_slot] + 1)
      /\ committed_seq \in U32 /\ EvenSeq(ver[open_slot]) \in Int
  BY <1>2, <1>3, EvenSeqSucc, EvenSeqWord DEF committed_seq, U32
<1>5. /\ seq'[open_slot] = EvenSeq(ver'[open_slot]) /\ ver'[open_slot] = ver[open_slot] + 1
      /\ \A i \in Slots \ {open_slot} : seq'[i] = seq[i] /\ ver'[i] = ver[i]
      /\ seq' \in [Slots -> U32] /\ ver' \in [Slots -> Nat]
  BY <1>1, <1>2, <1>3, <1>4
<1>6. RingTypeOK'
  BY <1>1, <1>5, Zenon DEF TypeOK, RingTypeOK
<1>7. WriterTypeOK' /\ ReaderTypeOK'
  BY <1>1, Zenon DEF TypeOK, WriterTypeOK, ReaderTypeOK, readerVars, commit_seq
<1>8. SeqOK'
  BY <1>5, Zenon DEF SeqOK
<1>9. LatestOK'
  BY <1>1, <1>2, <1>5, Zenon DEF LatestOK, latestSlot, SlotValue
<1>10. WriterOK'
  BY <1>1, <1>4, <1>5, Zenon DEF WriterOK, target_slot, latestSlot, committed_seq
<1>11. ASSUME NEW r \in Readers PROVE ReaderOK(r)'
  <2> DEFINE i == psmi_latest_slot(rlatest[r])
  <2>1. ReaderOK(r)
    BY Zenon
  <2>2. CopyOK(r)' = CopyOK(r)
    BY <1>1, Zenon DEF CopyOK, readerVars
  <2>3. ASSUME InAttempt(r), i # open_slot
        PROVE  Fresh(r)' = Fresh(r) /\ Moved(r)' = Moved(r)
    <3>1. i \in Slots
      BY <2>1, <2>3, Zenon DEF ReaderOK, AttemptOK
    <3>2. seq'[i] = seq[i] /\ ver'[i] = ver[i]
      BY <1>5, <2>3, <3>1, Zenon
    <3> QED BY <1>1, <3>2, Zenon DEF Fresh, Moved, SlotValue, readerVars
  <2>4. ASSUME InAttempt(r), i = open_slot
        PROVE  ~Fresh(r)' /\ Moved(r)'
    <3>1. Fresh(r) \/ Moved(r)
      BY <2>1, <2>4, Zenon DEF ReaderOK, AttemptOK
    <3>2. ~Fresh(r)
      <4>1. seq[open_slot] # EvenSeq(ver[open_slot])
        BY <1>2, <1>4, SuccDiffers, Zenon
      <4> QED BY <2>4, <4>1, Zenon DEF Fresh
    <3>3. /\ ver[i] >= rver[r] /\ npub - rpub[r] >= SlotCount - 1
          /\ rver[r] \in Nat
      BY <1>3, <2>4, <3>1, <3>2 DEF Moved, TypeOK, ReaderTypeOK
    <3>4. ver[i] + 1 - rver[r] < TAG_MOD
      BY <1>1, <2>4, Zenon DEF NoTagWrap, InAttempt
    <3>5. rlatest' = rlatest /\ rver' = rver /\ rpub' = rpub
      BY <1>1, Zenon DEF readerVars
    <3>6. ver'[i] = ver[i] + 1 /\ ver[i] \in Nat
      BY <1>3, <1>5, <2>4, Zenon
    <3>7. rver[r] < ver'[i] /\ ver'[i] - rver[r] < TAG_MOD /\ ver'[i] # rver[r]
      <4>1. ver'[i] \in Nat
        BY <1>2, <1>5, <2>4, Zenon
      <4> QED BY <3>3, <3>4, <3>6, <4>1, SuccAbove, Zenon
    <3> QED BY <1>1, <3>3, <3>5, <3>7, Zenon DEF Moved, Fresh
  <2> QED BY <1>1, <2>1, <2>2, <2>3, <2>4, Zenon DEF ReaderOK, InAttempt, AttemptOK, readerVars
<1> QED BY <1>6, <1>7, <1>8, <1>9, <1>10, <1>11, Zenon DEF TypeOK

\* The retry budget a reader has used up is a number.
LEMMA LapProduct ==
  ASSUME TypeOK, NEW r \in Readers
  PROVE  attempt[r] * (SlotCount - 1) \in Nat
<1>1. attempt[r] \in Nat /\ SlotCount - 1 \in Nat
  BY SlotFacts, RingAssumption DEF TypeOK, ReaderTypeOK
<1>2. attempt[r] * 0 <= attempt[r] * (SlotCount - 1) /\ attempt[r] * (SlotCount - 1) \in Int
  BY <1>1, MulMono
<1> QED BY <1>1, <1>2

\* The value is published: it is newer than the one before, and its slot is
\* the one `latest' now names.
LEMMA CommitLatestStep == ASSUME IInv, commit_latest PROVE IInv'
<1> USE DEF IInv
<1>1. /\ wpc = "latest" /\ wpc' = "notify"
      /\ latest' = psmi_latest(open_slot, committed_seq)
      /\ wlatest' = open_slot /\ open_slot' = PSMI_LATEST_NONE
      /\ pubval' = SlotValue(open_slot) /\ npub' = npub + 1
      /\ window' = [r \in Readers |-> IF rpc[r] = "idle" THEN window[r]
                                      ELSE window[r] \cup {SlotValue(open_slot)}]
      /\ notify' = notify /\ seq' = seq /\ meta' = meta /\ data' = data
      /\ clock' = clock /\ ver' = ver /\ UNCHANGED readerVars
  BY Zenon DEF commit_latest, slotVars
<1>2. /\ open_slot \in Slots /\ open_slot = npub % SlotCount
      /\ seq[open_slot] = EvenSeq(ver[open_slot])
      /\ committed_seq = EvenSeq(ver[open_slot])
      /\ meta[open_slot]["timestamp"] = clock /\ Stamp(pubval) < clock
  BY <1>1, Zenon DEF WriterOK
<1>3. ver[open_slot] \in Nat /\ meta[open_slot] \in Metas /\ data[open_slot] \in Datas
  BY <1>2, Zenon DEF TypeOK, RingTypeOK
<1>4. pubval' \in Values /\ Stamp(pubval') = clock
  BY <1>1, <1>2, <1>3, ValueFacts, Zenon DEF SlotValue, Stamp
<1>5. latest' \in U32 /\ latest' # PSMI_LATEST_NONE /\ latestSlot' = open_slot
  BY <1>1, <1>2, <1>3, LatestWord, SlotFacts, Zenon DEF latestSlot
<1>6. RingTypeOK'
  BY <1>1, <1>4, <1>5 DEF TypeOK, RingTypeOK
<1>7. WriterTypeOK'
  BY <1>1, <1>2, Zenon DEF TypeOK, WriterTypeOK, commit_latest
<1>8. ReaderTypeOK'
  BY <1>1, <1>4, Zenon DEF TypeOK, ReaderTypeOK, readerVars
<1>9. SeqOK'
  BY <1>1, Zenon DEF SeqOK
<1>10. LatestOK'
  <2>1. (npub + 1) - 1 = npub /\ npub + 1 > 0
    BY DEF TypeOK, RingTypeOK
  <2>2. SlotValue(latestSlot)' = pubval'
    BY <1>1, <1>5, Zenon DEF SlotValue
  <2>3. Stamp(pubval') > 0
    <3>1. Stamp(pubval) \in Nat /\ clock \in Nat
      BY StampNat, Zenon DEF TypeOK, RingTypeOK
    <3> QED BY <1>2, <1>4, <3>1
  <2> QED BY <1>1, <1>2, <1>5, <2>1, <2>2, <2>3, Zenon DEF LatestOK
<1>11. WriterOK'
  <2>1. clock \in Nat /\ clock <= clock
    BY DEF TypeOK, RingTypeOK
  <2> QED BY <1>1, <1>4, <1>5, <2>1, Zenon DEF WriterOK
<1>12. ASSUME NEW r \in Readers PROVE ReaderOK(r)'
  <2>1. ReaderOK(r)
    BY Zenon
  <2>2. /\ npub \in Nat /\ npub' = npub + 1 /\ clock \in Nat
        /\ Stamp(pubval) \in Nat /\ Stamp(seen[r]) \in Nat /\ Stamp(rval[r]) \in Nat
        /\ rpub[r] \in Nat /\ callpub[r] \in Nat
    BY <1>1, StampNat, Zenon DEF TypeOK, RingTypeOK, ReaderTypeOK
  <2>3. attempt[r] * (SlotCount - 1) \in Int /\ SlotCount - 1 \in Int
    BY LapProduct, SlotFacts
  <2>4. Fresh(r)' = Fresh(r) /\ CopyOK(r)' = CopyOK(r) /\ (Moved(r) => Moved(r)')
    <3>1. Fresh(r)' = Fresh(r) /\ CopyOK(r)' = CopyOK(r)
      BY <1>1, Zenon DEF Fresh, CopyOK, SlotValue, readerVars
    <3>2. npub - rpub[r] >= SlotCount - 1 => npub' - rpub[r] >= SlotCount - 1
      BY <2>2, <2>3, MoreApart, Zenon
    <3>3. Moved(r) => Moved(r)'
      BY <1>1, <3>2, Zenon DEF Moved, readerVars
    <3> QED BY <3>1, <3>3, Zenon
  <2>5. rpc[r] # "idle" => pubval' \in window'[r] /\ window[r] \subseteq window'[r]
    BY <1>1, Zenon
  <2>6. /\ rpc' = rpc /\ attempt' = attempt /\ rlatest' = rlatest /\ q1' = q1
        /\ rver' = rver /\ rval' = rval /\ rpub' = rpub /\ callpub' = callpub /\ seen' = seen
    BY <1>1, Zenon DEF readerVars
  <2>7. Stamp(pubval) < Stamp(pubval') /\ Stamp(pubval') = clock
    BY <1>2, <1>4, Zenon
  <2>8. ASSUME InAttempt(r) PROVE AttemptOK(r)'
    <3>1. AttemptOK(r) /\ rpc[r] # "idle"
      BY <2>1, <2>8, Zenon DEF ReaderOK, InAttempt
    <3>2. (rval[r] \in window[r])' /\ (Fresh(r) \/ Moved(r))'
      BY <2>4, <2>5, <2>6, <3>1, Zenon DEF AttemptOK
    <3>3. (rpub[r] > 0 /\ rpub[r] <= npub)'
      BY <2>2, <2>6, <3>1, LeSucc, Zenon DEF AttemptOK
    <3>4. (Stamp(rval[r]) <= Stamp(pubval) /\ Stamp(seen[r]) <= Stamp(rval[r]))'
      <4>1. Stamp(rval[r]) <= Stamp(pubval) /\ Stamp(seen[r]) <= Stamp(rval[r])
        BY <3>1, Zenon DEF AttemptOK
      <4>2. clock \in Nat /\ Stamp(rval'[r]) = Stamp(rval[r]) /\ Stamp(seen'[r]) = Stamp(seen[r])
        BY <2>2, <2>6, Zenon
      <4> QED BY <2>2, <2>6, <2>7, <4>1, <4>2, LeLess, Zenon
    <3> QED BY <2>4, <2>6, <3>1, <3>2, <3>3, <3>4, Zenon DEF AttemptOK
  <2>9. (rpc[r] = "latest" => npub - callpub[r] >= attempt[r] * (SlotCount - 1))'
    BY <2>1, <2>2, <2>3, <2>6 DEF ReaderOK
  <2>10. (Stamp(seen[r]) <= Stamp(pubval))'
    <3>1. Stamp(seen[r]) <= Stamp(pubval)
      BY <2>1, Zenon DEF ReaderOK
    <3>2. Stamp(seen'[r]) = Stamp(seen[r])
      BY <2>6, Zenon
    <3> QED BY <2>2, <2>7, <3>1, <3>2, LeLess, Zenon
  <2>11. (rpc[r] # "idle" => callpub[r] <= npub)'
    BY <2>1, <2>2, <2>6, LeSucc, Zenon DEF ReaderOK
  <2> QED BY <2>1, <2>5, <2>6, <2>8, <2>9, <2>10, <2>11, Zenon DEF ReaderOK, InAttempt
<1> QED BY <1>6, <1>7, <1>8, <1>9, <1>10, <1>11, <1>12, Zenon DEF TypeOK

\* Every step of the writer preserves the invariant.
LEMMA WriterStep == ASSUME IInv, Writer PROVE IInv'
BY OpenStep, GoneStep, PublishStep, PublishCopyStep, BeginStep, AppStoreStep,
   CommitStep, AbortStep, CommitMetaStep, CommitSeqStep, CommitLatestStep, NotifyStep, Zenon
   DEF Writer, writer_close, writer_crash

=============================================================================
