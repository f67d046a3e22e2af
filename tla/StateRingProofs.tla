-------------------------- MODULE StateRingProofs ---------------------------
(***************************************************************************)
(* The invariant of the ring holds: the steps of the readers preserve it   *)
(* too. From it: the published slot is stable, a call returns a value that *)
(* was current during the call and never an older one than before, the     *)
(* ring implements the atomic register, and generations tell values apart. *)
(***************************************************************************)
EXTENDS StateRingInvariant

-----------------------------------------------------------------------------
(* What a reader can tell from the counter of the slot it is reading. *)

\* Counters of committed slots are even numbers.
LEMMA EvenSeqParity ==
  \A v \in Nat : EvenSeq(v) \in Int /\ EvenSeq(v) % 2 = 0 /\ (EvenSeq(v) + 1) % 2 = 1
<1> TAKE v \in Nat
<1>1. EvenSeq(v) \in U32 /\ EvenSeq(v) % 2 = 0 /\ (EvenSeq(v) + 1) % 2 = 1
  BY EvenSeqWord, Zenon
<1> QED BY <1>1 DEF U32

\* The counter has the value it had when `latest' was loaded exactly if the
\* slot has not been touched since.
LEMMA SeqTells ==
  ASSUME IInv, NEW r \in Readers, InAttempt(r),
         seq[psmi_latest_slot(rlatest[r])] = EvenSeq(rver[r])
  PROVE  Fresh(r)
<1> DEFINE i == psmi_latest_slot(rlatest[r])
<1>1. i \in Slots /\ (Fresh(r) \/ Moved(r))
  BY Zenon DEF IInv, ReaderOK, AttemptOK
<1>2. /\ ver[i] \in Nat /\ rver[r] \in Nat /\ i \in 0 .. (SLOT_MOD - 1)
      /\ seq[i] \in {EvenSeq(ver[i]), EvenSeq(ver[i]) + 1}
  BY <1>1, SlotFacts, Zenon DEF IInv, SeqOK, TypeOK, RingTypeOK, ReaderTypeOK
<1>3. /\ EvenSeq(rver[r]) \in Int /\ EvenSeq(rver[r]) % 2 = 0
      /\ EvenSeq(ver[i]) \in Int /\ (EvenSeq(ver[i]) + 1) % 2 = 1
  BY <1>2, EvenSeqParity, Zenon
<1>4. seq[i] = EvenSeq(ver[i])
  BY <1>2, <1>3
<1>5. rver[r] <= ver[i] /\ ver[i] - rver[r] < TAG_MOD => rver[r] = ver[i]
  BY <1>2, <1>4, LatestInjective, Zenon
<1>6. ~Moved(r)
  BY <1>2, <1>3, <1>5 DEF Moved
<1> QED BY <1>1, <1>6, Zenon

\* load_seq's test succeeds exactly if the slot holds the published version.
LEMMA ReadableTells ==
  ASSUME IInv, NEW r \in Readers, InAttempt(r)
  PROVE  readable(seq[psmi_latest_slot(rlatest[r])], rlatest[r]) <=> Fresh(r)
<1> DEFINE i == psmi_latest_slot(rlatest[r])
<1>1. i \in Slots /\ (Fresh(r) \/ Moved(r)) /\ rlatest[r] = psmi_latest(i, EvenSeq(rver[r]))
  BY Zenon DEF IInv, ReaderOK, AttemptOK
<1>2. /\ ver[i] \in Nat /\ rver[r] \in Nat /\ i \in 0 .. (SLOT_MOD - 1)
      /\ seq[i] \in {EvenSeq(ver[i]), EvenSeq(ver[i]) + 1}
  BY <1>1, SlotFacts, Zenon DEF IInv, SeqOK, TypeOK, RingTypeOK, ReaderTypeOK
<1>3. /\ EvenSeq(rver[r]) \in Int /\ EvenSeq(rver[r]) % 2 = 0
      /\ (EvenSeq(rver[r]) + 1) % 2 = 1 /\ (EvenSeq(ver[i]) + 1) % 2 = 1
  BY <1>2, EvenSeqParity, Zenon
<1>4. ASSUME Fresh(r) PROVE readable(seq[i], rlatest[r])
  BY <1>1, <1>3, <1>4, Zenon DEF Fresh, readable
<1>5. ASSUME readable(seq[i], rlatest[r]) PROVE ~Moved(r)
  <2>1. seq[i] = EvenSeq(ver[i])
    BY <1>2, <1>3, <1>5 DEF readable
  <2>2. psmi_latest(i, EvenSeq(rver[r])) = psmi_latest(i, EvenSeq(ver[i]))
    BY <1>1, <1>5, <2>1, Zenon DEF readable
  <2>3. rver[r] <= ver[i] /\ ver[i] - rver[r] < TAG_MOD => rver[r] = ver[i]
    BY <1>2, <2>2, LatestInjective, Zenon
  <2>4. seq[i] # EvenSeq(rver[r]) + 1
    BY <1>3, <1>5 DEF readable
  <2> QED BY <1>2, <2>3, <2>4 DEF Moved
<1> QED BY <1>1, <1>4, <1>5, Zenon

\* A copy that passes the recheck is the value that `latest' published.
LEMMA RecheckValue ==
  ASSUME IInv, NEW r \in Readers, rpc[r] = "recheck", unchanged_since(r)
  PROVE  /\ rmeta[r] = rval[r].meta
         /\ InfoOnly(Value(rmeta[r], rbuf[r])) = InfoOnly(rval[r])
         /\ (rcopy[r] /\ rmeta[r]["length"] <= rsize[r]) => Value(rmeta[r], rbuf[r]) = rval[r]
<1> USE DEF IInv
<1> DEFINE i == psmi_latest_slot(rlatest[r])
<1>1. InAttempt(r) /\ AttemptOK(r)
  BY Zenon DEF ReaderOK, InAttempt
<1>2. seq[i] = EvenSeq(rver[r]) /\ i \in Slots
  BY <1>1, Zenon DEF unchanged_since, AttemptOK
<1>3. Fresh(r)
  BY <1>1, <1>2, SeqTells, Zenon
<1>4. CopyOK(r)
  BY <1>1, <1>3, Zenon DEF AttemptOK
<1>5. /\ meta[i] \in Metas /\ data[i] \in Datas /\ rmeta[r] \in Metas /\ rbuf[r] \in Datas
      /\ rval[r] = Value(meta[i], data[i])
  BY <1>2, <1>3, Zenon DEF Fresh, SlotValue, TypeOK, RingTypeOK, ReaderTypeOK
<1>6. rval[r].meta = meta[i]
  BY <1>5, ValueFacts, Zenon
<1>7. rmeta[r] = meta[i]
  <2>1. \A f \in Fields : rmeta[r][f] = meta[i][f]
    BY <1>4, <1>6, Zenon DEF CopyOK
  <2>2. rmeta[r] \in [Fields -> Nat] /\ meta[i] \in [Fields -> Nat]
    BY <1>5, Zenon DEF Metas
  <2> QED BY <2>1, <2>2
<1>8. InfoOnly(Value(rmeta[r], rbuf[r])) = InfoOnly(rval[r])
  BY <1>5, <1>7, ValueFacts DEF InfoOnly
<1>9. ASSUME rcopy[r], rmeta[r]["length"] <= rsize[r]
      PROVE  Value(rmeta[r], rbuf[r]) = rval[r]
  <2>1. \A c \in 1 .. meta[i]["length"] : rbuf[r][c] = Value(meta[i], data[i]).data[c]
    BY <1>4, <1>5, <1>6, <1>7, <1>9, Zenon DEF CopyOK
  <2> QED BY <1>5, <1>7, <2>1, ValueEqual, Zenon
<1> QED BY <1>6, <1>7, <1>8, <1>9, Zenon

-----------------------------------------------------------------------------
(* The readers' steps. *)

\* A reader's step leaves the file and the writer alone.
LEMMA SharedFrame ==
  ASSUME IInv, UNCHANGED sharedVars
  PROVE  RingTypeOK' /\ WriterTypeOK' /\ SeqOK' /\ LatestOK' /\ WriterOK'
<1> USE DEF IInv, sharedVars, headerVars, slotVars, writerVars, pubVars
<1>1. RingTypeOK' /\ WriterTypeOK'
  BY Zenon DEF TypeOK, RingTypeOK, WriterTypeOK
<1>2. SeqOK' /\ LatestOK'
  BY RingFrame, Zenon
<1>3. WriterOK'
  BY Zenon DEF WriterOK, target_slot, latestSlot, committed_seq
<1> QED BY <1>1, <1>2, <1>3, Zenon

\* ... and every other reader.
SameReader(s) ==
  /\ rpc'[s] = rpc[s] /\ attempt'[s] = attempt[s] /\ rcopy'[s] = rcopy[s]
  /\ rsize'[s] = rsize[s] /\ rlatest'[s] = rlatest[s] /\ q1'[s] = q1[s]
  /\ rmeta'[s] = rmeta[s] /\ rbuf'[s] = rbuf[s] /\ rtodo'[s] = rtodo[s]
  /\ rmtodo'[s] = rmtodo[s] /\ rver'[s] = rver[s] /\ rval'[s] = rval[s]
  /\ rpub'[s] = rpub[s] /\ callpub'[s] = callpub[s] /\ seen'[s] = seen[s]
  /\ window'[s] = window[s]

\* A reader that does nothing keeps its part when nothing shared changes.
LEMMA OtherReader ==
  ASSUME IInv, UNCHANGED sharedVars, NEW s \in Readers, SameReader(s)
  PROVE  ReaderOK(s)'
<1>1. ReaderOK(s)
  BY Zenon DEF IInv
<1>2. Fresh(s)' = Fresh(s)
  BY Zenon DEF Fresh, SlotValue, SameReader, sharedVars, slotVars
<1>3. Moved(s)' = Moved(s)
  BY Zenon DEF Moved, SameReader, sharedVars, slotVars, pubVars
<1>4. CopyOK(s)' = CopyOK(s)
  BY DEF CopyOK, SameReader
<1> QED BY <1>1, <1>2, <1>3, <1>4, Zenon
        DEF ReaderOK, InAttempt, AttemptOK, SameReader, sharedVars, pubVars

\* It is enough to look at the reader that takes the step.
LEMMA OneReader ==
  ASSUME IInv, NEW r \in Readers, UNCHANGED sharedVars, ReaderTypeOK',
         \A s \in Readers \ {r} : SameReader(s), ReaderOK(r)'
  PROVE  IInv'
<1>1. \A s \in Readers \ {r} : ReaderOK(s)'
  BY OtherReader, Zenon
<1> QED BY <1>1, SharedFrame, Zenon DEF IInv, TypeOK

\* The start of a read or a peek preserves the invariant.
LEMMA StartStep ==
  ASSUME IInv, NEW r \in Readers, NEW copy \in BOOLEAN, NEW size \in Nat,
         StartCall(r, copy, size)
  PROVE  IInv'
<1> USE DEF IInv, StartCall, sampleVars
<1>1. ReaderTypeOK'
  BY Zenon DEF TypeOK, RingTypeOK, ReaderTypeOK
<1>2. \A s \in Readers \ {r} : SameReader(s)
  BY Zenon DEF SameReader, TypeOK, ReaderTypeOK
<1>3. /\ pubval' = pubval /\ npub' = npub /\ seen' = seen /\ rpc'[r] = "latest"
      /\ window'[r] = {pubval} /\ callpub'[r] = npub /\ attempt'[r] = 0 /\ npub \in Nat
  BY Zenon DEF sharedVars, pubVars, TypeOK, RingTypeOK, ReaderTypeOK, ReaderOK
<1>4. 0 * (SlotCount - 1) = 0
  BY SlotFacts
<1>5. ReaderOK(r)'
  BY <1>3, <1>4 DEF ReaderOK, InAttempt
<1> QED BY <1>1, <1>2, <1>5, OneReader, Zenon

\* Dropping the locals of an attempt keeps their types.
LEMMA ForgetType ==
  ASSUME IInv, NEW r \in Readers, ForgetAttempt(r)
  PROVE  /\ rlatest' \in [Readers -> U32] /\ q1' \in [Readers -> U32]
         /\ rmeta' \in [Readers -> Metas] /\ rbuf' \in [Readers -> Datas]
         /\ rver' \in [Readers -> Nat] /\ rpub' \in [Readers -> Nat]
         /\ rval' \in [Readers -> Values]
BY NothingYet, SlotFacts, Zenon DEF IInv, TypeOK, ReaderTypeOK, ForgetAttempt

\* A call may end at any time, provided what it hands out is no newer than the
\* published value.
LEMMA ReturnStep ==
  ASSUME IInv, NEW r \in Readers, UNCHANGED <<sharedVars, rtodo, rmtodo>>,
         NEW rc \in {"OK", "TOOSMALL", "NODATA", "BUSY", "FORMAT"}, Return(r, rc),
         rc \in {"OK", "TOOSMALL"} => rmeta[r]["timestamp"] <= Stamp(pubval)
  PROVE  IInv'
<1> USE DEF IInv, Return
<1> DEFINE v == Value(rmeta[r], rbuf[r])
<1>0. /\ v \in Values /\ InfoOnly(v) \in Values
      /\ Stamp(v) = rmeta[r]["timestamp"] /\ Stamp(InfoOnly(v)) = rmeta[r]["timestamp"]
  BY ValueFacts, Zenon DEF Stamp, TypeOK, ReaderTypeOK
<1> HIDE DEF v
<1>1. /\ seen' = [seen EXCEPT ![r] = IF rc = "OK" /\ rcopy[r] THEN v
                                     ELSE IF rc \in {"OK", "TOOSMALL"} THEN InfoOnly(v) ELSE @]
      /\ ForgetAttempt(r)
  BY Zenon DEF v
<1>2. 0 \in 0 .. (READ_RETRIES - 1)
  BY RingAssumption
<1>3. ReaderTypeOK'
  BY <1>0, <1>1, <1>2, ForgetType DEF TypeOK, ReaderTypeOK
<1>4. \A s \in Readers \ {r} : SameReader(s)
  BY Zenon DEF SameReader, TypeOK, ReaderTypeOK, ForgetAttempt
<1>5. pubval' = pubval /\ rpc'[r] = "idle" /\ attempt'[r] = 0
  BY Zenon DEF sharedVars, pubVars, TypeOK, ReaderTypeOK
<1>6. seen'[r] = v \/ seen'[r] = InfoOnly(v) \/ seen'[r] = seen[r]
  BY <1>1, Zenon DEF TypeOK, ReaderTypeOK
<1>7. Stamp(seen'[r]) <= Stamp(pubval)
  <2>1. Stamp(seen[r]) <= Stamp(pubval)
    BY Zenon DEF ReaderOK
  <2>2. CASE rc \in {"OK", "TOOSMALL"}
    BY <1>0, <1>6, <2>1, <2>2, Zenon
  <2>3. CASE rc \notin {"OK", "TOOSMALL"}
    BY <1>1, <2>1, <2>3, Zenon DEF TypeOK, ReaderTypeOK
  <2> QED BY <2>2, <2>3, Zenon
<1>8. ReaderOK(r)'
  BY <1>5, <1>7, Zenon DEF ReaderOK, InAttempt
<1> QED BY <1>3, <1>4, <1>8, OneReader, Zenon

\* A further attempt follows only one during which the ring was lapped.
LEMMA RetryStep ==
  ASSUME IInv, NEW r \in Readers, UNCHANGED <<sharedVars, rtodo, rmtodo>>,
         InAttempt(r), Moved(r), NextAttempt(r)
  PROVE  IInv'
<1> USE DEF IInv
<1>1. CASE attempt[r] + 1 < READ_RETRIES
  <2>1. /\ attempt' = [attempt EXCEPT ![r] = @ + 1]
        /\ rpc' = [rpc EXCEPT ![r] = "latest"]
        /\ ForgetAttempt(r)
        /\ UNCHANGED <<rcopy, rsize, window, callpub, result, seen>>
    BY <1>1, Zenon DEF NextAttempt
  <2>2. attempt[r] + 1 \in 0 .. (READ_RETRIES - 1) /\ attempt[r] \in Nat
    BY <1>1, RingAssumption DEF TypeOK, ReaderTypeOK
  <2>3. ReaderTypeOK'
    BY <2>1, <2>2, ForgetType, Zenon DEF TypeOK, ReaderTypeOK
  <2>4. \A s \in Readers \ {r} : SameReader(s)
    BY <2>1, Zenon DEF SameReader, TypeOK, ReaderTypeOK, ForgetAttempt
  <2>5. /\ pubval' = pubval /\ npub' = npub /\ rpc'[r] = "latest" /\ attempt'[r] = attempt[r] + 1
        /\ callpub' = callpub /\ window' = window /\ seen' = seen
    BY <2>1, Zenon DEF sharedVars, pubVars, TypeOK, ReaderTypeOK
  <2>6. npub - callpub[r] >= (attempt[r] + 1) * (SlotCount - 1)
    <3>1. /\ npub - rpub[r] >= SlotCount - 1
          /\ rpub[r] - callpub[r] >= attempt[r] * (SlotCount - 1)
      BY Zenon DEF Moved, ReaderOK, AttemptOK
    <3>2. /\ npub \in Nat /\ rpub[r] \in Nat /\ callpub[r] \in Nat
          /\ SlotCount - 1 \in Nat /\ attempt[r] * (SlotCount - 1) \in Nat
      BY SlotFacts, LapProduct DEF TypeOK, RingTypeOK, ReaderTypeOK
    <3>3. \A k \in Nat : (attempt[r] + 1) * k = attempt[r] * k + k
      BY <2>2
    <3>4. (attempt[r] + 1) * (SlotCount - 1) = attempt[r] * (SlotCount - 1) + (SlotCount - 1)
      BY <3>2, <3>3, Zenon
    <3> QED BY <3>1, <3>2, <3>4
  <2>7. ReaderOK(r)
    BY Zenon
  <2>8. ReaderOK(r)'
    BY <2>5, <2>6, <2>7, Zenon DEF ReaderOK, InAttempt
  <2> QED BY <2>3, <2>4, <2>8, OneReader, Zenon
<1>2. CASE ~(attempt[r] + 1 < READ_RETRIES)
  BY <1>2, ReturnStep, Zenon DEF NextAttempt
<1> QED BY <1>1, <1>2, Zenon

\* Loading `latest' starts an attempt on a slot that is fresh.
LEMMA LoadLatestStep == ASSUME IInv, NEW r \in Readers, load_latest(r) PROVE IInv'
<1> USE DEF IInv
<1>1. CASE latest = PSMI_LATEST_NONE
  BY <1>1, ReturnStep, Zenon DEF load_latest
<1>2. CASE latest # PSMI_LATEST_NONE
  <2>1. /\ npub > 0 /\ latestSlot \in Slots /\ latestSlot = (npub - 1) % SlotCount
        /\ latest = psmi_latest(latestSlot, EvenSeq(ver[latestSlot]))
        /\ seq[latestSlot] = EvenSeq(ver[latestSlot])
        /\ SlotValue(latestSlot) = pubval
    BY <1>2, Zenon DEF LatestOK
  <2>2. ver[latestSlot] \in Nat
    BY <2>1, Zenon DEF TypeOK, RingTypeOK
  <2>3. psmi_latest_valid(latest, SlotCount)
    BY <2>1, <2>2, LatestWord, SlotFacts, Zenon
  <2>4. /\ rpc[r] = "latest" /\ rpc' = [rpc EXCEPT ![r] = "seq"]
        /\ rlatest' = [rlatest EXCEPT ![r] = latest]
        /\ rver' = [rver EXCEPT ![r] = ver[latestSlot]]
        /\ rval' = [rval EXCEPT ![r] = pubval]
        /\ rpub' = [rpub EXCEPT ![r] = npub]
        /\ UNCHANGED <<callVars, q1, rmeta, rbuf, sharedVars, rtodo, rmtodo>>
    BY <1>2, <2>3, Zenon DEF load_latest, latestSlot
  <2>5. ReaderTypeOK'
    BY <2>2, <2>4, Zenon DEF TypeOK, RingTypeOK, ReaderTypeOK, callVars
  <2>6. \A s \in Readers \ {r} : SameReader(s)
    BY <2>4, Zenon DEF SameReader, TypeOK, ReaderTypeOK, callVars
  <2>7. /\ rpc'[r] = "seq" /\ rlatest'[r] = latest /\ rver'[r] = ver[latestSlot]
        /\ rval'[r] = pubval /\ rpub'[r] = npub
    BY <2>4, Zenon DEF TypeOK, ReaderTypeOK
  <2>8. /\ seq' = seq /\ meta' = meta /\ data' = data /\ ver' = ver /\ npub' = npub
        /\ pubval' = pubval /\ window' = window /\ callpub' = callpub /\ seen' = seen
        /\ attempt' = attempt
    BY <2>4, Zenon DEF sharedVars, slotVars, pubVars, callVars
  <2>9. Fresh(r)'
    BY <2>1, <2>7, <2>8, Zenon DEF Fresh, SlotValue, latestSlot
  <2>10. ReaderOK(r)
    BY Zenon
  <2>11. AttemptOK(r)'
    <3>1. /\ Stamp(pubval) \in Nat /\ Stamp(pubval) <= Stamp(pubval)
          /\ npub \in Nat /\ npub <= npub
      BY StampNat DEF TypeOK, RingTypeOK
    <3>2. /\ pubval \in window[r] /\ Stamp(seen[r]) <= Stamp(pubval)
          /\ npub - callpub[r] >= attempt[r] * (SlotCount - 1)
      BY <2>4, <2>10, Zenon DEF ReaderOK
    <3>3. psmi_latest_slot(rlatest'[r]) = latestSlot
      BY <2>7, Zenon DEF latestSlot
    <3>4. Stamp(rval'[r]) <= Stamp(pubval') /\ Stamp(seen'[r]) <= Stamp(rval'[r])
      BY <2>7, <2>8, <3>1, <3>2, Zenon
    <3> QED BY <1>2, <2>1, <2>7, <2>8, <2>9, <3>1, <3>2, <3>3, <3>4, Zenon DEF AttemptOK
  <2>12. ReaderOK(r)'
    BY <2>4, <2>7, <2>8, <2>10, <2>11, Zenon DEF ReaderOK, InAttempt
  <2> QED BY <2>4, <2>5, <2>6, <2>12, OneReader, Zenon
<1> QED BY <1>1, <1>2, Zenon

\* Loading seq goes on only if the slot is still fresh.
LEMMA LoadSeqStep == ASSUME IInv, NEW r \in Readers, load_seq(r) PROVE IInv'
<1> USE DEF IInv
<1> DEFINE q == seq[psmi_latest_slot(rlatest[r])]
<1>1. InAttempt(r) /\ AttemptOK(r) /\ rpc[r] = "seq"
  BY Zenon DEF load_seq, InAttempt, ReaderOK
<1>2. CASE ~readable(q, rlatest[r])
  <2>1. Moved(r)
    BY <1>1, <1>2, ReadableTells, Zenon DEF AttemptOK
  <2>2. NextAttempt(r) /\ UNCHANGED <<sharedVars, rtodo, rmtodo>>
    BY <1>2, Zenon DEF load_seq
  <2> QED BY <1>1, <2>1, <2>2, RetryStep, Zenon
<1>3. CASE readable(q, rlatest[r])
  <2>1. Fresh(r)
    BY <1>1, <1>3, ReadableTells, Zenon
  <2>2. /\ rpc' = [rpc EXCEPT ![r] = "meta"]
        /\ q1' = [q1 EXCEPT ![r] = q]
        /\ rmtodo' = [rmtodo EXCEPT ![r] = Fields]
        /\ UNCHANGED <<callVars, sampleVars, rmeta, rbuf, sharedVars, rtodo>>
    BY <1>3, Zenon DEF load_seq
  <2>3. q \in U32 /\ q = EvenSeq(rver[r])
    BY <1>1, <2>1, Zenon DEF TypeOK, RingTypeOK, AttemptOK, Fresh
  <2> HIDE DEF q
  <2>4. ReaderTypeOK'
    BY <2>2, <2>3, Zenon DEF TypeOK, ReaderTypeOK, callVars, sampleVars
  <2>5. \A s \in Readers \ {r} : SameReader(s)
    BY <2>2, Zenon DEF SameReader, TypeOK, ReaderTypeOK, callVars, sampleVars
  <2>6. rpc'[r] = "meta" /\ q1'[r] = q /\ rmtodo'[r] = Fields
    BY <2>2, Zenon DEF TypeOK, ReaderTypeOK
  <2>7. /\ Fresh(r)' = Fresh(r) /\ Moved(r)' = Moved(r)
    BY <2>2, Zenon DEF Fresh, Moved, SlotValue, sharedVars, slotVars, pubVars, sampleVars
  <2>8. CopyOK(r)'
    BY <2>6, Zenon DEF CopyOK
  <2>9. AttemptOK(r)'
    BY Zenon, <1>1, <2>2, <2>3, <2>6, <2>7, <2>8
       DEF AttemptOK, sharedVars, pubVars, sampleVars, callVars
  <2>10. ReaderOK(r)
    BY Zenon
  <2>11. ReaderOK(r)'
    BY <1>1, <2>2, <2>6, <2>9, <2>10, Zenon DEF ReaderOK, InAttempt, sharedVars, pubVars, callVars
  <2> QED BY <2>2, <2>4, <2>5, <2>11, OneReader, Zenon
<1> QED BY <1>2, <1>3, Zenon

\* The copying steps: the attempt goes on as it was, with one more part copied.
LEMMA CopyFrame ==
  ASSUME IInv, NEW r \in Readers, rpc[r] \in {"meta", "data"},
         UNCHANGED <<sharedVars, callVars, sampleVars, q1>>,
         rpc'[r] \in {"meta", "data", "recheck"}, Fresh(r) => CopyOK(r)'
  PROVE  ReaderOK(r)'
<1> USE DEF IInv
<1>1. ReaderOK(r) /\ AttemptOK(r)
  BY Zenon DEF ReaderOK, InAttempt
<1>2. Fresh(r)' = Fresh(r) /\ Moved(r)' = Moved(r)
  BY Zenon DEF Fresh, Moved, SlotValue, sharedVars, slotVars, pubVars, sampleVars
<1>3. AttemptOK(r)'
  BY <1>1, <1>2, Zenon DEF AttemptOK, sharedVars, pubVars, sampleVars, callVars
<1> QED BY <1>1, <1>3, Zenon DEF ReaderOK, InAttempt, sharedVars, pubVars, callVars

\* A fresh slot holds the sampled value.
LEMMA FreshSlot ==
  ASSUME IInv, NEW r \in Readers, InAttempt(r), Fresh(r)
  PROVE  LET i == psmi_latest_slot(rlatest[r]) IN
         /\ rval[r].meta = meta[i]
         /\ \A c \in 1 .. rval[r].meta["length"] : rval[r].data[c] = data[i][c]
<1> DEFINE i == psmi_latest_slot(rlatest[r])
<1>1. i \in Slots /\ rval[r] = Value(meta[i], data[i])
  BY Zenon DEF IInv, ReaderOK, AttemptOK, Fresh, SlotValue
<1>2. meta[i] \in Metas /\ data[i] \in Datas
  BY <1>1, Zenon DEF IInv, TypeOK, RingTypeOK
<1>3. rval[r].meta = meta[i]
  BY <1>1, <1>2, ValueFacts, Zenon
<1>4. \A c \in 1 .. meta[i]["length"] : Value(meta[i], data[i]).data[c] = data[i][c]
  BY Zenon DEF Value
<1> QED BY <1>1, <1>3, <1>4, Zenon

\* Copying a field of the slot header preserves the invariant.
LEMMA CopyMetaStep ==
  ASSUME IInv, NEW r \in Readers, NEW f \in Fields, copy_meta(r, f)
  PROVE  IInv'
<1> USE DEF IInv
<1> DEFINE i == psmi_latest_slot(rlatest[r])
           m == [rmeta[r] EXCEPT ![f] = meta[i][f]]
           last == rmtodo[r] = {f}
<1>1. /\ rpc[r] = "meta" /\ f \in rmtodo[r]
      /\ rmeta' = [rmeta EXCEPT ![r] = m]
      /\ rmtodo' = [rmtodo EXCEPT ![r] = @ \ {f}]
      /\ rtodo' = [rtodo EXCEPT ![r] = IF last THEN units_to_copy(r, m) ELSE @]
      /\ rpc' = [rpc EXCEPT ![r] =
                   IF ~last THEN "meta"
                   ELSE IF units_to_copy(r, m) = {} THEN "recheck" ELSE "data"]
      /\ UNCHANGED <<sharedVars, callVars, sampleVars, q1, rbuf>>
  BY Zenon DEF copy_meta
<1>2. InAttempt(r) /\ AttemptOK(r) /\ i \in Slots
  BY <1>1, Zenon DEF InAttempt, ReaderOK, AttemptOK
<1>3. meta[i] \in Metas /\ rmeta[r] \in Metas
  BY <1>2, Zenon DEF TypeOK, RingTypeOK, ReaderTypeOK
<1>4. /\ meta[i][f] \in Nat /\ (f = "generation" => meta[i][f] \in U32)
      /\ (f = "length" => meta[i][f] \in 0 .. Capacity)
  BY <1>3, Zenon DEF Metas
<1>5. m \in Metas /\ m[f] = meta[i][f] /\ \A g \in Fields \ {f} : m[g] = rmeta[r][g]
  BY <1>3, <1>4, MetaStore, Zenon DEF Metas
<1> HIDE DEF m
<1>6. units_to_copy(r, m) \in SUBSET Offsets
  <2>1. m["length"] \in 0 .. Capacity /\ Capacity \in Nat
    BY <1>5, RingAssumption, Zenon DEF Metas
  <2>2. 1 .. m["length"] \subseteq Offsets
    BY <2>1 DEF Offsets
  <2> QED BY <2>2, Zenon DEF units_to_copy
<1>7. ReaderTypeOK'
  BY <1>1, <1>5, <1>6, Zenon DEF TypeOK, ReaderTypeOK, callVars, sampleVars
<1>8. \A s \in Readers \ {r} : SameReader(s)
  BY <1>1, Zenon DEF SameReader, TypeOK, ReaderTypeOK, callVars, sampleVars
<1>9. /\ rmeta'[r] = m /\ rmtodo'[r] = rmtodo[r] \ {f}
      /\ rtodo'[r] = (IF last THEN units_to_copy(r, m) ELSE rtodo[r])
      /\ rpc'[r] = IF ~last THEN "meta"
                   ELSE IF units_to_copy(r, m) = {} THEN "recheck" ELSE "data"
      /\ rval' = rval /\ rcopy' = rcopy /\ rsize' = rsize
  BY <1>1, Zenon DEF TypeOK, ReaderTypeOK, sampleVars, callVars
<1>10. ASSUME Fresh(r) PROVE CopyOK(r)'
  <2>1. rval[r].meta = meta[i]
    BY <1>2, <1>10, FreshSlot, Zenon
  <2>2. CopyOK(r)
    BY <1>1, <1>2, <1>10, Zenon DEF AttemptOK
  <2>3. \A g \in Fields \ rmtodo'[r] : rmeta'[r][g] = rval'[r].meta[g]
    BY <1>5, <1>9, <2>1, <2>2, Zenon DEF CopyOK
  <2>4. CASE ~last
    BY <1>9, <2>3, <2>4, Zenon DEF CopyOK
  <2>5. CASE last
    <3>1. rmtodo'[r] = {} /\ rtodo'[r] = units_to_copy(r, m)
      BY <1>9, <2>5, Zenon
    <3>2. m["length"] = rval[r].meta["length"] /\ m["length"] \in 0 .. Capacity
      BY <1>5, <1>9, <2>3, <3>1, Zenon DEF Fields, Metas
    <3>3. rcopy[r] /\ rval[r].meta["length"] <= rsize[r] =>
            rtodo'[r] = 1 .. rval[r].meta["length"]
      <4>1. m["length"] <= Capacity
        BY <3>2, RingAssumption
      <4> QED BY <3>1, <3>2, <4>1, Zenon DEF units_to_copy
    <3>4. rpc'[r] = "recheck" => rtodo'[r] = {}
      BY <1>9, <2>5, Zenon
    <3> QED BY <1>9, <2>3, <3>1, <3>3, <3>4, Zenon DEF CopyOK
  <2> QED BY <2>4, <2>5, Zenon
<1>11. ReaderOK(r)'
  BY <1>1, <1>9, <1>10, CopyFrame, Zenon
<1> QED BY <1>1, <1>7, <1>8, <1>11, OneReader, Zenon

\* Copying a unit of the payload preserves the invariant.
LEMMA CopyDataStep ==
  ASSUME IInv, NEW r \in Readers, NEW c \in Offsets, copy_data(r, c)
  PROVE  IInv'
<1> USE DEF IInv
<1> DEFINE i == psmi_latest_slot(rlatest[r])
<1>1. /\ rpc[r] = "data" /\ c \in rtodo[r]
      /\ rbuf' = [rbuf EXCEPT ![r][c] = data[i][c]]
      /\ rtodo' = [rtodo EXCEPT ![r] = @ \ {c}]
      /\ rpc' = [rpc EXCEPT ![r] = IF rtodo[r] = {c} THEN "recheck" ELSE "data"]
      /\ UNCHANGED <<sharedVars, callVars, sampleVars, q1, rmeta, rmtodo>>
  BY Zenon DEF copy_data
<1>2. InAttempt(r) /\ AttemptOK(r) /\ i \in Slots
  BY <1>1, Zenon DEF InAttempt, ReaderOK, AttemptOK
<1>3. data[i][c] \in Unit /\ rbuf[r] \in Datas
  BY <1>2, Zenon DEF TypeOK, RingTypeOK, ReaderTypeOK, Datas
<1>4. rbuf' = [rbuf EXCEPT ![r] = [rbuf[r] EXCEPT ![c] = data[i][c]]]
  BY <1>1, Zenon
<1>5. /\ [rbuf[r] EXCEPT ![c] = data[i][c]] \in Datas
      /\ rbuf'[r] = [rbuf[r] EXCEPT ![c] = data[i][c]]
  BY <1>3, <1>4, Zenon DEF Datas, TypeOK, ReaderTypeOK
<1>6. ReaderTypeOK'
  BY <1>1, <1>4, <1>5 DEF TypeOK, ReaderTypeOK, callVars, sampleVars
<1>7. \A s \in Readers \ {r} : SameReader(s)
  BY <1>1, <1>4, Zenon DEF SameReader, TypeOK, ReaderTypeOK, callVars, sampleVars
<1>8. /\ rtodo'[r] = rtodo[r] \ {c}
      /\ rpc'[r] = IF rtodo[r] = {c} THEN "recheck" ELSE "data"
      /\ rval' = rval /\ rcopy' = rcopy /\ rsize' = rsize /\ rmeta' = rmeta /\ rmtodo' = rmtodo
  BY <1>1, Zenon DEF TypeOK, ReaderTypeOK, sampleVars, callVars
<1>9. ASSUME Fresh(r) PROVE CopyOK(r)'
  <2>1. \A x \in 1 .. rval[r].meta["length"] : rval[r].data[x] = data[i][x]
    BY <1>2, <1>9, FreshSlot, Zenon
  <2>2. CopyOK(r)
    BY <1>1, <1>2, <1>9, Zenon DEF AttemptOK
  <2>3. rbuf'[r][c] = data[i][c] /\ \A x \in Offsets \ {c} : rbuf'[r][x] = rbuf[r][x]
    BY <1>3, <1>5, Zenon DEF Datas
  <2>4. rval[r].meta["length"] \in 0 .. Capacity
    <3>1. rval[r].meta \in Metas
      BY Zenon DEF TypeOK, ReaderTypeOK, Values
    <3> QED BY <3>1, Zenon DEF Metas
  <2>5. ASSUME rcopy[r], rval[r].meta["length"] <= rsize[r],
               NEW x \in (1 .. rval[r].meta["length"]) \ rtodo'[r]
        PROVE  rbuf'[r][x] = rval[r].data[x]
    <3>1. CASE x = c
      BY <2>1, <2>3, <3>1, Zenon
    <3>2. CASE x # c
      <4>1. x \in Offsets \ {c} /\ x \in (1 .. rval[r].meta["length"]) \ rtodo[r]
        <5>1. 1 .. rval[r].meta["length"] \subseteq Offsets
          <6>1. \A n \in 0 .. Capacity : 1 .. n \subseteq 1 .. Capacity
            BY RingAssumption
          <6> QED BY <2>4, <6>1, Zenon DEF Offsets
        <5>2. rtodo'[r] = rtodo[r] \ {c}
          BY <1>8, Zenon
        <5> QED BY <3>2, <5>1, <5>2, Zenon
      <4>2. rbuf[r][x] = rval[r].data[x]
        BY <1>1, <2>2, <2>5, <4>1, Zenon DEF CopyOK
      <4> QED BY <2>3, <4>1, <4>2, Zenon
    <3> QED BY <3>1, <3>2, Zenon
  <2>6. (rtodo[r] = {c} <=> rtodo'[r] = {}) /\ rmtodo[r] = {}
    BY <1>1, <1>8, <2>2, Zenon DEF CopyOK
  <2> QED BY <1>8, <2>2, <2>5, <2>6, Zenon DEF CopyOK
<1>10. ReaderOK(r)'
  BY <1>1, <1>8, <1>9, CopyFrame, Zenon
<1> QED BY <1>1, <1>6, <1>7, <1>10, OneReader, Zenon

\* The second load of seq, with every result it leads to, preserves the
\* invariant.
LEMMA RecheckStep == ASSUME IInv, NEW r \in Readers, recheck(r) PROVE IInv'
<1> USE DEF IInv
<1>1. /\ InAttempt(r) /\ AttemptOK(r) /\ rpc[r] = "recheck"
      /\ UNCHANGED <<sharedVars, rtodo, rmtodo>>
  BY Zenon DEF recheck, InAttempt, ReaderOK
<1>2. CASE ~unchanged_since(r)
  <2>1. Moved(r)
    BY <1>1, <1>2, Zenon DEF AttemptOK, Fresh, unchanged_since
  <2> QED BY <1>1, <1>2, <2>1, RetryStep, Zenon DEF recheck
<1>3. CASE unchanged_since(r)
  <2>1. rmeta[r]["timestamp"] <= Stamp(pubval)
    BY <1>1, <1>3, RecheckValue, Zenon DEF AttemptOK, Stamp
  <2>2. \E rc \in {"OK", "TOOSMALL", "FORMAT"} : Return(r, rc)
    BY <1>3, Zenon DEF recheck
  <2> QED BY <1>1, <2>1, <2>2, ReturnStep, Zenon
<1> QED BY <1>2, <1>3, Zenon

\* Every step of a reader preserves the invariant.
LEMMA ReaderStep == ASSUME IInv, NEW r \in Readers, Reader(r) PROVE IInv'
<1>1. BufSizes \subseteq Nat
  BY RingAssumption, Zenon
<1> QED BY Zenon, <1>1, StartStep, LoadLatestStep, LoadSeqStep, CopyMetaStep,
           CopyDataStep, RecheckStep
       DEF Reader, read_latest, state_read, state_peek

\* So does every step of the system, and stuttering.
LEMMA NextIInv == IInv /\ [Next]_vars => IInv'
<1> SUFFICES ASSUME IInv, [Next]_vars PROVE IInv'
  BY Zenon
<1>1. CASE Writer
  BY <1>1, WriterStep, Zenon
<1>2. ASSUME NEW r \in Readers, Reader(r) PROVE IInv'
  BY <1>2, ReaderStep, Zenon
<1>3. CASE UNCHANGED vars
  <2>1. UNCHANGED <<latest, slotVars, readerVars, pubVars, ver, window, sharedVars>>
    BY <1>3, Zenon DEF vars, sharedVars, headerVars
  <2> QED BY <2>1, SharedFrame, ReaderFrame, Zenon DEF IInv, TypeOK
<1> QED BY <1>1, <1>2, <1>3, Zenon DEF Next

-----------------------------------------------------------------------------
(* The theorems. *)

\* The strengthened invariant: every slot's counter counts its commits, the
\* slot named by `latest' is committed and untouched, the writer works on the
\* slot after it, and a reader's slot is either untouched since the reader
\* loaded `latest' or has visibly moved on.
THEOREM Invariance == Spec => []IInv
BY InitIInv, NextIInv, PTL DEF Spec

\* The words of the file and the handles' fields keep their ranges.
THEOREM TypeCorrect == Spec => []TypeOK
<1>1. IInv => TypeOK
  BY Zenon DEF IInv
<1> QED BY <1>1, Invariance, PTL

\* The slot that `latest' names is even, of the version `latest' carries, and
\* holds the last published value: no publish, abort, crash or reopening of
\* the writer ever disturbs it.
THEOREM PublishedSlotStable == Spec => []LatestStable
<1>1. IInv => LatestStable
  <2> SUFFICES ASSUME IInv, latest # PSMI_LATEST_NONE
               PROVE  /\ latestSlot \in Slots
                      /\ readable(seq[latestSlot], latest)
                      /\ SlotValue(latestSlot) = pubval
    BY Zenon DEF LatestStable, latestSlot
  <2>1. /\ latestSlot \in Slots /\ SlotValue(latestSlot) = pubval
        /\ latest = psmi_latest(latestSlot, EvenSeq(ver[latestSlot]))
        /\ seq[latestSlot] = EvenSeq(ver[latestSlot])
    BY Zenon DEF IInv, LatestOK
  <2>2. EvenSeq(ver[latestSlot]) % 2 = 0
    BY <2>1, EvenSeqParity, Zenon DEF IInv, TypeOK, RingTypeOK
  <2> QED BY <2>1, <2>2, Zenon DEF readable, latestSlot
<1> QED BY <1>1, Invariance, PTL

-----------------------------------------------------------------------------
(* What calls return. *)

\* How a call can end: there is nothing yet; the last attempt was lapped; or
\* what is handed out is what was sampled with `latest'.
ReturnKind(r) ==
  \/ result'[r] = "NODATA" /\ rpc[r] = "latest" /\ latest = PSMI_LATEST_NONE
     /\ seen'[r] = seen[r]
  \/ result'[r] = "BUSY" /\ InAttempt(r) /\ Moved(r) /\ seen'[r] = seen[r]
     /\ attempt[r] + 1 >= READ_RETRIES
  \/ result'[r] = "OK" /\ InAttempt(r)
     /\ seen'[r] = IF rcopy[r] THEN rval[r] ELSE InfoOnly(rval[r])
  \/ result'[r] = "TOOSMALL" /\ InAttempt(r) /\ seen'[r] = InfoOnly(rval[r])
     /\ rval[r].meta["length"] > rsize[r]

\* What a step of one reader is to it: its call ends as above or hands out
\* nothing yet.
LEMMA OwnStep ==
  ASSUME IInv, NEW r \in Readers, Reader(r)
  PROVE  IF Returning(r) THEN ReturnKind(r) ELSE seen'[r] = seen[r]
<1> USE DEF IInv
<1>0. /\ rpc \in [Readers -> {"idle", "latest", "seq", "meta", "data", "recheck"}]
      /\ result \in [Readers -> {"NONE", "OK", "TOOSMALL", "NODATA", "BUSY", "FORMAT"}]
      /\ seen \in [Readers -> Values]
      /\ attempt[r] \in Nat /\ READ_RETRIES \in Nat
  BY RingAssumption DEF TypeOK, ReaderTypeOK
<1>1. ASSUME NEW copy, NEW size, StartCall(r, copy, size)
      PROVE  ~Returning(r) /\ seen'[r] = seen[r]
  BY <1>0, <1>1, Zenon DEF StartCall, Returning
<1>2. ASSUME InAttempt(r), Moved(r), NextAttempt(r)
      PROVE  IF Returning(r) THEN ReturnKind(r) ELSE seen'[r] = seen[r]
  <2>1. CASE attempt[r] + 1 < READ_RETRIES
    BY <1>0, <1>2, <2>1, Zenon DEF NextAttempt, Returning
  <2>2. CASE ~(attempt[r] + 1 < READ_RETRIES)
    <3>1. result'[r] = "BUSY" /\ seen'[r] = seen[r]
      BY <1>0, <1>2, <2>2, Zenon DEF NextAttempt, Return
    <3>2. attempt[r] + 1 >= READ_RETRIES
      BY <1>0, <2>2
    <3> QED BY <1>2, <3>1, <3>2, Zenon DEF ReturnKind
  <2> QED BY <2>1, <2>2, Zenon
<1>3. CASE load_latest(r)
  <2>1. CASE latest = PSMI_LATEST_NONE
    BY <1>0, <1>3, <2>1, Zenon DEF load_latest, Return, ReturnKind
  <2>2. CASE latest # PSMI_LATEST_NONE
    <3>1. latestSlot \in Slots /\ latest = psmi_latest(latestSlot, EvenSeq(ver[latestSlot]))
      BY <2>2, Zenon DEF LatestOK
    <3>2. psmi_latest_valid(latest, SlotCount)
      BY <3>1, LatestWord, SlotFacts, Zenon DEF TypeOK, RingTypeOK
    <3> QED BY <1>0, <1>3, <2>2, <3>2, Zenon DEF load_latest, callVars, Returning
  <2> QED BY <2>1, <2>2, Zenon
<1>4. CASE load_seq(r)
  <2>1. InAttempt(r) /\ AttemptOK(r)
    BY <1>4, Zenon DEF load_seq, InAttempt, ReaderOK
  <2>2. CASE readable(seq[psmi_latest_slot(rlatest[r])], rlatest[r])
    BY <1>0, <1>4, <2>2, Zenon DEF load_seq, callVars, Returning
  <2>3. CASE ~readable(seq[psmi_latest_slot(rlatest[r])], rlatest[r])
    <3>1. Moved(r)
      BY <2>1, <2>3, ReadableTells, Zenon DEF AttemptOK
    <3> QED BY <1>2, <1>4, <2>1, <2>3, <3>1, Zenon DEF load_seq
  <2> QED BY <2>2, <2>3, Zenon
<1>5. ASSUME NEW f \in Fields, copy_meta(r, f) PROVE ~Returning(r) /\ seen'[r] = seen[r]
  BY <1>0, <1>5, Zenon DEF copy_meta, callVars, Returning
<1>6. ASSUME NEW c \in Offsets, copy_data(r, c) PROVE ~Returning(r) /\ seen'[r] = seen[r]
  BY <1>0, <1>6, Zenon DEF copy_data, callVars, Returning
<1>7. CASE recheck(r)
  <2>1. InAttempt(r) /\ AttemptOK(r) /\ rpc[r] = "recheck"
    BY <1>7, Zenon DEF recheck, InAttempt, ReaderOK
  <2>2. CASE ~unchanged_since(r)
    <3>1. Moved(r)
      BY <2>1, <2>2, Zenon DEF AttemptOK, Fresh, unchanged_since
    <3> QED BY <1>2, <1>7, <2>1, <2>2, <3>1, Zenon DEF recheck
  <2>3. CASE unchanged_since(r)
    <3>1. /\ rmeta[r] = rval[r].meta
          /\ InfoOnly(Value(rmeta[r], rbuf[r])) = InfoOnly(rval[r])
          /\ (rcopy[r] /\ rmeta[r]["length"] <= rsize[r]) => Value(rmeta[r], rbuf[r]) = rval[r]
      BY <2>1, <2>3, RecheckValue, Zenon
    <3>2. /\ rmeta[r]["length"] \in 0 .. Capacity /\ rsize[r] \in Nat
          /\ Capacity \in Nat /\ rcopy[r] \in BOOLEAN
      BY RingAssumption, Zenon DEF TypeOK, ReaderTypeOK, Metas
    <3>3. CASE ~rcopy[r] \/ rmeta[r]["length"] <= rsize[r]
      <4>1. Return(r, "OK")
        BY <1>7, <2>3, <3>2, <3>3 DEF recheck
      <4>2. /\ result'[r] = "OK"
            /\ seen'[r] = IF rcopy[r] THEN Value(rmeta[r], rbuf[r])
                          ELSE InfoOnly(Value(rmeta[r], rbuf[r]))
        BY <1>0, <4>1, Zenon DEF Return
      <4>3. seen'[r] = IF rcopy[r] THEN rval[r] ELSE InfoOnly(rval[r])
        BY <3>1, <3>3, <4>2, Zenon
      <4>4. Returning(r)
        BY <1>0, <2>1, <4>1, Zenon DEF Return, Returning
      <4> QED BY <2>1, <4>2, <4>3, <4>4, Zenon DEF ReturnKind
    <3>4. CASE ~(~rcopy[r] \/ rmeta[r]["length"] <= rsize[r])
      <4>1. Return(r, "TOOSMALL")
        BY <1>7, <2>3, <3>2, <3>4 DEF recheck
      <4>2. result'[r] = "TOOSMALL" /\ seen'[r] = InfoOnly(Value(rmeta[r], rbuf[r]))
        BY <1>0, <4>1, Zenon DEF Return
      <4>3. Returning(r)
        BY <1>0, <2>1, <4>1, Zenon DEF Return, Returning
      <4> QED BY <2>1, <3>1, <3>2, <3>4, <4>2, <4>3 DEF ReturnKind
    <3> QED BY <3>3, <3>4, Zenon
  <2> QED BY <2>2, <2>3, Zenon
<1> QED BY <1>1, <1>3, <1>4, <1>5, <1>6, <1>7, Zenon DEF Reader, read_latest, state_read, state_peek

\* A step of another reader, or of the writer, is nothing to r.
LEMMA OthersStep ==
  ASSUME TypeOK, NEW r \in Readers, NEW s \in Readers, s # r, Reader(s)
  PROVE  UNCHANGED <<rpc[r], seen[r], rval[r]>>
<1> USE DEF TypeOK, ReaderTypeOK
<1>1. ASSUME NEW rc, Return(s, rc) PROVE UNCHANGED <<rpc[r], seen[r], rval[r]>>
  BY <1>1, Zenon DEF Return, ForgetAttempt
<1>2. ASSUME NextAttempt(s) PROVE UNCHANGED <<rpc[r], seen[r], rval[r]>>
  <2>1. CASE attempt[s] + 1 < READ_RETRIES
    <3>1. /\ rpc' = [rpc EXCEPT ![s] = "latest"] /\ seen' = seen
          /\ rval' = [rval EXCEPT ![s] = NoValue]
      BY <1>2, <2>1, Zenon DEF NextAttempt, ForgetAttempt
    <3> QED BY <3>1, Zenon
  <2>2. CASE ~(attempt[s] + 1 < READ_RETRIES)
    BY <1>1, <1>2, <2>2, Zenon DEF NextAttempt
  <2> QED BY <2>1, <2>2, Zenon
<1>3. CASE load_latest(s)
  BY <1>1, <1>3 DEF load_latest, callVars
<1>4. CASE load_seq(s)
  BY <1>2, <1>4 DEF load_seq, callVars, sampleVars
<1>5. CASE recheck(s)
  BY <1>1, <1>2, <1>5, Zenon DEF recheck
<1>6. ASSUME NEW f \in Fields, copy_meta(s, f) PROVE UNCHANGED <<rpc[r], seen[r], rval[r]>>
  BY <1>6, Zenon DEF copy_meta, callVars, sampleVars
<1>7. ASSUME NEW c \in Offsets, copy_data(s, c) PROVE UNCHANGED <<rpc[r], seen[r], rval[r]>>
  BY <1>7, Zenon DEF copy_data, callVars, sampleVars
<1>8. ASSUME NEW copy, NEW size, StartCall(s, copy, size)
      PROVE  UNCHANGED <<rpc[r], seen[r], rval[r]>>
  BY <1>8, Zenon DEF StartCall, sampleVars
<1> QED BY <1>3, <1>4, <1>5, <1>6, <1>7, <1>8, Zenon DEF Reader, read_latest, state_read, state_peek

\* The writer touches no reader; only commit_latest changes the current value.
LEMMA WriterTouches ==
  ASSUME Writer
  PROVE  /\ UNCHANGED readerVars
         /\ commit_latest \/ UNCHANGED <<pubVars, window>>
<1>1. ASSUME NEW d \in Payloads, state_publish(d)
      PROVE  UNCHANGED readerVars /\ UNCHANGED <<pubVars, window>>
  BY <1>1, Zenon DEF state_publish, begin_slot
<1>2. CASE state_begin
  BY <1>2, Zenon DEF state_begin, begin_slot
<1>3. CASE commit_latest
  BY <1>3, Zenon DEF commit_latest
<1>4. CASE writer_open \/ writer_close \/ writer_crash \/ state_abort \/ commit_seq \/ commit_notify
  BY <1>4, Zenon DEF writer_open, writer_close, writer_crash, WriterGone, state_abort, commit_seq,
              commit_notify
<1>5. ASSUME NEW c \in Offsets, publish_copy(c)
      PROVE  UNCHANGED readerVars /\ UNCHANGED <<pubVars, window>>
  BY <1>5, Zenon DEF publish_copy
<1>6. ASSUME NEW c \in Offsets, NEW u \in AppUnits, app_store(c, u)
      PROVE  UNCHANGED readerVars /\ UNCHANGED <<pubVars, window>>
  BY <1>6, Zenon DEF app_store
<1>7. ASSUME NEW len \in AppLens, state_commit(len)
      PROVE  UNCHANGED readerVars /\ UNCHANGED <<pubVars, window>>
  BY <1>7, Zenon DEF state_commit
<1>8. ASSUME NEW f \in Fields, commit_meta(f)
      PROVE  UNCHANGED readerVars /\ UNCHANGED <<pubVars, window>>
  BY <1>8, Zenon DEF commit_meta
<1> QED BY <1>1, <1>2, <1>3, <1>4, <1>5, <1>6, <1>7, <1>8, Zenon DEF Writer

\* A handle hands out something only when its own call ends.
LEMMA EveryStep ==
  ASSUME IInv, [Next]_vars, NEW r \in Readers
  PROVE  IF Returning(r) THEN ReturnKind(r) ELSE seen'[r] = seen[r]
<1>1. CASE Writer
  BY <1>1, WriterTouches, Zenon DEF readerVars, Returning
<1>2. ASSUME NEW s \in Readers, s # r, Reader(s)
      PROVE  ~Returning(r) /\ seen'[r] = seen[r]
  BY <1>2, OthersStep, Zenon DEF IInv, Returning
<1>3. CASE Reader(r)
  BY <1>3, OwnStep, Zenon
<1>4. CASE UNCHANGED vars
  BY <1>4, Zenon DEF vars, readerVars, Returning
<1> QED BY <1>1, <1>2, <1>3, <1>4, Zenon DEF Next

\* Every result of state_read and state_peek is one value that was current at
\* some moment of the call; NODATA is returned only if the file was empty when
\* the call began, and FORMAT never.
THEOREM ReadsAreAtomic == Spec => ReadIsAtomic
<1> DEFINE A(r) == Returning(r) =>
       CASE result'[r] = "OK" ->
              \E v \in window[r] : seen'[r] = IF rcopy[r] THEN v ELSE InfoOnly(v)
         [] result'[r] = "TOOSMALL" ->
              \E v \in window[r] : seen'[r] = InfoOnly(v) /\ v.meta["length"] > rsize[r]
         [] result'[r] = "NODATA" -> NoValue \in window[r]
         [] result'[r] = "BUSY" -> TRUE
         [] OTHER -> FALSE
<1>1. ASSUME IInv, [Next]_vars, NEW r \in Readers PROVE A(r)
  <2> SUFFICES ASSUME Returning(r) PROVE A(r)
    BY Zenon
  <2>1. ReturnKind(r)
    BY <1>1, EveryStep, Zenon
  <2>2. InAttempt(r) => rval[r] \in window[r]
    BY <1>1, Zenon DEF IInv, ReaderOK, AttemptOK
  <2>3. rpc[r] = "latest" /\ latest = PSMI_LATEST_NONE => NoValue \in window[r]
    BY <1>1, Zenon DEF IInv, ReaderOK, LatestOK
  <2> QED BY <2>1, <2>2, <2>3, Zenon DEF ReturnKind
<1>2. IInv /\ [Next]_vars => [\A r \in Readers : A(r)]_vars
  BY <1>1, Zenon
<1>3. ReadIsAtomic <=> [][\A r \in Readers : A(r)]_vars
  BY Zenon DEF ReadIsAtomic
<1> QED BY <1>2, <1>3, Invariance, PTL DEF Spec

\* No handle ever returns an older value than it returned before.
THEOREM ReadsNeverGoBack == Spec => NeverOlder
<1>1. ASSUME IInv, [Next]_vars, NEW r \in Readers
      PROVE  seen'[r].meta["timestamp"] >= seen[r].meta["timestamp"]
  <2>1. Stamp(seen[r]) \in Nat /\ rval[r] \in Values
    BY <1>1, StampNat, Zenon DEF IInv, TypeOK, ReaderTypeOK
  <2>2. InAttempt(r) => Stamp(seen[r]) <= Stamp(rval[r]) /\ Stamp(rval[r]) \in Nat
    BY <1>1, <2>1, StampNat, Zenon DEF IInv, ReaderOK, AttemptOK
  <2>3. Stamp(InfoOnly(rval[r])) = Stamp(rval[r])
    BY Zenon DEF Stamp, InfoOnly
  <2>4. CASE seen'[r] = seen[r]
    BY <2>1, <2>4 DEF Stamp
  <2>5. CASE seen'[r] # seen[r]
    <3>1. InAttempt(r) /\ seen'[r] \in {rval[r], InfoOnly(rval[r])}
      BY <1>1, <2>5, EveryStep, Zenon DEF ReturnKind
    <3>2. Stamp(seen'[r]) = Stamp(rval[r])
      BY <2>3, <3>1, Zenon
    <3> QED BY <2>1, <2>2, <3>1, <3>2, Zenon DEF Stamp
  <2> QED BY <2>4, <2>5, Zenon
<1>2. IInv /\ [Next]_vars =>
        [\A r \in Readers : seen'[r].meta["timestamp"] >= seen[r].meta["timestamp"]]_vars
  BY <1>1, Zenon
<1> QED BY <1>2, Invariance, PTL DEF Spec, NeverOlder

\* A call returns BUSY only if, in each of its READ_RETRIES attempts, the
\* writer published SlotCount - 1 values or more.
THEOREM BusyMeansLapped == Spec => BusyOnlyIfLapped
<1>1. ASSUME IInv, [Next]_vars, NEW r \in Readers, Returning(r), result'[r] = "BUSY"
      PROVE  npub - callpub[r] >= READ_RETRIES * (SlotCount - 1)
  <2>1. InAttempt(r) /\ Moved(r) /\ attempt[r] + 1 >= READ_RETRIES
    BY <1>1, EveryStep, Zenon DEF ReturnKind
  <2>2. /\ npub - rpub[r] >= SlotCount - 1
        /\ rpub[r] - callpub[r] >= attempt[r] * (SlotCount - 1)
    BY <1>1, <2>1, Zenon DEF IInv, ReaderOK, AttemptOK, Moved
  <2>3. /\ npub \in Nat /\ rpub[r] \in Nat /\ callpub[r] \in Nat /\ attempt[r] \in Nat
        /\ attempt[r] + 1 = READ_RETRIES /\ SlotCount - 1 \in Nat
    <3>1. /\ attempt[r] \in 0 .. (READ_RETRIES - 1) /\ npub \in Nat
          /\ rpub[r] \in Nat /\ callpub[r] \in Nat
      BY <1>1, Zenon DEF IInv, TypeOK, RingTypeOK, ReaderTypeOK
    <3>2. READ_RETRIES \in Nat
      BY RingAssumption, Zenon
    <3> QED BY <2>1, <3>1, <3>2, SlotFacts
  <2>4. attempt[r] * (SlotCount - 1) \in Nat
    BY <1>1, LapProduct, Zenon DEF IInv
  <2>5. \A k \in Nat : (attempt[r] + 1) * k = attempt[r] * k + k
    BY <2>3
  <2>6. READ_RETRIES * (SlotCount - 1) = attempt[r] * (SlotCount - 1) + (SlotCount - 1)
    BY <2>3, <2>5, Zenon
  <2> QED BY <2>2, <2>3, <2>4, <2>6
<1>2. IInv /\ [Next]_vars =>
        [\A r \in Readers : (Returning(r) /\ result'[r] = "BUSY")
           => npub - callpub[r] >= READ_RETRIES * (SlotCount - 1)]_vars
  BY <1>1, Zenon
<1> QED BY <1>2, Invariance, PTL DEF Spec, BusyOnlyIfLapped

-----------------------------------------------------------------------------
(* The ring implements the register. *)

\* Once something is published, the register is not empty.
LEMMA PublishedNotEmpty ==
  ASSUME IInv, latest # PSMI_LATEST_NONE
  PROVE  pubval # NoValue
<1>1. Stamp(pubval) > 0
  BY Zenon DEF IInv, LatestOK
<1>2. Stamp(NoValue) = 0
  BY NothingYet, ValueFacts DEF Stamp, NoValue, NoMeta, Fields
<1> QED BY <1>1, <1>2

PhaseOf(p) == IF p = "idle" THEN "idle" ELSE IF p = "latest" THEN "called" ELSE "sampled"

\* A reader's phase in the register follows its place in read_latest.
LEMMA PhaseStep ==
  ASSUME TypeOK, NEW r \in Readers, NEW p, rpc' = [rpc EXCEPT ![r] = p]
  PROVE  Phase' = [Phase EXCEPT ![r] = PhaseOf(p)]
BY Zenon DEF TypeOK, ReaderTypeOK, Phase, PhaseOf

\* Retrying and giving up, in the register.
LEMMA RetryImplements ==
  ASSUME IInv, NEW r \in Readers, InAttempt(r), NextAttempt(r), UNCHANGED sharedVars
  PROVE  Register!Again(r) \/ Register!GiveUp(r)
<1>0. TypeOK /\ Phase[r] = "sampled" /\ pubval' = pubval
  BY Zenon DEF IInv, Phase, InAttempt, sharedVars, pubVars
<1>1. CASE attempt[r] + 1 < READ_RETRIES
  <2>1. /\ rpc' = [rpc EXCEPT ![r] = "latest"] /\ seen' = seen
        /\ rval' = [rval EXCEPT ![r] = NoValue]
    BY <1>1, Zenon DEF NextAttempt, ForgetAttempt
  <2>2. Phase' = [Phase EXCEPT ![r] = "called"]
    BY <1>0, <2>1, PhaseStep, Zenon DEF PhaseOf
  <2> QED BY <1>0, <2>1, <2>2, Zenon DEF Register!Again, Register!Finish
<1>2. CASE ~(attempt[r] + 1 < READ_RETRIES)
  <2>1. /\ rpc' = [rpc EXCEPT ![r] = "idle"]
        /\ rval' = [rval EXCEPT ![r] = NoValue]
        /\ seen' = [seen EXCEPT ![r] = @]
    BY <1>2, Zenon DEF NextAttempt, Return, ForgetAttempt
  <2>2. Phase' = [Phase EXCEPT ![r] = "idle"]
    BY <1>0, <2>1, PhaseStep, Zenon DEF PhaseOf
  <2>3. seen' = seen
    BY <1>0, <2>1, Zenon DEF TypeOK, ReaderTypeOK
  <2> QED BY <1>0, <2>1, <2>2, <2>3, Zenon DEF Register!GiveUp, Register!Finish
<1> QED BY <1>1, <1>2, Zenon

\* Every step of a reader is a step of the register, or none.
LEMMA ReaderImplements ==
  ASSUME IInv, NEW r \in Readers, Reader(r)
  PROVE  Register!Next \/ UNCHANGED Register!vars
<1> USE DEF IInv
<1>0. /\ rpc \in [Readers -> {"idle", "latest", "seq", "meta", "data", "recheck"}]
      /\ seen \in [Readers -> Values]
  BY Zenon DEF TypeOK, ReaderTypeOK
<1>1. ASSUME NEW copy, NEW size, StartCall(r, copy, size) PROVE Register!Call(r)
  <2>1. /\ rpc[r] = "idle" /\ rpc' = [rpc EXCEPT ![r] = "latest"]
        /\ pubval' = pubval /\ rval' = rval /\ seen' = seen
    BY <1>1, Zenon DEF StartCall, sharedVars, pubVars, sampleVars
  <2>2. Phase' = [Phase EXCEPT ![r] = "called"] /\ Phase[r] = "idle"
    BY <2>1, PhaseStep, Zenon DEF PhaseOf, Phase
  <2> QED BY <2>1, <2>2, Zenon DEF Register!Call
<1>2. CASE load_latest(r)
  <2>0. rpc[r] = "latest" /\ pubval' = pubval /\ Phase[r] = "called"
    BY <1>2, Zenon DEF load_latest, sharedVars, pubVars, Phase
  <2>1. CASE latest = PSMI_LATEST_NONE
    <3>1. /\ rpc' = [rpc EXCEPT ![r] = "idle"] /\ rval' = [rval EXCEPT ![r] = NoValue]
          /\ seen' = [seen EXCEPT ![r] = @]
      BY <1>2, <2>1, Zenon DEF load_latest, Return, ForgetAttempt
    <3>2. Phase' = [Phase EXCEPT ![r] = "idle"] /\ seen' = seen /\ pubval = NoValue
      BY <1>0, <2>1, <3>1, PhaseStep, Zenon DEF PhaseOf, LatestOK
    <3> QED BY <2>0, <3>1, <3>2, Zenon DEF Register!Next, Register!Empty, Register!Finish
  <2>2. CASE latest # PSMI_LATEST_NONE
    <3>1. latestSlot \in Slots /\ latest = psmi_latest(latestSlot, EvenSeq(ver[latestSlot]))
      BY <2>2, Zenon DEF LatestOK
    <3>2. psmi_latest_valid(latest, SlotCount)
      BY <3>1, LatestWord, SlotFacts, Zenon DEF TypeOK, RingTypeOK
    <3>3. /\ rpc' = [rpc EXCEPT ![r] = "seq"] /\ rval' = [rval EXCEPT ![r] = pubval]
          /\ seen' = seen
      BY <1>2, <2>2, <3>2, Zenon DEF load_latest, callVars
    <3>4. Phase' = [Phase EXCEPT ![r] = "sampled"]
      <4>1. PhaseOf("seq") = "sampled"
        BY Zenon DEF PhaseOf
      <4> QED BY <3>3, <4>1, PhaseStep, Zenon
    <3>5. pubval # NoValue
      BY <2>2, PublishedNotEmpty, Zenon
    <3> QED BY <2>0, <3>3, <3>4, <3>5, Zenon DEF Register!Next, Register!Sample
  <2> QED BY <2>1, <2>2, Zenon
<1>3. CASE load_seq(r)
  <2>1. InAttempt(r) /\ rpc[r] = "seq" /\ UNCHANGED sharedVars
    BY <1>3, Zenon DEF load_seq, InAttempt
  <2>2. CASE readable(seq[psmi_latest_slot(rlatest[r])], rlatest[r])
    <3>1. rpc' = [rpc EXCEPT ![r] = "meta"] /\ rval' = rval /\ seen' = seen /\ pubval' = pubval
      BY <1>3, <2>2, Zenon DEF load_seq, callVars, sampleVars, sharedVars, pubVars
    <3>2. Phase' = Phase
      BY <1>0, <2>1, <3>1, Zenon DEF Phase
    <3> QED BY <3>1, <3>2, Zenon DEF Register!vars
  <2>3. CASE ~readable(seq[psmi_latest_slot(rlatest[r])], rlatest[r])
    BY <1>3, <2>1, <2>3, RetryImplements, Zenon DEF load_seq, Register!Next
  <2> QED BY <2>2, <2>3, Zenon
<1>4. ASSUME NEW f \in Fields, copy_meta(r, f) PROVE UNCHANGED Register!vars
  <2>1. /\ rpc[r] = "meta" /\ rval' = rval /\ seen' = seen /\ pubval' = pubval
        /\ \E p \in {"meta", "data", "recheck"} : rpc' = [rpc EXCEPT ![r] = p]
    BY <1>4, Zenon DEF copy_meta, callVars, sampleVars, sharedVars, pubVars
  <2>2. Phase' = Phase
    BY <1>0, <2>1, Zenon DEF Phase
  <2> QED BY <2>1, <2>2, Zenon DEF Register!vars
<1>5. ASSUME NEW c \in Offsets, copy_data(r, c) PROVE UNCHANGED Register!vars
  <2>1. /\ rpc[r] = "data" /\ rval' = rval /\ seen' = seen /\ pubval' = pubval
        /\ \E p \in {"data", "recheck"} : rpc' = [rpc EXCEPT ![r] = p]
    BY <1>5, Zenon DEF copy_data, callVars, sampleVars, sharedVars, pubVars
  <2>2. Phase' = Phase
    BY <1>0, <2>1, Zenon DEF Phase
  <2> QED BY <2>1, <2>2, Zenon DEF Register!vars
<1>6. CASE recheck(r)
  <2>1. InAttempt(r) /\ rpc[r] = "recheck" /\ UNCHANGED sharedVars /\ Phase[r] = "sampled"
    BY <1>6, Zenon DEF recheck, InAttempt, Phase
  <2>2. CASE ~unchanged_since(r)
    BY <1>6, <2>1, <2>2, RetryImplements, Zenon DEF recheck, Register!Next
  <2>3. CASE unchanged_since(r)
    <3>1. PICK rc \in {"OK", "TOOSMALL", "FORMAT"} : Return(r, rc)
      BY <1>6, <2>3, Zenon DEF recheck
    <3>2. /\ rpc' = [rpc EXCEPT ![r] = "idle"] /\ rval' = [rval EXCEPT ![r] = NoValue]
          /\ pubval' = pubval /\ \E x : seen' = [seen EXCEPT ![r] = x]
      BY <2>1, <3>1, Zenon DEF Return, ForgetAttempt, sharedVars, pubVars
    <3>3. Phase' = [Phase EXCEPT ![r] = "idle"]
      BY <3>2, PhaseStep, Zenon DEF PhaseOf
    <3>4. Returning(r) /\ ReturnKind(r)
      BY <1>0, <1>6, <2>1, <3>2, OwnStep, Zenon DEF Returning, Reader, read_latest
    <3>5. seen'[r] \in {rval[r], InfoOnly(rval[r]), seen[r]}
      BY <3>4, Zenon DEF ReturnKind
    <3>6. \/ seen' = [seen EXCEPT ![r] = rval[r]]
          \/ seen' = [seen EXCEPT ![r] = InfoOnly(rval[r])]
          \/ seen' = seen
      BY <1>0, <3>2, <3>5, Zenon
    <3>7. Register!HandOut(r) \/ Register!GiveUp(r)
      BY <2>1, <3>2, <3>3, <3>6, Zenon DEF Register!HandOut, Register!GiveUp, Register!Finish
    <3> QED BY <3>7, Zenon DEF Register!Next
  <2> QED BY <2>2, <2>3, Zenon
<1>7. Register!Call(r) => Register!Next
  BY Zenon DEF Register!Next
<1> QED BY <1>1, <1>2, <1>3, <1>4, <1>5, <1>6, <1>7, Zenon DEF Reader, read_latest,
           state_read, state_peek

\* The specification of the ring implements the specification of the register,
\* with the load of `latest' as the moment a read takes place.
THEOREM RingIsRegister == Spec => IsRegister
<1>1. Init => Register!Init
  BY DEF Init, Register!Init, Phase
<1>2. ASSUME IInv, [Next]_vars PROVE [Register!Next]_(Register!vars)
  <2>1. CASE commit_latest
    <3>1. /\ wpc = "latest" /\ pubval' = SlotValue(open_slot) /\ UNCHANGED readerVars
      BY <2>1, Zenon DEF commit_latest
    <3>2. /\ open_slot \in Slots /\ meta[open_slot]["timestamp"] = clock /\ Stamp(pubval) < clock
      BY <1>2, <3>1, Zenon DEF IInv, WriterOK
    <3>3. meta[open_slot] \in Metas /\ data[open_slot] \in Datas /\ clock \in Nat /\ Stamp(pubval) \in Nat
      BY <1>2, <3>2, StampNat, Zenon DEF IInv, TypeOK, RingTypeOK
    <3>4. pubval' \in Values /\ Stamp(pubval') = clock
      BY <3>1, <3>2, <3>3, ValueFacts, Zenon DEF SlotValue, Stamp
    <3>5. Phase' = Phase /\ rval' = rval /\ seen' = seen
      BY <3>1, Zenon DEF readerVars, Phase
    <3>6. Stamp(pubval') > Stamp(pubval)
      BY <3>2, <3>3, <3>4, Zenon
    <3> QED BY <3>4, <3>5, <3>6, Zenon DEF Register!Next, Register!Publish
  <2>2. CASE Writer /\ ~commit_latest
    <3>1. UNCHANGED <<readerVars, pubVars>>
      BY <2>2, WriterTouches, Zenon
    <3> QED BY <3>1, Zenon DEF readerVars, pubVars, Phase, Register!vars
  <2>3. ASSUME NEW r \in Readers, Reader(r) PROVE [Register!Next]_(Register!vars)
    BY <1>2, <2>3, ReaderImplements, Zenon
  <2>4. CASE UNCHANGED vars
    BY <2>4, Zenon DEF vars, readerVars, pubVars, Phase, Register!vars
  <2> QED BY <1>2, <2>1, <2>2, <2>3, <2>4, Zenon DEF Next
<1> QED BY <1>1, <1>2, Invariance, PTL DEF Spec, IsRegister, Register!Spec

-----------------------------------------------------------------------------
(* Generations tell values apart. *)

Gen(v) == v.meta["generation"]

\* How many generations there are: next_generation never returns 0.
Cycle == U32_MOD - 1

\* Value w is v, or was published k publishes after it, during which the
\* generation came round j times; each publish has a new timestamp.  v may be
\* none.
Since(v, w) ==
  \/ v.meta = NoMeta
  \/ v.meta = w.meta
  \/ \E k \in 1 .. (Stamp(w) - Stamp(v)) : \E j \in 0 .. k : Gen(w) = Gen(v) + k - j * Cycle

\* The writer is about to publish the generation after the published one.
WriterToken ==
  /\ latest # PSMI_LATEST_NONE => Gen(pubval) \in Generation
  /\ wpc \notin {"closed", "notify"} /\ latest # PSMI_LATEST_NONE =>
       wgen = next_generation(Gen(pubval))
  /\ wpc = "notify" => wgen = Gen(pubval)
  /\ wpc \in {"meta", "seq", "latest"} /\ "generation" \notin mtodo =>
       meta[open_slot]["generation"] = wgen

\* What r handed out, what it sampled and what is published, in this order.
ReaderToken(r) ==
  /\ Since(seen[r], pubval)
  /\ InAttempt(r) =>
       /\ Since(rval[r], pubval) /\ Since(seen[r], rval[r])
       /\ Gen(rval[r]) \in Generation

\* The inductive invariant of generations.
TokenInv == WriterToken /\ \A r \in Readers : ReaderToken(r)

-----------------------------------------------------------------------------

\* There is at least one generation.
LEMMA CycleFacts == Cycle \in Nat /\ Cycle >= 1 /\ Generation = 1 .. Cycle
BY Widths DEF Cycle, Generation

\* Going round once more, or not.
LEMMA RoundAgain == ASSUME NEW j \in Nat PROVE (j + 1) * Cycle = j * Cycle + Cycle /\ j * Cycle \in Int
BY CycleFacts

\* The generation comes back to where it was only after a whole cycle.
LEMMA SameGeneration ==
  ASSUME NEW g \in Int, NEW k \in Nat, NEW j \in Nat, k > 0, k < Cycle
  PROVE  g # g + k - j * Cycle
<1>1. j * Cycle \in Int
  BY RoundAgain
<1>2. CASE j = 0
  BY <1>2, CycleFacts
<1>3. CASE j >= 1
  <2>1. Cycle * 1 <= Cycle * j /\ Cycle * j = j * Cycle
    BY <1>3, CycleFacts, MulMono
  <2> QED BY <1>1, <2>1, CycleFacts
<1> QED BY <1>2, <1>3

\* Generations and timestamps of values are numbers.
LEMMA TokenTypes == ASSUME NEW v \in Values PROVE Gen(v) \in Nat /\ Stamp(v) \in Nat
<1>1. v.meta \in [Fields -> Nat]
  BY Zenon DEF Values, Metas
<1> QED BY <1>1, Zenon DEF Stamp, Gen, Fields

\* A publish later: what was published since the value before was, was
\* published since.
LEMMA SinceNext ==
  ASSUME NEW v \in Values, NEW w \in Values, NEW x \in Values, Since(v, w), Stamp(w) < Stamp(x),
         w.meta # NoMeta => Gen(w) \in Generation /\ Gen(x) = next_generation(Gen(w)),
         w.meta = NoMeta => Stamp(w) = 0
  PROVE  Since(v, x)
<1>0. /\ Gen(v) \in Nat /\ Gen(w) \in Nat /\ Gen(x) \in Nat
      /\ Stamp(v) \in Nat /\ Stamp(w) \in Nat /\ Stamp(x) \in Nat
  BY TokenTypes, Zenon
<1>1. CASE v.meta = NoMeta
  BY <1>1, Zenon DEF Since
<1>2. ASSUME w.meta # NoMeta, NEW k \in Nat, k <= Stamp(w) - Stamp(v), NEW j \in 0 .. k,
             Gen(w) = Gen(v) + k - j * Cycle
      PROVE  Since(v, x)
  <2>1. k + 1 \in 1 .. (Stamp(x) - Stamp(v)) /\ j \in 0 .. k + 1 /\ j + 1 \in 0 .. k + 1 /\ j \in Nat
    BY <1>0, <1>2
  <2>2. j * Cycle \in Int /\ (j + 1) * Cycle = j * Cycle + Cycle
    BY <2>1, RoundAgain, Zenon
  <2>3. Gen(x) = Gen(w) + 1 \/ Gen(x) = Gen(w) + 1 - Cycle
    BY <1>2, <1>0, CycleFacts DEF next_generation, Cycle
  <2>4. CASE Gen(x) = Gen(w) + 1
    <3>1. Gen(x) = Gen(v) + (k + 1) - j * Cycle
      BY <1>0, <1>2, <2>2, <2>4
    <3> QED BY <2>1, <3>1, Zenon DEF Since
  <2>5. CASE Gen(x) = Gen(w) + 1 - Cycle
    <3>1. Gen(x) = Gen(v) + (k + 1) - (j + 1) * Cycle
      BY <1>0, <1>2, <2>2, <2>5, CycleFacts
    <3> QED BY <2>1, <3>1, Zenon DEF Since
  <2> QED BY <2>3, <2>4, <2>5, Zenon
<1>3. CASE v.meta # NoMeta /\ v.meta = w.meta
  <2>1. Gen(w) = Gen(v) /\ Stamp(w) = Stamp(v)
    BY <1>3, Zenon DEF Gen, Stamp
  <2>2. 0 <= Stamp(w) - Stamp(v) /\ 0 \in Nat /\ 0 \in 0 .. 0 /\ Gen(w) = Gen(v) + 0 - 0 * Cycle
    BY <1>0, <2>1, CycleFacts
  <2> QED BY <1>2, <1>3, <2>2, Zenon
<1>4. ASSUME NEW k \in 1 .. (Stamp(w) - Stamp(v)), NEW j \in 0 .. k,
             Gen(w) = Gen(v) + k - j * Cycle
      PROVE  Since(v, x)
  <2>1. k \in Nat /\ k <= Stamp(w) - Stamp(v) /\ Stamp(w) # 0
    BY <1>0
  <2> QED BY <1>2, <1>4, <2>1, Zenon
<1> QED BY <1>1, <1>3, <1>4, Zenon DEF Since

\* A file that create_file made satisfies the invariant of generations.
LEMMA InitToken == Init => TokenInv
<1> SUFFICES ASSUME Init PROVE TokenInv
  OBVIOUS
<1>1. NoValue.meta = NoMeta
  BY Zenon DEF NoValue, Value
<1>2. WriterToken
  BY Zenon DEF Init, WriterToken
<1>3. ASSUME NEW r \in Readers PROVE ReaderToken(r)
  BY <1>1, Zenon DEF Init, ReaderToken, Since, InAttempt
<1> QED BY <1>2, <1>3, Zenon DEF TokenInv

\* What is published is what the slot of `latest' holds; before the first
\* publish it is nothing.
LEMMA PublishedMeta ==
  ASSUME IInv
  PROVE  /\ pubval \in Values
         /\ latest = PSMI_LATEST_NONE => pubval.meta = NoMeta /\ Stamp(pubval) = 0
         /\ latest # PSMI_LATEST_NONE =>
              latestSlot \in Slots /\ pubval.meta = meta[latestSlot] /\ pubval.meta # NoMeta
<1>1. pubval \in Values /\ meta \in [Slots -> Metas] /\ data \in [Slots -> Datas]
  BY Zenon DEF IInv, TypeOK, RingTypeOK
<1>2. CASE latest = PSMI_LATEST_NONE
  <2>1. pubval = NoValue
    BY <1>2, Zenon DEF IInv, LatestOK
  <2>2. NoMeta["timestamp"] = 0
    BY DEF NoMeta, Fields
  <2> QED BY <1>1, <1>2, <2>1, <2>2, Zenon DEF NoValue, Value, Stamp
<1>3. CASE latest # PSMI_LATEST_NONE
  <2>1. latestSlot \in Slots /\ SlotValue(latestSlot) = pubval /\ Stamp(pubval) > 0
    BY <1>3, Zenon DEF IInv, LatestOK
  <2>2. pubval.meta = meta[latestSlot]
    BY <2>1, Zenon DEF SlotValue, Value
  <2>3. pubval.meta # NoMeta
    BY <2>1 DEF Stamp, NoMeta, Fields
  <2> QED BY <1>1, <1>3, <2>1, <2>2, <2>3, Zenon
<1> QED BY <1>2, <1>3, Zenon

\* The steps of the writer other than commit_latest prepare the generation.
LEMMA WriterTokenStep ==
  ASSUME IInv, WriterToken, Writer, ~commit_latest
  PROVE  WriterToken'
<1>0. /\ meta \in [Slots -> Metas] /\ U32 = 0 .. Cycle /\ Generation = 1 .. Cycle
      /\ wpc \in {"begun", "copy", "meta", "seq", "latest"} => open_slot \in Slots
  BY CycleFacts DEF IInv, TypeOK, RingTypeOK, WriterOK, U32, Cycle
<1>1. CASE writer_open
  <2>1. /\ UNCHANGED <<latest, pubval>> /\ wpc' = "idle" /\ wgen' \in carried_generation
    BY <1>1, Zenon DEF writer_open, headerVars, pubVars
  <2>2. latest # PSMI_LATEST_NONE => wgen' = next_generation(Gen(pubval))
    BY <2>1, PublishedMeta, Zenon DEF carried_generation, Gen, latestSlot
  <2> QED BY <2>1, <2>2, Zenon DEF WriterToken
<1>2. CASE writer_close \/ writer_crash
  BY <1>2, Zenon DEF writer_close, writer_crash, WriterGone, headerVars, pubVars, WriterToken
<1>3. ASSUME NEW d \in Payloads, state_publish(d) PROVE WriterToken'
  BY <1>3, Zenon DEF state_publish, begin_slot, headerVars, pubVars, WriterToken, Fields
<1>4. CASE state_begin
  BY <1>4, Zenon DEF state_begin, begin_slot, headerVars, pubVars, WriterToken
<1>5. ASSUME NEW c \in Offsets, publish_copy(c) PROVE WriterToken'
  <2>1. wpc = "copy" /\ mtodo = Fields /\ mtodo' = mtodo /\ UNCHANGED <<latest, pubval, wgen>>
    BY <1>5, Zenon DEF publish_copy, headerVars, pubVars, IInv, WriterOK
  <2>2. wpc' \in {"copy", "meta"}
    BY <1>5, Zenon DEF publish_copy
  <2> QED BY <2>1, <2>2, Zenon DEF WriterToken, Fields
<1>6. ASSUME NEW c \in Offsets, NEW u \in AppUnits, app_store(c, u) PROVE WriterToken'
  BY <1>6, Zenon DEF app_store, headerVars, pubVars, writerVars, WriterToken
<1>7. ASSUME NEW len \in AppLens, state_commit(len) PROVE WriterToken'
  BY <1>7, Zenon DEF state_commit, headerVars, pubVars, WriterToken, Fields
<1>8. CASE state_abort
  BY <1>8, Zenon DEF state_abort, headerVars, pubVars, WriterToken
<1>9. ASSUME NEW f \in Fields, commit_meta(f) PROVE WriterToken'
  <2>1. /\ wpc = "meta" /\ wpc' \in {"meta", "seq"} /\ UNCHANGED <<latest, pubval, wgen, open_slot>>
        /\ mtodo' = mtodo \ {f} /\ open_slot \in Slots
        /\ meta' = [meta EXCEPT ![open_slot][f] =
                       IF f = "generation" THEN wgen
                       ELSE IF f = "length" THEN wlen ELSE clock + 1]
    BY <1>0, <1>9, Zenon DEF commit_meta, headerVars, pubVars
  <2>2. meta[open_slot] \in [Fields -> Nat]
    BY <1>0, <2>1, Zenon DEF Metas
  <2>3. CASE f = "generation"
    <3>1. meta'[open_slot]["generation"] = wgen
      BY <1>0, <2>1, <2>2, <2>3, Zenon
    <3> QED BY <2>1, <3>1, Zenon DEF WriterToken
  <2>4. CASE f # "generation"
    <3>1. meta'[open_slot]["generation"] = meta[open_slot]["generation"]
      BY <1>0, <2>1, <2>2, <2>4, Zenon DEF Fields
    <3> QED BY <2>1, <2>4, <3>1, Zenon DEF WriterToken
  <2> QED BY <2>3, <2>4, Zenon
<1>10. CASE commit_seq
  BY <1>10, Zenon DEF commit_seq, headerVars, pubVars, WriterToken
<1>11. CASE commit_notify
  BY <1>11, Zenon DEF commit_notify, pubVars, WriterToken
<1> QED BY <1>1, <1>2, <1>3, <1>4, <1>5, <1>6, <1>7, <1>8, <1>9, <1>10, <1>11, Zenon DEF Writer

\* commit_latest publishes the next generation, with a new timestamp.
LEMMA PublishesNext ==
  ASSUME IInv, WriterToken, commit_latest
  PROVE  /\ WriterToken' /\ pubval' \in Values /\ Stamp(pubval) < Stamp(pubval')
         /\ pubval.meta # NoMeta =>
              Gen(pubval) \in Generation /\ Gen(pubval') = next_generation(Gen(pubval))
<1>1. /\ wpc = "latest" /\ wpc' = "notify" /\ pubval' = SlotValue(open_slot) /\ wgen' = wgen
  BY Zenon DEF commit_latest
<1>2. /\ open_slot \in Slots /\ mtodo = {}
      /\ meta[open_slot]["timestamp"] = clock /\ Stamp(pubval) < clock
      /\ meta[open_slot]["generation"] = wgen
  BY <1>1, Zenon DEF IInv, WriterOK, WriterToken
<1>3. meta[open_slot] \in Metas /\ data[open_slot] \in Datas /\ wgen \in Generation
  BY <1>2, Zenon DEF IInv, TypeOK, RingTypeOK, WriterTypeOK
<1>4. pubval' \in Values /\ Gen(pubval') = wgen /\ Stamp(pubval') = clock
  BY <1>1, <1>2, <1>3, ValueFacts, Zenon DEF SlotValue, Gen, Stamp
<1>5. WriterToken'
  BY <1>1, <1>3, <1>4, Zenon DEF WriterToken, Gen
<1>6. ASSUME pubval.meta # NoMeta
      PROVE  Gen(pubval) \in Generation /\ Gen(pubval') = next_generation(Gen(pubval))
  BY <1>1, <1>4, <1>6, PublishedMeta, Zenon DEF WriterToken
<1> QED BY <1>2, <1>4, <1>5, <1>6, Zenon

\* A step of the writer, to a reader.
LEMMA WriterKeepsReaders ==
  ASSUME IInv, WriterToken, NEW r \in Readers, ReaderToken(r), Writer
  PROVE  ReaderToken(r)'
<1>1. UNCHANGED readerVars /\ (commit_latest \/ UNCHANGED pubVars)
  BY WriterTouches, Zenon
<1>2. seen' = seen /\ rval' = rval /\ rpc' = rpc
  BY <1>1, Zenon DEF readerVars
<1>3. CASE UNCHANGED pubVars
  BY <1>2, <1>3, Zenon DEF pubVars, ReaderToken, Since, Gen, Stamp, InAttempt
<1>4. CASE commit_latest
  <2>1. pubval \in Values /\ (pubval.meta = NoMeta => Stamp(pubval) = 0)
    BY PublishedMeta, Zenon
  <2>2. /\ pubval' \in Values /\ Stamp(pubval) < Stamp(pubval')
        /\ pubval.meta # NoMeta =>
             Gen(pubval) \in Generation /\ Gen(pubval') = next_generation(Gen(pubval))
    BY <1>4, PublishesNext, Zenon
  <2>3. seen[r] \in Values /\ rval[r] \in Values
    BY Zenon DEF IInv, TypeOK, ReaderTypeOK
  <2>4. \A v \in Values : Since(v, pubval) => Since(v, pubval')
    BY <2>1, <2>2, SinceNext, Zenon
  <2>5. Since(seen[r], pubval') /\ (InAttempt(r) => Since(rval[r], pubval'))
    BY <2>3, <2>4, Zenon DEF ReaderToken
  <2> QED BY <1>2, <2>5, Zenon DEF ReaderToken, Since, Gen, Stamp, InAttempt
<1> QED BY <1>1, <1>3, <1>4, Zenon

\* What a step of a reader does to what it sampled: a new sample is what is
\* published, and otherwise an attempt goes on with the one it has.
LEMMA Samples ==
  ASSUME IInv, NEW r \in Readers, Reader(r), InAttempt(r)'
  PROVE  /\ seen'[r] = seen[r]
         /\ \/ InAttempt(r) /\ rval'[r] = rval[r]
            \/ latest # PSMI_LATEST_NONE /\ rval'[r] = pubval
<1>0. /\ rpc \in [Readers -> {"idle", "latest", "seq", "meta", "data", "recheck"}]
      /\ rval \in [Readers -> Values]
  BY Zenon DEF IInv, TypeOK, ReaderTypeOK
<1>1. ASSUME NEW rc, Return(r, rc) PROVE FALSE
  BY <1>0, <1>1, Zenon DEF Return, InAttempt
<1>2. ASSUME NextAttempt(r) PROVE FALSE
  BY <1>0, <1>1, <1>2, Zenon DEF NextAttempt, InAttempt
<1>3. ASSUME NEW copy, NEW size, StartCall(r, copy, size) PROVE FALSE
  BY <1>0, <1>3, Zenon DEF StartCall, InAttempt
<1>4. CASE load_latest(r)
  BY <1>0, <1>1, <1>4, Zenon DEF load_latest, callVars
<1>5. CASE load_seq(r)
  BY <1>0, <1>2, <1>5, Zenon DEF load_seq, callVars, sampleVars, InAttempt
<1>6. CASE recheck(r)
  BY <1>1, <1>2, <1>6, Zenon DEF recheck
<1>7. ASSUME NEW f \in Fields, copy_meta(r, f)
      PROVE  seen'[r] = seen[r] /\ InAttempt(r) /\ rval'[r] = rval[r]
  BY <1>7, Zenon DEF copy_meta, callVars, sampleVars, InAttempt
<1>8. ASSUME NEW c \in Offsets, copy_data(r, c)
      PROVE  seen'[r] = seen[r] /\ InAttempt(r) /\ rval'[r] = rval[r]
  BY <1>8, Zenon DEF copy_data, callVars, sampleVars, InAttempt
<1> QED BY <1>3, <1>4, <1>5, <1>6, <1>7, <1>8, Zenon DEF Reader, read_latest, state_read, state_peek

\* A step of a reader keeps its own values in order.
LEMMA OwnToken ==
  ASSUME IInv, WriterToken, NEW r \in Readers, ReaderToken(r), Reader(r)
  PROVE  ReaderToken(r)'
<1>1. pubval' = pubval
  <2>1. UNCHANGED sharedVars
    BY Zenon DEF Reader, read_latest, state_read, state_peek, StartCall, load_latest, load_seq, recheck,
                 copy_meta, copy_data
  <2> QED BY <2>1, Zenon DEF sharedVars, pubVars
<1>2. Since(seen'[r], pubval)
  <2>1. CASE seen'[r] = seen[r]
    BY <2>1, Zenon DEF ReaderToken
  <2>2. CASE seen'[r] # seen[r]
    <3>1. InAttempt(r) /\ seen'[r] \in {rval[r], InfoOnly(rval[r])}
      BY <2>2, OwnStep, Zenon DEF ReturnKind
    <3>2. seen'[r].meta = rval[r].meta
      <4>1. InfoOnly(rval[r]).meta = rval[r].meta
        BY Zenon DEF InfoOnly
      <4> QED BY <3>1, <4>1, Zenon
    <3> QED BY <3>1, <3>2, Zenon DEF ReaderToken, Since, Gen, Stamp
  <2> QED BY <2>1, <2>2, Zenon
<1>3. ASSUME InAttempt(r)'
      PROVE  /\ Since(rval'[r], pubval) /\ Since(seen'[r], rval'[r])
             /\ Gen(rval'[r]) \in Generation
  <2>1. CASE InAttempt(r) /\ rval'[r] = rval[r] /\ seen'[r] = seen[r]
    BY <2>1, Zenon DEF ReaderToken
  <2>2. CASE latest # PSMI_LATEST_NONE /\ rval'[r] = pubval /\ seen'[r] = seen[r]
    <3>1. Gen(pubval) \in Generation /\ Since(pubval, pubval)
      BY <2>2, Zenon DEF WriterToken, Since
    <3> QED BY <2>2, <3>1, Zenon DEF ReaderToken
  <2> QED BY <1>3, <2>1, <2>2, Samples, Zenon
<1>4. /\ Since(seen[r], pubval)' = Since(seen'[r], pubval)
      /\ Since(rval[r], pubval)' = Since(rval'[r], pubval)
      /\ Since(seen[r], rval[r])' = Since(seen'[r], rval'[r])
      /\ Gen(rval[r])' = Gen(rval'[r])
  BY <1>1, Zenon DEF Since, Gen, Stamp
<1> QED BY <1>2, <1>3, <1>4, Zenon DEF ReaderToken

\* Every step keeps the invariant of generations.
LEMMA NextToken == IInv /\ TokenInv /\ [Next]_vars => TokenInv'
<1> SUFFICES ASSUME IInv, TokenInv, [Next]_vars PROVE TokenInv'
  BY Zenon
<1>1. CASE Writer
  <2>1. WriterToken'
    BY <1>1, WriterTokenStep, PublishesNext, Zenon DEF TokenInv
  <2>2. \A r \in Readers : ReaderToken(r)'
    BY <1>1, WriterKeepsReaders, Zenon DEF TokenInv
  <2> QED BY <2>1, <2>2, Zenon DEF TokenInv
<1>2. ASSUME NEW s \in Readers, Reader(s) PROVE TokenInv'
  <2>1. UNCHANGED sharedVars
    BY <1>2, Zenon DEF Reader, read_latest, state_read, state_peek, StartCall, load_latest, load_seq,
                       recheck, copy_meta, copy_data
  <2>2. WriterToken'
    BY <2>1, Zenon DEF sharedVars, headerVars, slotVars, writerVars, pubVars, WriterToken, TokenInv
  <2>3. ASSUME NEW r \in Readers, r # s PROVE ReaderToken(r)'
    <3>1. UNCHANGED <<rpc[r], seen[r], rval[r]>>
      BY <1>2, <2>3, OthersStep, Zenon DEF IInv
    <3>2. pubval' = pubval
      BY <2>1, Zenon DEF sharedVars, pubVars
    <3>3. ReaderToken(r)
      BY Zenon DEF TokenInv
    <3> QED BY <3>1, <3>2, <3>3, Zenon DEF ReaderToken, Since, Gen, Stamp, InAttempt
  <2>4. ReaderToken(s)'
    BY <1>2, OwnToken, Zenon DEF TokenInv
  <2> QED BY <2>2, <2>3, <2>4, Zenon DEF TokenInv
<1>3. CASE UNCHANGED vars
  <2>1. UNCHANGED <<latest, pubval, wpc, wgen, mtodo, meta, open_slot, rpc, seen, rval>>
    BY <1>3, Zenon DEF vars, headerVars, slotVars, writerVars, pubVars, readerVars
  <2>2. WriterToken'
    BY <2>1, Zenon DEF WriterToken, TokenInv
  <2>3. \A r \in Readers : ReaderToken(r)'
    BY <2>1, Zenon DEF ReaderToken, Since, Gen, Stamp, InAttempt, TokenInv
  <2> QED BY <2>2, <2>3, Zenon DEF TokenInv
<1> QED BY <1>1, <1>2, <1>3, Zenon DEF Next

\* The generation is a change token: a result with the generation of the one
\* before it is the same value, unless as many publishes as there are
\* generations came between the two.
THEOREM ChangesAreDetected == Spec => ChangeDetected
<1>1. ASSUME IInv, TokenInv, [Next]_vars, NEW r \in Readers,
             seen'[r].meta["generation"] = seen[r].meta["generation"],
             seen'[r].meta["timestamp"] - seen[r].meta["timestamp"] < U32_MOD - 1
      PROVE  seen'[r].meta = seen[r].meta
  <2>1. CASE seen'[r] = seen[r]
    BY <2>1, Zenon
  <2>2. CASE seen'[r] # seen[r]
    <3>1. InAttempt(r) /\ seen'[r] \in {rval[r], InfoOnly(rval[r])}
      BY <1>1, <2>2, EveryStep, Zenon DEF ReturnKind
    <3>2. seen'[r].meta = rval[r].meta
      <4>1. InfoOnly(rval[r]).meta = rval[r].meta
        BY Zenon DEF InfoOnly
      <4> QED BY <3>1, <4>1, Zenon
    <3>3. Gen(rval[r]) = Gen(seen[r]) /\ Stamp(rval[r]) - Stamp(seen[r]) < Cycle
      BY <1>1, <3>2, Zenon DEF Gen, Stamp, Cycle
    <3>4. Since(seen[r], rval[r]) /\ Gen(rval[r]) \in Generation
      BY <1>1, <3>1, Zenon DEF TokenInv, ReaderToken
    <3>5. Gen(seen[r]) \in Nat /\ Stamp(seen[r]) \in Nat /\ Stamp(rval[r]) \in Nat
      BY <1>1, TokenTypes, Zenon DEF IInv, TypeOK, ReaderTypeOK
    <3>6. seen[r].meta # NoMeta
      <4>1. NoMeta["generation"] = 0
        BY DEF NoMeta, Fields
      <4>2. 0 \notin Generation
        BY CycleFacts
      <4> QED BY <3>3, <3>4, <4>1, <4>2, Zenon DEF Gen
    <3>7. ASSUME NEW k \in 1 .. (Stamp(rval[r]) - Stamp(seen[r])), NEW j \in 0 .. k
          PROVE  Gen(rval[r]) # Gen(seen[r]) + k - j * Cycle
      <4>1. k \in Nat /\ k > 0 /\ k < Cycle /\ j \in Nat /\ Gen(seen[r]) \in Int
        BY <3>3, <3>5, CycleFacts
      <4> QED BY <3>3, <4>1, SameGeneration, Zenon
    <3> QED BY <3>2, <3>4, <3>6, <3>7, Zenon DEF Since
  <2> QED BY <2>1, <2>2, Zenon
<1>2. IInv /\ TokenInv /\ [Next]_vars =>
        [\A r \in Readers :
           /\ seen'[r].meta["generation"] = seen[r].meta["generation"]
           /\ seen'[r].meta["timestamp"] - seen[r].meta["timestamp"] < U32_MOD - 1
           => seen'[r].meta = seen[r].meta]_vars
  BY <1>1, Zenon
<1> QED BY <1>2, Invariance, InitToken, NextToken, PTL DEF Spec, ChangeDetected

=============================================================================
