----------------------------- MODULE StateRing ------------------------------
(***************************************************************************)
(* One data file of a state channel: a ring of slots, each guarded by its  *)
(* own sequence counter, and header.latest, which names the slot and the   *)
(* version of the last published value (src/src/state.c).                  *)
(*                                                                         *)
(* A single writer handle publishes by copying (state_publish) or in place *)
(* (state_begin, app_store, state_commit, state_abort).  Its process may   *)
(* die between any two stores; the next writer reuses the file.  Readers   *)
(* run state_read and state_peek concurrently.  Each action is one access  *)
(* to the shared memory, with the private computation that follows it; a   *)
(* copy moves one unit at a time, in any order, as memcpy may.             *)
(*                                                                         *)
(* A definition X_Change that comes before X is X with a plausible mistake *)
(* in it; PROJECT.json says which property notices.                        *)
(***************************************************************************)
EXTENDS Layout

CONSTANTS
  Readers,        \* reader handles
  SlotCount,      \* header.slot_count
  Capacity,       \* header.capacity, in units of payload
  Unit,           \* what one unit of payload holds
  Zero,           \* ... in a file that was never written
  Payloads,       \* the values applications publish by copying
  AppUnits,       \* what they store in place, between begin and commit
  AppLens,        \* the lengths they commit
  BufSizes,       \* the buffer sizes applications read into
  RandomGens,     \* what random_generation may return
  NoNotify,       \* config_flags has PSMI_CONFIG_NO_NOTIFY
  READ_RETRIES,   \* attempts of one read
  MaxCommits,     \* bound: commits that read the clock
  MaxOpens        \* bound: writer handles opened on the file

Slots == 0 .. (SlotCount - 1)
Offsets == 1 .. Capacity

ASSUME RingAssumption ==
  /\ SlotCount \in 2 .. SLOT_MOD
  /\ Capacity \in Nat
  /\ Zero \in Unit
  /\ \A d \in Payloads : \E n \in 0 .. Capacity : d \in [1 .. n -> Unit]
  /\ AppUnits \subseteq Unit
  /\ AppLens \subseteq 0 .. Capacity
  /\ BufSizes \subseteq Nat
  /\ RandomGens \subseteq Generation
  /\ NoNotify \in BOOLEAN
  /\ READ_RETRIES \in Nat \ {0}
  /\ MaxCommits \in Nat
  /\ MaxOpens \in Nat

VARIABLES
  latest, notify,                  \* the header's atomics
  seq, meta, data,                 \* per slot: counter, slot header, payload
  wpc,                             \* where the writer is; "closed": no handle
  wlatest, wgen,                   \* W.latest, W.gen
  open_slot, open_seq,             \* the slot of an open begin, its even seq
  wbuf, wlen,                      \* the value being published
  wtodo, mtodo,                    \* units and header fields still to store
  clock,                           \* CLOCK_MONOTONIC, one tick per reading
  opens,                           \* writer handles opened so far
  rpc, attempt,                    \* where each reader is, in which attempt
  rcopy, rsize,                    \* its call: read or peek, buffer size
  rlatest, q1,                     \* the `latest' and seq it loaded
  rmeta, rbuf,                     \* its copy of the slot header; its buffer
  rtodo, rmtodo,                   \* units and header fields still to copy
  result,                          \* what its last call returned
  (* History, read by no code: *)
  pubval, npub,                    \* the value in `latest', values published
  ver,                             \* per slot: commits, without wrap-around
  rver, rval, rpub,                \* ver, pubval, npub at the load of rlatest
  window, callpub,                 \* values current during the call; npub then
  seen                             \* what each handle last handed out

headerVars == <<latest, notify>>
slotVars == <<seq, meta, data>>
writerVars == <<wpc, wlatest, wgen, open_slot, open_seq, wbuf, wlen, wtodo, mtodo,
                opens>>
readerVars == <<rpc, attempt, rcopy, rsize, rlatest, q1, rmeta, rbuf, rtodo,
                rmtodo, result, rver, rval, rpub, callpub, seen>>
pubVars == <<pubval, npub>>
vars == <<headerVars, slotVars, writerVars, clock, readerVars, pubVars, ver, window>>

-----------------------------------------------------------------------------
(* Values. *)

Fields == {"generation", "length", "timestamp"}
NoMeta == [f \in Fields |-> 0]
NoData == [c \in Offsets |-> Zero]

\* What a slot with header m and payload d holds.
Value(m, d) == [meta |-> m, data |-> [c \in 1 .. m["length"] |-> d[c]]]
SlotValue(i) == Value(meta[i], data[i])
NoValue == Value(NoMeta, NoData)

\* What a peek, or a read into too small a buffer, gets to know of value v.
InfoOnly(v) == [meta |-> v.meta, data |-> [c \in 1 .. 0 |-> Zero]]

-----------------------------------------------------------------------------
(* The writer. *)

\* A slot is committed fewer than TAG_MOD times during one read attempt on it.
NoTagWrap(i) ==
  \A r \in Readers :
    (rpc[r] \notin {"idle", "latest"} /\ psmi_latest_slot(rlatest[r]) = i)
      => ver[i] + 1 - rver[r] < TAG_MOD

\* The slot a new writer takes for W.latest.
carried_latest_None == PSMI_LATEST_NONE
carried_latest ==
  IF latest = PSMI_LATEST_NONE THEN latest ELSE psmi_latest_slot(latest)

\* Generation following the latest value of the file.
carried_generation_Same ==
  IF latest = PSMI_LATEST_NONE
  THEN RandomGens
  ELSE {meta[psmi_latest_slot(latest)]["generation"]}
carried_generation ==
  IF latest = PSMI_LATEST_NONE
  THEN RandomGens
  ELSE {next_generation(meta[psmi_latest_slot(latest)]["generation"])}

\* psmsgr_state_writer_open on this file: reuse.  An odd slot stays odd.
writer_open ==
  /\ wpc = "closed"
  /\ opens < MaxOpens
  /\ opens' = opens + 1
  /\ wpc' = "idle"
  /\ wlatest' = carried_latest
  /\ wgen' \in carried_generation
  /\ open_slot' = PSMI_LATEST_NONE
  /\ UNCHANGED <<headerVars, slotVars, open_seq, wbuf, wlen, wtodo, mtodo,
                 clock, readerVars, pubVars, ver, window>>

\* The handle is gone, and with it everything the writer held in private.
WriterGone ==
  /\ wpc' = "closed"
  /\ wlatest' = PSMI_LATEST_NONE
  /\ wgen' = 1
  /\ open_slot' = PSMI_LATEST_NONE
  /\ open_seq' = 0
  /\ wbuf' = NoData
  /\ wlen' = 0
  /\ wtodo' = {}
  /\ mtodo' = {}
  /\ UNCHANGED <<headerVars, slotVars, opens, clock, readerVars, pubVars, ver, window>>

\* Between two calls; an open begin is aborted implicitly.
writer_close == wpc \in {"idle", "begun"} /\ WriterGone

\* The process dies inside a call.
writer_crash == wpc \in {"copy", "meta", "seq", "latest", "notify"} /\ WriterGone

target_slot == IF wlatest = PSMI_LATEST_NONE THEN 0 ELSE (wlatest + 1) % SlotCount

\* The slot after W.latest, made odd.
begin_slot ==
  LET i == target_slot
      q == seq[i] - (seq[i] % 2)
  IN /\ seq' = [seq EXCEPT ![i] = q + 1]
     /\ open_slot' = i
     /\ open_seq' = q
     /\ UNCHANGED <<headerVars, meta, data, wlatest, wgen, opens, clock, readerVars,
                    pubVars, ver, window>>

state_publish(d) ==
  LET len == CHOOSE n \in 0 .. Capacity : DOMAIN d = 1 .. n
  IN /\ wpc = "idle"
     /\ clock < MaxCommits
     /\ begin_slot
     /\ wpc' = IF len = 0 THEN "meta" ELSE "copy"
     /\ wbuf' = [c \in Offsets |-> IF c <= len THEN d[c] ELSE Zero]
     /\ wlen' = len
     /\ wtodo' = 1 .. len
     /\ mtodo' = Fields

\* psmi_seq_copy into the open slot.
publish_copy(c) ==
  /\ wpc = "copy"
  /\ c \in wtodo
  /\ data' = [data EXCEPT ![open_slot][c] = wbuf[c]]
  /\ wtodo' = wtodo \ {c}
  /\ wpc' = IF wtodo = {c} THEN "meta" ELSE "copy"
  /\ UNCHANGED <<headerVars, seq, meta, wlatest, wgen, open_slot, open_seq,
                 wbuf, wlen, mtodo, opens, clock, readerVars, pubVars, ver, window>>

state_begin ==
  /\ wpc = "idle"
  /\ begin_slot
  /\ wpc' = "begun"
  /\ UNCHANGED <<wbuf, wlen, wtodo, mtodo>>

\* The application writes into the buffer that state_begin returned.
app_store(c, u) ==
  /\ wpc = "begun"
  /\ data' = [data EXCEPT ![open_slot][c] = u]
  /\ UNCHANGED <<headerVars, seq, meta, writerVars, clock, readerVars, pubVars,
                 ver, window>>

state_commit(len) ==
  /\ wpc = "begun"
  /\ clock < MaxCommits
  /\ wpc' = "meta"
  /\ wlen' = len
  /\ mtodo' = Fields
  /\ UNCHANGED <<headerVars, slotVars, wlatest, wgen, open_slot, open_seq, wbuf,
                 wtodo, opens, clock, readerVars, pubVars, ver, window>>

state_abort_Even ==
  /\ wpc = "begun"
  /\ wpc' = "idle"
  /\ open_slot' = PSMI_LATEST_NONE
  /\ seq' = [seq EXCEPT ![open_slot] = open_seq]
  /\ UNCHANGED <<headerVars, meta, data, wlatest, wgen, open_seq, wbuf, wlen,
                 wtodo, mtodo, opens, clock, readerVars, pubVars, ver, window>>

\* The slot stays odd; the next begin picks it again.
state_abort ==
  /\ wpc = "begun"
  /\ wpc' = "idle"
  /\ open_slot' = PSMI_LATEST_NONE
  /\ UNCHANGED <<headerVars, slotVars, wlatest, wgen, open_seq, wbuf, wlen,
                 wtodo, mtodo, opens, clock, readerVars, pubVars, ver, window>>

\* commit_slot: the plain stores to the slot header.
commit_meta(f) ==
  /\ wpc = "meta"
  /\ f \in mtodo
  /\ clock' = IF f = "timestamp" THEN clock + 1 ELSE clock
  /\ meta' = [meta EXCEPT ![open_slot][f] =
                IF f = "generation" THEN wgen
                ELSE IF f = "length" THEN wlen ELSE clock + 1]
  /\ mtodo' = mtodo \ {f}
  /\ wpc' = IF mtodo = {f} THEN "seq" ELSE "meta"
  /\ UNCHANGED <<headerVars, seq, data, wlatest, wgen, open_slot, open_seq,
                 wbuf, wlen, wtodo, opens, readerVars, pubVars, ver, window>>

committed_seq_NoWrap == open_seq + 2
committed_seq == (open_seq + 2) % U32_MOD

\* commit_slot: the slot becomes readable to whoever `latest' sends there.
commit_seq ==
  /\ wpc = "seq"
  /\ NoTagWrap(open_slot)
  /\ seq' = [seq EXCEPT ![open_slot] = committed_seq]
  /\ ver' = [ver EXCEPT ![open_slot] = @ + 1]
  /\ wpc' = "latest"
  /\ UNCHANGED <<headerVars, meta, data, wlatest, wgen, open_slot, open_seq,
                 wbuf, wlen, wtodo, mtodo, opens, clock, readerVars, pubVars, window>>

\* commit_slot: the value is published.
commit_latest ==
  /\ wpc = "latest"
  /\ latest' = psmi_latest(open_slot, committed_seq)
  /\ wlatest' = open_slot
  /\ open_slot' = PSMI_LATEST_NONE
  /\ wpc' = "notify"
  /\ pubval' = SlotValue(open_slot)
  /\ npub' = npub + 1
  /\ window' = [r \in Readers |-> IF rpc[r] = "idle" THEN window[r]
                                  ELSE window[r] \cup {SlotValue(open_slot)}]
  /\ UNCHANGED <<notify, slotVars, wgen, open_seq, wbuf, wlen, wtodo, mtodo,
                 opens, clock, readerVars, ver>>

\* commit_slot: the futex word, and the generation of the next publish.  The
\* locals of the finished publish (open_seq, wbuf, wlen) are cleared.
commit_notify ==
  /\ wpc = "notify"
  /\ notify' = IF NoNotify THEN notify ELSE (notify + 1) % U32_MOD
  /\ wgen' = next_generation(wgen)
  /\ wpc' = "idle"
  /\ open_seq' = 0
  /\ wbuf' = NoData
  /\ wlen' = 0
  /\ UNCHANGED <<latest, slotVars, wlatest, open_slot, wtodo, mtodo, opens, clock,
                 readerVars, pubVars, ver, window>>

Writer ==
  \/ writer_open \/ writer_close \/ writer_crash
  \/ \E d \in Payloads : state_publish(d)
  \/ \E c \in Offsets : publish_copy(c)
  \/ state_begin
  \/ \E c \in Offsets, u \in AppUnits : app_store(c, u)
  \/ \E len \in AppLens : state_commit(len)
  \/ state_abort
  \/ \E f \in Fields : commit_meta(f)
  \/ commit_seq \/ commit_latest \/ commit_notify

-----------------------------------------------------------------------------
(* The readers: psmsgr_state_read and psmsgr_state_peek on an attached     *)
(* handle, through read_latest.                                            *)

sharedVars == <<headerVars, slotVars, writerVars, clock, pubVars, ver>>
callVars == <<attempt, rcopy, rsize, result, window, callpub, seen>>
sampleVars == <<rlatest, rver, rval, rpub>>

StartCall(r, copy, size) ==
  /\ rpc[r] = "idle"
  /\ rpc' = [rpc EXCEPT ![r] = "latest"]
  /\ rcopy' = [rcopy EXCEPT ![r] = copy]
  /\ rsize' = [rsize EXCEPT ![r] = size]
  /\ result' = [result EXCEPT ![r] = "NONE"]
  /\ window' = [window EXCEPT ![r] = {pubval}]
  /\ callpub' = [callpub EXCEPT ![r] = npub]
  /\ UNCHANGED <<sharedVars, attempt, sampleVars, q1, rmeta, rbuf, rtodo, rmtodo, seen>>

state_read(r, size) == StartCall(r, TRUE, size)
state_peek(r) == StartCall(r, FALSE, 0)

\* The locals of the loop body of read_latest end with it.
ForgetAttempt(r) ==
  /\ rlatest' = [rlatest EXCEPT ![r] = PSMI_LATEST_NONE]
  /\ q1' = [q1 EXCEPT ![r] = 0]
  /\ rmeta' = [rmeta EXCEPT ![r] = NoMeta]
  /\ rbuf' = [rbuf EXCEPT ![r] = NoData]
  /\ rver' = [rver EXCEPT ![r] = 0]
  /\ rval' = [rval EXCEPT ![r] = NoValue]
  /\ rpub' = [rpub EXCEPT ![r] = 0]

\* The call returns rc; rmeta is its info, and rbuf the caller's buffer.
Return(r, rc) ==
  LET v == Value(rmeta[r], rbuf[r]) IN
  /\ rpc' = [rpc EXCEPT ![r] = "idle"]
  /\ result' = [result EXCEPT ![r] = rc]
  /\ seen' = [seen EXCEPT ![r] =
                IF rc = "OK" /\ rcopy[r] THEN v
                ELSE IF rc \in {"OK", "TOOSMALL"} THEN InfoOnly(v) ELSE @]
  /\ attempt' = [attempt EXCEPT ![r] = 0]
  /\ rcopy' = [rcopy EXCEPT ![r] = FALSE]
  /\ rsize' = [rsize EXCEPT ![r] = 0]
  /\ window' = [window EXCEPT ![r] = {}]
  /\ callpub' = [callpub EXCEPT ![r] = 0]
  /\ ForgetAttempt(r)

NextAttempt_OneLess(r) ==
  IF attempt[r] + 1 < READ_RETRIES - 1
  THEN /\ attempt' = [attempt EXCEPT ![r] = @ + 1]
       /\ rpc' = [rpc EXCEPT ![r] = "latest"]
       /\ ForgetAttempt(r)
       /\ UNCHANGED <<rcopy, rsize, window, callpub, result, seen>>
  ELSE Return(r, "BUSY")

\* The end of the loop body; BUSY after the last attempt.
NextAttempt(r) ==
  IF attempt[r] + 1 < READ_RETRIES
  THEN /\ attempt' = [attempt EXCEPT ![r] = @ + 1]
       /\ rpc' = [rpc EXCEPT ![r] = "latest"]
       /\ ForgetAttempt(r)
       /\ UNCHANGED <<rcopy, rsize, window, callpub, result, seen>>
  ELSE Return(r, "BUSY")

load_latest(r) ==
  /\ rpc[r] = "latest"
  /\ IF latest = PSMI_LATEST_NONE
     THEN Return(r, "NODATA")
     ELSE IF ~psmi_latest_valid(latest, SlotCount)
     THEN Return(r, "FORMAT")
     ELSE /\ rpc' = [rpc EXCEPT ![r] = "seq"]
          /\ rlatest' = [rlatest EXCEPT ![r] = latest]
          /\ rver' = [rver EXCEPT ![r] = ver[psmi_latest_slot(latest)]]
          /\ rval' = [rval EXCEPT ![r] = pubval]
          /\ rpub' = [rpub EXCEPT ![r] = npub]
          /\ UNCHANGED <<callVars, q1, rmeta, rbuf>>
  /\ UNCHANGED <<sharedVars, rtodo, rmtodo>>

readable_AnyVersion(q, l) == q % 2 = 0

\* Only the version that `latest' published is read.
readable(q, l) == q % 2 = 0 /\ psmi_latest(psmi_latest_slot(l), q) = l

load_seq_Spin(r) ==
  LET q == seq[psmi_latest_slot(rlatest[r])] IN
  /\ rpc[r] = "seq"
  /\ IF readable(q, rlatest[r])
     THEN /\ rpc' = [rpc EXCEPT ![r] = "meta"]
          /\ q1' = [q1 EXCEPT ![r] = q]
          /\ rmtodo' = [rmtodo EXCEPT ![r] = Fields]
     ELSE UNCHANGED <<rpc, q1, rmtodo>>
  /\ UNCHANGED <<callVars, sampleVars, rmeta, rbuf, sharedVars, rtodo>>

load_seq(r) ==
  LET q == seq[psmi_latest_slot(rlatest[r])] IN
  /\ rpc[r] = "seq"
  /\ IF readable(q, rlatest[r])
     THEN /\ rpc' = [rpc EXCEPT ![r] = "meta"]
          /\ q1' = [q1 EXCEPT ![r] = q]
          /\ rmtodo' = [rmtodo EXCEPT ![r] = Fields]
          /\ UNCHANGED <<callVars, sampleVars, rmeta, rbuf>>
     ELSE NextAttempt(r) /\ UNCHANGED rmtodo
  /\ UNCHANGED <<sharedVars, rtodo>>

\* The units read_latest copies once it has copied the slot header m.
units_to_copy(r, m) ==
  IF rcopy[r] /\ m["length"] <= rsize[r] /\ m["length"] <= Capacity
  THEN 1 .. m["length"] ELSE {}

copy_meta(r, f) ==
  LET m == [rmeta[r] EXCEPT ![f] = meta[psmi_latest_slot(rlatest[r])][f]]
      last == rmtodo[r] = {f}
  IN /\ rpc[r] = "meta"
     /\ f \in rmtodo[r]
     /\ rmeta' = [rmeta EXCEPT ![r] = m]
     /\ rmtodo' = [rmtodo EXCEPT ![r] = @ \ {f}]
     /\ rtodo' = [rtodo EXCEPT ![r] = IF last THEN units_to_copy(r, m) ELSE @]
     /\ rpc' = [rpc EXCEPT ![r] =
                  IF ~last THEN "meta"
                  ELSE IF units_to_copy(r, m) = {} THEN "recheck" ELSE "data"]
     /\ UNCHANGED <<sharedVars, callVars, sampleVars, q1, rbuf>>

copy_data(r, c) ==
  /\ rpc[r] = "data"
  /\ c \in rtodo[r]
  /\ rbuf' = [rbuf EXCEPT ![r][c] = data[psmi_latest_slot(rlatest[r])][c]]
  /\ rtodo' = [rtodo EXCEPT ![r] = @ \ {c}]
  /\ rpc' = [rpc EXCEPT ![r] = IF rtodo[r] = {c} THEN "recheck" ELSE "data"]
  /\ UNCHANGED <<sharedVars, callVars, sampleVars, q1, rmeta, rmtodo>>

unchanged_since_Skip(r) == TRUE

\* The copy counts only if the slot was not touched since seq was loaded.
unchanged_since(r) == seq[psmi_latest_slot(rlatest[r])] = q1[r]

recheck(r) ==
  /\ rpc[r] = "recheck"
  /\ IF ~unchanged_since(r)
     THEN NextAttempt(r)
     ELSE IF rmeta[r]["length"] > Capacity
     THEN Return(r, "FORMAT")
     ELSE IF ~rcopy[r] \/ rmeta[r]["length"] <= rsize[r]
     THEN Return(r, "OK")
     ELSE Return(r, "TOOSMALL")
  /\ UNCHANGED <<sharedVars, rtodo, rmtodo>>

read_latest(r) ==
  \/ load_latest(r) \/ load_seq(r) \/ recheck(r)
  \/ \E f \in Fields : copy_meta(r, f)
  \/ \E c \in Offsets : copy_data(r, c)

Reader(r) ==
  \/ \E size \in BufSizes : state_read(r, size)
  \/ state_peek(r)
  \/ read_latest(r)

-----------------------------------------------------------------------------

\* create_file: every slot zero, nothing published.
Init ==
  /\ latest = PSMI_LATEST_NONE /\ notify = 0
  /\ seq = [i \in Slots |-> 0]
  /\ meta = [i \in Slots |-> NoMeta]
  /\ data = [i \in Slots |-> NoData]
  /\ wpc = "closed" /\ wlatest = PSMI_LATEST_NONE /\ wgen = 1
  /\ open_slot = PSMI_LATEST_NONE /\ open_seq = 0
  /\ wbuf = NoData /\ wlen = 0 /\ wtodo = {} /\ mtodo = {}
  /\ clock = 0 /\ opens = 0
  /\ rpc = [r \in Readers |-> "idle"] /\ attempt = [r \in Readers |-> 0]
  /\ rcopy = [r \in Readers |-> FALSE] /\ rsize = [r \in Readers |-> 0]
  /\ rlatest = [r \in Readers |-> PSMI_LATEST_NONE] /\ q1 = [r \in Readers |-> 0]
  /\ rmeta = [r \in Readers |-> NoMeta] /\ rbuf = [r \in Readers |-> NoData]
  /\ rtodo = [r \in Readers |-> {}] /\ rmtodo = [r \in Readers |-> {}]
  /\ result = [r \in Readers |-> "NONE"]
  /\ pubval = NoValue /\ npub = 0
  /\ ver = [i \in Slots |-> 0]
  /\ rver = [r \in Readers |-> 0] /\ rval = [r \in Readers |-> NoValue]
  /\ rpub = [r \in Readers |-> 0]
  /\ window = [r \in Readers |-> {}] /\ callpub = [r \in Readers |-> 0]
  /\ seen = [r \in Readers |-> NoValue]

Next == Writer \/ \E r \in Readers : Reader(r)

Spec == Init /\ [][Next]_vars

\* A thread inside read_latest keeps running; nothing is asked of the writer.
LiveSpec == Spec /\ \A r \in Readers : WF_vars(read_latest(r))

-----------------------------------------------------------------------------
(* Properties. *)

Metas == {m \in [Fields -> Nat] : m["generation"] \in U32 /\ m["length"] \in 0 .. Capacity}
Datas == [Offsets -> Unit]
Values == [meta : Metas, data : UNION {[1 .. n -> Unit] : n \in 0 .. Capacity}]

RingTypeOK ==
  /\ latest \in U32 /\ notify \in U32
  /\ seq \in [Slots -> U32] /\ meta \in [Slots -> Metas] /\ data \in [Slots -> Datas]
  /\ pubval \in Values /\ npub \in Nat /\ ver \in [Slots -> Nat]
  /\ clock \in Nat

WriterTypeOK ==
  /\ wpc \in {"closed", "idle", "begun", "copy", "meta", "seq", "latest", "notify"}
  /\ wlatest \in Slots \cup {PSMI_LATEST_NONE} /\ wgen \in Generation
  /\ open_slot \in Slots \cup {PSMI_LATEST_NONE} /\ open_seq \in U32
  /\ wbuf \in Datas /\ wlen \in 0 .. Capacity
  /\ wtodo \subseteq Offsets /\ mtodo \subseteq Fields
  /\ opens \in Nat

ReaderTypeOK ==
  /\ rpc \in [Readers -> {"idle", "latest", "seq", "meta", "data", "recheck"}]
  /\ attempt \in [Readers -> 0 .. (READ_RETRIES - 1)]
  /\ rcopy \in [Readers -> BOOLEAN] /\ rsize \in [Readers -> Nat]
  /\ rlatest \in [Readers -> U32] /\ q1 \in [Readers -> U32]
  /\ rmeta \in [Readers -> Metas] /\ rbuf \in [Readers -> Datas]
  /\ rtodo \in [Readers -> SUBSET Offsets] /\ rmtodo \in [Readers -> SUBSET Fields]
  /\ result \in [Readers -> {"NONE", "OK", "TOOSMALL", "NODATA", "BUSY", "FORMAT"}]
  /\ rver \in [Readers -> Nat] /\ rpub \in [Readers -> Nat] /\ callpub \in [Readers -> Nat]
  /\ rval \in [Readers -> Values] /\ seen \in [Readers -> Values]
  /\ window \in [Readers -> SUBSET Values]

\* Every variable stays in the range its C type and use give it; in
\* particular the counters stay 32-bit words, W.gen is never 0, and no slot
\* header ever carries a length beyond the capacity.
TypeOK == RingTypeOK /\ WriterTypeOK /\ ReaderTypeOK

\* The slot that `latest' names is never torn: it is even, of the version
\* `latest' carries, and holds the last published value, whatever the writer
\* is doing or was doing when it died.
LatestStable ==
  latest # PSMI_LATEST_NONE =>
    LET i == psmi_latest_slot(latest) IN
    /\ i \in Slots
    /\ readable(seq[i], latest)
    /\ SlotValue(i) = pubval

\* r's call returns in this step.
Returning(r) == rpc[r] # "idle" /\ rpc'[r] = "idle"

\* A result of read_latest is exactly one value that was the current one at
\* some moment of the call: neither torn, nor stale, nor committed but not
\* yet published.  No data means that nothing was published when it began.
ReadIsAtomic ==
  [][\A r \in Readers : Returning(r) =>
       CASE result'[r] = "OK" ->
              \E v \in window[r] : seen'[r] = IF rcopy[r] THEN v ELSE InfoOnly(v)
         [] result'[r] = "TOOSMALL" ->
              \E v \in window[r] : seen'[r] = InfoOnly(v) /\ v.meta["length"] > rsize[r]
         [] result'[r] = "NODATA" -> NoValue \in window[r]
         [] result'[r] = "BUSY" -> TRUE
         [] OTHER -> FALSE]_vars

\* A handle never returns an older value than it returned before.
NeverOlder ==
  [][\A r \in Readers : seen'[r].meta["timestamp"] >= seen[r].meta["timestamp"]]_vars

\* Generation is a change token: a handle that gets the generation it got
\* before gets the value it got before, unless the counter went all the way
\* round in between.
ChangeDetected ==
  [][\A r \in Readers :
       /\ seen'[r].meta["generation"] = seen[r].meta["generation"]
       /\ seen'[r].meta["timestamp"] - seen[r].meta["timestamp"] < U32_MOD - 1
       => seen'[r].meta = seen[r].meta]_vars

\* An attempt only fails because the writer went round the ring during it: a
\* call that returns BUSY overlapped SlotCount - 1 publishes per attempt.
BusyOnlyIfLapped ==
  [][\A r \in Readers :
       (Returning(r) /\ result'[r] = "BUSY")
         => npub - callpub[r] >= READ_RETRIES * (SlotCount - 1)]_vars

\* A call returns, whatever the writer does, and also if it died half way
\* through a publish: no reader waits for a writer.
ReadReturns == \A r \in Readers : rpc[r] # "idle" ~> rpc[r] = "idle"

\* The ring implements an atomic register whose readers sample it once per
\* attempt: what `latest' publishes is the register's value, and the load of
\* `latest' is the moment at which a successful read happens.
Phase == [r \in Readers |->
            IF rpc[r] = "idle" THEN "idle"
            ELSE IF rpc[r] = "latest" THEN "called" ELSE "sampled"]
Stamp(v) == v.meta["timestamp"]

Register == INSTANCE LatestValue
              WITH current <- pubval, phase <- Phase, sampled <- rval, got <- seen
IsRegister == Register!Spec
=============================================================================
