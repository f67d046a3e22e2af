------------------------------ MODULE RingOrder -----------------------------
(***************************************************************************)
(* The ring of slots on a machine that reorders memory accesses            *)
(* (src/src/state.c, src/src/seqcopy.c).  StateRing interleaves the same   *)
(* accesses one after another; here each has only the order that its       *)
(* C11 memory order gives it.                                              *)
(*                                                                         *)
(* There is one writer, so each location has a history of messages, in the *)
(* order of its stores.  A message carries a view: for each location, the  *)
(* message that whoever acquires this one must have seen.  A release store *)
(* carries all that the writer has done; any other store what it had done  *)
(* at its last release fence.  A load may return any message that is not   *)
(* older than the reader's view of the location; an acquire load takes     *)
(* over the view of the message at once, any other at the next acquire     *)
(* fence.  The racing copies are loads and stores without order, which is  *)
(* what compilers make of memcpy here.                                     *)
(*                                                                         *)
(* A publish is known by the number of its begin; slot.generation, length  *)
(* and timestamp are one location, the payload another.  No word wraps.    *)
(*                                                                         *)
(* A definition X_Change that comes before X is X with a plausible mistake *)
(* in it; PROJECT.json says which property notices.                        *)
(***************************************************************************)
EXTENDS Naturals, Sequences

CONSTANTS
  slot_count,
  READ_RETRIES,
  MaxBegins        \* bound: begins

ASSUME OrderAssumption ==
  slot_count \in Nat \ {0, 1} /\ READ_RETRIES \in Nat \ {0} /\ MaxBegins \in Nat

Slots == 0 .. (slot_count - 1)
Locs == {<<"latest">>, <<"notify">>, <<"state">>} \cup ({"seq", "info", "data"} \X Slots)

VARIABLES
  mem,                      \* the history of each location
  rel,                      \* the writer's view at its last release fence
  wpc, wlatest, open_slot, open_seq,
  begins,                   \* the number of the current publish
  noted,                    \* history: per value of notify, what it tells of
  view, acq,                \* the reader's view, and what a fence adds to it
  rpc, op, tries,           \* the reader's call
  n,                        \* the value of notify it started from
  latest, q1, info, data,   \* the locals of read_latest
  got,                      \* the last value read or noticed
  busy                      \* the last read_latest was BUSY

writerVars == <<mem, rel, wpc, wlatest, open_slot, open_seq, begins, noted>>
localVars == <<latest, q1, info, data>>
readerVars == <<view, acq, rpc, op, tries, n, localVars, got, busy>>
vars == <<writerVars, readerVars>>

NONE == [slot |-> 0, seq |-> 0]          \* PSMI_LATEST_NONE

-----------------------------------------------------------------------------
(* Stores and fences of the writer. *)

Now == [l \in Locs |-> Len(mem[l])]
Last(l) == mem[l][Len(mem[l])].val
Append1(l, x, v) == mem' = [mem EXCEPT ![l] = Append(@, [val |-> x, view |-> [v EXCEPT ![l] = Len(mem[l]) + 1]])]

StoreRelaxed(l, x) == Append1(l, x, rel)
StoreRelease(l, x) == Append1(l, x, Now)

begin_slot_NoFence ==
  LET i == IF wlatest = NONE THEN 0 ELSE (wlatest.slot + 1) % slot_count
      l == <<"seq", i>>
      q == Last(l) - (Last(l) % 2)
  IN /\ wpc = "idle"
     /\ begins < MaxBegins
     /\ begins' = begins + 1
     /\ StoreRelaxed(l, q + 1)
     /\ open_slot' = i /\ open_seq' = q
     /\ wpc' = "data"
     /\ UNCHANGED <<rel, wlatest, noted, readerVars>>

\* The slot behind the latest is made odd; the fence comes after that store.
begin_slot ==
  LET i == IF wlatest = NONE THEN 0 ELSE (wlatest.slot + 1) % slot_count
      l == <<"seq", i>>
      q == Last(l) - (Last(l) % 2)
  IN /\ wpc = "idle"
     /\ begins < MaxBegins
     /\ begins' = begins + 1
     /\ StoreRelaxed(l, q + 1)
     /\ rel' = [Now EXCEPT ![l] = @ + 1]
     /\ open_slot' = i /\ open_seq' = q
     /\ wpc' = "data"
     /\ UNCHANGED <<wlatest, noted, readerVars>>

\* The payload, copied by publish or stored by the application.
store_data ==
  /\ wpc = "data"
  /\ StoreRelaxed(<<"data", open_slot>>, begins)
  /\ wpc' = "info"
  /\ UNCHANGED <<rel, wlatest, open_slot, open_seq, begins, noted, readerVars>>

state_abort ==
  /\ wpc = "info"
  /\ wpc' = "idle"
  /\ open_slot' = 0 /\ open_seq' = 0
  /\ UNCHANGED <<mem, rel, wlatest, begins, noted, readerVars>>

\* commit_slot: the header of the slot, ...
commit_info ==
  /\ wpc = "info"
  /\ StoreRelaxed(<<"info", open_slot>>, begins)
  /\ wpc' = "seq"
  /\ UNCHANGED <<rel, wlatest, open_slot, open_seq, begins, noted, readerVars>>

\* ... its sequence number, ...
commit_seq ==
  /\ wpc = "seq"
  /\ StoreRelease(<<"seq", open_slot>>, open_seq + 2)
  /\ wpc' = "latest"
  /\ UNCHANGED <<rel, wlatest, open_slot, open_seq, begins, noted, readerVars>>

\* ... header.latest, ...
commit_latest ==
  /\ wpc = "latest"
  /\ wlatest' = [slot |-> open_slot, seq |-> open_seq + 2]
  /\ StoreRelease(<<"latest">>, wlatest')
  /\ wpc' = "notify"
  /\ open_slot' = 0 /\ open_seq' = 0
  /\ UNCHANGED <<rel, begins, noted, readerVars>>

notify_add_Relaxed(retiring) ==
  /\ StoreRelaxed(<<"notify">>, Last(<<"notify">>) + 1)
  /\ noted' = Append(noted, [id |-> begins, retired |-> retiring])

\* ... and header.notify.  (The read-modify-write of the only writer.)
notify_add(retiring) ==
  /\ StoreRelease(<<"notify">>, Last(<<"notify">>) + 1)
  /\ noted' = Append(noted, [id |-> begins, retired |-> retiring])

commit_notify ==
  /\ wpc = "notify"
  /\ notify_add(FALSE)
  /\ wpc' = "idle"
  /\ UNCHANGED <<rel, wlatest, open_slot, open_seq, begins, readerVars>>

\* retire, by the process that replaces the file after the last publish.
retire_state ==
  /\ wpc = "idle"
  /\ StoreRelease(<<"state">>, "RETIRED")
  /\ wpc' = "retiring"
  /\ UNCHANGED <<rel, wlatest, open_slot, open_seq, begins, noted, readerVars>>

retire_notify ==
  /\ wpc = "retiring"
  /\ notify_add(TRUE)
  /\ wpc' = "retired"
  /\ UNCHANGED <<rel, wlatest, open_slot, open_seq, begins, readerVars>>

Writer ==
  \/ begin_slot \/ store_data \/ state_abort \/ commit_info \/ commit_seq \/ commit_latest
  \/ commit_notify \/ retire_state \/ retire_notify

-----------------------------------------------------------------------------
(* Loads and fences of the reader. *)

Join(v, w) == [l \in Locs |-> IF v[l] > w[l] THEN v[l] ELSE w[l]]

\* The message number j of l, given the view v.
Readable(l, v) == v[l] .. Len(mem[l])

load_acquire(l, j) ==
  /\ j \in Readable(l, view)
  /\ view' = Join(view, mem[l][j].view)
  /\ acq' = Join(acq, mem[l][j].view)

load_copy(l, j) ==
  /\ j \in Readable(l, view)
  /\ view' = [view EXCEPT ![l] = j]
  /\ acq' = Join(acq, mem[l][j].view)

At(from, to) == rpc = from /\ rpc' = to

Reset == latest' = NONE /\ q1' = 0 /\ info' = 0 /\ data' = 0 /\ tries' = 0

call(o) ==
  /\ At("idle", IF o = "wait" THEN "notify" ELSE "latest")
  /\ op' = o
  /\ busy' = FALSE
  /\ UNCHANGED <<writerVars, view, acq, tries, n, localVars, got>>

wait_notify(j) ==
  /\ At("notify", "state")
  /\ load_acquire(<<"notify">>, j)
  /\ n' = mem[<<"notify">>][j].val
  /\ UNCHANGED <<writerVars, op, tries, localVars, got, busy>>

\* A retired file is left for another.
wait_state(j) ==
  /\ At("state", IF mem[<<"state">>][j].val = "RETIRED" THEN "left" ELSE "latest")
  /\ load_acquire(<<"state">>, j)
  /\ UNCHANGED <<writerVars, op, tries, n, localVars, got, busy>>

\* read_latest without a value: NODATA and BUSY send a wait to its futex.
NoValue(isBusy) ==
  /\ rpc' = IF op = "wait" THEN "futex" ELSE "idle"
  /\ busy' = isBusy
  /\ Reset
  /\ UNCHANGED <<op, n, got>>

read_latest_load(j) ==
  /\ rpc = "latest"
  /\ load_acquire(<<"latest">>, j)
  /\ IF mem[<<"latest">>][j].val = NONE THEN NoValue(FALSE)
     ELSE /\ latest' = mem[<<"latest">>][j].val
          /\ rpc' = "seq"
          /\ UNCHANGED <<op, tries, n, q1, info, data, got, busy>>
  /\ UNCHANGED writerVars

\* An attempt failed.
Retry ==
  IF tries + 1 = READ_RETRIES THEN NoValue(TRUE)
  ELSE /\ rpc' = "latest"
       /\ tries' = tries + 1
       /\ latest' = NONE /\ q1' = 0 /\ info' = 0 /\ data' = 0
       /\ UNCHANGED <<op, n, got, busy>>

names_version_Any(q) == q % 2 = 0
names_version(q) == q = latest.seq          \* which is even

read_latest_seq(j) ==
  LET l == <<"seq", latest.slot>>
      q == mem[l][j].val
  IN /\ rpc = "seq"
     /\ load_acquire(l, j)
     /\ IF names_version(q)
        THEN q1' = q /\ rpc' = "info" /\ UNCHANGED <<op, tries, n, latest, info, data, got, busy>>
        ELSE Retry
     /\ UNCHANGED writerVars

\* The copies: of the slot header, and for a read of the payload.
read_latest_info(j) ==
  LET l == <<"info", latest.slot>> IN
  /\ At("info", IF op = "read" THEN "data" ELSE "recheck")
  /\ load_copy(l, j)
  /\ info' = mem[l][j].val
  /\ UNCHANGED <<writerVars, op, tries, n, latest, q1, data, got, busy>>

read_latest_data(j) ==
  LET l == <<"data", latest.slot>> IN
  /\ At("data", "recheck")
  /\ load_copy(l, j)
  /\ data' = mem[l][j].val
  /\ UNCHANGED <<writerVars, op, tries, n, latest, q1, info, got, busy>>

seq_fence_acquire == Join(view, acq)

\* The acquire fence and the second load of seq.  A wait returns if the
\* generation is new.
read_latest_recheck(j) ==
  LET l == <<"seq", latest.slot>>
      fenced == seq_fence_acquire
  IN /\ rpc = "recheck"
     /\ j \in Readable(l, fenced)
     /\ view' = [fenced EXCEPT ![l] = j]
     /\ acq' = Join(acq, mem[l][j].view)
     /\ IF mem[l][j].val # q1 THEN Retry
        ELSE /\ rpc' = IF op = "wait" /\ info = got.info THEN "futex" ELSE "idle"
             /\ got' = IF op = "wait" /\ info = got.info THEN got
                       ELSE [info |-> info, data |-> IF op = "read" THEN data ELSE info]
             /\ busy' = FALSE
             /\ Reset
             /\ UNCHANGED <<op, n>>
     /\ UNCHANGED writerVars

\* FUTEX_WAIT compares the word itself, not the reader's view of it, with n.
futex_wait ==
  /\ At("futex", IF Last(<<"notify">>) = n THEN "asleep" ELSE "idle")
  /\ UNCHANGED <<writerVars, view, acq, op, tries, n, localVars, got, busy>>

wake ==
  /\ At("asleep", "idle")
  /\ UNCHANGED <<writerVars, view, acq, op, tries, n, localVars, got, busy>>

Reader ==
  \/ \E o \in {"read", "wait"} : call(o)
  \/ \E j \in 1 .. Len(mem[<<"notify">>]) : wait_notify(j)
  \/ \E j \in 1 .. Len(mem[<<"state">>]) : wait_state(j)
  \/ \E j \in 1 .. Len(mem[<<"latest">>]) : read_latest_load(j)
  \/ \E j \in 1 .. Len(mem[<<"seq", latest.slot>>]) : read_latest_seq(j)
  \/ \E j \in 1 .. Len(mem[<<"info", latest.slot>>]) : read_latest_info(j)
  \/ \E j \in 1 .. Len(mem[<<"data", latest.slot>>]) : read_latest_data(j)
  \/ \E j \in 1 .. Len(mem[<<"seq", latest.slot>>]) : read_latest_recheck(j)
  \/ futex_wait \/ wake

\* A file as create_file leaves it, and a reader that has just mapped it.
Init ==
  LET start == [l \in Locs |-> 1] IN
  /\ mem = [l \in Locs |-> <<[val |-> IF l = <<"latest">> THEN NONE
                                      ELSE IF l = <<"state">> THEN "in use" ELSE 0,
                              view |-> start]>>]
  /\ rel = start
  /\ wpc = "idle" /\ wlatest = NONE /\ open_slot = 0 /\ open_seq = 0 /\ begins = 0
  /\ noted = <<>>
  /\ view = start /\ acq = start
  /\ rpc = "idle" /\ op = "read" /\ tries = 0 /\ n = 0
  /\ latest = NONE /\ q1 = 0 /\ info = 0 /\ data = 0
  /\ got = [info |-> 0, data |-> 0] /\ busy = FALSE

Next == Writer \/ Reader

Spec == Init /\ [][Next]_vars

-----------------------------------------------------------------------------
(* Properties. *)

\* What a read hands out is one publish: the payload is that of the header, as
\* far apart as the accesses may be executed.
OrderedReadIsAtomic == got.data = got.info

\* A handle never goes back to an older value.
OrderedNeverOlder == [][got'.info >= got.info]_vars

\* The publish that header.latest names.
Newest == IF wlatest = NONE THEN 0 ELSE Last(<<"info", wlatest.slot>>)

\* A reader that goes to sleep has seen what the value of notify it sleeps on
\* tells of: the retirement, and the publish, unless it was BUSY because a
\* later publish is on its way to notify again.
SleepKnows ==
  rpc = "asleep" /\ n > 0 =>
    /\ ~noted[n].retired
    /\ got.info >= noted[n].id \/ (busy /\ Newest > noted[n].id)
=============================================================================
