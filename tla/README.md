# A TLA+ development of ps-msgr state channels

ps-msgr lets one process publish a small piece of state that any number of
processes read, through a file in shared memory and without a server. The
library is `src/src/state.c` with the layout in `src/src/layout.h`; bindings
for Go, Python and C# call it. This directory models the library, checks the
models with TLC and proves the most important properties with TLAPS.

## 1. The system

A channel is two files in a directory, usually `/dev/shm`:

| file | what it is |
|---|---|
| `psmsgr.<name>.state` | the data file: a header and a ring of slots, mapped by the writer and by the readers |
| `psmsgr.<name>.lock` | the lock file: the writer holds an OFD lock on it while its handle is open |

| part | code | modules |
|---|---|---|
| words of the data file | `layout.h` 15-77, `next_generation` | `Layout` |
| slot ring: publish, begin/commit/abort, read, peek | `begin_slot` ... `psmsgr_state_abort`, `read_latest`, `psmi_seq_copy` | `StateRing`; what it promises: `LatestValue` |
| writer lock | `lock_channel`, `names_inode`, end of `psmsgr_state_unlink`, `psmsgr_state_writer_alive` | `ChannelLock` |
| data files | `open_data`, `create_file`, `retire`, `remove_stale_tmp`, `psmsgr_state_unlink` | `ChannelFiles` (extends `ChannelLock`) |
| reader handle, wait | `attach`, `reader_sync`, `identity_check`, `psmsgr_state_wait`, ... | `Channel` (extends `ChannelFiles`) |
| memory order of the ring | the orders and fences of the same functions | `RingOrder` |
| file format | `psmi_slot_stride`, `psmi_file_size`, `header_valid`, the header of `create_file` | `FileFormat` (extends `Layout`) |
| options, names | `load_options`, `name_valid`, `paths_init`, the match of `remove_stale_tmp` | `OpenCall` (extends `FileFormat`) |
| `psmsgr-dump --watch`, `motor_reader`, `motor_writer` | `src/tools`, `src/examples/c` | `Programs` (extends `Channel`); the checks the dump repeats: `FileFormat` |
| bindings | `src/bindings/go/psmsgr/reader.go`, `value.go` | `Binding` |
| version, error strings, benchmark, interop agents | `common.c`, ... | left out, see section 7 |

How the parts interact: `psmsgr_state_writer_open` takes the lock, sweeps stale
temporary files, and then reuses the data file, or creates a new one under a
temporary name and renames it into place, and marks the replaced file RETIRED.
Readers take no lock. They map whatever file the path names, look at RETIRED at
the start of each call, and compare the identity of the path with that of the
mapped file in `writer_alive` and once a second in `wait`. Inside one file the
writer never waits for a reader, and a reader that is overtaken tries again.

The two halves meet in one fact: at most one writer handle exists on a channel.
`ChannelLock` establishes it, `StateRing` starts from it. `StateRing` then shows
that a file is an atomic register, and `Channel` uses a file as one: there a
value is a number, and publishing and sampling it are single steps.

## 2. The modules

**Layout.** `header.latest` packs a slot index and a version tag. The widths are
the parameters `SLOT_MOD` and `TAG_MOD` (2^4 and 2^27 in the code); a
`uint32_t` is a number modulo `U32_MOD = 2 * TAG_MOD * SLOT_MOD`.

**LatestValue.** The abstract specification: one current value; a call takes a
sample of it in one instant and hands out that sample, finds nothing, or gives
up.

**StateRing.** One data file with one writer at a time and any number of
readers. Each action is one access to the shared memory together with the
private computation that follows. `publish_copy`, `copy_data`, `commit_meta` and
`copy_meta` move one unit or one field per step, in any order, because `memcpy`
and plain stores have none. `writer_close` and `WriterGone` end a writer handle
between calls or, as a crash, inside one; `writer_open` is the reuse path of
`open_data`. The history variables (`pubval`, `ver`, `window`, `callpub`,
`seen`, ...) are read by no guard but one: `commit_seq` is guarded by
`NoTagWrap`, which says that one slot is not committed 2^27 times during a
single read attempt. The code does not enforce that; `spec/state-channel.md`
(6.3) argues that it takes longer than any attempt, and everything below
rests on it. The clock ticks at each reading, which idealises
`CLOCK_MONOTONIC`; the timestamps order values in `NeverOlder` and in the
register.

**ChannelLock.** Each action is one system call of `lock_channel` or of
`writer_alive` with what the caller does about its result. `lpc` is "in" from
the identity check until the handle is closed or the lock file is removed. An
inode number may be given to a new lock file as soon as neither the path nor a
descriptor refers to the old one, as in a real file system. `release` covers
close, error returns and the death of the process, all of which drop the OFD
lock.

**ChannelFiles.** A file is a number. Its header is abstracted to a kind ("ok",
"minor", "corrupt", "bad", "foreign", or "blank" until it is filled in) and a
geometry, which stands for capacity, slot count, payload type and flags.
`disposition` is the decision of `open_data`; `open_reuse`, `open_create` and
`open_refused` are its outcomes. The open of the data file and the loads after
it are one step: the caller holds the lock, so nobody but `rm` changes anything
in between. `create_tmp`, `create_fill`, `create_rename`, `retire_set`,
`retire_notify`, `retire_wake` are the steps of `create_file` and `retire`, between
which the process may die. A generation is a pair: the random one that a
chain of values started from, and how often it was incremented. That two random
generations differ is assumed.

**Channel.** The reader handle: `reader_sync`, `attach`, `attach_check` (the
loop of `reader_sync`), `identity_check`, and the calls that use them.
`psmsgr_state_peek` differs from `read` only in what it copies, so both are
`state_read`. `wait` has one action for each access: the load of `notify`, the
retire check, the peek, the futex call, and the ends of the sleep. The futex
call compares and sleeps in one step, as the kernel promises. `Lap` is the
number of publishes during a peek from which it may answer BUSY, a consequence of
`BusyOnlyIfLapped`.

`state_read` takes two steps, `read_start` and the result, so that a writer can
publish in between.

**RingOrder.** The ring once more, on a machine that reorders. Each location has
the history of its stores; a message of the history carries a view, that is, for
each location the message that whoever acquires this one must have seen. A
release store carries all the writer did, a relaxed one what it had done at its
last release fence; an acquire load adopts the view of what it read, the racing
copies only at the next acquire fence. A load returns any message not older than
the reader's view. The actions are those of `StateRing` plus the part of `wait`
that loads `notify` before it looks, and `retire`. `StateRing` has the wrapping
words and the restarts, `RingOrder` the memory order.

**FileFormat, OpenCall.** `FileFormat` has the arithmetic of the file: strides,
sizes, the header that `create_file` writes, `header_valid`, what `read_latest`
makes of a `latest` and its slot, and the second opinion of `psmsgr-dump`
(`header_problem`, `print_latest`). `OpenCall` is one `psmsgr_state_writer_open` in a
directory shared with other channels: the caller's options structure of a size
of its own (`written` is how much of it `options_init_sized` wrote, the rest is
`Residue`), `load_options`, the name, the sweep, the new file, and then a header
damaged field by field. A name is the sequence of its words between dots, since
all comparisons of names are aligned on dots; the number of characters of a word
is kept, because the sweep counts six.

**Programs.** What callers do with results. A step of a program looks at what its
last library call returned and makes the next; the call runs in `Channel` step by
step. `motor_*` is the loop of `motor_reader`, `watch_*` that of
`psmsgr-dump --watch`, `motor_writer` a writer that recreates, publishes and
closes; `signal` sets `stop` and interrupts a sleep, if there is one. System calls
succeed, nobody is killed and nobody deletes the file: `Channel` has those steps.

**Binding.** The `Reader` of the Go binding. Each critical section of its mutex is
a step. `Close` comes from any goroutine while the owner waits, asks for the writer
or does nothing; `closeReader` is the cleanup the runtime runs on an unreachable
Reader. The native calls are external: a read returns what the length of the
latest value allows, or fails, and carries the announcement of an attach; a wait
returns when its milliseconds are over, on a signal, on news or on an error. Time
is counted in units from the start of a `Wait`, two to a millisecond, and a Duration
overflows above `MaxInt64`. Local variables are cleared when a call returns.

Definitions named `X_Change` repeat `X` with a plausible mistake; for each
property, `PROJECT.json` names one that TLC must find to violate it.

## 3. The runs

| run | instance | shows |
|---|---|---|
| `ring` | 2 slots, publishing by copy and in place, 3 commits, 2 handles, a crash | `LatestStable`, `ReadIsAtomic`, `ChangeDetected`; the ring implements `LatestValue` (`IsRegister`) |
| `ring_wrap` | words of 3 bits, 9 commits, a crash | types, `NeverOlder`, `BusyOnlyIfLapped` and `ReadReturns` while every counter wraps |
| `ring_order` | 2 slots, 2 attempts, 5 begins, reordering | `OrderedReadIsAtomic`, `OrderedNeverOlder`, `SleepKnows` |
| `lock` | 3 processes, 1 reader, 3 inodes | `OneHolder`, `AliveSeesHolder`, `LockReturns` |
| `chan_writers` | 2 processes, 2 files, leftovers of 4 kinds, crashes, failing system calls, `rm` | `WriterKeepsFile`, `CreateIsAtomic`, `GenerationsDiffer`; the channel implements `ChannelLock` (`LockSpec`) |
| `chan_readers` | 2 processes, 1 reader, 2 files, 2 values, perhaps over a corrupt file | `NeverOlder`, `AttachedMarksNewFile` |
| `chan_wait` | 1 process, 1 reader that waits and asks for the writer, failing system calls, `rm` | `NoLostWakeUp`, `ReplacedIsRetired`, `WaitReturns` |
| `open_call` | words of 8 bits; 13 sizes of the options, 88 names, 2 damaged fields | `OptionsHonoured`, `SweepSpares`, `CreatedIsAccepted`, `SlotsInside`, `DumpAgrees` |
| `programs` | 1 writer of two versions, 1 program, 2 files, 2 values, leftovers, a signal | `PrintedInOrder`, `PrintsOwnType`, `StopEnds`, `WatchShowsValue` |
| `binding` | timeouts of 0 to 3.5 ms and none, a deadline, payloads of 0 to 4 bytes, 4 attempts | `HandleSafe`, `AttachedOnce`, `RetryMeansReplaced`, `WaitOnTime`, `WaitEnds`, `CloseEnds` |
| `chan_killed` | 1 process that may die | a violation, see section 6 |
| `motor_type` | `motor_reader` and a writer of two versions | a violation, see section 6 |

Bounds. Two slots are the smallest ring and the one where a reader is overtaken
soonest; the proofs cover the others. `MaxCommits` lets the writer lap a reader in
both of its attempts, and in `ring_wrap` wraps every word. `MaxOpens = 2` is one
restart. Readers write nothing to shared memory, so one reader sees everything
that several would; the proofs are for any number. In `ring_order` five begins
take the writer round both slots twice, with an abort to spare. In `lock` three
processes are a holder, an unlink and a newcomer; a newcomer that finds no free
inode waits for one. In the channel runs `MaxFiles = 2` allows one replacement (a
process that finds no room left fails as on a full file system), and `MaxValues`
one value before and one after it. Runs about readers use processes that do not
die, unless the property is about that. `chan_wait` and `programs` use one process,
because two never hold the channel at once. In `open_call` the words of 8 bits keep
the proportions of the real limits: a stride of the largest capacity does not
overflow, one of an arbitrary word does; the names are those that collide
with what the library appends. In `binding` a slice is two milliseconds, so that a
timeout can span several slices or end inside one, and four attempts against
payloads of up to four bytes let a Read use up its attempts.

Symmetry: processes, inodes and geometries are interchangeable; the runs that
check liveness do not use it.

Deadlock is not checked in `open_call` (the call is over), `ring_order` (the reader
leaves a retired file) and `binding` (the runtime collected the Reader).

Fairness. `ReadReturns`: the thread inside `read_latest` keeps running; nothing
is asked of the writer. `LockReturns`: the threads inside `lock_channel` keep
running; holders need not let go. `WaitReturns`: the waiting thread keeps
running and the kernel ends a futex sleep after its one-second slice. Writers
may stop for ever anywhere. `StopEnds`, `WatchShowsValue`: the program runs, sleeps
end as above, and the deadline of a wait with a timeout passes; the last is strong
fairness, because a wait that is woken again and again looks at the clock only now
and then, while the deadline is one point in time. `WaitEnds`, `CloseEnds`: a
call of the binding goes on and time passes; nothing makes a native wait return
early, and nobody has to call Close.

## 4. What is proved

TLAPS checks these for every value of the constants that satisfies the named
assumptions (`LayoutAssumption`, `RingAssumption`, `LockAssumption`,
`FilesAssumption`, `ChannelAssumption`, `OrderAssumption`, `FormatAssumption`,
`CallAssumption`, `NameAssumption`, `BindingAssumption`, `ProgramsAssumption`), which
give the constants their types. Five say more. `FormatAssumption`: the stride of the largest capacity
does not overflow. `CallAssumption`: the defaults are in range. `NameAssumption`: what
`mkostemp` appends has six characters, and "state" and "lock" have not.
`BindingAssumption`: a wait slice is a whole number of milliseconds, and the model's
clock runs beyond every timeout. `ProgramsAssumption`: the applications of the channel
may make every call the programs make.

*The ring* (`StateRingInvariant` has the arithmetic of `latest`, the invariant and
the steps of the writer; `StateRingProofs` the steps of the readers and what calls
return): `TypeCorrect`, `PublishedSlotStable`, `ReadsAreAtomic`,
`ReadsNeverGoBack`, `BusyMeansLapped`, `RingIsRegister`, `ChangesAreDetected`. None of these is
inductive by itself. The invariant `IInv` relates the wrapping words to the
unbounded history: `seq[i]` is the even word of `ver[i]` commits or its
successor (`SeqOK`); `latest` is the packing of the slot and version that hold
`pubval` (`LatestOK`); the writer works on the slot after it (`WriterOK`); and for
each reader inside an attempt, its slot is still the one that `latest` published
and what it has copied is part of that value (`Fresh`, `CopyOK`), or the
writer went round the ring and the slot's counter differs from the one loaded
(`Moved`). The last alternative is where `NoTagWrap` is used: within fewer than
`TAG_MOD` commits the word cannot come back to the loaded one. A successful
recheck excludes `Moved`, so the copy is `Fresh`. The refinement maps the load of
`latest` to the instant at which the register is sampled. `ChangesAreDetected` needs a
second invariant, `TokenInv`: the writer is about to publish the generation after the
published one, also after a restart, and of what a handle handed out, what it has
sampled and what is published each is a number of publishes after the one before, no
larger than the distance of their timestamps (`Since`).

*The memory order* (`RingOrderProofs`):
`ReadIsAtomicOrdered`, `NeverOlderOrdered`, `SleepIsInformed`, for any number of
slots, retries and publishes. The invariant is about what messages carry. The
writer's part: an even message of `slot.seq` carries the header and the payload of
its commit (`Whole`), and each message stored over them later carries a later, odd,
message of the counter (`Guarded`); a message of `latest` carries the commit it
names (`Names`), and one of `notify` the publish or retirement it tells of (`Tells`).
The reader's part: inside an attempt, each copy is of the publish that `latest` named,
or the view that the reader's fence will make its own has gone beyond the counter
it loaded (`Attempt`), so that the second load of the counter returns something
else; and a waiter knows what the value of `notify` it started from stands for
(`WaitOK`).

*The lock* (`ChannelProofs`): `MutualExclusion`, `LockVisible`,
`AliveIsAccurate`, `LockTypes`. The invariant `LockInv` says that an inode's
owner is exactly the process that has it open and is past `F_OFD_SETLK`, that
the path names the inode of whoever passed the identity check, and that
`writer_alive` has opened the inode of those that hold the channel throughout
the call. The inode is free for reuse only when nobody has it open, which keeps
two holders from owning different incarnations of one number.

*The channel* (`ChannelProofs`): `ChannelIsLock`, every step of the composed
system is a step of the lock or leaves it alone; so mutual exclusion
(`OneWriter`) and `AliveSeesHolder` hold of the channel too. On that rest
`WritersKeepTheirFiles`, `CreationIsAtomic` and `GenerationsNeverRepeat`. The
invariant `FilesInv` says that whoever is past the sweep holds the lock
(`HeldWhileBusy`), that the file at the path is initialized and that new and temporary
files are unused (`FilesFresh`), and what the process that holds the lock knows of the
files it works on (`FilesAtWork`): a writer's file is at the path and not retired,
unless somebody removed it with `rm`. A process that does not hold the lock cannot
disturb this, which is the only use of mutual exclusion. `GenInv` adds that the
generation a writer goes on with is ahead of every published one of its chain
(`Ahead`), and that the file at the path has the last one.

*Reading through a handle* (`ChannelProofs`): `HandlesNeverGoBack` and
`AttachedMarksExactly`, with deaths, failing system calls and `rm`, which
`chan_readers` leaves out for its size. Files are numbered in the order in which they
are created, and `OrderInv` says that values follow that order: nothing is published in a file once
a later one is at the path or has a writer. For each reader, `SeenOK` says that the
mapped file is not older than that of the last result, that the handle is to announce it
exactly if it is another one, and that a handle without a file has let go of one that is
retired or no longer at the path. The last is what keeps a handle from announcing the same
file twice: `attach` takes what the path names, and the loop of `reader_sync`
drops it again if it is retired.

*Retirement and waiting* (`ChannelWaitProofs`): `ReplacedFilesAreRetired` assumes
that no process dies and no system call of a writer fails; its invariant `RetireInv`
says that `create_file` and `unlink` still remember the file at the path when they take it
away. `WakeUpsAreNotLost` assumes only that no process dies: a writer that is killed
between `commit_latest` and the wake leaves its readers to the one-second slice of
`wait`. Its invariant `WaitInv` follows `wait` through its accesses: as long as the
word is the one loaded first, whatever changed after the retire check or after the load
of `latest` has its notification still to come (`WaitOK`), so that the futex call either
sees another word or goes to sleep before the wake.

*The file format and the open call* (`FormatProofs`): `ValidFits`, `SlotsInsideTheorem`,
`CreatedIsAcceptedTheorem`, `DumpDecides`, `DumpAgreesTheorem`,
`OptionsHonouredTheorem`, `SweepSparesTheorem`. A header that `header_valid` accepts
keeps every slot, with the longest payload, inside the file and apart from the next slot,
whatever wrote it; the header of `create_file` is accepted; `psmsgr-dump` accepts the same headers.
The argument is arithmetic: a stride is at least the slot header and the capacity
(`StrideHolds`, where the limit on the capacity excludes the overflow of the 32-bit
sum), and slot `i + 1` ends no later than the last one (`Monotone`). The invariant
only carries the types of the header and, from the moment of creation, that it is the one
`create_file` wrote. `OptionsInv` says how much of the caller's structure is written when the
size it states is; a field that `OPT_HAS` finds inside that size was written.
The sweep is an argument about words: two names give the same prefix only if they are
equal, place by place (`PrefixIs`), and the one word after the prefix has six characters,
which no word has that the library itself ends a name with.

*The Go Reader* (`BindingProofs`): `HandleIsSafe`, `AttachedIsToldOnce`,
`RetryIsOvertaken`, `WaitIsOnTime`. The invariant has five parts, kept one by one:
where a call may be (`Places`); the count of calls, the handle and the cleanup
determine whether it was freed (`HandleInv`); an attach still owed to the caller is
announced by the native handle, kept by the Reader, or known to the Read in progress
(`AttachInv`); a slice that has grown has room for the value it has grown for, unless that was
replaced (`RetryInv`); and the timeout in use is not below the one asked for, with rounding
up to milliseconds and the limit of a Duration (`TimeInv`).

*The programs* (`ProgramsProofs`): `ProgramsUseChannel`, a run of the programs is a
behaviour of `Channel`, so that the theorems about handles above hold of theirs; and,
for `motor_reader`, `MotorPrintsInOrder` and `MotorPrintsOwnType`. The refinement needs
that what a program passes to `wait` is a generation that the library handed out
(`ProgramTypes`). The order of what is printed is decided over two calls: `wait`
compares generations, the read after it returns what is the latest by then without
comparing anything, and the claim is about values.
`MotorInv` says which call runs at which place (`InCall`), that a generation the program
remembers tells its value apart from every other latest one (`Tells`), and
that once `wait` has returned OK, or the read that follows it has begun, some file
that the handle has or will come to has a newer value than the one printed (`Newer`);
since a handle never goes back, the read returns one. For the type (`OwnType`), a result
was checked, or its file is retired, or it is the first of its file and `describe`
has still to answer for the file that the handle has.

Only model-checked: liveness (`ReadReturns`, `LockReturns`, `WaitReturns`, `StopEnds`,
`WatchShowsValue`, `WaitEnds`, `CloseEnds`), which is out of the prover's reach.

## 5. Abstractions to keep in mind

- Memory accesses are sequentially consistent everywhere but in `RingOrder`.
- The racing copies of `RingOrder` are loads and stores without order, of a whole
  payload. To C they are data races; this is what compilers make of `memcpy` here.
- Only the data file is removed by hand. Deleting the lock file of a live
  channel by hand defeats the lock, and the documentation says so.
- A file that is retired and still at the path is an initial state left by
  another implementation; this library renames or unlinks before it retires.
- `writer_alive` also answers 1 while an unlink holds the lock.
- Times are modelled in `Binding` only: elsewhere a finite wait may end wherever
  the code looks at the deadline.
- In `ChannelFiles` the notify word does not wrap. A wrap during one futex call
  would need 2^32 publishes.

## 6. What the checks found

`chan_killed`: a writer that is killed between the rename of `create_file`
(`state.c` 464) and the retirement of the old file (469-470) leaves a replaced
file that is not RETIRED, and nobody retires it later. `spec/state-channel.md` 338
says "`RETIRED` covers replacements made by the library." Readers recover
through the identity check of `wait` and `writer_alive` (`WaitReturns` in `chan_wait`), but
a reader that only polls `read` stays with the old file.

`motor_type`: `motor_reader` asks `psmsgr_state_describe` for the payload type after it
has read the value (`motor_reader.c` 50), and `describe` first follows the channel. If the
file is replaced in between, the type is that of the new file, and if `describe`
fails the check is skipped; bytes of another type and the same length are
then printed. The comment above says "The bytes are only a motor_status if the
payload type says so." What does hold is `PrintsOwnType`: it happens at most to a
value whose file was retired meanwhile.

Everything else holds.

## 7. Not modelled

- The Go `Writer` and the writers of the other bindings: one native call per
  call, for one thread. `PublishFunc` is begin, then commit or abort, as in `StateRing`.
- The Python and C# readers. They follow the design of `Binding` (a count of
  the calls in progress, a pending attach, sliced waits); they size the receive buffer
  by `describe`, and C# leaves the count to the runtime.
- `psmsgr-dump` without `--watch` and its `--hex`: one pass over the same functions.
  Parsing of options, and all printed text.
- The benchmark and the interop agents, which measure and test.
- `common.c`: tables of strings and a clock.
- Directories, permissions, and memory exhaustion other than as a failing call.
