------------------------------ MODULE Binding -------------------------------
(***************************************************************************)
(* The Reader of the Go binding (src/bindings/go/psmsgr/reader.go and      *)
(* value.go).  One goroutine makes its calls; another may Close the Reader *)
(* during Wait and WriterAlive, which hold the native handle meanwhile.    *)
(* Each use of the Reader's mutex is one step.                             *)
(*                                                                         *)
(* The native calls are external here, by what the binding can see of      *)
(* them: Channel has what is behind.  Time is in units, of which a         *)
(* millisecond has Millisecond; a Wait counts it from its start.           *)
(*                                                                         *)
(* A definition X_Change that comes before X is X with a plausible mistake *)
(* in it; PROJECT.json says which property notices.                        *)
(***************************************************************************)
EXTENDS Integers, FiniteSetsExt

CONSTANTS
  Millisecond,     \* units of time in a millisecond
  waitSlice,       \* in units
  MaxInt64,        \* the largest Duration, in units
  Timeouts,        \* what callers ask for, besides NoTimeout
  Deadlines,       \* of contexts that have one, from the start of a Wait
  MaxTime,         \* time is not told apart from here on
  readAttempts,
  MaxLength        \* of a payload, and of the room in a slice

NoTimeout == -1
Never == -1
NoValue == -1

ASSUME BindingAssumption ==
  /\ Millisecond \in Nat \ {0} /\ waitSlice \in Nat \ {0} /\ waitSlice % Millisecond = 0
  /\ MaxInt64 \in Nat /\ Timeouts \subseteq 0 .. MaxInt64
  /\ Deadlines \subseteq Nat /\ MaxTime \in Nat
  /\ \A t \in Timeouts \cup Deadlines : t + Millisecond <= MaxTime
  /\ readAttempts \in Nat \ {0} /\ MaxLength \in Nat

VARIABLES
  h, pending, closed, active, cleanup,  \* the Reader
  freed,                                \* how often the native handle was closed
  announce, length,                     \* native: the next result says ATTACHED; the length of the
                                        \* latest value, while a call reads it
  op, pc, res,                          \* the call in progress, or the last one, where it is, and its result
  spare, attempt, attached,             \* of Read
  ctx, asked, timeout, deadline,        \* of Wait: the context and the arguments
  elapsed, ms, left, last,              \*   and the time, that of the slice and what is left of it
  owed,                                 \* an attach happened that no result has told
  replaced                              \* a value was published after the last native read

readerVars == <<h, pending, closed, active, cleanup>>
nativeVars == <<freed, announce, length, owed, replaced>>
readVars == <<spare, attempt, attached>>
waitVars == <<ctx, asked, timeout, deadline, elapsed, ms, left, last>>
vars == <<readerVars, nativeVars, op, pc, res, readVars, waitVars>>

NoResult == [rc |-> "none", attached |-> FALSE]

\* A call ends with rc, and, if it is a result, its Attached.
Result(rc, a) == res' = [rc |-> rc, attached |-> a]
Done(rc, a) == pc' = "idle" /\ Result(rc, a)

\* Its local variables are gone.
ForgetRead == spare' = 0 /\ attempt' = 0 /\ attached' = FALSE /\ length' = NoValue /\ replaced' = FALSE
ForgetWait ==
  /\ ctx' = "live" /\ asked' = 0 /\ timeout' = 0 /\ deadline' = Never
  /\ elapsed' = 0 /\ ms' = 0 /\ left' = 0 /\ last' = FALSE

Reads == {"read", "peek", "readvalue"}

\* The goroutine is between two calls.
Idle == pc = "idle"

-----------------------------------------------------------------------------
(* The handle. *)

\* acquire: fails on a closed Reader.
acquire ==
  /\ pc = "enter"
  /\ IF closed
     THEN Done("closed", FALSE) /\ ForgetWait /\ UNCHANGED active
     ELSE /\ active' = active + 1
          /\ pc' = IF op = "wait" THEN "ctx" ELSE "native"
          /\ UNCHANGED <<res, waitVars>>
  /\ UNCHANGED <<h, pending, closed, cleanup, nativeVars, op, readVars>>

\* release: the last call to end after a Close closes the native handle.
release ==
  /\ pc = "release"
  /\ active' = active - 1
  /\ freed' = IF closed /\ active = 1 THEN freed + 1 ELSE freed
  /\ pc' = "idle"
  /\ ForgetWait
  /\ UNCHANGED <<h, pending, closed, cleanup, announce, length, owed, replaced, op, res, readVars>>

CloseNative_Now == freed' = freed + 1

\* A call in progress keeps the native handle open.
CloseNative == freed' = IF active = 0 THEN freed + 1 ELSE freed

\* By any goroutine, as often as it likes: a second Close does nothing.
Close ==
  /\ Idle \/ op \in {"wait", "alive"}
  /\ cleanup # "ran"
  /\ ~closed
  /\ closed' = TRUE
  /\ cleanup' = "stopped"
  /\ CloseNative
  /\ h' = FALSE
  /\ UNCHANGED <<pending, active, announce, length, owed, replaced, op, pc, res, readVars, waitVars>>

\* The Reader is no longer reachable, which a call in progress prevents, and
\* the garbage collector runs its cleanup: closeReader.
closeReader ==
  /\ Idle
  /\ cleanup = "armed"
  /\ cleanup' = "ran"
  /\ freed' = freed + 1
  /\ UNCHANGED <<h, pending, closed, active, announce, length, owed, replaced, op, pc, res, readVars, waitVars>>

-----------------------------------------------------------------------------
(* Native calls. *)

\* psmsgr_state_read and _peek hand out an info, and with it the
\* announcement of an attach.
NativeOutcomes(size) ==
  {"BUSY", "SYS"} \cup
  (IF length = NoValue THEN {"NODATA"} ELSE IF length <= size THEN {"OK"} ELSE {"TOOSMALL"})

Informs(rc) == rc \in {"OK", "TOOSMALL"}

NativeRead(rc) ==
  /\ announce' = (announce /\ ~Informs(rc))
  /\ UNCHANGED freed

\* takeAttached: the flag of the info, or one kept from an earlier result.
takeAttached == pending \/ announce

\* While a call reads, a writer publishes a value, or the next native call
\* attaches to another file, with or without one.  That it happened before
\* the call makes no difference to what the call sees.
publish(n) ==
  /\ pc = "native" /\ op \in Reads
  /\ length' = n
  /\ replaced' = TRUE
  /\ UNCHANGED <<freed, announce, owed, readerVars, op, pc, res, readVars, waitVars>>

attach(n) ==
  /\ pc = "native" /\ op \in Reads
  /\ length' = n
  /\ announce' = TRUE
  /\ owed' = TRUE
  /\ replaced' = TRUE
  /\ UNCHANGED <<freed, readerVars, op, pc, res, readVars, waitVars>>

-----------------------------------------------------------------------------
(* Read, Peek, ReadValue. *)

\* They begin with r.h, and end at once if it is nil; the slice or the type
\* has room for s bytes.
Begin(o, s, n) ==
  /\ Idle
  /\ cleanup # "ran"
  /\ op' = o
  /\ IF h
     THEN /\ pc' = "native"
          /\ res' = NoResult
          /\ spare' = s
          /\ length' = n
     ELSE Done("closed", FALSE) /\ UNCHANGED <<spare, length>>
  /\ UNCHANGED <<readerVars, freed, announce, owed, replaced, attempt, attached, waitVars>>

\* slices.Grow: room for at least n.
Grow_Short(n) == \E s \in n - 1 .. MaxLength : spare' = Max({s, spare})
Grow(n) == \E s \in n .. MaxLength : spare' = Max({s, spare})

\* After TOOSMALL the slice grows.
Retry ==
  /\ attempt' = attempt + 1
  /\ attached' = (takeAttached \/ attached)
  /\ pending' = FALSE
  /\ Grow(length)
  /\ replaced' = FALSE
  /\ UNCHANGED <<length, owed, pc, res>>

Keep_Not(a) == pending' = pending

\* An attach that a failed call has seen is kept for the next result.
Keep(a) == pending' = a

\* One attempt of Read.
Read(rc) ==
  /\ pc = "native" /\ op = "read"
  /\ rc \in NativeOutcomes(spare)
  /\ NativeRead(rc)
  /\ \/ /\ rc = "OK"
        /\ Done("OK", takeAttached \/ attached)
        /\ ForgetRead
        /\ pending' = FALSE
        /\ owed' = FALSE
     \/ /\ rc = "TOOSMALL" /\ attempt + 1 < readAttempts
        /\ Retry
     \/ /\ rc = "TOOSMALL" /\ attempt + 1 = readAttempts
        /\ Done("BUSY", FALSE)
        /\ ForgetRead
        /\ Keep(takeAttached \/ attached)
        /\ UNCHANGED owed
     \/ /\ ~Informs(rc)
        /\ Done(rc, FALSE)
        /\ ForgetRead
        /\ Keep(pending \/ attached)
        /\ UNCHANGED owed
  /\ UNCHANGED <<h, closed, active, cleanup, op, waitVars>>

\* Peek reports any value, ReadValue only one of the length of its type.
Peek(rc) ==
  LET fits == op = "peek" \/ length = spare IN
  /\ pc = "native" /\ op \in {"peek", "readvalue"}
  /\ rc \in NativeOutcomes(IF op = "peek" THEN MaxLength ELSE spare)
  /\ NativeRead(rc)
  /\ \/ /\ rc = "OK" /\ fits
        /\ Done("OK", takeAttached)
        /\ pending' = FALSE
        /\ owed' = FALSE
     \/ /\ Informs(rc) /\ ~fits
        /\ Done("MISMATCH", FALSE)
        /\ Keep(takeAttached)
        /\ UNCHANGED owed
     \/ /\ ~Informs(rc)
        /\ Done(rc, FALSE)
        /\ UNCHANGED <<pending, owed>>
  /\ ForgetRead
  /\ UNCHANGED <<h, closed, active, cleanup, op, waitVars>>

\* Describe hands out no info.
Describe ==
  /\ pc = "native" /\ op = "describe"
  /\ \E rc \in {"OK", "NODATA", "SYS"} : Done(rc, FALSE)
  /\ ForgetRead
  /\ UNCHANGED <<readerVars, freed, announce, owed, op, waitVars>>

-----------------------------------------------------------------------------
(* Wait and WriterAlive. *)

\* Durations are 64 bits wide, here -(MaxInt64 + 1) .. MaxInt64.
Duration(d) == IF d > MaxInt64 THEN d - 2 * (MaxInt64 + 1) ELSE d
Truncate(d) == IF d < 0 THEN -((-d \div Millisecond) * Millisecond) ELSE (d \div Millisecond) * Millisecond

RoundUp_Always(t) == IF t > 0 THEN Truncate(Duration(t + Millisecond - 1)) ELSE t

\* A positive timeout is rounded up to milliseconds, unless that overflows.
RoundUp(t) ==
  IF t > 0 /\ t <= MaxInt64 - Millisecond THEN Truncate(Duration(t + Millisecond - 1)) ELSE t

Wait(t, d) ==
  /\ Idle
  /\ cleanup # "ran"
  /\ op' = "wait"
  /\ pc' = "enter"
  /\ ctx' = "live"
  /\ asked' = t
  /\ timeout' = RoundUp(t)
  /\ deadline' = d
  /\ elapsed' = 0
  /\ ms' = 0 /\ left' = 0 /\ last' = FALSE
  /\ res' = NoResult
  /\ UNCHANGED <<readerVars, nativeVars, readVars>>

\* The loop: ctx.Err(), which may notice the deadline late, ...
wait_ctx ==
  /\ pc = "ctx"
  /\ \/ ctx = "canceled" /\ pc' = "release" /\ Result("canceled", FALSE)
     \/ deadline # Never /\ elapsed >= deadline /\ pc' = "release" /\ Result("deadline", FALSE)
     \/ ctx = "live" /\ pc' = "closed" /\ UNCHANGED res
  /\ UNCHANGED <<readerVars, nativeVars, op, readVars, waitVars>>

isClosed_Never == FALSE
isClosed == closed

\* ... isClosed ...
wait_closed ==
  /\ pc = "closed"
  /\ IF isClosed THEN pc' = "release" /\ Result("closed", FALSE) ELSE pc' = "slice" /\ UNCHANGED res
  /\ UNCHANGED <<readerVars, nativeVars, op, readVars, waitVars>>

InMs_Down(d) == d \div Millisecond

\* Rounded up, so that a positive remainder never becomes a poll.
InMs(d) == (d + Millisecond - 1) \div Millisecond

\* ... and, by one reading of the clock, the slice: up to the timeout and
\* the context's deadline.
wait_slice ==
  LET rem == timeout - elapsed
      ends == timeout >= 0 /\ rem <= waitSlice
      slice == IF ends THEN Max({rem, 0}) ELSE waitSlice
  IN /\ pc = "slice"
     /\ IF deadline # Never /\ elapsed >= deadline
        THEN pc' = "release" /\ Result("deadline", FALSE) /\ UNCHANGED <<ms, last>>
        ELSE /\ pc' = "call"
             /\ last' = ends
             /\ ms' = InMs(IF deadline # Never THEN Min({slice, deadline - elapsed}) ELSE slice)
             /\ UNCHANGED res
     /\ UNCHANGED <<readerVars, nativeVars, op, readVars, ctx, asked, timeout, deadline, elapsed, left>>

wait_call ==
  /\ pc = "call"
  /\ pc' = "native"
  /\ left' = ms * Millisecond
  /\ UNCHANGED <<readerVars, nativeVars, op, res, readVars, ctx, asked, timeout, deadline, elapsed, ms, last>>

\* psmsgr_state_wait returns when its time is up, ...
wait_timeout ==
  /\ pc = "native" /\ op = "wait"
  /\ left = 0
  /\ IF last /\ (ms = 0 \/ elapsed >= timeout)
     THEN pc' = "release" /\ Result("timeout", FALSE)
     ELSE pc' = "ctx" /\ UNCHANGED res
  /\ UNCHANGED <<readerVars, nativeVars, op, readVars, waitVars>>

\* ... when a signal handler ran while it slept, ...
wait_interrupted ==
  /\ pc = "native" /\ op = "wait"
  /\ ms > 0
  /\ pc' = "ctx"
  /\ left' = 0
  /\ UNCHANGED <<readerVars, nativeVars, op, res, readVars, ctx, asked, timeout, deadline, elapsed, ms, last>>

\* ... and when the generation is another one or it fails.
wait_returned ==
  /\ pc = "native" /\ op = "wait"
  /\ \E rc \in {"OK", "NOTSUP"} : Result(rc, FALSE)
  /\ pc' = "release"
  /\ left' = 0
  /\ UNCHANGED <<readerVars, nativeVars, op, readVars, ctx, asked, timeout, deadline, elapsed, ms, last>>

WriterAlive ==
  /\ Idle
  /\ cleanup # "ran"
  /\ op' = "alive"
  /\ pc' = "enter"
  /\ res' = NoResult
  /\ UNCHANGED <<readerVars, nativeVars, readVars, waitVars>>

alive_returned ==
  /\ pc = "native" /\ op = "alive"
  /\ \E rc \in {"OK", "SYS"} : Result(rc, FALSE)
  /\ pc' = "release"
  /\ UNCHANGED <<readerVars, nativeVars, op, readVars, waitVars>>

\* Another goroutine cancels the context.
cancel ==
  /\ op = "wait" /\ ~Idle
  /\ ctx' = "canceled"
  /\ UNCHANGED <<readerVars, nativeVars, op, pc, res, readVars, asked, timeout, deadline, elapsed, ms, left, last>>

\* Time passes for a Wait.
tick ==
  /\ op = "wait" /\ ~Idle
  /\ elapsed < MaxTime \/ left > 0
  /\ elapsed' = Min({elapsed + 1, MaxTime})
  /\ left' = Max({left - 1, 0})
  /\ UNCHANGED <<readerVars, nativeVars, op, pc, res, readVars, ctx, asked, timeout, deadline, ms, last>>

-----------------------------------------------------------------------------

Lengths == 0 .. MaxLength

\* OpenReader has succeeded.
Init ==
  /\ h = TRUE /\ pending = FALSE /\ closed = FALSE /\ active = 0 /\ cleanup = "armed"
  /\ freed = 0 /\ announce = FALSE /\ length = NoValue /\ owed = FALSE /\ replaced = FALSE
  /\ op = "none" /\ pc = "idle" /\ res = NoResult
  /\ spare = 0 /\ attempt = 0 /\ attached = FALSE
  /\ ctx = "live" /\ asked = 0 /\ timeout = 0 /\ deadline = Never
  /\ elapsed = 0 /\ ms = 0 /\ left = 0 /\ last = FALSE

\* A call that has begun goes on.
Step ==
  \/ acquire \/ release
  \/ \E rc \in {"OK", "TOOSMALL", "NODATA", "BUSY", "SYS"} : Read(rc) \/ Peek(rc)
  \/ Describe
  \/ wait_ctx \/ wait_closed \/ wait_slice \/ wait_call \/ wait_timeout
  \/ alive_returned

Next ==
  \/ Step
  \/ wait_interrupted \/ wait_returned \/ cancel \/ tick
  \/ Close \/ closeReader
  \/ \E n \in Lengths : publish(n)
  \/ \E n \in Lengths \cup {NoValue} : attach(n)
  \/ \E o \in Reads \cup {"describe"}, s \in Lengths, n \in Lengths \cup {NoValue} : Begin(o, s, n)
  \/ \E t \in Timeouts \cup {NoTimeout}, d \in Deadlines \cup {Never} : Wait(t, d)
  \/ WriterAlive

\* A call goes on, and time passes.  Nothing makes a Wait return early, and
\* nobody has to Close.
Spec == Init /\ [][Next]_vars /\ WF_vars(Step) /\ WF_vars(tick)

-----------------------------------------------------------------------------
(* Properties. *)

\* Whatever the order of Close, the return of Wait or WriterAlive and the
\* cleanup: a native call has a handle that is open, and it is closed once.
HandleSafe == freed <= 1 /\ (pc = "native" => freed = 0)

\* Attached is set on the first result after an attach, and only on that one,
\* also if native results that failed or did not fit carried the flag.
AttachedOnce ==
  [][(~Idle /\ Idle' /\ res'.rc = "OK" /\ op \in {"read", "peek", "readvalue"}) => res'.attached = owed]_vars

\* What readAttempts counts on: a TOOSMALL after growing means that the value
\* was replaced in between.
RetryMeansReplaced == [][attempt' > attempt /\ attempt > 0 => replaced]_vars

\* A Wait gives up when its timeout or the deadline of its context is over
\* and not before, and polls only then.
WaitOnTime ==
  op = "wait" => /\ pc = "release" /\ res.rc = "timeout" => asked >= 0 /\ elapsed >= asked
                 /\ pc = "release" /\ res.rc = "deadline" => deadline # Never /\ elapsed >= deadline
                 /\ pc = "native" /\ ms = 0 => asked >= 0 /\ elapsed >= asked

\* A Wait with a timeout or a context that ends returns, and so does every
\* call that Close finds in progress, however often signals interrupt it; the
\* native handle is closed then.
WaitEnds == (op = "wait" /\ (asked >= 0 \/ deadline # Never \/ ctx = "canceled")) ~> (Idle \/ op # "wait")
CloseEnds == closed ~> (freed = 1 /\ (Idle \/ pc = "enter"))
=============================================================================
