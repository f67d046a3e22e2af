--------------------------- MODULE BindingProofs ----------------------------
(***************************************************************************)
(* Proofs about the Go binding's Reader, for every unit of time, wait      *)
(* slice, timeout, deadline, number of attempts and length of payloads.    *)
(*                                                                         *)
(* The invariant has five parts: where a call may be, who holds the native *)
(* handle, who still has to tell of an attach, what the slice of Read has  *)
(* room for, and what a Wait knows about the time.                         *)
(***************************************************************************)
EXTENDS Binding, TLAPS

\* The calls that Close may come into.
Calls == {"wait", "alive"}

\* Where a call may be.
Places ==
  \/ pc = "idle"
  \/ pc = "native" /\ op \in Reads \cup {"describe"}
  \/ pc \in {"enter", "native", "release"} /\ op = "alive"
  \/ pc \in {"enter", "ctx", "closed", "slice", "call", "native", "release"} /\ op = "wait"

\* A call that has acquired the handle and not released it.
Holds == op \in Calls /\ pc \notin {"idle", "enter"}

\* The handle is there until Close; the cleanup is stopped by Close and by
\* nothing else; the handle is freed by the cleanup, or by Close or the last
\* call after it.
HandleInv ==
  /\ h \in BOOLEAN /\ closed \in BOOLEAN /\ (h <=> ~closed)
  /\ cleanup \in {"armed", "stopped", "ran"}
  /\ cleanup = "stopped" <=> closed
  /\ cleanup = "ran" => pc = "idle"
  /\ active = IF Holds THEN 1 ELSE 0
  /\ freed = IF cleanup = "ran" \/ (closed /\ ~Holds) THEN 1 ELSE 0
  /\ pc = "native" /\ op \notin Calls => ~closed

\* An attach that is still owed to the caller is announced by the native
\* handle, kept by the Reader or known to the Read in progress.
AttachInv ==
  /\ pending \in BOOLEAN /\ announce \in BOOLEAN /\ attached \in BOOLEAN /\ owed \in BOOLEAN
  /\ owed <=> announce \/ pending \/ attached
  /\ attached => pc = "native" /\ op = "read"

\* A slice that has grown has room for the value it has grown for.
RetryInv ==
  /\ attempt \in Nat /\ spare \in Lengths /\ length \in Lengths \cup {NoValue} /\ replaced \in BOOLEAN
  /\ attempt > 0 => pc = "native" /\ op = "read"
  /\ attempt > 0 /\ ~replaced => length # NoValue /\ length <= spare

\* The timeout of a Wait is not below what was asked for; a slice of no time
\* is that of a timeout that is over.
TimeInv ==
  /\ asked \in Timeouts \cup {NoTimeout} \cup {0} /\ timeout \in Int
  /\ deadline \in Deadlines \cup {Never}
  /\ elapsed \in 0 .. MaxTime /\ ms \in Nat /\ left \in Nat /\ last \in BOOLEAN
  /\ timeout >= 0 => asked >= 0 /\ timeout >= asked
  /\ op = "wait" /\ pc \in {"call", "native"} /\ last => timeout >= 0
  /\ op = "wait" /\ pc \in {"call", "native"} /\ ms = 0 => timeout >= 0 /\ elapsed >= timeout
  /\ op = "wait" /\ pc = "release" /\ res.rc = "timeout" => timeout >= 0 /\ elapsed >= timeout
  /\ op = "wait" /\ pc = "release" /\ res.rc = "deadline" => deadline # Never /\ elapsed >= deadline

Inv == Places /\ HandleInv /\ AttachInv /\ RetryInv /\ TimeInv

-----------------------------------------------------------------------------
(* Arithmetic. *)

\* The larger and the smaller of two.
LEMMA MaxOfTwo ==
  ASSUME NEW a \in Int, NEW b \in Int
  PROVE  Max({a, b}) = IF a >= b THEN a ELSE b
<1>1. PICK m \in {a, b} : \A y \in {a, b} : m >= y
  OBVIOUS
<1>2. /\ Max({a, b}) \in {a, b}
      /\ \A y \in {a, b} : Max({a, b}) >= y
  BY <1>1, Zenon DEF Max
<1> QED
  BY <1>2

\* The minimum of a set of two integers, which wait takes of its slice and
\* the time left.
LEMMA MinOfTwo ==
  ASSUME NEW a \in Int, NEW b \in Int
  PROVE  Min({a, b}) = IF a <= b THEN a ELSE b
<1>1. PICK m \in {a, b} : \A y \in {a, b} : m =< y
  OBVIOUS
<1>2. /\ Min({a, b}) \in {a, b}
      /\ \A y \in {a, b} : Min({a, b}) =< y
  BY <1>1, Zenon DEF Min
<1> QED
  BY <1>2

\* Division by a millisecond.
LEMMA Quotient ==
  ASSUME NEW d \in Nat
  PROVE  /\ d \div Millisecond \in Nat
         /\ (d \div Millisecond) * Millisecond \in Nat
         /\ (d \div Millisecond) * Millisecond <= d
         /\ d <= (d \div Millisecond) * Millisecond + Millisecond - 1
<1>1. Millisecond \in Nat /\ Millisecond > 0
  BY BindingAssumption
<1>2. d \div Millisecond \in Int
  BY <1>1
<1>3. (d \div Millisecond) * Millisecond + (d % Millisecond) = d /\ d % Millisecond \in 0 .. Millisecond - 1
  BY <1>1
<1>4. d \div Millisecond >= 0
  <2> DEFINE q == d \div Millisecond
  <2>1. SUFFICES ASSUME q <= -1 PROVE FALSE
    BY <1>2
  <2>2. q * Millisecond <= (-1) * Millisecond
    BY <1>1, <1>2, <2>1
  <2> QED
    BY <1>1, <1>3, <2>2
<1> QED
  BY <1>1, <1>2, <1>3, <1>4

\* InMs makes nothing of nothing only.
LEMMA InMsRoundsUp ==
  ASSUME NEW d \in Nat
  PROVE  InMs(d) \in Nat /\ (InMs(d) = 0 => d = 0)
<1>1. Millisecond \in Nat /\ Millisecond > 0
  BY BindingAssumption
<1>2. d + Millisecond - 1 \in Nat
  BY <1>1
<1>3. InMs(d) \in Nat /\ d + Millisecond - 1 <= InMs(d) * Millisecond + Millisecond - 1
  BY <1>2, Quotient, Zenon DEF InMs
<1> QED
  BY <1>1, <1>3

\* The timeout of a Wait: not below what was asked for, and none if none.
LEMMA RoundUpIsAbove ==
  ASSUME NEW t \in Timeouts \cup {NoTimeout}
  PROVE  RoundUp(t) \in Int /\ (RoundUp(t) >= 0 => t >= 0 /\ RoundUp(t) >= t)
<1>1. Millisecond \in Nat /\ Millisecond > 0 /\ MaxInt64 \in Nat /\ t \in Int
  BY BindingAssumption DEF NoTimeout
<1>2. CASE t > 0 /\ t <= MaxInt64 - Millisecond
  <2>1. t + Millisecond - 1 \in Nat /\ Duration(t + Millisecond - 1) = t + Millisecond - 1
    BY <1>1, <1>2 DEF Duration
  <2>2. RoundUp(t) = ((t + Millisecond - 1) \div Millisecond) * Millisecond
    BY <1>2, <2>1 DEF RoundUp, Truncate
  <2>3. /\ RoundUp(t) \in Nat
        /\ t + Millisecond - 1 <= RoundUp(t) + Millisecond - 1
    BY <2>1, <2>2, Quotient, Zenon
  <2> QED
    BY <1>1, <1>2, <2>3
<1>3. CASE ~(t > 0 /\ t <= MaxInt64 - Millisecond)
  BY <1>1, <1>3 DEF RoundUp
<1> QED
  BY <1>2, <1>3, Zenon

-----------------------------------------------------------------------------
(* The parts of the invariant. *)

\* Nothing is a length of no bytes, or a time of no units.
LEMMA NoLengths == 0 \in Lengths /\ MaxLength \in Nat /\ NoValue \notin Lengths
BY BindingAssumption DEF Lengths, NoValue

\* A wait begins at time 0.
LEMMA NoTime == 0 \in 0 .. MaxTime
BY BindingAssumption

\* A call that forgets its local variables has grown no slice, and waits for
\* nothing.
LEMMA ForgetsRead ==
  ASSUME ForgetRead
  PROVE  RetryInv'
<1>1. spare' \in Lengths /\ length' \in Lengths \cup {NoValue} /\ replaced' \in BOOLEAN
  BY NoLengths, Zenon DEF ForgetRead
<1>2. attempt' \in Nat /\ ~(attempt' > 0)
  BY DEF ForgetRead
<1> QED
  BY <1>1, <1>2, Zenon DEF RetryInv

\* A call that forgets its local variables of wait has no deadline and has
\* asked for no time.
LEMMA ForgetsWait ==
  ASSUME ForgetWait, pc' = "idle"
  PROVE  TimeInv'
<1>1. /\ asked' = 0 /\ timeout' = 0 /\ deadline' = Never
      /\ ms' = 0 /\ left' = 0 /\ last' \in BOOLEAN
      /\ elapsed' \in 0 .. MaxTime
  BY NoTime, Zenon DEF ForgetWait
<1> QED
  BY <1>1 DEF TimeInv

\* Each call goes through its own places.
LEMMA PlacesStep ==
  ASSUME Places, [Next]_vars
  PROVE  Places'
<1>1. CASE acquire
  BY <1>1, Zenon DEF acquire, Done, Result, ForgetWait, nativeVars, readVars, waitVars, Places
<1>2. CASE release
  BY <1>2, Zenon DEF release, ForgetWait, readVars, Places
<1>3. CASE Describe
  BY <1>3, Zenon DEF Describe, Done, Result, ForgetRead, readerVars, waitVars, Places
<1>4. CASE wait_ctx
  BY <1>4, Zenon DEF wait_ctx, Result, readerVars, nativeVars, readVars, waitVars, Places
<1>5. CASE wait_closed
  BY <1>5, Zenon DEF wait_closed, Result, readerVars, nativeVars, readVars, waitVars, Places
<1>6. CASE wait_slice
  BY <1>6, Zenon DEF wait_slice, Result, readerVars, nativeVars, readVars, Places
<1>7. CASE wait_call
  BY <1>7, Zenon DEF wait_call, readerVars, nativeVars, readVars, Places
<1>8. CASE wait_timeout
  BY <1>8, Zenon DEF wait_timeout, Result, readerVars, nativeVars, readVars, waitVars, Places
<1>9. CASE alive_returned
  BY <1>9, Zenon DEF alive_returned, Result, readerVars, nativeVars, readVars, waitVars, Places
<1>10. CASE wait_interrupted
  BY <1>10, Zenon DEF wait_interrupted, readerVars, nativeVars, readVars, Places
<1>11. CASE wait_returned
  BY <1>11, Zenon DEF wait_returned, Result, readerVars, nativeVars, readVars, Places
<1>12. CASE cancel
  BY <1>12, Zenon DEF cancel, Idle, readerVars, nativeVars, readVars, Places
<1>13. CASE tick
  BY <1>13, Zenon DEF tick, Idle, readerVars, nativeVars, readVars, Places
<1>14. CASE Close
  BY <1>14, Zenon DEF Close, CloseNative, Idle, readVars, waitVars, Places
<1>15. CASE closeReader
  BY <1>15, Zenon DEF closeReader, Idle, readVars, waitVars, Places
<1>16. CASE WriterAlive
  BY <1>16, Zenon DEF WriterAlive, Idle, NoResult, readerVars, nativeVars, readVars,
     waitVars, Places
<1>17. ASSUME NEW rc \in {"OK", "TOOSMALL", "NODATA", "BUSY", "SYS"}, Read(rc)
      PROVE  Places'
  BY <1>17, Zenon DEF Read, NativeRead, Done, Result, ForgetRead, Retry, Keep,
     Informs, waitVars, Places
<1>18. ASSUME NEW rc \in {"OK", "TOOSMALL", "NODATA", "BUSY", "SYS"}, Peek(rc)
      PROVE  Places'
  BY <1>18, Zenon DEF Peek, NativeRead, Done, Result, ForgetRead, Keep, Informs, waitVars, Places
<1>19. ASSUME NEW n \in Lengths, publish(n)
      PROVE  Places'
  BY <1>19, Zenon DEF publish, Reads, readerVars, readVars, waitVars, Places
<1>20. ASSUME NEW n \in Lengths \cup {NoValue}, attach(n)
      PROVE  Places'
  BY <1>20, Zenon DEF attach, Reads, readerVars, readVars, waitVars, Places
<1>21. ASSUME NEW o \in Reads \cup {"describe"}, NEW s \in Lengths, NEW n \in Lengths \cup {NoValue}, Begin(o, s, n)
      PROVE  Places'
  BY <1>21, Zenon DEF Begin, Idle, Done, Result, NoResult, Reads, readerVars, waitVars, Places
<1>22. ASSUME NEW t \in Timeouts \cup {NoTimeout}, NEW d \in Deadlines \cup {Never}, Wait(t, d)
      PROVE  Places'
  BY <1>22, Zenon DEF Wait, Idle, NoResult, readerVars, nativeVars, readVars, Places
<1>23. CASE UNCHANGED vars
  BY <1>23, Zenon DEF vars, readerVars, nativeVars, readVars, waitVars, Places
<1> QED
  BY <1>1, <1>2, <1>3, <1>4, <1>5, <1>6, <1>7, <1>8, <1>9, <1>10, <1>11, <1>12,
     <1>13, <1>14, <1>15, <1>16, <1>17, <1>18, <1>19, <1>20, <1>21, <1>22, <1>23,
     Zenon DEF Next, Step

\* The handle is closed once, and under no call.
LEMMA HandleStep ==
  ASSUME Places, HandleInv, [Next]_vars
  PROVE  HandleInv'
<1>1. CASE acquire
  BY <1>1 DEF acquire, Done, Result, ForgetWait, nativeVars, readVars, waitVars,
     Places, HandleInv, Holds, Calls
<1>2. CASE release
  BY <1>2 DEF release, ForgetWait, readVars, Places, HandleInv, Holds, Calls
<1>3. CASE Describe
  BY <1>3, Zenon DEF Describe, Done, Result, ForgetRead, readerVars, waitVars,
     Places, HandleInv, Holds, Calls
<1>4. CASE wait_ctx
  BY <1>4, Zenon DEF wait_ctx, Result, readerVars, nativeVars, readVars, waitVars,
     Places, HandleInv, Holds, Calls
<1>5. CASE wait_closed
  BY <1>5, Zenon DEF wait_closed, Result, readerVars, nativeVars, readVars,
     waitVars, Places, HandleInv, Holds, Calls
<1>6. CASE wait_slice
  BY <1>6, Zenon DEF wait_slice, Result, readerVars, nativeVars, readVars, Places,
     HandleInv, Holds, Calls
<1>7. CASE wait_call
  BY <1>7, Zenon DEF wait_call, readerVars, nativeVars, readVars, Places, HandleInv, Holds, Calls
<1>8. CASE wait_timeout
  BY <1>8, Zenon DEF wait_timeout, Result, readerVars, nativeVars, readVars,
     waitVars, Places, HandleInv, Holds, Calls
<1>9. CASE alive_returned
  BY <1>9, Zenon DEF alive_returned, Result, readerVars, nativeVars, readVars,
     waitVars, Places, HandleInv, Holds, Calls
<1>10. CASE wait_interrupted
  BY <1>10, Zenon DEF wait_interrupted, readerVars, nativeVars, readVars, Places,
     HandleInv, Holds, Calls
<1>11. CASE wait_returned
  BY <1>11, Zenon DEF wait_returned, Result, readerVars, nativeVars, readVars,
     Places, HandleInv, Holds, Calls
<1>12. CASE cancel
  BY <1>12, Zenon DEF cancel, Idle, readerVars, nativeVars, readVars, Places,
     HandleInv, Holds, Calls
<1>13. CASE tick
  BY <1>13, Zenon DEF tick, Idle, readerVars, nativeVars, readVars, Places, HandleInv, Holds, Calls
<1>14. CASE Close
  <2>1. UNCHANGED <<op, pc, active>> /\ closed' /\ ~h' /\ cleanup' = "stopped" /\ ~closed /\ cleanup # "ran"
    BY <1>14, Zenon DEF Close
  <2>2. Holds' = Holds /\ (pc = "native" => op \in Calls)
    BY <1>14, <2>1, Zenon DEF Close, Holds, Idle, Calls
  <2>3. freed' = IF Holds THEN 0 ELSE 1
    BY <1>14, <2>1 DEF Close, CloseNative, HandleInv
  <2> QED
    BY <2>1, <2>2, <2>3, <1>14, Zenon DEF Close, HandleInv
<1>15. CASE closeReader
  BY <1>15 DEF closeReader, Idle, readVars, waitVars, Places, HandleInv, Holds, Calls
<1>16. CASE WriterAlive
  BY <1>16, Zenon DEF WriterAlive, Idle, NoResult, readerVars, nativeVars, readVars,
     waitVars, Places, HandleInv, Holds, Calls
<1>17. ASSUME NEW rc \in {"OK", "TOOSMALL", "NODATA", "BUSY", "SYS"}, Read(rc)
      PROVE  HandleInv'
  BY <1>17, Zenon DEF Read, NativeRead, Done, Result, ForgetRead, Retry, Keep,
     Informs, waitVars, Places, HandleInv, Holds, Calls
<1>18. ASSUME NEW rc \in {"OK", "TOOSMALL", "NODATA", "BUSY", "SYS"}, Peek(rc)
      PROVE  HandleInv'
  BY <1>18, Zenon DEF Peek, NativeRead, Done, Result, ForgetRead, Keep, Informs,
     waitVars, Places, HandleInv, Holds, Calls
<1>19. ASSUME NEW n \in Lengths, publish(n)
      PROVE  HandleInv'
  BY <1>19, Zenon DEF publish, Reads, readerVars, readVars, waitVars, Places,
     HandleInv, Holds, Calls
<1>20. ASSUME NEW n \in Lengths \cup {NoValue}, attach(n)
      PROVE  HandleInv'
  BY <1>20, Zenon DEF attach, Reads, readerVars, readVars, waitVars, Places, HandleInv, Holds, Calls
<1>21. ASSUME NEW o \in Reads \cup {"describe"}, NEW s \in Lengths, NEW n \in Lengths \cup {NoValue}, Begin(o, s, n)
      PROVE  HandleInv'
  BY <1>21, Zenon DEF Begin, Idle, Done, Result, NoResult, Reads, readerVars,
     waitVars, Places, HandleInv, Holds, Calls
<1>22. ASSUME NEW t \in Timeouts \cup {NoTimeout}, NEW d \in Deadlines \cup {Never}, Wait(t, d)
      PROVE  HandleInv'
  BY <1>22, Zenon DEF Wait, Idle, NoResult, readerVars, nativeVars, readVars,
     Places, HandleInv, Holds, Calls
<1>23. CASE UNCHANGED vars
  BY <1>23, Zenon DEF vars, readerVars, nativeVars, readVars, waitVars, Places,
     HandleInv, Holds, Calls
<1> QED
  BY <1>1, <1>2, <1>3, <1>4, <1>5, <1>6, <1>7, <1>8, <1>9, <1>10, <1>11, <1>12,
     <1>13, <1>14, <1>15, <1>16, <1>17, <1>18, <1>19, <1>20, <1>21, <1>22, <1>23,
     Zenon DEF Next, Step

\* An attach is owed until a result tells it.
LEMMA AttachStep ==
  ASSUME Places, AttachInv, [Next]_vars
  PROVE  AttachInv'
<1>1. CASE acquire
  BY <1>1, Zenon DEF acquire, Done, Result, ForgetWait, nativeVars, readVars,
     waitVars, Places, AttachInv
<1>2. CASE release
  BY <1>2, Zenon DEF release, ForgetWait, readVars, Places, AttachInv
<1>3. CASE Describe
  BY <1>3, Zenon DEF Describe, Done, Result, ForgetRead, readerVars, waitVars, Places, AttachInv
<1>4. CASE wait_ctx
  BY <1>4, Zenon DEF wait_ctx, Result, readerVars, nativeVars, readVars, waitVars, Places, AttachInv
<1>5. CASE wait_closed
  BY <1>5, Zenon DEF wait_closed, Result, readerVars, nativeVars, readVars,
     waitVars, Places, AttachInv
<1>6. CASE wait_slice
  BY <1>6, Zenon DEF wait_slice, Result, readerVars, nativeVars, readVars, Places, AttachInv
<1>7. CASE wait_call
  BY <1>7, Zenon DEF wait_call, readerVars, nativeVars, readVars, Places, AttachInv
<1>8. CASE wait_timeout
  BY <1>8, Zenon DEF wait_timeout, Result, readerVars, nativeVars, readVars,
     waitVars, Places, AttachInv
<1>9. CASE alive_returned
  BY <1>9, Zenon DEF alive_returned, Result, readerVars, nativeVars, readVars,
     waitVars, Places, AttachInv
<1>10. CASE wait_interrupted
  BY <1>10, Zenon DEF wait_interrupted, readerVars, nativeVars, readVars, Places, AttachInv
<1>11. CASE wait_returned
  BY <1>11, Zenon DEF wait_returned, Result, readerVars, nativeVars, readVars, Places, AttachInv
<1>12. CASE cancel
  BY <1>12, Zenon DEF cancel, Idle, readerVars, nativeVars, readVars, Places, AttachInv
<1>13. CASE tick
  BY <1>13, Zenon DEF tick, Idle, readerVars, nativeVars, readVars, Places, AttachInv
<1>14. CASE Close
  BY <1>14, Zenon DEF Close, CloseNative, Idle, readVars, waitVars, Places, AttachInv
<1>15. CASE closeReader
  BY <1>15, Zenon DEF closeReader, Idle, readVars, waitVars, Places, AttachInv
<1>16. CASE WriterAlive
  BY <1>16, Zenon DEF WriterAlive, Idle, NoResult, readerVars, nativeVars, readVars,
     waitVars, Places, AttachInv
<1>17. ASSUME NEW rc \in {"OK", "TOOSMALL", "NODATA", "BUSY", "SYS"}, Read(rc)
      PROVE  AttachInv'
  <2>1. /\ pc = "native" /\ op = "read" /\ op' = op
        /\ announce' \in BOOLEAN /\ announce' = (announce /\ ~Informs(rc))
    BY <1>17, Zenon DEF Read, NativeRead, AttachInv
  <2>2. CASE rc = "OK" /\ ~attached' /\ ~pending' /\ ~owed' /\ attached' \in BOOLEAN /\ pending' \in BOOLEAN /\ owed' \in BOOLEAN
    BY <2>1, <2>2, Zenon DEF AttachInv, Informs
  <2>3. CASE Retry /\ rc = "TOOSMALL"
    BY <2>1, <2>3, Zenon DEF AttachInv, Informs, Retry, takeAttached
  <2>4. CASE rc = "TOOSMALL" /\ ForgetRead /\ Keep(takeAttached \/ attached) /\ UNCHANGED owed
    BY <2>1, <2>4, Zenon DEF AttachInv, Informs, ForgetRead, Keep, takeAttached
  <2>5. CASE ~Informs(rc) /\ ForgetRead /\ Keep(pending \/ attached) /\ UNCHANGED owed
    BY <2>1, <2>5, Zenon DEF AttachInv, ForgetRead, Keep
  <2> QED
    BY <1>17, <2>2, <2>3, <2>4, <2>5, Zenon DEF Read, ForgetRead
<1>18. ASSUME NEW rc \in {"OK", "TOOSMALL", "NODATA", "BUSY", "SYS"}, Peek(rc)
      PROVE  AttachInv'
  <2>1. /\ pc = "native" /\ op # "read" /\ op' = op /\ ~attached
        /\ announce' \in BOOLEAN /\ announce' = (announce /\ ~Informs(rc))
        /\ attached' = FALSE
    BY <1>18, Zenon DEF Peek, NativeRead, AttachInv, ForgetRead
  <2>2. CASE rc = "OK" /\ pending' = FALSE /\ owed' = FALSE
    BY <2>1, <2>2, Zenon DEF AttachInv, Informs
  <2>3. CASE Informs(rc) /\ Keep(takeAttached) /\ UNCHANGED owed
    BY <2>1, <2>3, Zenon DEF AttachInv, Keep, takeAttached
  <2>4. CASE ~Informs(rc) /\ UNCHANGED <<pending, owed>>
    BY <2>1, <2>4, Zenon DEF AttachInv
  <2> QED
    BY <1>18, <2>2, <2>3, <2>4, Zenon DEF Peek
<1>19. ASSUME NEW n \in Lengths, publish(n)
      PROVE  AttachInv'
  BY <1>19, Zenon DEF publish, Reads, readerVars, readVars, waitVars, Places, AttachInv
<1>20. ASSUME NEW n \in Lengths \cup {NoValue}, attach(n)
      PROVE  AttachInv'
  BY <1>20, Zenon DEF attach, Reads, readerVars, readVars, waitVars, Places, AttachInv
<1>21. ASSUME NEW o \in Reads \cup {"describe"}, NEW s \in Lengths, NEW n \in Lengths \cup {NoValue}, Begin(o, s, n)
      PROVE  AttachInv'
  BY <1>21, Zenon DEF Begin, Idle, Done, Result, NoResult, Reads, readerVars,
     waitVars, Places, AttachInv
<1>22. ASSUME NEW t \in Timeouts \cup {NoTimeout}, NEW d \in Deadlines \cup {Never}, Wait(t, d)
      PROVE  AttachInv'
  BY <1>22, Zenon DEF Wait, Idle, NoResult, readerVars, nativeVars, readVars, Places, AttachInv
<1>23. CASE UNCHANGED vars
  BY <1>23, Zenon DEF vars, readerVars, nativeVars, readVars, waitVars, Places, AttachInv
<1> QED
  BY <1>1, <1>2, <1>3, <1>4, <1>5, <1>6, <1>7, <1>8, <1>9, <1>10, <1>11, <1>12,
     <1>13, <1>14, <1>15, <1>16, <1>17, <1>18, <1>19, <1>20, <1>21, <1>22, <1>23,
     Zenon DEF Next, Step

\* The slice of a Read has room for what it has grown for.
LEMMA RetryStep ==
  ASSUME Places, RetryInv, [Next]_vars
  PROVE  RetryInv'
<1>1. CASE acquire
  BY <1>1, Zenon DEF acquire, Done, Result, ForgetWait, nativeVars, readVars,
     waitVars, Places, RetryInv
<1>2. CASE release
  BY <1>2, Zenon DEF release, ForgetWait, readVars, Places, RetryInv
<1>3. CASE Describe
  BY <1>3, ForgetsRead, Zenon DEF Describe
<1>4. CASE wait_ctx
  BY <1>4, Zenon DEF wait_ctx, Result, readerVars, nativeVars, readVars, waitVars, Places, RetryInv
<1>5. CASE wait_closed
  BY <1>5, Zenon DEF wait_closed, Result, readerVars, nativeVars, readVars,
     waitVars, Places, RetryInv
<1>6. CASE wait_slice
  BY <1>6, Zenon DEF wait_slice, Result, readerVars, nativeVars, readVars, Places, RetryInv
<1>7. CASE wait_call
  BY <1>7, Zenon DEF wait_call, readerVars, nativeVars, readVars, Places, RetryInv
<1>8. CASE wait_timeout
  BY <1>8, Zenon DEF wait_timeout, Result, readerVars, nativeVars, readVars,
     waitVars, Places, RetryInv
<1>9. CASE alive_returned
  BY <1>9, Zenon DEF alive_returned, Result, readerVars, nativeVars, readVars,
     waitVars, Places, RetryInv
<1>10. CASE wait_interrupted
  BY <1>10, Zenon DEF wait_interrupted, readerVars, nativeVars, readVars, Places, RetryInv
<1>11. CASE wait_returned
  BY <1>11, Zenon DEF wait_returned, Result, readerVars, nativeVars, readVars, Places, RetryInv
<1>12. CASE cancel
  BY <1>12, Zenon DEF cancel, Idle, readerVars, nativeVars, readVars, Places, RetryInv
<1>13. CASE tick
  BY <1>13, Zenon DEF tick, Idle, readerVars, nativeVars, readVars, Places, RetryInv
<1>14. CASE Close
  BY <1>14, Zenon DEF Close, CloseNative, Idle, readVars, waitVars, Places, RetryInv
<1>15. CASE closeReader
  BY <1>15, Zenon DEF closeReader, Idle, readVars, waitVars, Places, RetryInv
<1>16. CASE WriterAlive
  BY <1>16, Zenon DEF WriterAlive, Idle, NoResult, readerVars, nativeVars, readVars,
     waitVars, Places, RetryInv
<1>17. ASSUME NEW rc \in {"OK", "TOOSMALL", "NODATA", "BUSY", "SYS"}, Read(rc)
      PROVE  RetryInv'
  <2>1. CASE ForgetRead
    BY <2>1, ForgetsRead, Zenon
  <2>2. CASE Retry
    <3>1. PICK g \in length .. MaxLength : spare' = Max({g, spare})
      BY <2>2, Zenon DEF Retry, Grow
    <3>2. length' = length /\ length # NoValue
      <4>1. rc = "TOOSMALL" \/ attempt' = 0
        BY <1>17, Zenon DEF Read, ForgetRead
      <4>2. attempt' # 0 /\ length' = length
        BY <2>2 DEF Retry, RetryInv
      <4> QED
        BY <1>17, <4>1, <4>2, Zenon DEF Read, NativeOutcomes
    <3>3. spare' \in Lengths /\ length <= spare'
      BY <3>1, <3>2, MaxOfTwo, NoLengths DEF RetryInv, Lengths
    <3>4. attempt' \in Nat /\ replaced' \in BOOLEAN /\ pc' = "native" /\ op' = "read"
      <4>1. attempt' = attempt + 1 /\ replaced' \in BOOLEAN /\ pc' = pc
        BY <2>2, Zenon DEF Retry
      <4>2. pc = "native" /\ op = "read" /\ op' = op
        BY <1>17, Zenon DEF Read
      <4>3. attempt + 1 \in Nat
        BY DEF RetryInv
      <4> QED
        BY <4>1, <4>2, <4>3, Zenon
    <3> QED
      BY <3>2, <3>3, <3>4, Zenon DEF RetryInv
  <2> QED
    BY <1>17, <2>1, <2>2, Zenon DEF Read
<1>18. ASSUME NEW rc \in {"OK", "TOOSMALL", "NODATA", "BUSY", "SYS"}, Peek(rc)
      PROVE  RetryInv'
  BY <1>18, ForgetsRead, Zenon DEF Peek
<1>19. ASSUME NEW n \in Lengths, publish(n)
      PROVE  RetryInv'
  BY <1>19, Zenon DEF publish, Reads, readerVars, readVars, waitVars, Places, RetryInv
<1>20. ASSUME NEW n \in Lengths \cup {NoValue}, attach(n)
      PROVE  RetryInv'
  BY <1>20, Zenon DEF attach, Reads, readerVars, readVars, waitVars, Places, RetryInv
<1>21. ASSUME NEW o \in Reads \cup {"describe"}, NEW s \in Lengths, NEW n \in Lengths \cup {NoValue}, Begin(o, s, n)
      PROVE  RetryInv'
  BY <1>21, Zenon DEF Begin, Idle, Done, Result, NoResult, Reads, readerVars,
     waitVars, Places, RetryInv
<1>22. ASSUME NEW t \in Timeouts \cup {NoTimeout}, NEW d \in Deadlines \cup {Never}, Wait(t, d)
      PROVE  RetryInv'
  BY <1>22, Zenon DEF Wait, Idle, NoResult, readerVars, nativeVars, readVars, Places, RetryInv
<1>23. CASE UNCHANGED vars
  BY <1>23, Zenon DEF vars, readerVars, nativeVars, readVars, waitVars, Places, RetryInv
<1> QED
  BY <1>1, <1>2, <1>3, <1>4, <1>5, <1>6, <1>7, <1>8, <1>9, <1>10, <1>11, <1>12,
     <1>13, <1>14, <1>15, <1>16, <1>17, <1>18, <1>19, <1>20, <1>21, <1>22, <1>23,
     Zenon DEF Next, Step

\* A Wait does not give up before its time.
LEMMA TimeStep ==
  ASSUME Places, TimeInv, [Next]_vars
  PROVE  TimeInv'
<1>1. CASE acquire
  <2>1. CASE closed
    BY <1>1, <2>1, ForgetsWait, Zenon DEF acquire, Done
  <2>2. CASE ~closed
    BY <1>1, <2>2, Zenon DEF acquire, waitVars, TimeInv
  <2> QED
    BY <2>1, <2>2, Zenon
<1>2. CASE release
  BY <1>2, ForgetsWait, Zenon DEF release
<1>3. CASE Describe
  BY <1>3, Zenon DEF Describe, Done, Result, ForgetRead, readerVars, waitVars, Places, TimeInv
<1>4. CASE wait_ctx
  BY <1>4 DEF wait_ctx, Result, readerVars, nativeVars, readVars, waitVars, Places, TimeInv
<1>5. CASE wait_closed
  BY <1>5 DEF wait_closed, Result, readerVars, nativeVars, readVars, waitVars, Places, TimeInv
<1>6. CASE wait_slice
  <2> DEFINE rem == timeout - elapsed
             ends == timeout >= 0 /\ rem <= waitSlice
             slice == IF ends THEN Max({rem, 0}) ELSE waitSlice
             d == IF deadline # Never THEN Min({slice, deadline - elapsed}) ELSE slice
  <2>1. /\ pc = "slice" /\ UNCHANGED <<op, asked, timeout, deadline, elapsed, left>>
        /\ timeout \in Int /\ elapsed \in Nat /\ rem \in Int
        /\ (deadline # Never => deadline \in Nat)
        /\ waitSlice \in Nat /\ waitSlice > 0
    BY <1>6, BindingAssumption DEF wait_slice, TimeInv
  <2>2. CASE /\ deadline # Never /\ elapsed >= deadline
             /\ pc' = "release" /\ Result("deadline", FALSE) /\ UNCHANGED <<ms, last>>
    BY <2>1, <2>2, Zenon DEF TimeInv, Result
  <2>3. CASE ~(deadline # Never /\ elapsed >= deadline) /\ pc' = "call" /\ last' = ends /\ ms' = InMs(d)
    <3>1. slice \in Nat /\ (slice = 0 => timeout >= 0 /\ elapsed >= timeout)
      <4>1. Max({rem, 0}) = IF rem >= 0 THEN rem ELSE 0
        BY <2>1, MaxOfTwo
      <4> QED
        BY <2>1, <4>1
    <3>2. d \in Nat /\ (d = 0 => slice = 0)
      <4>1. CASE deadline = Never
        BY <3>1, <4>1, Zenon
      <4>2. CASE deadline # Never
        <5> HIDE DEF slice
        <5>1. deadline - elapsed \in Int /\ deadline - elapsed > 0
          BY <2>1, <2>3, <4>2
        <5>2. Min({slice, deadline - elapsed}) = IF slice <= deadline - elapsed THEN slice ELSE deadline - elapsed
          BY <3>1, <5>1, MinOfTwo
        <5> QED
          BY <3>1, <4>2, <5>1, <5>2
      <4> QED
        BY <4>1, <4>2, Zenon
    <3>3. ms' \in Nat /\ (ms' = 0 => timeout >= 0 /\ elapsed >= timeout)
      <4> HIDE DEF d, slice
      <4> QED
        BY <2>3, <3>1, <3>2, InMsRoundsUp, Zenon
    <3>4. last' \in BOOLEAN /\ (last' => timeout >= 0)
      BY <2>3, Zenon
    <3> QED
      BY <2>1, <2>3, <3>3, <3>4, Zenon DEF TimeInv
  <2> QED
    BY <1>6, <2>2, <2>3, Zenon DEF wait_slice
<1>7. CASE wait_call
  <2>1. left' \in Nat
    BY <1>7, BindingAssumption DEF wait_call, TimeInv
  <2> QED
    BY <1>7, <2>1, Zenon DEF wait_call, TimeInv
<1>8. CASE wait_timeout
  BY <1>8 DEF wait_timeout, Result, readerVars, nativeVars, readVars, waitVars, Places, TimeInv
<1>9. CASE alive_returned
  BY <1>9, Zenon DEF alive_returned, Result, readerVars, nativeVars, readVars,
     waitVars, Places, TimeInv
<1>10. CASE wait_interrupted
  BY <1>10, Zenon DEF wait_interrupted, readerVars, nativeVars, readVars, Places, TimeInv
<1>11. CASE wait_returned
  BY <1>11 DEF wait_returned, Result, readerVars, nativeVars, readVars, Places, TimeInv
<1>12. CASE cancel
  BY <1>12, Zenon DEF cancel, Idle, readerVars, nativeVars, readVars, Places, TimeInv
<1>13. CASE tick
  <2>1. elapsed \in Nat /\ elapsed <= MaxTime /\ MaxTime \in Nat /\ left \in Nat
    BY BindingAssumption DEF TimeInv
  <2>2. elapsed' \in 0 .. MaxTime /\ elapsed' >= elapsed
    BY <1>13, <2>1, MinOfTwo DEF tick
  <2>3. left' \in Nat
    BY <1>13, <2>1, MaxOfTwo DEF tick
  <2>4. /\ timeout \in Int /\ (deadline # Never => deadline \in Nat)
        /\ UNCHANGED <<op, pc, res, asked, timeout, deadline, ms, last>>
    BY <1>13, BindingAssumption, Zenon DEF tick, TimeInv
  <2> QED
    BY <2>1, <2>2, <2>3, <2>4 DEF TimeInv
<1>14. CASE Close
  BY <1>14, Zenon DEF Close, CloseNative, Idle, readVars, waitVars, Places, TimeInv
<1>15. CASE closeReader
  BY <1>15, Zenon DEF closeReader, Idle, readVars, waitVars, Places, TimeInv
<1>16. CASE WriterAlive
  BY <1>16, Zenon DEF WriterAlive, Idle, NoResult, readerVars, nativeVars, readVars,
     waitVars, Places, TimeInv
<1>17. ASSUME NEW rc \in {"OK", "TOOSMALL", "NODATA", "BUSY", "SYS"}, Read(rc)
      PROVE  TimeInv'
  BY <1>17, Zenon DEF Read, NativeRead, Done, Result, ForgetRead, Retry, Keep,
     Informs, waitVars, Places, TimeInv
<1>18. ASSUME NEW rc \in {"OK", "TOOSMALL", "NODATA", "BUSY", "SYS"}, Peek(rc)
      PROVE  TimeInv'
  BY <1>18, Zenon DEF Peek, NativeRead, Done, Result, ForgetRead, Keep, Informs,
     waitVars, Places, TimeInv
<1>19. ASSUME NEW n \in Lengths, publish(n)
      PROVE  TimeInv'
  BY <1>19, Zenon DEF publish, Reads, readerVars, readVars, waitVars, Places, TimeInv
<1>20. ASSUME NEW n \in Lengths \cup {NoValue}, attach(n)
      PROVE  TimeInv'
  BY <1>20, Zenon DEF attach, Reads, readerVars, readVars, waitVars, Places, TimeInv
<1>21. ASSUME NEW o \in Reads \cup {"describe"}, NEW s \in Lengths, NEW n \in Lengths \cup {NoValue}, Begin(o, s, n)
      PROVE  TimeInv'
  BY <1>21, Zenon DEF Begin, Idle, Done, Result, NoResult, Reads, readerVars,
     waitVars, Places, TimeInv
<1>22. ASSUME NEW t \in Timeouts \cup {NoTimeout}, NEW d \in Deadlines \cup {Never}, Wait(t, d)
      PROVE  TimeInv'
  <2>1. timeout' \in Int /\ (timeout' >= 0 => asked' >= 0 /\ timeout' >= asked')
    BY <1>22, RoundUpIsAbove, Zenon DEF Wait
  <2> QED
    BY <1>22, <2>1, NoTime, Zenon DEF Wait, TimeInv
<1>23. CASE UNCHANGED vars
  BY <1>23, Zenon DEF vars, readerVars, nativeVars, readVars, waitVars, Places, TimeInv
<1> QED
  BY <1>1, <1>2, <1>3, <1>4, <1>5, <1>6, <1>7, <1>8, <1>9, <1>10, <1>11, <1>12,
     <1>13, <1>14, <1>15, <1>16, <1>17, <1>18, <1>19, <1>20, <1>21, <1>22, <1>23,
     Zenon DEF Next, Step

-----------------------------------------------------------------------------
(* The theorems. *)

\* A Reader that was just made satisfies the invariant.
LEMMA InitInv ==
  ASSUME Init
  PROVE  Inv
<1>1. Places
  BY Zenon DEF Init, Places
<1>2. HandleInv
  BY Zenon DEF Init, HandleInv, Holds, Calls
<1>3. AttachInv
  BY Zenon DEF Init, AttachInv
<1>4. RetryInv
  <2>1. attempt = 0 /\ spare = 0 /\ length = NoValue /\ replaced \in BOOLEAN
    BY Zenon DEF Init
  <2> QED
    BY <2>1, NoLengths DEF RetryInv
<1>5. TimeInv
  <2>1. /\ asked = 0 /\ timeout = 0 /\ deadline = Never /\ pc = "idle"
        /\ ms = 0 /\ left = 0 /\ last \in BOOLEAN /\ elapsed = 0
    BY Zenon DEF Init
  <2> QED
    BY <2>1, NoTime DEF TimeInv
<1> QED
  BY <1>1, <1>2, <1>3, <1>4, <1>5, Zenon DEF Inv

\* Every step of the Reader and of its surroundings keeps the invariant.
LEMMA StepInv ==
  ASSUME Inv, [Next]_vars
  PROVE  Inv'
BY PlacesStep, HandleStep, AttachStep, RetryStep, TimeStep, Zenon DEF Inv

\* Every reachable state of the Reader satisfies the invariant.
THEOREM BindingInvariant == Spec => []Inv
<1>1. Init => Inv
  BY InitInv, Zenon
<1>2. Inv /\ [Next]_vars => Inv'
  BY StepInv, Zenon
<1> QED
  BY <1>1, <1>2, PTL DEF Spec

\* Close, cleanup, Wait and WriterAlive in any order: the native handle is
\* closed at most once and never while a native call uses it.
THEOREM HandleIsSafe == Spec => []HandleSafe
<1>1. Inv => HandleSafe
  BY DEF Inv, Places, HandleInv, Holds, Calls, HandleSafe
<1> QED
  BY <1>1, BindingInvariant, PTL

\* A Wait reports a timeout, or the deadline of its context, when it is over
\* and not before, and asks for a native wait of no time only then, whatever
\* the timeout and the unit of time: rounding never makes it early.
THEOREM WaitIsOnTime == Spec => []WaitOnTime
<1>1. Inv => WaitOnTime
  <2>1. SUFFICES ASSUME Inv, op = "wait" PROVE WaitOnTime
    BY Zenon DEF WaitOnTime
  <2>2. asked \in Int /\ timeout \in Int /\ elapsed \in Int
    <3>1. asked \in Timeouts \cup {NoTimeout} \cup {0} /\ timeout \in Int /\ elapsed \in 0 .. MaxTime
      BY <2>1, Zenon DEF Inv, TimeInv
    <3> QED
      BY <3>1, BindingAssumption DEF NoTimeout
  <2>3. timeout >= 0 => asked >= 0 /\ timeout >= asked
    BY <2>1, Zenon DEF Inv, TimeInv
  <2>4. timeout >= 0 /\ elapsed >= timeout => asked >= 0 /\ elapsed >= asked
    BY <2>2, <2>3
  <2> QED
    BY <2>1, <2>4, Zenon DEF Inv, TimeInv, WaitOnTime
<1> QED
  BY <1>1, BindingInvariant, PTL

\* Between its native call and its end, a call that reads goes on by Read and
\* Peek only.
LEMMA ReadSteps ==
  ASSUME [Next]_vars, pc = "native", op \in Reads
  PROVE  (\E rc : Read(rc) \/ Peek(rc)) \/ UNCHANGED <<pc, attempt>>
BY Zenon DEF Next, Step, Idle, vars, Reads, acquire, release, Describe, wait_ctx, wait_closed,
       wait_slice, wait_call, wait_timeout, alive_returned, wait_interrupted, wait_returned, cancel, tick,
       Close, closeReader, publish, attach, Begin, Wait, WriterAlive, readVars

\* The first result after an attach, and no other, has Attached set, however
\* many failed, short or retried calls saw the flag before it.
THEOREM AttachedIsToldOnce == Spec => AttachedOnce
<1>1. ASSUME Inv, [Next]_vars
      PROVE  [(~Idle /\ Idle' /\ res'.rc = "OK" /\ op \in {"read", "peek", "readvalue"}) => res'.attached = owed]_vars
  <2> SUFFICES ASSUME pc # "idle", pc' = "idle", res'.rc = "OK", op \in Reads
               PROVE  res'.attached = owed
    BY Zenon DEF Idle, Reads
  <2>1. pc = "native"
    BY <1>1, Zenon DEF Inv, Places, Reads
  <2>2. PICK rc : Read(rc) \/ Peek(rc)
    BY <1>1, <2>1, ReadSteps, Zenon
  <2>3. CASE Read(rc)
    BY <1>1, <2>1, <2>3 DEF Read, Done, Result, Inv, AttachInv, Retry, Informs, takeAttached
  <2>4. CASE Peek(rc)
    BY <1>1, <2>1, <2>4 DEF Peek, Done, Result, Inv, AttachInv, Informs, takeAttached
  <2> QED
    BY <2>2, <2>3, <2>4, Zenon
<1> QED
  BY <1>1, BindingInvariant, PTL DEF Spec, AttachedOnce

\* What makes readAttempts enough of a bound: a Read that has grown its slice
\* and still finds it too small was overtaken by a new value.
THEOREM RetryIsOvertaken == Spec => RetryMeansReplaced
<1>1. ASSUME Inv, [Next]_vars
      PROVE  [attempt' > attempt /\ attempt > 0 => replaced]_vars
  <2> SUFFICES ASSUME attempt' > attempt, attempt > 0, ~replaced
               PROVE  FALSE
    BY Zenon
  <2>1. pc = "native" /\ op = "read" /\ length # NoValue /\ length <= spare
    BY <1>1, Zenon DEF Inv, RetryInv
  <2>2. attempt \in Nat /\ length \in Int /\ spare \in Int
    BY <1>1 DEF Inv, RetryInv, Lengths, NoValue
  <2>3. PICK rc : Read(rc)
    <3>1. attempt' # attempt
      BY <2>2
    <3> QED
      BY <1>1, <2>1, <3>1, ReadSteps, Zenon DEF Peek, Reads
  <2>4. rc = "TOOSMALL"
    <3>1. attempt' # 0
      BY <2>2
    <3> QED
      BY <2>3, <3>1, Zenon DEF Read, ForgetRead
  <2>5. length > spare
    BY <2>1, <2>3, <2>4, Zenon DEF Read, NativeOutcomes
  <2> QED
    BY <2>1, <2>2, <2>5
<1> QED
  BY <1>1, BindingInvariant, PTL DEF Spec, RetryMeansReplaced
=============================================================================
