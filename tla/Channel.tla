------------------------------- MODULE Channel ------------------------------
(***************************************************************************)
(* A whole channel: the writer lock, the data files, and the reader        *)
(* handles that follow them (src/src/state.c).  A reader attaches to the   *)
(* file at the data path, notices that it was retired at the start of a    *)
(* call, and that the path names another file in writer_alive and about    *)
(* once a second in wait.  psmsgr_state_peek is psmsgr_state_read without  *)
(* the copy, and the same here.                                            *)
(*                                                                         *)
(* A definition X_Change that comes before X is X with a plausible mistake *)
(* in it; PROJECT.json says which property notices.                        *)
(***************************************************************************)
EXTENDS ChannelFiles

CONSTANTS
  Calls,           \* the calls the applications make
  ATTACH_RETRIES,
  Lap,             \* publishes during a read or peek that can make it BUSY
  Timed            \* whether waits have a finite timeout: a set of Booleans

ASSUME ChannelAssumption ==
  /\ Calls \subseteq {"read", "describe", "wait", "alive"}
  /\ ATTACH_RETRIES \in Nat \ {0}
  /\ Lap \in Nat \ {0}
  /\ Timed \subseteq BOOLEAN

VARIABLES
  rop, rpc,        \* the call each reader is in, and where
  rhdr, rgeom,     \* the file it maps, and its cached geometry
  announce,        \* the next result carries PSMSGR_INFO_ATTACHED
  tries,           \* attaches in this reader_sync
  rc,              \* what reader_sync, or the last call, returned
  wlast, timed,    \* wait: last_generation, and whether it may time out
  wn, wval,        \* the futex word, and the latest value, a wait or read started from
  got              \* what the handle last handed out, and the file it is from

handleVars == <<rhdr, rgeom, announce, got>>
waitVars == <<wlast, timed, wn, wval>>
readerVars == <<rop, rpc, handleVars, tries, rc, waitVars>>
vars == <<lockVars, filesVars, readerVars>>

NoResult == [value |-> 0, generation |-> Random, file |-> NoFile, attached |-> FALSE]

At(r, from, to) == rpc[r] = from /\ rpc' = [rpc EXCEPT ![r] = to]

\* The call returns code c; its locals are gone.
Return(r, c) ==
  /\ rpc' = [rpc EXCEPT ![r] = "idle"]
  /\ rop' = [rop EXCEPT ![r] = "none"]
  /\ rc' = [rc EXCEPT ![r] = c]
  /\ wlast' = [wlast EXCEPT ![r] = Random]
  /\ timed' = [timed EXCEPT ![r] = FALSE]
  /\ wn' = [wn EXCEPT ![r] = 0]
  /\ wval' = [wval EXCEPT ![r] = 0]

-----------------------------------------------------------------------------
(* The handle: reader_close, attach, reader_sync, identity_check. *)

\* The cached geometry is meaningless without a mapping.
Map(r, f) ==
  /\ rhdr' = [rhdr EXCEPT ![r] = f]
  /\ rgeom' = [rgeom EXCEPT ![r] = IF f = NoFile THEN None ELSE geom[f]]

\* Closing a handle, and opening a new one, which attaches lazily.
reader_close(r) ==
  /\ rop[r] = "none"
  /\ Map(r, NoFile)
  /\ announce' = [announce EXCEPT ![r] = FALSE]
  /\ got' = [got EXCEPT ![r] = NoResult]
  /\ rc' = [rc EXCEPT ![r] = "OK"]
  /\ UNCHANGED <<lockVars, filesVars, rop, rpc, tries, waitVars>>

\* The retire check.
reader_sync(r) ==
  LET keep == rhdr[r] # NoFile /\ ~retired[rhdr[r]] IN
  /\ At(r, "sync", IF keep THEN "synced" ELSE "attach")
  /\ Map(r, IF keep THEN rhdr[r] ELSE NoFile)
  /\ tries' = [tries EXCEPT ![r] = 0]
  /\ rc' = [rc EXCEPT ![r] = "OK"]
  /\ UNCHANGED <<lockVars, filesVars, rop, announce, got, waitVars>>

attach_Once(r) ==
  LET ok == path # NoFile /\ kind[path] \in {"ok", "minor", "corrupt"} IN
  /\ At(r, "attach", IF ok THEN "attached" ELSE "synced")
  /\ Map(r, IF ok THEN path ELSE NoFile)
  /\ announce' = [announce EXCEPT ![r] = got[r] = NoResult]
  /\ rc' = [rc EXCEPT ![r] = IF ok THEN "OK" ELSE IF path = NoFile THEN "NODATA" ELSE "FORMAT"]
  /\ UNCHANGED <<lockVars, filesVars, rop, tries, got, waitVars>>

attach(r) ==
  LET ok == path # NoFile /\ kind[path] \in {"ok", "minor", "corrupt"} IN
  /\ At(r, "attach", IF ok THEN "attached" ELSE "synced")
  /\ Map(r, IF ok THEN path ELSE NoFile)
  /\ announce' = [announce EXCEPT ![r] = ok \/ @]
  /\ rc' = [rc EXCEPT ![r] = IF ok THEN "OK" ELSE IF path = NoFile THEN "NODATA" ELSE "FORMAT"]
  /\ UNCHANGED <<lockVars, filesVars, rop, tries, got, waitVars>>

attach_error(r) ==
  /\ "readers" \in Faults
  /\ At(r, "attach", "synced")
  /\ rc' = [rc EXCEPT ![r] = "SYS"]
  /\ UNCHANGED <<lockVars, filesVars, rop, handleVars, tries, waitVars>>

\* reader_sync: the file just attached may be retired already.
attach_check(r) ==
  LET leave == retired[rhdr[r]]
      again == leave /\ tries[r] + 1 < ATTACH_RETRIES
  IN /\ At(r, "attached", IF again THEN "attach" ELSE "synced")
     /\ Map(r, IF leave THEN NoFile ELSE rhdr[r])
     /\ tries' = [tries EXCEPT ![r] = IF again THEN @ + 1 ELSE 0]
     /\ rc' = [rc EXCEPT ![r] = IF leave /\ ~again THEN "NODATA" ELSE "OK"]
     /\ UNCHANGED <<lockVars, filesVars, rop, announce, got, waitVars>>

identity_check_Skip(r) ==
  /\ At(r, "identity", "sync")
  /\ UNCHANGED <<lockVars, filesVars, rop, handleVars, tries, rc, waitVars>>

identity_check(r) ==
  /\ At(r, "identity", "sync")
  /\ Map(r, IF path = rhdr[r] THEN path ELSE NoFile)
  /\ UNCHANGED <<lockVars, filesVars, rop, announce, tries, rc, got, waitVars>>

-----------------------------------------------------------------------------
(* read and peek, describe, writer_alive. *)

call(r, o) ==
  /\ o \in {"read", "describe"}
  /\ rop[r] = "none"
  /\ rop' = [rop EXCEPT ![r] = o]
  /\ rpc' = [rpc EXCEPT ![r] = "sync"]
  /\ UNCHANGED <<lockVars, filesVars, handleVars, tries, rc, waitVars>>

\* What read_latest finds in the file it maps; it takes no account of a
\* retirement after reader_sync.
ReadCode(f) ==
  IF kind[f] = "corrupt" THEN "FORMAT" ELSE IF latest[f] = 0 THEN "NODATA" ELSE "OK"

\* read_latest begins.
read_start(r) ==
  /\ rop[r] = "read"
  /\ rc[r] = "OK"
  /\ At(r, "synced", "reading")
  /\ wval' = [wval EXCEPT ![r] = latest[rhdr[r]]]
  /\ UNCHANGED <<lockVars, filesVars, rop, handleVars, tries, rc, wlast, timed, wn>>

\* The writer lapped every attempt of read_latest.
read_busy(r) ==
  /\ rpc[r] = "reading"
  /\ ReadCode(rhdr[r]) = "OK"
  /\ latest[rhdr[r]] - wval[r] >= Lap
  /\ Return(r, "BUSY")
  /\ UNCHANGED <<lockVars, filesVars, handleVars, tries>>

\* read_latest and announce, or the failure of reader_sync.
state_read(r) ==
  LET c == IF rc[r] = "OK" THEN ReadCode(rhdr[r]) ELSE rc[r] IN
  /\ rop[r] = "read" /\ rpc[r] = IF rc[r] = "OK" THEN "reading" ELSE "synced"
  /\ Return(r, c)
  /\ IF c = "OK"
     THEN /\ got' = [got EXCEPT ![r] = [value |-> latest[rhdr[r]], generation |-> gen[rhdr[r]],
                                        file |-> rhdr[r], attached |-> announce[r]]]
          /\ announce' = [announce EXCEPT ![r] = FALSE]
     ELSE UNCHANGED <<got, announce>>
  /\ UNCHANGED <<lockVars, filesVars, rhdr, rgeom, tries>>

state_describe(r) ==
  /\ rop[r] = "describe" /\ rpc[r] = "synced"
  /\ Return(r, rc[r])
  /\ UNCHANGED <<lockVars, filesVars, handleVars, tries>>

writer_alive(r) ==
  /\ rop[r] = "none"
  /\ alive_start(r)
  /\ rop' = [rop EXCEPT ![r] = "alive"]
  /\ rpc' = [rpc EXCEPT ![r] = "identity"]
  /\ UNCHANGED <<filesVars, handleVars, tries, rc, waitVars>>

writer_alive_open(r) ==
  /\ rop[r] = "alive" /\ rpc[r] = "synced"
  /\ alive_open(r)
  /\ IF apc'[r] = "idle" THEN Return(r, "OK")
     ELSE rpc' = [rpc EXCEPT ![r] = "getlk"] /\ UNCHANGED <<rop, rc, waitVars>>
  /\ UNCHANGED <<filesVars, handleVars, tries>>

writer_alive_getlk(r) ==
  /\ rpc[r] = "getlk"
  /\ alive_getlk(r)
  /\ Return(r, "OK")
  /\ UNCHANGED <<filesVars, handleVars, tries>>

-----------------------------------------------------------------------------
(* psmsgr_state_wait. *)

\* The caller passes the generation of a value it knows, or 0 for any value.
state_wait(r, last, t) ==
  /\ rop[r] = "none"
  /\ rop' = [rop EXCEPT ![r] = "wait"]
  /\ rpc' = [rpc EXCEPT ![r] = "sync"]
  /\ wlast' = [wlast EXCEPT ![r] = last]
  /\ timed' = [timed EXCEPT ![r] = t]
  /\ UNCHANGED <<lockVars, filesVars, handleVars, tries, rc, wn, wval>>

\* Unattached: sleep for 10 ms and try again.
wait_poll(r) ==
  /\ rop[r] = "wait"
  /\ rc[r] = "NODATA"
  /\ At(r, "synced", "sync")
  /\ UNCHANGED <<lockVars, filesVars, rop, handleVars, tries, rc, waitVars>>

\* The returns of wait: no file to attach, or no futex; a value whose generation
\* is new; the deadline, which is looked at before each sleep; a signal.
wait_refuse(r) ==
  /\ rop[r] = "wait" /\ rpc[r] = "synced"
  /\ \/ rc[r] \in {"FORMAT", "SYS"} /\ Return(r, rc[r])
     \/ rc[r] = "OK" /\ rgeom[r] \in NoNotify /\ Return(r, "NOTSUP")
  /\ UNCHANGED <<lockVars, filesVars, handleVars, tries>>

wait_timeout(r) ==
  /\ timed[r]
  /\ \/ rop[r] = "wait" /\ rpc[r] = "synced" /\ rc[r] = "NODATA"
     \/ rpc[r] = "futex"
  /\ Return(r, "TIMEOUT")
  /\ UNCHANGED <<lockVars, filesVars, handleVars, tries>>

wait_interrupted(r) ==
  /\ \/ rop[r] = "wait" /\ rpc[r] = "synced" /\ rc[r] = "NODATA"
     \/ rpc[r] = "sleep"
  /\ asleep' = [asleep EXCEPT ![r] = NoFile]
  /\ Return(r, "INTR")
  /\ UNCHANGED <<lockVars, fileVars, retired, latest, gen, notify, procVars, npub, replaced,
                 used, handleVars, tries>>

\* notify is loaded before everything else that decides whether to sleep.
wait_load(r) ==
  /\ rop[r] = "wait"
  /\ rc[r] = "OK"
  /\ rgeom[r] \notin NoNotify
  /\ At(r, "synced", "retired")
  /\ wn' = [wn EXCEPT ![r] = notify[rhdr[r]]]
  /\ UNCHANGED <<lockVars, filesVars, rop, handleVars, tries, rc, wlast, timed, wval>>

wait_retired(r) ==
  /\ At(r, "retired", IF retired[rhdr[r]] THEN "sync" ELSE "peek")
  /\ wval' = [wval EXCEPT ![r] = latest[rhdr[r]]]
  /\ UNCHANGED <<lockVars, filesVars, rop, handleVars, tries, rc, wlast, timed, wn>>

\* NODATA and BUSY count as unchanged.
wait_peek(r) ==
  LET f == rhdr[r]
      c == ReadCode(f)
  IN /\ rpc[r] = "peek"
     /\ \/ c = "OK" /\ gen[f] # wlast[r] /\ Return(r, "OK")
        \/ c = "FORMAT" /\ Return(r, "FORMAT")
        \/ /\ \/ c = "NODATA"
              \/ c = "OK" /\ gen[f] = wlast[r]
              \/ c = "OK" /\ latest[f] - wval[r] >= Lap
           /\ rpc' = [rpc EXCEPT ![r] = "futex"]
           /\ UNCHANGED <<rop, rc, waitVars>>
     /\ UNCHANGED <<lockVars, filesVars, handleVars, tries>>

futex_wait_Reload(r) ==
  /\ At(r, "futex", "sleep")
  /\ asleep' = [asleep EXCEPT ![r] = rhdr[r]]
  /\ UNCHANGED <<lockVars, fileVars, retired, latest, gen, notify, procVars, npub, replaced,
                 used, rop, handleVars, tries, rc, waitVars>>

\* FUTEX_WAIT compares and goes to sleep in one step.
futex_wait(r) ==
  LET same == notify[rhdr[r]] = wn[r] IN
  /\ At(r, "futex", IF same THEN "sleep" ELSE "sync")
  /\ asleep' = [asleep EXCEPT ![r] = IF same THEN rhdr[r] ELSE NoFile]
  /\ UNCHANGED <<lockVars, fileVars, retired, latest, gen, notify, procVars, npub, replaced,
                 used, rop, handleVars, tries, rc, waitVars>>

wait_woken(r) ==
  /\ At(r, "sleep", "sync")
  /\ asleep[r] = NoFile
  /\ UNCHANGED <<lockVars, filesVars, rop, handleVars, tries, rc, waitVars>>

\* A second has passed, or less before the deadline.
wait_slice(r) ==
  /\ At(r, "sleep", "identity")
  /\ asleep[r] # NoFile
  /\ asleep' = [asleep EXCEPT ![r] = NoFile]
  /\ UNCHANGED <<lockVars, fileVars, retired, latest, gen, notify, procVars, npub, replaced,
                 used, rop, handleVars, tries, rc, waitVars>>

\* A failed system call ends wait and writer_alive.
call_error(r) ==
  /\ "readers" \in Faults
  /\ \/ rop[r] = "wait" /\ rpc[r] \in {"identity", "futex"} /\ UNCHANGED lockVars
     \/ rop[r] = "alive" /\ rpc[r] \in {"identity", "synced", "getlk"} /\ alive_error(r)
  /\ Return(r, "SYS")
  /\ UNCHANGED <<filesVars, handleVars, tries>>

-----------------------------------------------------------------------------

Begin(r) ==
  \/ reader_close(r)
  \/ \E o \in Calls : call(r, o)
  \/ "alive" \in Calls /\ writer_alive(r)
  \/ "wait" \in Calls /\ \E last \in used \cup {Random}, t \in Timed : state_wait(r, last, t)

\* The thread is running.
Run(r) ==
  \/ reader_sync(r) \/ attach(r) \/ attach_check(r) \/ identity_check(r)
  \/ read_start(r) \/ read_busy(r) \/ state_read(r) \/ state_describe(r)
  \/ writer_alive_open(r) \/ writer_alive_getlk(r)
  \/ wait_poll(r) \/ wait_refuse(r) \/ wait_load(r) \/ wait_retired(r) \/ wait_peek(r)
  \/ futex_wait(r) \/ wait_woken(r)

Reader(r) ==
  \/ Begin(r) \/ Run(r) \/ wait_slice(r) \/ wait_timeout(r) \/ wait_interrupted(r)
  \/ attach_error(r) \/ call_error(r)

WriterStep(p) == Writer(p) /\ UNCHANGED readerVars

Init ==
  /\ LockInit
  /\ FilesInit
  /\ rop = [r \in Readers |-> "none"]
  /\ rpc = [r \in Readers |-> "idle"]
  /\ rhdr = [r \in Readers |-> NoFile]
  /\ rgeom = [r \in Readers |-> None]
  /\ announce = [r \in Readers |-> FALSE]
  /\ tries = [r \in Readers |-> 0]
  /\ rc = [r \in Readers |-> "OK"]
  /\ wlast = [r \in Readers |-> Random]
  /\ timed = [r \in Readers |-> FALSE]
  /\ wn = [r \in Readers |-> 0]
  /\ wval = [r \in Readers |-> 0]
  /\ got = [r \in Readers |-> NoResult]

Next ==
  \/ \E p \in Procs : WriterStep(p)
  \/ rm_data /\ UNCHANGED readerVars
  \/ \E r \in Readers : Reader(r)

Spec == Init /\ [][Next]_vars

\* Running readers run, and the kernel ends their sleep after a second.
LiveSpec == Spec /\ \A r \in Readers : WF_vars(Run(r)) /\ WF_vars(wait_slice(r))

-----------------------------------------------------------------------------
(* Properties. *)

Publishing(p) == wpc[p] \in {"writing", "notify", "wake"}

\* A writer's file is the one at the data path and is not retired, unless
\* somebody removed it by hand: no other writer or unlink takes it away.
WriterKeepsFile ==
  \A p \in Procs : Publishing(p) => /\ ~retired[hdr[p]]
                                    /\ path = hdr[p] \/ (Rm /\ path = NoFile)

\* Readers only ever open initialized files, and the temporary file of a
\* running create_file is not taken for a stale one.
CreateIsAtomic ==
  /\ path # NoFile => kind[path] # "blank"
  /\ \A p \in Procs : wpc[p] \in {"fill", "rename"} => hdr[p] \in tmps

\* Every value has a generation of its own, across writers, restarts, crashes
\* and replacements of the file: a reader that compares generations notices
\* each value, also after a reattach.
GenerationsDiffer == [][npub' # npub => used' # used]_vars

\* A handle never goes back to an older value, not even across a reattach.
NeverOlder ==
  [][\A r \in Readers : got'[r] # NoResult => got'[r].value >= got[r].value]_vars

\* PSMSGR_INFO_ATTACHED marks exactly the results that come from another file
\* than the result before, so that callers know when to describe again.
AttachedMarksNewFile ==
  [][\A r \in Readers :
       (rop[r] = "read" /\ rop'[r] = "none" /\ rc'[r] = "OK")
         => (got'[r].attached <=> got'[r].file # got[r].file)]_vars

\* Whoever takes a file from the data path marks it RETIRED.
ReplacedIsRetired ==
  \A f \in replaced :
    \/ retired[f]
    \/ kind[f] = "foreign"
    \/ \E p \in Procs : wpc[p] = "retire" /\ old[p] = f

\* No lost wake-up: a sleeping reader whose file has a value that it waits
\* for, or was retired, is about to be woken.
NoLostWakeUp ==
  \A r \in Readers :
    LET f == asleep[r] IN
    (f # NoFile /\ (retired[f] \/ (ReadCode(f) = "OK" /\ gen[f] # wlast[r])))
      => \E p \in Procs : \/ hdr[p] = f /\ wpc[p] \in {"notify", "wake"}
                          \/ old[p] = f /\ wpc[p] \in {"retire_notify", "retire_wake"}

\* A wait does not go on for ever while the channel has a value to report,
\* even if a writer died before it could wake anybody, or the file was
\* replaced by hand.
News(r) == path # NoFile /\ ReadCode(path) = "OK" /\ gen[path] # wlast[r]
WaitReturns == \A r \in Readers : []<>~(rop[r] = "wait" /\ News(r))
=============================================================================
