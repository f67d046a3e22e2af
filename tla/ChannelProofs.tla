---------------------------- MODULE ChannelProofs ---------------------------
(***************************************************************************)
(* What the channel promises, for any number of processes, readers, files  *)
(* and inodes.  LockInv is the inductive invariant of the writer lock; the *)
(* channel implements the lock, so that mutual exclusion holds of it too.  *)
(* On mutual exclusion rest the invariants of the data files (FilesInv)    *)
(* and of the generations (GenInv), and on those what the reads of one     *)
(* handle return, one after the other (ReadInv).                           *)
(***************************************************************************)
EXTENDS Channel, TLAPS

-----------------------------------------------------------------------------
(* The writer lock. *)

\* Who owns an inode has it open and is past F_OFD_SETLK, and conversely.
OwnersHaveIt ==
  \A p \in Procs, i \in Inodes :
    owner[i] = p <=> lock_fd[p] = i /\ lpc[p] \in {"check", "in", "removed"}

\* Descriptors are open where the code uses them.
DescriptorsOpen ==
  /\ \A p \in Procs : lpc[p] \in {"lock", "held", "check", "in", "removed"} => lock_fd[p] # None
  /\ \A r \in Readers : apc[r] = "getlk" => alive_fd[r] # None

\* The path names the inode of whoever passed the identity check.
PathNamesHolder == \A p \in Procs : lpc[p] = "in" => lockpath = lock_fd[p]

\* writer_alive has opened the inode of those that hold the channel all along.
ThroughHolds ==
  \A r \in Readers : \A p \in through[r] :
    /\ lpc[p] = "in"
    /\ apc[r] = "getlk" => alive_fd[r] = lock_fd[p]

\* The inductive invariant.
LockInv ==
  LockTypeOK /\ OwnersHaveIt /\ DescriptorsOpen /\ PathNamesHolder /\ ThroughHolds

-----------------------------------------------------------------------------

\* lock_channel and writer_alive start from the inductive invariant.
LEMMA LockInitInv == LockInit => LockInv
BY LockAssumption
   DEF LockInit, LockInv, LockTypeOK, OwnersHaveIt, DescriptorsOpen, PathNamesHolder, ThroughHolds

\* The identity check of lock_channel lets at most one process in: two
\* holders would own the one inode the lock path names.
LEMMA HoldersEqual == LockInv => OneHolder
BY LockAssumption DEF LockInv, LockTypeOK, OwnersHaveIt, DescriptorsOpen, PathNamesHolder, OneHolder

\* Whoever holds the channel owns the inode that the lock path names.
LEMMA HoldersVisible == LockInv => HolderIsVisible
BY LockAssumption
   DEF LockInv, LockTypeOK, OwnersHaveIt, DescriptorsOpen, PathNamesHolder, HolderIsVisible

\* Each system call of lock_channel, unlink and writer_close, and each step of
\* writer_alive, preserves the inductive invariant.
LEMMA LockNextInv == LockInv /\ [LockNext]_lockVars => LockInv'
<1> SUFFICES ASSUME LockInv, [LockNext]_lockVars PROVE LockInv'
  BY Zenon
<1> USE LockAssumption
<1>1. ASSUME NEW p \in Procs, lock_channel(p) PROVE LockInv'
  BY <1>1 DEF lock_channel, Go, aliveVars, LockInv, LockTypeOK, OwnersHaveIt, DescriptorsOpen,
              PathNamesHolder, ThroughHolds
<1>2. ASSUME NEW p \in Procs, lock_create(p) PROVE LockInv'
  BY <1>2 DEF lock_create, Go, aliveVars, InUse, LockInv, LockTypeOK, OwnersHaveIt, DescriptorsOpen,
              PathNamesHolder, ThroughHolds
<1>3. ASSUME NEW p \in Procs, lock_open(p) PROVE LockInv'
  BY <1>3 DEF lock_open, Go, aliveVars, LockInv, LockTypeOK, OwnersHaveIt, DescriptorsOpen,
              PathNamesHolder, ThroughHolds
<1>4. ASSUME NEW p \in Procs, lock_take(p) PROVE LockInv'
  BY <1>4 DEF lock_take, Go, aliveVars, LockInv, LockTypeOK, OwnersHaveIt, DescriptorsOpen,
              PathNamesHolder, ThroughHolds
<1>5. ASSUME NEW p \in Procs, lock_held(p) PROVE LockInv'
  BY <1>5 DEF lock_held, names_inode, CloseLock, Go, aliveVars, LockInv, LockTypeOK, OwnersHaveIt,
              DescriptorsOpen, PathNamesHolder, ThroughHolds
<1>6. ASSUME NEW p \in Procs, lock_check(p) PROVE LockInv'
  BY <1>6 DEF lock_check, names_inode, CloseLock, Go, aliveVars, LockInv, LockTypeOK, OwnersHaveIt,
              DescriptorsOpen, PathNamesHolder, ThroughHolds
<1>7. ASSUME NEW p \in Procs, unlink_lock(p) PROVE LockInv'
  BY <1>7, HoldersEqual
  DEF unlink_lock, OneHolder, Go, aliveVars, LockInv, LockTypeOK, OwnersHaveIt,
              DescriptorsOpen, PathNamesHolder, ThroughHolds
<1>8. ASSUME NEW p \in Procs, release(p) PROVE LockInv'
  BY <1>8 DEF release, CloseLock, Go, aliveVars, LockInv, LockTypeOK, OwnersHaveIt,
              DescriptorsOpen, PathNamesHolder, ThroughHolds
<1>9. ASSUME NEW r \in Readers, alive_start(r) PROVE LockInv'
  BY <1>9 DEF alive_start, Holders, holderVars, LockInv, LockTypeOK, OwnersHaveIt,
              DescriptorsOpen, PathNamesHolder, ThroughHolds
<1>10. ASSUME NEW r \in Readers, alive_open(r) PROVE LockInv'
  BY <1>10 DEF alive_open, Answer, holderVars, LockInv, LockTypeOK, OwnersHaveIt,
              DescriptorsOpen, PathNamesHolder, ThroughHolds
<1>11. ASSUME NEW r \in Readers, alive_getlk(r) PROVE LockInv'
  BY <1>11 DEF alive_getlk, Answer, holderVars, LockInv, LockTypeOK, OwnersHaveIt,
              DescriptorsOpen, PathNamesHolder, ThroughHolds
<1>12. ASSUME NEW r \in Readers, alive_error(r) PROVE LockInv'
  BY <1>12 DEF alive_error, Answer, holderVars, LockInv, LockTypeOK, OwnersHaveIt,
              DescriptorsOpen, PathNamesHolder, ThroughHolds
<1>13. CASE UNCHANGED lockVars
  BY <1>13 DEF lockVars, holderVars, aliveVars, LockInv, LockTypeOK, OwnersHaveIt,
              DescriptorsOpen, PathNamesHolder, ThroughHolds
<1>14. QED
  BY <1>1, <1>2, <1>3, <1>4, <1>5, <1>6, <1>7, <1>8, <1>9, <1>10, <1>11, <1>12, <1>13, Zenon
  DEF LockNext, Locking

\* writer_alive: the writer that held the channel during the whole call owns
\* the inode that the call opened.
LEMMA AliveStep ==
  ASSUME LockInv, [LockNext]_lockVars, NEW r \in Readers,
         apc[r] # "idle", apc'[r] = "idle", through[r] # {}
  PROVE  alive'[r] # "no"
<1> USE LockAssumption
<1>1. PICK p \in through[r] : p \in Procs /\ lpc[p] = "in"
  BY Zenon DEF LockInv, LockTypeOK, ThroughHolds
<1>2. lockpath = lock_fd[p] /\ lock_fd[p] \in Inodes /\ owner[lock_fd[p]] = p
  BY <1>1 DEF LockInv, LockTypeOK, PathNamesHolder, DescriptorsOpen, OwnersHaveIt
<1>3. ASSUME alive_open(r) PROVE FALSE
  BY <1>2, <1>3, Zenon DEF alive_open, LockInv, LockTypeOK
<1>4. ASSUME alive_getlk(r) PROVE alive'[r] = "yes"
  BY <1>1, <1>2, <1>4 DEF alive_getlk, Answer, LockInv, LockTypeOK, ThroughHolds
<1>5. ASSUME alive_error(r) PROVE alive'[r] = "SYS"
  BY <1>5, Zenon DEF alive_error, Answer, LockInv, LockTypeOK
<1>7. ASSUME NEW s \in Readers, s # r, alive_start(s) \/ alive_open(s) \/ alive_getlk(s) \/ alive_error(s)
      PROVE  FALSE
  BY <1>7, Zenon DEF alive_start, alive_open, alive_getlk, alive_error, Answer, LockInv, LockTypeOK
<1>8. ASSUME alive_start(r) PROVE FALSE
  BY <1>8, Zenon DEF alive_start
<1>9. ASSUME NEW q \in Procs, lock_channel(q) \/ Locking(q) \/ unlink_lock(q) \/ release(q)
      PROVE  FALSE
  <2>1. UNCHANGED apc
    BY <1>9, Zenon DEF lock_channel, Locking, lock_create, lock_open, lock_take,
       lock_held, lock_check,
                unlink_lock, release, Go, aliveVars
  <2>2. QED
    BY <2>1, Zenon
<1>10. ASSUME UNCHANGED lockVars PROVE FALSE
  BY <1>10, Zenon DEF lockVars, aliveVars
<1>11. QED
  BY <1>3, <1>4, <1>5, <1>7, <1>8, <1>9, <1>10, Zenon DEF LockNext

-----------------------------------------------------------------------------

\* The inductive invariant of the lock holds throughout.
THEOREM LockInvariance == LockSpec => []LockInv
BY LockInitInv, LockNextInv, PTL DEF LockSpec

\* Every variable of the lock keeps its type.
THEOREM LockTypes == LockSpec => []LockTypeOK
<1>1. LockInv => LockTypeOK
  BY Zenon DEF LockInv
<1>2. QED
  BY <1>1, LockInvariance, PTL

\* At most one process holds the channel, with any number of processes that
\* open writers and unlink the channel, and any reuse of inode numbers.
THEOREM MutualExclusion == LockSpec => []OneHolder
BY HoldersEqual, LockInvariance, PTL

\* Whoever holds the channel has locked the inode that the lock path names.
THEOREM LockVisible == LockSpec => []HolderIsVisible
BY HoldersVisible, LockInvariance, PTL

\* writer_alive never answers 0 if one writer held the channel during the call.
THEOREM AliveIsAccurate == LockSpec => AliveSeesHolder
<1>1. LockInv /\ [LockNext]_lockVars
        => [\A r \in Readers : (apc[r] # "idle" /\ apc'[r] = "idle" /\ through[r] # {})
                                 => alive'[r] # "no"]_lockVars
  BY AliveStep, Zenon
<1>2. QED
  BY <1>1, LockInvariance, PTL DEF LockSpec, AliveSeesHolder

-----------------------------------------------------------------------------
(* The channel implements its lock. *)

\* A step of writer_open, publish, close or unlink is a step of the lock, or
\* leaves it alone.
LEMMA WriterIsLockStep ==
  ASSUME NEW p \in Procs, Writer(p)
  PROVE  LockNext \/ UNCHANGED lockVars
<1>1. ASSUME \/ \E g \in Geoms, re \in BOOLEAN : writer_open(p, g, re)
             \/ unlink(p)
      PROVE  LockNext
  BY <1>1, Zenon DEF writer_open, unlink, LockNext
<1>2. ASSUME locking(p) PROVE LockNext
  BY <1>2, Zenon DEF locking, LockNext
<1>3. ASSUME finish(p) \/ sys_error(p) \/ crash(p) \/ open_refused(p) PROVE LockNext
  BY <1>3, Zenon DEF finish, sys_error, crash, open_refused, LockNext
<1>4. ASSUME unlink_lockfile(p) PROVE LockNext
  BY <1>4, SMTT(30) DEF unlink_lockfile, LockNext
<1>5. ASSUME remove_stale_tmp(p) \/ open_reuse(p) \/ open_create(p) PROVE UNCHANGED lockVars
  BY <1>5, SMTT(30) DEF remove_stale_tmp, open_reuse, open_create
<1>6. ASSUME create_tmp(p) \/ create_fill(p) \/ create_rename(p) PROVE UNCHANGED lockVars
  BY <1>6, SMTT(30) DEF create_tmp, create_fill, create_rename
<1>7. ASSUME retire_set(p) \/ retire_notify(p) \/ retire_wake(p) PROVE UNCHANGED lockVars
  BY <1>7, Zenon DEF retire_set, retire_notify, retire_wake
<1>8. ASSUME publish(p) \/ publish_notify(p) \/ publish_wake(p) PROVE UNCHANGED lockVars
  BY <1>8, Zenon DEF publish, publish_notify, publish_wake
<1>9. ASSUME unlink_open(p) \/ unlink_data(p) PROVE UNCHANGED lockVars
  BY <1>9, Zenon DEF unlink_open, unlink_data
<1>10. QED
  BY <1>1, <1>2, <1>3, <1>4, <1>5, <1>6, <1>7, <1>8, <1>9, Zenon DEF Writer

\* A step of a reader is a step of writer_alive, or leaves the lock alone.
LEMMA ReaderIsLockStep ==
  ASSUME NEW r \in Readers, Reader(r)
  PROVE  LockNext \/ UNCHANGED lockVars
<1>1. ASSUME writer_alive(r) \/ writer_alive_open(r) \/ writer_alive_getlk(r) PROVE LockNext
  BY <1>1, Zenon DEF writer_alive, writer_alive_open, writer_alive_getlk, LockNext
<1>2. ASSUME call_error(r) PROVE LockNext \/ UNCHANGED lockVars
  BY <1>2, Zenon DEF call_error, LockNext
<1>3. ASSUME reader_close(r) \/ \E o \in Calls : call(r, o) PROVE UNCHANGED lockVars
  BY <1>3, Zenon DEF reader_close, call
<1>4. ASSUME \E last \in used \cup {Random}, t \in Timed : state_wait(r, last, t)
      PROVE  UNCHANGED lockVars
  BY <1>4, SMTT(30) DEF state_wait
<1>5. ASSUME \/ reader_sync(r) \/ attach(r) \/ attach_check(r) \/ identity_check(r)
             \/ attach_error(r) \/ read_start(r) \/ read_busy(r) \/ state_read(r)
             \/ state_describe(r)
      PROVE  UNCHANGED lockVars
  BY <1>5, SMTT(30) DEF reader_sync, attach, attach_check, identity_check, attach_error, read_start,
              read_busy, state_read, state_describe
<1>6. ASSUME \/ wait_poll(r) \/ wait_refuse(r) \/ wait_load(r) \/ wait_retired(r)
             \/ wait_peek(r) \/ wait_woken(r) \/ wait_timeout(r)
      PROVE  UNCHANGED lockVars
  <2>1. wait_poll(r) \/ wait_refuse(r) \/ wait_load(r) => UNCHANGED lockVars
    BY ZenonT(30) DEF wait_poll, wait_refuse, wait_load
  <2>2. wait_retired(r) \/ wait_peek(r) => UNCHANGED lockVars
    BY ZenonT(30) DEF wait_retired, wait_peek
  <2>3. wait_woken(r) \/ wait_timeout(r) => UNCHANGED lockVars
    BY ZenonT(30) DEF wait_woken, wait_timeout
  <2>4. QED
    BY <1>6, <2>1, <2>2, <2>3, Zenon
<1>7. ASSUME futex_wait(r) \/ wait_slice(r) \/ wait_interrupted(r) PROVE UNCHANGED lockVars
  BY <1>7, Zenon DEF futex_wait, wait_slice, wait_interrupted
<1>8. QED
  BY <1>1, <1>2, <1>3, <1>4, <1>5, <1>6, <1>7, Zenon DEF Reader, Begin, Run

\* Every step of a writer, of unlink and of a reader is a step of the lock or
\* leaves the lock alone.
LEMMA NextIsLockStep == [Next]_vars => [LockNext]_lockVars
<1>1. ASSUME NEW p \in Procs, WriterStep(p) PROVE [LockNext]_lockVars
  BY <1>1, WriterIsLockStep, Zenon DEF WriterStep
<1>2. ASSUME rm_data PROVE UNCHANGED lockVars
  BY <1>2, Zenon DEF rm_data
<1>3. ASSUME UNCHANGED vars PROVE UNCHANGED lockVars
  BY <1>3, Zenon DEF vars
<1>4. QED
  BY <1>1, <1>2, <1>3, ReaderIsLockStep, Zenon DEF Next

\* The channel implements the lock module.
THEOREM ChannelIsLock == Spec => LockSpec
<1>1. Init => LockInit
  BY Zenon DEF Init
<1>2. QED
  BY <1>1, NextIsLockStep, PTL DEF Spec, LockSpec

\* A channel has one writer at a time, and nobody unlinks it meanwhile.
THEOREM OneWriter == Spec => []OneHolder
BY ChannelIsLock, MutualExclusion, PTL

\* psmsgr_state_writer_alive does not miss a writer of the channel.
THEOREM WriterAliveSeesWriter == Spec => AliveSeesHolder
BY ChannelIsLock, AliveIsAccurate, PTL

-----------------------------------------------------------------------------
(* The data files. *)

Creating(p) == wpc[p] \in {"mktemp", "fill", "rename"}
Retiring(p) == wpc[p] \in {"retire", "retire_notify", "retire_wake"}

\* The file of writer_open is in place: it publishes, or retires the old one.
Owns(p) == Publishing(p) \/ (Retiring(p) /\ req[p] # None)

Places == {"none", "stale", "open", "mktemp", "fill", "rename", "retire", "retire_notify",
           "retire_wake", "writing", "notify", "wake", "unlink_open", "unlink_data",
           "unlink_lock", "unlinked"}

FilesTypes ==
  /\ path \in 0 .. MaxFiles /\ nfiles \in 0 .. MaxFiles /\ tmps \subseteq Files
  /\ kind \in [Files -> Kinds]
  /\ retired \in [Files -> BOOLEAN] /\ latest \in [Files -> Nat]
  /\ wpc \in [Procs -> Places]
  /\ req \in [Procs -> Geoms \cup {None}]
  /\ old \in [Procs -> 0 .. MaxFiles] /\ hdr \in [Procs -> 0 .. MaxFiles]
  /\ npub \in Nat

\* Only who holds the channel gets past the sweep of stale temporary files.
HeldWhileBusy(p) ==
  /\ wpc[p] = "none" <=> lpc[p] = "out"
  /\ wpc[p] = "unlinked" <=> lpc[p] = "removed"
  /\ wpc[p] \notin {"none", "stale", "unlinked"} => lpc[p] = "in"
  /\ wpc[p] \in {"none", "stale"} => hdr[p] = NoFile

\* The file at the path is initialized; new and temporary files are unused.
FilesFresh ==
  /\ path # NoFile => kind[path] # "blank"
  /\ path <= nfiles /\ path \notin tmps
  /\ \A f \in Files : f > nfiles \/ f \in tmps => retired[f] = FALSE /\ latest[f] = 0
  /\ \A f \in tmps : f <= nfiles

\* The files that writer_open and unlink work on.
FilesAtWork(p) ==
  /\ old[p] <= nfiles /\ old[p] \notin tmps
  /\ wpc[p] \in {"fill", "rename"} => hdr[p] \in tmps
  /\ wpc[p] = "rename" => kind[hdr[p]] # "blank"
  /\ wpc[p] \in {"unlink_open", "unlink_data"} => req[p] = None
  /\ Retiring(p) => old[p] # NoFile /\ (req[p] # None => old[p] # hdr[p])
  /\ Owns(p) => /\ hdr[p] # NoFile /\ hdr[p] <= nfiles /\ hdr[p] \notin tmps
                /\ retired[hdr[p]] = FALSE
                /\ path = hdr[p] \/ (Rm /\ path = NoFile)

\* The inductive invariant of the files; it rests on the lock.
FilesInv ==
  FilesTypes /\ FilesFresh /\ \A p \in Procs : HeldWhileBusy(p) /\ FilesAtWork(p)

\* The generation that a new writer of f, or of its replacement, goes on with.
NextGen(f) == <<gen[f][1], gen[f][2] + 1>>

\* What generation g is ahead of: every published one of its chain.
Ahead(g) == g[1] <= npub /\ \A u \in used : u[1] = g[1] => u[2] < g[2]

\* The inductive invariant of the generations: the file at the path has the
\* last one of its chain, and the writer is ahead of its chain.
GenInv ==
  /\ gen \in [Files -> Nat \X Nat] /\ wgen \in [Procs -> Nat \X Nat]
  /\ used \subseteq Nat \X Nat
  /\ \A u \in used : u[1] <= npub
  /\ path # NoFile /\ latest[path] # 0 => Ahead(NextGen(path))
  /\ \A p \in Procs : Creating(p) \/ Owns(p) => wgen[p] = Random \/ Ahead(wgen[p])

-----------------------------------------------------------------------------

\* The channel starts from the invariant of the files, whatever an earlier
\* library left behind.
LEMMA FilesInitInv == Init => FilesInv
<1> SUFFICES ASSUME Init PROVE FilesInv
  BY Zenon
<1> USE FilesAssumption DEF Files, NoFile
<1>0. PICK k \in LeftBehind :
        /\ path = IF k = "absent" THEN 0 ELSE 1
        /\ nfiles = path
        /\ kind = [f \in Files |-> IF f # path THEN "blank" ELSE IF k = "retired" THEN "ok" ELSE k]
        /\ retired = [f \in Files |-> f = path /\ k = "retired"]
  BY Zenon DEF Init, FilesInit
<1>1. /\ tmps = {} /\ npub = path
      /\ latest = [f \in Files |-> IF f = path THEN 1 ELSE 0]
      /\ wpc = [p \in Procs |-> "none"] /\ req = [p \in Procs |-> None]
      /\ old = [p \in Procs |-> NoFile] /\ hdr = [p \in Procs |-> NoFile]
      /\ lpc = [p \in Procs |-> "out"]
  BY Zenon DEF Init, LockInit, FilesInit
<1>2. path \in {0, 1} /\ MaxFiles \in Nat /\ MaxFiles >= 1
  BY <1>0
<1>3. FilesTypes
  <2>1. kind \in [Files -> Kinds]
    BY <1>0 DEF Kinds
  <2>2. retired \in [Files -> BOOLEAN] /\ latest \in [Files -> Nat]
    BY <1>0, <1>1, Zenon
  <2>3. path \in 0 .. MaxFiles /\ nfiles \in 0 .. MaxFiles /\ npub \in Nat
    BY <1>0, <1>1, <1>2
  <2>4. QED
    BY <1>1, <1>2, <2>1, <2>2, <2>3 DEF FilesTypes, Places
<1>4. ASSUME NEW p \in Procs PROVE HeldWhileBusy(p) /\ FilesAtWork(p)
  BY <1>0, <1>1, <1>2 DEF HeldWhileBusy, FilesAtWork, Owns, Publishing, Retiring
<1>5. FilesFresh
  <2>1. path # NoFile => kind[path] # "blank"
    BY <1>0, <1>2
  <2>2. ASSUME NEW f \in Files, f > nfiles PROVE retired[f] = FALSE /\ latest[f] = 0
    <3>1. f # path
      BY <1>0, <1>2, <2>2
    <3>2. QED
      BY <1>0, <1>1, <3>1, Zenon
  <2>3. path <= nfiles /\ path \notin tmps /\ \A f \in tmps : f <= nfiles
    BY <1>0, <1>1, <1>2
  <2>4. QED
    BY <1>1, <2>1, <2>2, <2>3, Zenon DEF FilesFresh
<1>7. QED
  BY <1>3, <1>4, <1>5, Zenon DEF FilesInv

\* Who works on files while p holds the channel is p.
LEMMA Alone ==
  ASSUME FilesInv, OneHolder, NEW p \in Procs, lpc[p] = "in", NEW q \in Procs, q # p
  PROVE  wpc[q] \in {"none", "stale", "unlinked"}
BY Zenon DEF FilesInv, HeldWhileBusy, OneHolder

\* A process that lets go of the lock, with at most its own temporary file,
\* leaves the invariant.
LEMMA FilesForget ==
  ASSUME FilesInv, LockTypeOK, OneHolder, NEW p \in Procs,
         lpc' = [lpc EXCEPT ![p] = "out"], Forget(p),
         tmps' = tmps \/ (tmps' = tmps \ {hdr[p]} /\ (lpc[p] = "in" \/ wpc[p] = "stale")),
         UNCHANGED <<path, nfiles, kind, retired, latest, npub>>
  PROVE  FilesInv'
<1> USE FilesAssumption DEF Files, NoFile
<1>1. FilesTypes'
  <2>1. wpc' \in [Procs -> Places] /\ req' \in [Procs -> Geoms \cup {None}]
    BY Zenon DEF FilesInv, FilesTypes, Places, Forget
  <2>2. old' \in [Procs -> 0 .. MaxFiles] /\ hdr' \in [Procs -> 0 .. MaxFiles]
    BY DEF FilesInv, FilesTypes, Forget
  <2>3. tmps' \subseteq Files
    BY Zenon DEF FilesInv, FilesTypes
  <2>4. QED
    BY <2>1, <2>2, <2>3, Zenon DEF FilesInv, FilesTypes
<1>2. FilesFresh'
  BY Zenon DEF FilesInv, FilesTypes, FilesFresh
<1>3. HeldWhileBusy(p)' /\ FilesAtWork(p)'
  BY DEF FilesInv, FilesTypes, FilesAtWork, HeldWhileBusy, Forget, LockTypeOK, Owns, Publishing,
         Retiring
<1>4. ASSUME NEW q \in Procs, q # p PROVE HeldWhileBusy(q)' /\ FilesAtWork(q)'
  <2>1. /\ UNCHANGED <<wpc[q], req[q], old[q], hdr[q], lpc[q]>>
        /\ HeldWhileBusy(q) /\ FilesAtWork(q) /\ HeldWhileBusy(p)
    BY <1>4, Zenon DEF FilesInv, FilesTypes, Forget, LockTypeOK
  <2>2. wpc[q] \in {"fill", "rename"} => tmps' = tmps
    <3>1. CASE lpc[p] = "in"
      BY <1>4, <3>1, Alone, Zenon
    <3>2. CASE wpc[p] = "stale"
      <4>1. hdr[p] = 0 /\ 0 \notin tmps
        BY <2>1, <3>2, SMTT(30) DEF HeldWhileBusy, FilesInv, FilesTypes
      <4>2. QED
        BY <4>1, ZenonT(30)
    <3>3. QED
      BY <3>1, <3>2, Zenon
  <2>3. tmps' \subseteq tmps
    BY Zenon
  <2>4. QED
    BY <2>1, <2>2, <2>3, Zenon DEF HeldWhileBusy, FilesAtWork, Owns, Publishing, Retiring
<1>5. QED
  BY <1>1, <1>2, <1>3, <1>4, Zenon DEF FilesInv

\* Steps that only take the lock, or let go of it, keep the invariant.
LEMMA FilesLockStep ==
  ASSUME FilesInv, LockTypeOK, OneHolder, NEW p \in Procs,
         \/ \E g \in Geoms, re \in BOOLEAN : writer_open(p, g, re)
         \/ unlink(p) \/ locking(p) \/ finish(p) \/ crash(p) \/ open_refused(p)
         \/ sys_error(p) \/ unlink_lockfile(p)
  PROVE  FilesInv'
<1> USE DEF fileVars, stateVars, procVars, Go, NoFile
<1>1. ASSUME NEW x \in {"create", "open", "lock", "held", "check", "in"}, wpc'[p] = "stale",
             wpc[p] \in {"none", "stale"}, wpc' = [wpc EXCEPT ![p] = "stale"],
             \/ UNCHANGED req
             \/ \E g \in Geoms : req' = [req EXCEPT ![p] = g],
             lpc' = [lpc EXCEPT ![p] = x],
             UNCHANGED <<fileVars, retired, latest, npub, old, hdr>>
      PROVE  FilesInv'
  <2>1. FilesTypes' /\ FilesFresh'
    BY <1>1, Zenon DEF FilesInv, FilesTypes, Places, FilesFresh
  <2>2. ASSUME NEW q \in Procs PROVE HeldWhileBusy(q)' /\ FilesAtWork(q)'
    BY <1>1, SMTT(30) DEF FilesInv, FilesTypes, HeldWhileBusy, FilesAtWork, Owns,
       Publishing, Retiring,
                LockTypeOK
  <2>3. QED
    BY <2>1, <2>2, Zenon DEF FilesInv
<1>2. ASSUME (\E g \in Geoms, re \in BOOLEAN : writer_open(p, g, re)) \/ unlink(p)
      PROVE  FilesInv'
  <2>1. wpc[p] = "none"
    BY <1>2, Zenon DEF writer_open, unlink, lock_channel, FilesInv, HeldWhileBusy
  <2>2. QED
    BY <1>1, <1>2, <2>1, Zenon DEF writer_open, unlink, lock_channel, FilesInv, FilesTypes
<1>3. ASSUME locking(p) PROVE FilesInv'
  <2>1. PICK x \in {"create", "open", "lock", "held", "check", "in", "out"} :
          lpc[p] \in {"create", "open", "lock", "held", "check"} /\ lpc' = [lpc EXCEPT ![p] = x]
    BY <1>3, Zenon DEF locking, Locking, lock_create, lock_open, lock_take, lock_held, lock_check
  <2>2. wpc[p] = "stale" /\ wpc = [wpc EXCEPT ![p] = "stale"] /\ lpc'[p] = x
    BY <2>1, Zenon DEF FilesInv, HeldWhileBusy, FilesTypes, LockTypeOK
  <2>3. UNCHANGED <<fileVars, retired, latest, npub>>
    BY <1>3, Zenon DEF locking
  <2>4. CASE x = "out"
    BY <1>3, <2>1, <2>2, <2>3, <2>4, FilesForget, Zenon DEF locking
  <2>5. CASE x # "out"
    <3>1. UNCHANGED <<wpc, req, old, hdr>>
      BY <1>3, <2>2, <2>5, Zenon DEF locking
    <3>2. QED
      BY <1>1, <2>1, <2>2, <2>3, <2>5, <3>1, Zenon
  <2>6. QED
    BY <2>4, <2>5, Zenon
<1>4. ASSUME finish(p) \/ crash(p) \/ open_refused(p) PROVE FilesInv'
  BY <1>4, FilesForget, Zenon DEF finish, crash, open_refused, release
<1>5. ASSUME sys_error(p) PROVE FilesInv'
  <2>1. lpc[p] = "in" \/ wpc[p] = "stale"
    BY <1>5, Zenon DEF sys_error, FilesInv, HeldWhileBusy
  <2>2. QED
    BY <1>5, <2>1, FilesForget, Zenon DEF sys_error, release
<1>6. ASSUME unlink_lockfile(p) PROVE FilesInv'
  <2>1. /\ wpc[p] = "unlink_lock" /\ wpc' = [wpc EXCEPT ![p] = "unlinked"]
        /\ lpc' = [lpc EXCEPT ![p] = "removed"]
        /\ UNCHANGED <<fileVars, retired, latest, npub, req, old, hdr>>
    BY <1>6, Zenon DEF unlink_lockfile, unlink_lock, Step
  <2>2. FilesTypes' /\ FilesFresh'
    BY <2>1, Zenon DEF FilesInv, FilesTypes, Places, FilesFresh
  <2>3. ASSUME NEW q \in Procs PROVE HeldWhileBusy(q)' /\ FilesAtWork(q)'
    BY <2>1, Zenon DEF FilesInv, FilesTypes, HeldWhileBusy, FilesAtWork, Owns, Publishing, Retiring,
                LockTypeOK
  <2>4. QED
    BY <2>2, <2>3, Zenon DEF FilesInv
<1>7. QED
  BY <1>2, <1>3, <1>4, <1>5, <1>6, Zenon

\* The steps of open_data, create_file, retire, publish and unlink, taken by
\* the one process that holds the channel, keep the invariant.
LEMMA FilesWorkStep ==
  ASSUME FilesInv, OneHolder, NEW p \in Procs,
         \/ remove_stale_tmp(p) \/ open_reuse(p) \/ open_create(p)
         \/ create_tmp(p) \/ create_fill(p) \/ create_rename(p)
         \/ retire_set(p) \/ retire_notify(p) \/ retire_wake(p)
         \/ publish(p) \/ publish_notify(p) \/ publish_wake(p)
         \/ unlink_open(p) \/ unlink_data(p)
  PROVE  FilesInv'
<1> USE FilesAssumption DEF fileVars, stateVars, Step, Files, NoFile
<1>1. lpc[p] = "in" /\ UNCHANGED lpc /\ HeldWhileBusy(p) /\ FilesAtWork(p)
  BY Zenon DEF remove_stale_tmp, open_reuse, open_create, create_tmp, create_fill, create_rename,
         retire_set, retire_notify, retire_wake, publish, publish_notify, publish_wake,
         unlink_open, unlink_data, FilesInv, HeldWhileBusy, lockVars, holderVars
<1>2. ASSUME NEW q \in Procs, q # p, FilesTypes', old[q] <= nfiles', old[q] \notin tmps',
             UNCHANGED <<wpc[q], req[q], old[q], hdr[q]>>
      PROVE  HeldWhileBusy(q)' /\ FilesAtWork(q)'
  <2>1. wpc[q] \in {"none", "stale", "unlinked"} /\ HeldWhileBusy(q)
    BY <1>1, <1>2, Alone, Zenon DEF FilesInv
  <2>2. QED
    BY <1>1, <1>2, <2>1, Zenon DEF HeldWhileBusy, FilesAtWork, Owns, Publishing, Retiring
<1>3. ASSUME NEW q \in Procs PROVE old[q] \in Nat /\ old[q] <= nfiles /\ old[q] \notin tmps
  BY SMTT(30) DEF FilesInv, FilesTypes, FilesAtWork
<1>4. ASSUME remove_stale_tmp(p) PROVE FilesInv'
  <2>1. PICK to \in {"open", "unlink_open", "stale"} :
          /\ wpc[p] = "stale" /\ wpc' = [wpc EXCEPT ![p] = to]
          /\ to = "unlink_open" => req[p] = None
          /\ tmps' \subseteq tmps
          /\ UNCHANGED <<path, nfiles, kind, retired, latest, npub, req, old, hdr>>
    BY <1>4, Zenon DEF remove_stale_tmp, FilesInv, FilesTypes
  <2>2. FilesTypes'
    BY <1>1, <2>1, Zenon DEF FilesInv, FilesTypes, Places, FilesFresh
  <2>3. FilesFresh'
    BY <1>1, <2>1, Zenon DEF FilesInv, FilesTypes, FilesFresh, FilesAtWork, Owns
  <2>4. HeldWhileBusy(p)' /\ FilesAtWork(p)'
    BY <1>1, <2>1, Zenon DEF FilesInv, FilesTypes, FilesFresh, HeldWhileBusy, FilesAtWork, Owns,
                      Publishing, Retiring
  <2>5. ASSUME NEW q \in Procs, q # p PROVE HeldWhileBusy(q)' /\ FilesAtWork(q)'
    BY <1>2, <1>3, <2>1, <2>2, <2>5, Zenon DEF FilesInv, FilesTypes
  <2>6. QED
    BY <2>2, <2>3, <2>4, <2>5, Zenon DEF FilesInv
<1>5. ASSUME open_reuse(p) PROVE FilesInv'
  <2>1. /\ wpc[p] = "open" /\ wpc' = [wpc EXCEPT ![p] = "writing"]
        /\ path # NoFile /\ retired[path] = FALSE
        /\ req' = [req EXCEPT ![p] = None] /\ old' = [old EXCEPT ![p] = NoFile]
        /\ hdr' = [hdr EXCEPT ![p] = path]
        /\ UNCHANGED <<path, nfiles, tmps, kind, retired, latest, npub>>
    <3>1. path # NoFile /\ ~retired[path]
      BY <1>5, Zenon DEF open_reuse, disposition
    <3>2. retired[path] \in BOOLEAN
      BY <3>1, SMTT(30) DEF FilesInv, FilesTypes
    <3>3. retired[path] = FALSE
      BY ONLY <3>1, <3>2, Zenon
    <3>4. QED
      BY <1>5, <3>1, <3>3, Zenon DEF open_reuse, Opened
  <2>2. FilesTypes'
    BY <1>1, <2>1, SMTT(30) DEF FilesInv, FilesTypes, Places, FilesFresh
  <2>3. FilesFresh'
    BY <1>1, <2>1, Zenon DEF FilesInv, FilesTypes, FilesFresh, FilesAtWork, Owns
  <2>4. HeldWhileBusy(p)' /\ FilesAtWork(p)'
    BY <1>1, <2>1, SMTT(30) DEF FilesInv, FilesTypes, FilesFresh, HeldWhileBusy, FilesAtWork, Owns,
                      Publishing, Retiring
  <2>5. ASSUME NEW q \in Procs, q # p PROVE HeldWhileBusy(q)' /\ FilesAtWork(q)'
    BY <1>2, <1>3, <2>1, <2>2, <2>5, Zenon DEF FilesInv, FilesTypes
  <2>6. QED
    BY <2>2, <2>3, <2>4, <2>5, Zenon DEF FilesInv
<1>6. ASSUME open_create(p) PROVE FilesInv'
  <2>1. PICK f \in {path, NoFile} :
          /\ wpc[p] = "open" /\ wpc' = [wpc EXCEPT ![p] = "mktemp"]
          /\ old' = [old EXCEPT ![p] = f]
          /\ UNCHANGED <<path, nfiles, tmps, kind, retired, latest, npub, req, hdr>>
    BY <1>6, Zenon DEF open_create
  <2>2. FilesTypes'
    BY <1>1, <2>1, SMTT(30) DEF FilesInv, FilesTypes, Places, FilesFresh
  <2>3. FilesFresh'
    BY <1>1, <2>1, Zenon DEF FilesInv, FilesTypes, FilesFresh, FilesAtWork, Owns
  <2>4. HeldWhileBusy(p)' /\ FilesAtWork(p)'
    BY <1>1, <2>1, SMTT(30) DEF FilesInv, FilesTypes, FilesFresh, HeldWhileBusy, FilesAtWork, Owns,
                      Publishing, Retiring
  <2>5. ASSUME NEW q \in Procs, q # p PROVE HeldWhileBusy(q)' /\ FilesAtWork(q)'
    BY <1>2, <1>3, <2>1, <2>2, <2>5, Zenon DEF FilesInv, FilesTypes
  <2>6. QED
    BY <2>2, <2>3, <2>4, <2>5, Zenon DEF FilesInv
<1>7. ASSUME create_tmp(p) PROVE FilesInv'
  <2>1. /\ nfiles < MaxFiles
        /\ wpc[p] = "mktemp" /\ wpc' = [wpc EXCEPT ![p] = "fill"]
        /\ nfiles' = nfiles + 1 /\ tmps' = tmps \cup {nfiles + 1}
        /\ hdr' = [hdr EXCEPT ![p] = nfiles + 1]
        /\ UNCHANGED <<path, kind, retired, latest, npub, req, old>>
    BY <1>7, Zenon DEF create_tmp
  <2>2. FilesTypes'
    BY <1>1, <2>1, SMTT(30) DEF FilesInv, FilesTypes, Places, FilesFresh
  <2>3. FilesFresh'
    BY <1>1, <2>1, SMTT(30) DEF FilesInv, FilesTypes, FilesFresh, FilesAtWork, Owns
  <2>4. HeldWhileBusy(p)' /\ FilesAtWork(p)'
    BY <1>1, <2>1, SMTT(30) DEF FilesInv, FilesTypes, FilesFresh, HeldWhileBusy, FilesAtWork, Owns,
                      Publishing, Retiring
  <2>5. ASSUME NEW q \in Procs, q # p PROVE HeldWhileBusy(q)' /\ FilesAtWork(q)'
    <3>1. old[q] <= nfiles' /\ old[q] \notin tmps'
      BY <1>3, <2>1, SMTT(30) DEF FilesInv, FilesTypes
    <3>2. QED
      BY <1>2, <2>1, <2>2, <2>5, <3>1, Zenon DEF FilesInv, FilesTypes
  <2>6. QED
    BY <2>2, <2>3, <2>4, <2>5, Zenon DEF FilesInv
<1>8. ASSUME create_fill(p) PROVE FilesInv'
  <2>1. /\ wpc[p] = "fill" /\ wpc' = [wpc EXCEPT ![p] = "rename"]
        /\ kind' = [kind EXCEPT ![hdr[p]] = "ok"]
        /\ UNCHANGED <<path, nfiles, tmps, retired, latest, npub, req, old, hdr>>
    BY <1>8, Zenon DEF create_fill
  <2>2. FilesTypes'
    BY <1>1, <2>1, Zenon DEF FilesInv, FilesTypes, Places, Kinds, FilesFresh
  <2>3. FilesFresh'
    BY <1>1, <2>1, SMTT(30) DEF FilesInv, FilesTypes, FilesFresh, FilesAtWork, Owns
  <2>4. HeldWhileBusy(p)' /\ FilesAtWork(p)'
    BY <1>1, <2>1, Zenon DEF FilesInv, FilesTypes, FilesFresh, HeldWhileBusy, FilesAtWork, Owns,
                      Publishing, Retiring
  <2>5. ASSUME NEW q \in Procs, q # p PROVE HeldWhileBusy(q)' /\ FilesAtWork(q)'
    BY <1>2, <1>3, <2>1, <2>2, <2>5, Zenon DEF FilesInv, FilesTypes
  <2>6. QED
    BY <2>2, <2>3, <2>4, <2>5, Zenon DEF FilesInv
<1>9. ASSUME create_rename(p) PROVE FilesInv'
  <2>1. /\ hdr[p] \in tmps /\ wpc[p] = "rename"
        /\ \/ /\ wpc' = [wpc EXCEPT ![p] = "writing"]
              /\ req' = [req EXCEPT ![p] = None] /\ old' = [old EXCEPT ![p] = NoFile]
           \/ /\ wpc' = [wpc EXCEPT ![p] = "retire"] /\ old[p] # NoFile
              /\ UNCHANGED <<req, old>>
        /\ path' = hdr[p] /\ tmps' = tmps \ {hdr[p]}
        /\ UNCHANGED <<nfiles, kind, retired, latest, npub, hdr>>
    BY <1>9, Zenon DEF create_rename, Opened
  <2>2. FilesTypes'
    <3>1. wpc' \in [Procs -> Places]
      BY <2>1, Zenon DEF FilesInv, FilesTypes, Places
    <3>2. /\ req' = req \/ req' = [req EXCEPT ![p] = None]
          /\ old' = old \/ old' = [old EXCEPT ![p] = 0]
          /\ req \in [Procs -> Geoms \cup {None}] /\ old \in [Procs -> 0 .. MaxFiles]
      BY <2>1, Zenon DEF FilesInv, FilesTypes
    <3>3. req' \in [Procs -> Geoms \cup {None}]
      BY <3>2, Zenon
    <3>4. old' \in [Procs -> 0 .. MaxFiles]
      BY <3>2, SMTT(30)
    <3>5. QED
      BY <2>1, <3>1, <3>3, <3>4, Zenon DEF FilesInv, FilesTypes
  <2>3. FilesFresh'
    BY <1>1, <2>1, ZenonT(30) DEF FilesInv, FilesTypes, FilesFresh, FilesAtWork, Owns
  <2>4. HeldWhileBusy(p)' /\ FilesAtWork(p)'
    BY <1>1, <2>1, SMTT(30) DEF FilesInv, FilesTypes, FilesFresh, HeldWhileBusy, FilesAtWork, Owns,
                      Publishing, Retiring
  <2>5. ASSUME NEW q \in Procs, q # p PROVE HeldWhileBusy(q)' /\ FilesAtWork(q)'
    BY <1>2, <1>3, <2>1, <2>2, <2>5, Zenon DEF FilesInv, FilesTypes
  <2>6. QED
    BY <2>2, <2>3, <2>4, <2>5, Zenon DEF FilesInv
<1>10. ASSUME retire_set(p) PROVE FilesInv'
  <2>1. /\ wpc[p] = "retire" /\ wpc' = [wpc EXCEPT ![p] = "retire_notify"]
        /\ retired' = [retired EXCEPT ![old[p]] = TRUE]
        /\ UNCHANGED <<path, nfiles, tmps, kind, latest, npub, req, old, hdr>>
    BY <1>10, Zenon DEF retire_set
  <2>2. FilesTypes'
    BY <1>1, <2>1, ZenonT(30) DEF FilesInv, FilesTypes, Places, FilesFresh
  <2>3. FilesFresh'
    BY <1>1, <2>1, SMTT(30) DEF FilesInv, FilesTypes, FilesFresh, FilesAtWork, Owns
  <2>4. HeldWhileBusy(p)' /\ FilesAtWork(p)'
    BY <1>1, <2>1, SMTT(30) DEF FilesInv, FilesTypes, FilesFresh, HeldWhileBusy, FilesAtWork, Owns,
                      Publishing, Retiring
  <2>5. ASSUME NEW q \in Procs, q # p PROVE HeldWhileBusy(q)' /\ FilesAtWork(q)'
    BY <1>2, <1>3, <2>1, <2>2, <2>5, Zenon DEF FilesInv, FilesTypes
  <2>6. QED
    BY <2>2, <2>3, <2>4, <2>5, Zenon DEF FilesInv
<1>11. ASSUME retire_notify(p) PROVE FilesInv'
  <2>1. /\ wpc[p] = "retire_notify" /\ wpc' = [wpc EXCEPT ![p] = "retire_wake"]
        /\ UNCHANGED <<path, nfiles, tmps, kind, retired, latest, npub, req, old, hdr>>
    BY <1>11, Zenon DEF retire_notify
  <2>2. FilesTypes'
    BY <1>1, <2>1, Zenon DEF FilesInv, FilesTypes, Places, FilesFresh
  <2>3. FilesFresh'
    BY <1>1, <2>1, Zenon DEF FilesInv, FilesTypes, FilesFresh, FilesAtWork, Owns
  <2>4. HeldWhileBusy(p)' /\ FilesAtWork(p)'
    BY <1>1, <2>1, Zenon DEF FilesInv, FilesTypes, FilesFresh, HeldWhileBusy, FilesAtWork, Owns,
                      Publishing, Retiring
  <2>5. ASSUME NEW q \in Procs, q # p PROVE HeldWhileBusy(q)' /\ FilesAtWork(q)'
    BY <1>2, <1>3, <2>1, <2>2, <2>5, Zenon DEF FilesInv, FilesTypes
  <2>6. QED
    BY <2>2, <2>3, <2>4, <2>5, Zenon DEF FilesInv
<1>12. ASSUME retire_wake(p) PROVE FilesInv'
  <2>1. /\ wpc[p] = "retire_wake"
        /\ \/ /\ wpc' = [wpc EXCEPT ![p] = "writing"] /\ req[p] # None
              /\ req' = [req EXCEPT ![p] = None] /\ old' = [old EXCEPT ![p] = NoFile]
           \/ wpc' = [wpc EXCEPT ![p] = "unlink_lock"] /\ UNCHANGED <<req, old>>
        /\ UNCHANGED <<path, nfiles, tmps, kind, retired, latest, npub, hdr>>
    BY <1>12, Zenon DEF retire_wake, Opened
  <2>2. FilesTypes'
    <3>1. wpc' \in [Procs -> Places]
      BY <2>1, ZenonT(30) DEF FilesInv, FilesTypes, Places
    <3>2. /\ req' = req \/ req' = [req EXCEPT ![p] = None]
          /\ old' = old \/ old' = [old EXCEPT ![p] = 0]
          /\ req \in [Procs -> Geoms \cup {None}] /\ old \in [Procs -> 0 .. MaxFiles]
      BY <2>1, Zenon DEF FilesInv, FilesTypes
    <3>3. req' \in [Procs -> Geoms \cup {None}]
      BY <3>2, Zenon
    <3>4. old' \in [Procs -> 0 .. MaxFiles]
      BY <3>2, SMTT(30)
    <3>5. QED
      BY <2>1, <3>1, <3>3, <3>4, Zenon DEF FilesInv, FilesTypes
  <2>3. FilesFresh'
    BY <1>1, <2>1, Zenon DEF FilesInv, FilesTypes, FilesFresh, FilesAtWork, Owns
  <2>4. HeldWhileBusy(p)' /\ FilesAtWork(p)'
    BY <1>1, <2>1, SMTT(30) DEF FilesInv, FilesTypes, FilesFresh, HeldWhileBusy, FilesAtWork, Owns,
                      Publishing, Retiring
  <2>5. ASSUME NEW q \in Procs, q # p PROVE HeldWhileBusy(q)' /\ FilesAtWork(q)'
    BY <1>2, <1>3, <2>1, <2>2, <2>5, Zenon DEF FilesInv, FilesTypes
  <2>6. QED
    BY <2>2, <2>3, <2>4, <2>5, Zenon DEF FilesInv
<1>13. ASSUME publish(p) PROVE FilesInv'
  <2>1. /\ Publishing(p) /\ (\E to \in {"writing", "notify"} : wpc' = [wpc EXCEPT ![p] = to])
        /\ npub' = npub + 1 /\ latest' = [latest EXCEPT ![hdr[p]] = npub + 1]
        /\ UNCHANGED <<path, nfiles, tmps, kind, retired, req, old, hdr>>
    BY <1>13, Zenon DEF publish, Publishing
  <2>2. FilesTypes'
    <3>1. wpc' \in [Procs -> Places]
      BY <2>1, Zenon DEF FilesInv, FilesTypes, Places
    <3>2. npub' \in Nat /\ npub + 1 \in Nat /\ latest \in [Files -> Nat]
      BY <2>1, SMTT(30) DEF FilesInv, FilesTypes
    <3>3. latest' \in [Files -> Nat]
      BY <2>1, <3>2, ZenonT(30)
    <3>4. QED
      BY <2>1, <3>1, <3>2, <3>3, Zenon DEF FilesInv, FilesTypes
  <2>3. FilesFresh'
    BY <1>1, <2>1, SMTT(30) DEF FilesInv, FilesTypes, FilesFresh, FilesAtWork, Owns
  <2>4. HeldWhileBusy(p)' /\ FilesAtWork(p)'
    BY <1>1, <2>1, Zenon DEF FilesInv, FilesTypes, FilesFresh, HeldWhileBusy, FilesAtWork, Owns,
                      Publishing, Retiring
  <2>5. ASSUME NEW q \in Procs, q # p PROVE HeldWhileBusy(q)' /\ FilesAtWork(q)'
    BY <1>2, <1>3, <2>1, <2>2, <2>5, Zenon DEF FilesInv, FilesTypes
  <2>6. QED
    BY <2>2, <2>3, <2>4, <2>5, Zenon DEF FilesInv
<1>14. ASSUME publish_notify(p) \/ publish_wake(p) PROVE FilesInv'
  <2>1. /\ Publishing(p) /\ (\E to \in {"wake", "writing"} : wpc' = [wpc EXCEPT ![p] = to])
        /\ UNCHANGED <<path, nfiles, tmps, kind, retired, latest, npub, req, old, hdr>>
    BY <1>14, Zenon DEF publish_notify, publish_wake, Publishing
  <2>2. FilesTypes'
    BY <1>1, <2>1, Zenon DEF FilesInv, FilesTypes, Places, FilesFresh
  <2>3. FilesFresh'
    BY <1>1, <2>1, Zenon DEF FilesInv, FilesTypes, FilesFresh, FilesAtWork, Owns
  <2>4. HeldWhileBusy(p)' /\ FilesAtWork(p)'
    BY <1>1, <2>1, Zenon DEF FilesInv, FilesTypes, FilesFresh, HeldWhileBusy, FilesAtWork, Owns,
                      Publishing, Retiring
  <2>5. ASSUME NEW q \in Procs, q # p PROVE HeldWhileBusy(q)' /\ FilesAtWork(q)'
    BY <1>2, <1>3, <2>1, <2>2, <2>5, Zenon DEF FilesInv, FilesTypes
  <2>6. QED
    BY <2>2, <2>3, <2>4, <2>5, Zenon DEF FilesInv
<1>15. ASSUME unlink_open(p) PROVE FilesInv'
  <2>1. PICK f \in {path, NoFile} :
          /\ wpc[p] = "unlink_open"
          /\ \E to \in {"unlink_data", "unlink_lock"} : wpc' = [wpc EXCEPT ![p] = to]
          /\ old' = [old EXCEPT ![p] = f]
          /\ UNCHANGED <<path, nfiles, tmps, kind, retired, latest, npub, req, hdr>>
    BY <1>15, Zenon DEF unlink_open
  <2>2. FilesTypes'
    BY <1>1, <2>1, SMTT(30) DEF FilesInv, FilesTypes, Places, FilesFresh
  <2>3. FilesFresh'
    BY <1>1, <2>1, Zenon DEF FilesInv, FilesTypes, FilesFresh, FilesAtWork, Owns
  <2>4. HeldWhileBusy(p)' /\ FilesAtWork(p)'
    BY <1>1, <2>1, SMTT(30) DEF FilesInv, FilesTypes, FilesFresh, HeldWhileBusy, FilesAtWork, Owns,
                      Publishing, Retiring
  <2>5. ASSUME NEW q \in Procs, q # p PROVE HeldWhileBusy(q)' /\ FilesAtWork(q)'
    BY <1>2, <1>3, <2>1, <2>2, <2>5, Zenon DEF FilesInv, FilesTypes
  <2>6. QED
    BY <2>2, <2>3, <2>4, <2>5, Zenon DEF FilesInv
<1>16. ASSUME unlink_data(p) PROVE FilesInv'
  <2>1. /\ wpc[p] = "unlink_data"
        /\ \/ wpc' = [wpc EXCEPT ![p] = "unlink_lock"]
           \/ wpc' = [wpc EXCEPT ![p] = "retire"] /\ old[p] # NoFile
        /\ path' = NoFile
        /\ UNCHANGED <<nfiles, tmps, kind, retired, latest, npub, req, old, hdr>>
    BY <1>16, Zenon DEF unlink_data
  <2>2. FilesTypes'
    BY <1>1, <2>1, SMTT(30) DEF FilesInv, FilesTypes, Places, FilesFresh
  <2>3. FilesFresh'
    BY <1>1, <2>1, SMTT(30) DEF FilesInv, FilesTypes, FilesFresh, FilesAtWork, Owns
  <2>4. HeldWhileBusy(p)' /\ FilesAtWork(p)'
    BY <1>1, <2>1, SMTT(30) DEF FilesInv, FilesTypes, FilesFresh, HeldWhileBusy, FilesAtWork, Owns,
                      Publishing, Retiring
  <2>5. ASSUME NEW q \in Procs, q # p PROVE HeldWhileBusy(q)' /\ FilesAtWork(q)'
    BY <1>2, <1>3, <2>1, <2>2, <2>5, Zenon DEF FilesInv, FilesTypes
  <2>6. QED
    BY <2>2, <2>3, <2>4, <2>5, Zenon DEF FilesInv
<1>17. QED
  BY <1>4, <1>5, <1>6, <1>7, <1>8, <1>9, <1>10, <1>11, <1>12, <1>13, <1>14, <1>15, <1>16, Zenon

\* Readers change no file, and rm only the path.
LEMMA ReaderKeepsFiles ==
  ASSUME NEW r \in Readers, Reader(r)
  PROVE  UNCHANGED <<fileVars, retired, latest, gen, notify, procVars, npub, replaced, used,
                   lpc>>
<1>1. ASSUME \/ reader_close(r) \/ (\E o \in Calls : call(r, o)) \/ writer_alive(r)
             \/ \E last \in used \cup {Random}, t \in Timed : state_wait(r, last, t)
      PROVE  UNCHANGED <<filesVars, lpc>>
  BY <1>1, Zenon DEF reader_close, call, writer_alive, state_wait, alive_start, lockVars, holderVars
<1>2. ASSUME \/ reader_sync(r) \/ attach(r) \/ attach_check(r) \/ identity_check(r)
             \/ attach_error(r) \/ read_start(r) \/ read_busy(r) \/ state_read(r)
             \/ state_describe(r) \/ writer_alive_open(r) \/ writer_alive_getlk(r)
             \/ call_error(r)
      PROVE  UNCHANGED <<filesVars, lpc>>
  BY <1>2, Zenon DEF reader_sync, attach, attach_check, identity_check, attach_error, read_start,
              read_busy, state_read, state_describe, writer_alive_open, writer_alive_getlk,
              call_error, alive_open, alive_getlk, alive_error, lockVars, holderVars
<1>3. ASSUME \/ wait_poll(r) \/ wait_refuse(r) \/ wait_load(r) \/ wait_retired(r)
             \/ wait_peek(r) \/ wait_woken(r) \/ wait_timeout(r)
      PROVE  UNCHANGED <<filesVars, lpc>>
  BY <1>3, Zenon DEF wait_poll, wait_refuse, wait_load, wait_retired, wait_peek, wait_woken,
              wait_timeout, lockVars, holderVars
<1>4. ASSUME futex_wait(r) \/ wait_slice(r) \/ wait_interrupted(r)
      PROVE  UNCHANGED <<fileVars, retired, latest, gen, notify, procVars, npub, replaced, used,
                   lpc>>
  BY <1>4, Zenon DEF futex_wait, wait_slice, wait_interrupted, lockVars, holderVars
<1>5. QED
  BY <1>1, <1>2, <1>3, <1>4, Zenon DEF Reader, Begin, Run, filesVars, stateVars

\* Every step of the channel keeps the invariant of the files.
LEMMA FilesNextInv == FilesInv /\ LockTypeOK /\ OneHolder /\ [Next]_vars => FilesInv'
<1> SUFFICES ASSUME FilesInv, LockTypeOK, OneHolder, [Next]_vars PROVE FilesInv'
  BY Zenon
<1>1. ASSUME NEW p \in Procs, WriterStep(p) PROVE FilesInv'
  BY <1>1, FilesLockStep, FilesWorkStep, Zenon DEF WriterStep, Writer
<1>2. ASSUME rm_data PROVE FilesInv'
  <2>1. /\ Rm /\ path' = NoFile
        /\ UNCHANGED <<tmps, nfiles, kind, retired, latest, npub, wpc, req, old, hdr, lpc>>
    BY <1>2, Zenon DEF rm_data, stateVars, procVars, lockVars, holderVars
  <2>2. FilesTypes' /\ FilesFresh'
    BY <2>1, FilesAssumption, SMTT(30) DEF FilesInv, FilesTypes, FilesFresh, Files, NoFile
  <2>3. ASSUME NEW p \in Procs PROVE HeldWhileBusy(p)' /\ FilesAtWork(p)'
    BY <2>1, Zenon DEF FilesInv, HeldWhileBusy, FilesAtWork, Owns, Publishing, Retiring
  <2>4. QED
    BY <2>2, <2>3, Zenon DEF FilesInv
<1>3. ASSUME UNCHANGED <<fileVars, retired, latest, gen, notify, procVars, npub, replaced, used,
                   lpc>>
      PROVE  FilesInv'
  BY <1>3, ZenonT(30)
  DEF fileVars, procVars, FilesInv, FilesTypes, FilesFresh, HeldWhileBusy, FilesAtWork,
              Owns, Publishing, Retiring
<1>4. ASSUME UNCHANGED vars PROVE FilesInv'
  BY <1>3, <1>4, Zenon DEF vars, filesVars, stateVars, lockVars, holderVars
<1>5. QED
  BY <1>1, <1>2, <1>3, <1>4, ReaderKeepsFiles, Zenon DEF Next

\* The invariant of the files holds throughout.
THEOREM FilesInvariance == Spec => []FilesInv
<1>1. QED
  BY FilesInitInv, FilesNextInv, ChannelIsLock, LockTypes, MutualExclusion, PTL DEF Spec

\* No writer_open or unlink takes the file of a writer away or retires it, with
\* any number of processes that die, fail or are restarted.
THEOREM WritersKeepTheirFiles == Spec => []WriterKeepsFile
<1>1. FilesInv => WriterKeepsFile
  BY Zenon DEF FilesInv, FilesAtWork, WriterKeepsFile, Owns
<1>2. QED
  BY <1>1, FilesInvariance, PTL

\* The file at the data path is always initialized, and no sweep removes the
\* temporary file of a running create_file.
THEOREM CreationIsAtomic == Spec => []CreateIsAtomic
<1>1. FilesInv => CreateIsAtomic
  BY Zenon DEF FilesInv, FilesFresh, FilesAtWork, CreateIsAtomic
<1>2. QED
  BY <1>1, FilesInvariance, PTL

-----------------------------------------------------------------------------
(* The generations. *)

\* The channel starts with at most one generation.
LEMMA GenInitInv == Init => GenInv
<1> SUFFICES ASSUME Init PROVE GenInv
  BY Zenon
<1> USE FilesAssumption DEF Files, NoFile
<1>1. /\ path \in {0, 1} /\ npub = path /\ path \in 0 .. MaxFiles
      /\ gen = [f \in Files |-> IF f = path THEN <<1, 0>> ELSE Random]
      /\ wgen = [p \in Procs |-> Random] /\ wpc = [p \in Procs |-> "none"]
      /\ used = {gen[f] : f \in Files} \ {Random}
  BY SMTT(30) DEF Init, FilesInit
<1>2. /\ gen \in [Files -> Nat \X Nat] /\ wgen \in [Procs -> Nat \X Nat]
  BY <1>1, Zenon DEF Random
<1>3. ASSUME NEW u \in used PROVE u = <<1, 0>> /\ path = 1
  BY <1>1, <1>3, SMTT(30)
<1>4. ASSUME path # NoFile PROVE Ahead(NextGen(path))
  <2>1. gen[path] = <<1, 0>> /\ path = 1
    BY <1>1, <1>4, SMTT(30)
  <2>2. QED
    BY <1>1, <1>3, <2>1, SMTT(30) DEF Ahead, NextGen
<1>5. QED
  BY <1>1, <1>2, <1>3, <1>4, SMTT(30) DEF GenInv, Creating, Owns, Publishing, Retiring

\* A step that publishes nothing, and whose new writer continues the chain of
\* the file at the path or starts a new one, keeps the invariant.
LEMMA GenFrame ==
  ASSUME GenInv, FilesInv,
         UNCHANGED <<gen, used, npub, latest>>,
         path' = path \/ path' = NoFile \/ latest[path'] = 0,
         wgen' \in [Procs -> Nat \X Nat],
         \A q \in Procs : (Creating(q) \/ Owns(q))' =>
           \/ (Creating(q) \/ Owns(q)) /\ wgen'[q] = wgen[q]
           \/ wgen'[q] = Random
           \/ path # NoFile /\ latest[path] # 0 /\ wgen'[q] = NextGen(path)
  PROVE  GenInv'
<1>1. \A g : Ahead(g)' <=> Ahead(g)
  BY Zenon DEF Ahead
<1>2. ASSUME (path # NoFile /\ latest[path] # 0)' PROVE Ahead(NextGen(path))'
  <2>1. path' = path /\ Ahead(NextGen(path)) /\ NextGen(path)' = NextGen(path)
    BY <1>2, Zenon DEF GenInv, NextGen
  <2>2. QED
    BY <2>1, Zenon DEF Ahead
<1>3. ASSUME NEW q \in Procs, (Creating(q) \/ Owns(q))'
      PROVE  (wgen[q] = Random \/ Ahead(wgen[q]))'
  <2>1. wgen'[q] = Random \/ Ahead(wgen'[q])
    BY <1>3, Zenon DEF GenInv
  <2>2. QED
    BY <2>1, Zenon DEF Ahead, Random
<1>4. QED
  BY <1>2, <1>3, Zenon DEF GenInv

\* publish: the new generation is ahead of its chain, or starts one.
LEMMA GenPublish ==
  ASSUME GenInv, FilesInv, OneHolder, NEW p \in Procs, publish(p)
  PROVE  GenInv' /\ used' # used
<1> DEFINE g == IF wgen[p] = Random THEN <<npub + 1, 0>> ELSE wgen[p]
<1> USE DEF Files, NoFile
<1>1. /\ Publishing(p)
      /\ npub' = npub + 1
      /\ gen' = [gen EXCEPT ![hdr[p]] = g]
      /\ used' = used \cup {g}
      /\ wgen' = [wgen EXCEPT ![p] = <<g[1], g[2] + 1>>]
      /\ path' = path
      /\ \A q \in Procs : q # p => wpc'[q] = wpc[q]
  BY ZenonT(30) DEF publish, Publishing, Step, fileVars, FilesInv, FilesTypes
<1>2. /\ hdr[p] \in Files /\ (path = hdr[p] \/ path = NoFile) /\ lpc[p] = "in"
      /\ npub \in Nat
  BY <1>1, SMTT(30) DEF FilesInv, FilesTypes, FilesAtWork, HeldWhileBusy, Owns, Publishing
<1>3. ASSUME NEW q \in Procs, q # p PROVE ~(Creating(q) \/ Owns(q))'
  <2>1. wpc[q] \in {"none", "stale", "unlinked"}
    BY <1>2, <1>3, Alone, Zenon
  <2>2. QED
    BY <1>1, <1>3, <2>1, Zenon DEF Creating, Owns, Publishing, Retiring
<1>4. g \in Nat \X Nat /\ g[1] <= npub + 1 /\ \A u \in used : u[1] = g[1] => u[2] < g[2]
  <2>1. CASE wgen[p] = Random
    <3>1. g = <<npub + 1, 0>>
      BY <2>1, Zenon
    <3>2. \A u \in used : u[1] \in Nat /\ u[1] <= npub
      BY Zenon DEF GenInv
    <3>3. QED
      BY <1>2, <3>1, <3>2, SMTT(30)
  <2>2. CASE wgen[p] # Random
    <3>1. g = wgen[p]
      BY <2>2, Zenon
    <3>2. wgen[p] \in Nat \X Nat /\ Ahead(wgen[p])
      BY <1>1, <2>2, Zenon DEF GenInv, Owns
    <3>3. QED
      BY <1>2, <3>1, <3>2, SMTT(30) DEF Ahead
  <2>3. QED
    BY <2>1, <2>2, ZenonT(30)
<1> HIDE DEF g
<1>5. g[1] \in Nat /\ g[2] \in Nat /\ <<g[1], g[2] + 1>> \in Nat \X Nat
  BY <1>4, SMTT(30)
<1>6. g \notin used
  BY <1>4, <1>5, SMTT(30)
<1>7. /\ gen' \in [Files -> Nat \X Nat] /\ wgen' \in [Procs -> Nat \X Nat]
      /\ used' \subseteq Nat \X Nat
  BY <1>1, <1>4, <1>5, Zenon DEF GenInv
<1>8. \A u \in used' : u[1] <= npub'
  BY <1>1, <1>2, <1>4, <1>5, SMTT(30) DEF GenInv
<1>9. \A x : x = <<g[1], g[2] + 1>> => Ahead(x)'
  <2>1. \A u \in used' : u[1] = g[1] => u[2] < g[2] + 1
    BY <1>1, <1>4, <1>5, SMTT(30) DEF GenInv
  <2>2. QED
    BY <1>1, <1>4, <1>5, <2>1, SMTT(30) DEF Ahead
<1>10. (path # NoFile) => NextGen(path)' = <<g[1], g[2] + 1>>
  BY <1>1, <1>2, Zenon DEF NextGen, GenInv
<1>11. wgen'[p] = <<g[1], g[2] + 1>>
  BY <1>1, Zenon DEF GenInv
<1>12. (path # NoFile)' => Ahead(NextGen(path))'
  BY <1>1, <1>9, <1>10, Zenon DEF Ahead
<1>13. Ahead(wgen[p])'
  BY <1>9, <1>11, Zenon DEF Ahead
<1>14. QED
  BY <1>1, <1>3, <1>6, <1>7, <1>8, <1>12, <1>13, Zenon DEF GenInv

\* The other steps of the writer publish nothing, and take their generation
\* from the file at the path.
LEMMA GenWriterStep ==
  ASSUME GenInv, FilesInv, OneHolder, NEW p \in Procs, Writer(p), ~publish(p)
  PROVE  GenInv' /\ UNCHANGED npub
<1> USE DEF fileVars, stateVars, procVars, Step, NoFile
<1>1. wgen \in [Procs -> Nat \X Nat] /\ FilesTypes /\ HeldWhileBusy(p) /\ FilesAtWork(p)
  BY Zenon DEF GenInv, FilesInv
<1>2. ASSUME UNCHANGED <<gen, used, npub, latest, wgen>>,
             path' = path \/ path' = NoFile \/ latest[path'] = 0,
             (Creating(p) \/ Owns(p))' => Creating(p) \/ Owns(p),
             \A q \in Procs : q # p => UNCHANGED <<wpc[q], req[q]>>
      PROVE  GenInv'
  <2>1. ASSUME NEW q \in Procs, (Creating(q) \/ Owns(q))' PROVE Creating(q) \/ Owns(q)
    BY <1>2, <2>1, Zenon DEF Creating, Owns, Publishing, Retiring
  <2>2. QED
    BY <1>1, <1>2, <2>1, GenFrame, Zenon
<1>3. ASSUME Forget(p), UNCHANGED <<gen, used, npub, latest, path>> PROVE GenInv'
  <2>1. wgen' \in [Procs -> Nat \X Nat]
    BY <1>1, <1>3, Zenon DEF Forget, Random
  <2>2. ASSUME NEW q \in Procs, (Creating(q) \/ Owns(q))'
        PROVE  (Creating(q) \/ Owns(q)) /\ wgen'[q] = wgen[q]
    BY <1>1, <1>3, <2>2, Zenon DEF Forget, FilesTypes, Creating, Owns, Publishing, Retiring
  <2>3. QED
    BY <1>3, <2>1, <2>2, GenFrame, Zenon
<1>4. ASSUME (\E g \in Geoms, re \in BOOLEAN : writer_open(p, g, re)) \/ unlink(p)
      PROVE  GenInv' /\ UNCHANGED npub
  BY <1>1, <1>2, <1>4, Zenon
  DEF writer_open, unlink, FilesTypes, Creating, Owns, Publishing, Retiring
<1>5. ASSUME locking(p) PROVE GenInv' /\ UNCHANGED npub
  BY <1>2, <1>3, <1>5, Zenon DEF locking, Creating, Owns, Publishing, Retiring
<1>6. ASSUME finish(p) \/ crash(p) \/ open_refused(p) \/ sys_error(p)
      PROVE  GenInv' /\ UNCHANGED npub
  BY <1>3, <1>6, Zenon DEF finish, crash, open_refused, sys_error
<1>7. ASSUME remove_stale_tmp(p) \/ create_tmp(p) \/ create_fill(p)
      PROVE  GenInv' /\ UNCHANGED npub
  BY <1>1, <1>2, <1>7, Zenon
  DEF remove_stale_tmp, create_tmp, create_fill, FilesTypes, Creating, Owns, Publishing, Retiring
<1>8. ASSUME retire_set(p) \/ retire_notify(p) \/ publish_notify(p) \/ publish_wake(p)
      PROVE  GenInv' /\ UNCHANGED npub
  BY <1>1, <1>2, <1>8, Zenon
  DEF retire_set, retire_notify, publish_notify, publish_wake, FilesTypes, Creating, Owns,
      Publishing, Retiring
<1>9. ASSUME retire_wake(p) PROVE GenInv' /\ UNCHANGED npub
  BY <1>1, <1>2, <1>9, Zenon
  DEF retire_wake, Opened, FilesTypes, Creating, Owns, Publishing, Retiring
<1>10. ASSUME unlink_open(p) \/ unlink_data(p) \/ unlink_lockfile(p)
       PROVE  GenInv' /\ UNCHANGED npub
  BY <1>1, <1>2, <1>10, Zenon
  DEF unlink_open, unlink_data, unlink_lockfile, FilesTypes, FilesAtWork, Creating, Owns,
      Publishing, Retiring
<1>11. ASSUME create_rename(p) PROVE GenInv' /\ UNCHANGED npub
  <2>1. latest[hdr[p]] = 0
    BY <1>1, <1>11, Zenon DEF create_rename, FilesInv, FilesTypes, FilesFresh, Files
  <2>2. QED
    BY <1>1, <1>2, <1>11, <2>1, Zenon
    DEF create_rename, Opened, FilesTypes, Creating, Owns, Publishing, Retiring
<1>12. ASSUME open_reuse(p) \/ open_create(p) PROVE GenInv' /\ UNCHANGED npub
  <2>1. PICK g : /\ g = Random \/ (path # NoFile /\ latest[path] # 0 /\ g = NextGen(path))
                 /\ wgen' = [wgen EXCEPT ![p] = g]
    BY <1>12, Zenon DEF open_reuse, open_create, carried_generation, NextGen
  <2>2. /\ UNCHANGED <<gen, used, npub, latest, path>>
        /\ \A q \in Procs : q # p => UNCHANGED <<wpc[q], req[q]>>
    BY <1>1, <1>12, Zenon DEF open_reuse, open_create, Opened, FilesTypes
  <2>3. g \in Nat \X Nat
    <3>1. path # NoFile => gen[path] \in Nat \X Nat
      BY <1>1, SMTT(30) DEF GenInv, FilesTypes, Files
    <3>2. QED
      BY <2>1, <3>1, SMTT(30) DEF NextGen, Random
  <2>4. wgen' \in [Procs -> Nat \X Nat] /\ wgen'[p] = g
    BY <1>1, <2>1, <2>3, Zenon
  <2>5. ASSUME NEW q \in Procs, q # p, (Creating(q) \/ Owns(q))'
        PROVE  (Creating(q) \/ Owns(q)) /\ wgen'[q] = wgen[q]
    BY <1>1, <2>1, <2>2, <2>5, Zenon DEF Creating, Owns, Publishing, Retiring
  <2>6. QED
    BY <2>1, <2>2, <2>4, <2>5, GenFrame, Zenon
<1>13. QED
  BY <1>4, <1>5, <1>6, <1>7, <1>8, <1>9, <1>10, <1>11, <1>12, Zenon DEF Writer

\* Every step of the channel keeps the invariant of the generations, and a
\* publish adds a new one.
LEMMA GenNextInv ==
  GenInv /\ FilesInv /\ OneHolder /\ [Next]_vars => GenInv' /\ (npub' # npub => used' # used)
<1> SUFFICES ASSUME GenInv, FilesInv, OneHolder, [Next]_vars
             PROVE  GenInv' /\ (npub' # npub => used' # used)
  BY Zenon
<1>1. ASSUME NEW p \in Procs, WriterStep(p) PROVE GenInv' /\ (npub' # npub => used' # used)
  BY <1>1, GenPublish, GenWriterStep, Zenon DEF WriterStep
<1>2. ASSUME UNCHANGED <<gen, used, npub, latest, wgen, wpc, req>>, path' = path \/ path' = NoFile
      PROVE  GenInv'
  <2>1. ASSUME NEW q \in Procs, (Creating(q) \/ Owns(q))' PROVE Creating(q) \/ Owns(q)
    BY <1>2, <2>1, Zenon DEF Creating, Owns, Publishing, Retiring
  <2>2. wgen' \in [Procs -> Nat \X Nat]
    BY <1>2, Zenon DEF GenInv
  <2>3. QED
    BY <1>2, <2>1, <2>2, GenFrame, Zenon
<1>3. ASSUME rm_data PROVE GenInv' /\ UNCHANGED npub
  BY <1>2, <1>3, Zenon DEF rm_data, stateVars, procVars
<1>4. ASSUME NEW r \in Readers, Reader(r) PROVE GenInv' /\ UNCHANGED npub
  BY <1>2, <1>4, ReaderKeepsFiles, Zenon DEF fileVars, procVars
<1>5. ASSUME UNCHANGED vars PROVE GenInv' /\ UNCHANGED npub
  BY <1>2, <1>5, Zenon DEF vars, filesVars, fileVars, stateVars, procVars
<1>6. QED
  BY <1>1, <1>3, <1>4, <1>5, Zenon DEF Next

\* The invariant of the generations holds throughout.
LEMMA GenInvariance == Spec => []GenInv
<1>1. GenInv /\ FilesInv /\ OneHolder /\ [Next]_vars => GenInv'
  BY GenNextInv, Zenon
<1>2. QED
  BY <1>1, GenInitInv, FilesInvariance, OneWriter, PTL DEF Spec

\* Every published value has a generation of its own, across any number of
\* writers, crashes, failures, replacements and removals of the file.
THEOREM GenerationsNeverRepeat == Spec => GenerationsDiffer
<1>1. GenInv /\ FilesInv /\ OneHolder /\ [Next]_vars => [npub' # npub => used' # used]_vars
  BY GenNextInv, Zenon
<1>2. QED
  BY <1>1, GenInvariance, FilesInvariance, OneWriter, PTL DEF Spec, GenerationsDiffer

-----------------------------------------------------------------------------
(* What reads return. *)

\* Files are used one after the other: nothing was published in a file that is
\* newer than the one at the path, or than the one of the writer, and values
\* grow with the files they are in.
OrderInv ==
  /\ \A f \in Files : latest[f] <= npub
  /\ \A f, g \in Files : f < g /\ latest[g] # 0 => latest[f] <= latest[g]
  /\ path # NoFile => \A g \in Files : path < g => latest[g] = 0
  /\ \A p \in Procs : Owns(p) => \A g \in Files : hdr[p] < g => latest[g] = 0
  /\ \A p \in Procs : wpc[p] \in {"fill", "rename"} => hdr[p] = nfiles

ReaderPlaces == {"idle", "sync", "attach", "attached", "identity", "synced", "reading", "getlk",
                 "retired", "peek", "futex", "sleep"}
Codes == {"OK", "NODATA", "FORMAT", "SYS", "BUSY", "NOTSUP", "TIMEOUT", "INTR"}

ReadTypes ==
  /\ rpc \in [Readers -> ReaderPlaces]
  /\ rop \in [Readers -> {"none", "read", "describe", "wait", "alive"}]
  /\ rc \in [Readers -> Codes]
  /\ rhdr \in [Readers -> 0 .. MaxFiles] /\ announce \in [Readers -> BOOLEAN]
  /\ got \in [Readers -> [value : Nat, generation : Nat \X Nat, file : 0 .. MaxFiles,
                          attached : BOOLEAN]]

\* A reader is at place pl in call o, reader_sync returned c, and f is mapped.
PlaceOK(pl, o, c, f) ==
  /\ o = "none" => pl = "idle"
  /\ pl = "reading" => o = "read"
  /\ pl = "getlk" => o = "alive"
  /\ pl \in {"retired", "peek", "futex", "sleep"} => o = "wait"
  /\ pl = "attach" => f = NoFile
  /\ pl \in {"reading", "retired", "peek", "futex", "sleep"} => f # NoFile
  /\ pl = "synced" /\ c = "OK" => f # NoFile

\* File f has, or had, its place at the path, and none before it has it now.
Known(f) == f <= nfiles /\ f \notin tmps /\ (path # NoFile => f <= path)

\* A handle that has f mapped and is to announce it if a, has handed out x: it
\* only goes on to newer files, and has to announce f unless x is from f.  It
\* lets go of a file only if that is retired, or no longer at the path.
SeenOK(pl, f, a, x) ==
  /\ Known(f) /\ Known(x.file)
  /\ x.file = NoFile => x.value = 0
  /\ x.file # NoFile => x.value <= latest[x.file]
  /\ f # NoFile => x.file <= f
  /\ f # NoFile /\ pl # "attached" => (a <=> f # x.file)
  /\ pl = "attached" => f # NoFile /\ a /\ (f = x.file => retired[f])
  /\ f = NoFile /\ x.file # NoFile => retired[x.file] \/ path # x.file

\* The inductive invariant of reading.
ReadInv ==
  /\ OrderInv /\ ReadTypes
  /\ \A r \in Readers : /\ PlaceOK(rpc[r], rop[r], rc[r], rhdr[r])
                        /\ SeenOK(rpc[r], rhdr[r], announce[r], got[r])

-----------------------------------------------------------------------------

\* Only the first file can have a value at first.
LEMMA OrderInitInv == Init => OrderInv
<1> SUFFICES ASSUME Init PROVE OrderInv
  BY Zenon
<1>1. /\ path \in {0, 1} /\ npub = path
      /\ latest = [f \in Files |-> IF f = path THEN 1 ELSE 0]
      /\ wpc = [p \in Procs |-> "none"]
  BY Zenon DEF Init, FilesInit, NoFile
<1>2. \A f \in Files : f \in Nat /\ f >= 1
  BY FilesAssumption DEF Files
<1>3. \A p \in Procs : ~Owns(p) /\ wpc[p] \notin {"fill", "rename"}
  BY <1>1 DEF Owns, Publishing, Retiring
<1>4. /\ \A f \in Files : latest[f] <= npub
      /\ \A f, g \in Files : f < g /\ latest[g] # 0 => latest[f] <= latest[g]
      /\ path # NoFile => \A g \in Files : path < g => latest[g] = 0
  BY <1>1, <1>2 DEF NoFile
<1>5. QED
  BY <1>3, <1>4, Zenon DEF OrderInv

\* A step that publishes nothing and puts no file at the path keeps the order
\* of the files.
LEMMA OrderFrame ==
  ASSUME OrderInv, UNCHANGED <<latest, npub, nfiles>>, path' = path \/ path' = NoFile,
         \A q \in Procs : Owns(q)' => \/ Owns(q) /\ hdr'[q] = hdr[q]
                                      \/ path # NoFile /\ hdr'[q] = path,
         \A q \in Procs : wpc'[q] \in {"fill", "rename"} =>
                            wpc[q] \in {"fill", "rename"} /\ hdr'[q] = hdr[q]
  PROVE  OrderInv'
<1>1. ASSUME NEW q \in Procs, Owns(q)', NEW g \in Files, hdr'[q] < g PROVE latest'[g] = 0
  BY <1>1, Zenon DEF OrderInv
<1>2. ASSUME NEW q \in Procs, wpc'[q] \in {"fill", "rename"} PROVE hdr'[q] = nfiles'
  BY <1>2, Zenon DEF OrderInv
<1>3. /\ \A f \in Files : latest'[f] <= npub'
      /\ \A f, g \in Files : f < g /\ latest'[g] # 0 => latest'[f] <= latest'[g]
  BY Zenon DEF OrderInv
<1>4. path' # NoFile => \A g \in Files : path' < g => latest'[g] = 0
  BY Zenon DEF OrderInv
<1>5. QED
  BY <1>1, <1>2, <1>3, <1>4, Zenon DEF OrderInv

\* Every step of a writer keeps the order of the files: only the holder of the
\* lock publishes, in the newest file that was ever at the path.
LEMMA OrderWriterStep ==
  ASSUME OrderInv, FilesInv, FilesInv', OneHolder, NEW p \in Procs, Writer(p)
  PROVE  OrderInv'
<1> USE DEF fileVars, stateVars, procVars, Step, NoFile
<1>1. /\ FilesTypes /\ FilesTypes' /\ HeldWhileBusy(p) /\ FilesAtWork(p)
  BY Zenon DEF FilesInv
<1>2. ASSUME UNCHANGED <<latest, npub, nfiles>>, path' = path \/ path' = NoFile,
             \A q \in Procs : q # p => UNCHANGED <<wpc[q], req[q], hdr[q]>>,
             Owns(p)' => (Owns(p) /\ hdr'[p] = hdr[p]) \/ (path # NoFile /\ hdr'[p] = path),
             wpc'[p] \in {"fill", "rename"} => wpc[p] \in {"fill", "rename"} /\ hdr'[p] = hdr[p]
      PROVE  OrderInv'
  <2>1. ASSUME NEW q \in Procs, Owns(q)'
        PROVE  (Owns(q) /\ hdr'[q] = hdr[q]) \/ (path # NoFile /\ hdr'[q] = path)
    BY <1>2, <2>1, Zenon DEF Owns, Publishing, Retiring
  <2>2. ASSUME NEW q \in Procs, wpc'[q] \in {"fill", "rename"}
        PROVE  wpc[q] \in {"fill", "rename"} /\ hdr'[q] = hdr[q]
    BY <1>2, <2>2, Zenon
  <2>3. QED
    BY <1>2, <2>1, <2>2, OrderFrame, Zenon
\* Steps after which p has no file of its own.
<1>3. ASSUME UNCHANGED <<latest, npub, nfiles>>, path' = path \/ path' = NoFile,
             \A q \in Procs : q # p => UNCHANGED <<wpc[q], req[q], hdr[q]>>,
             wpc'[p] \in {"none", "stale", "open", "mktemp", "unlink_open", "unlink_data",
                          "unlink_lock", "unlinked"}
      PROVE  OrderInv'
  BY <1>2, <1>3, Zenon DEF Owns, Publishing, Retiring
<1>4. ASSUME (\E g \in Geoms, re \in BOOLEAN : writer_open(p, g, re)) \/ unlink(p) PROVE OrderInv'
  BY <1>1, <1>3, <1>4, Zenon DEF writer_open, unlink, FilesTypes
<1>5. ASSUME locking(p) PROVE OrderInv'
  <2>1. lpc[p] \notin {"in", "removed", "out"}
    BY <1>5, Zenon DEF locking, Locking, lock_create, lock_open, lock_take, lock_held, lock_check
  <2>2. wpc[p] = "stale"
    BY <1>1, <2>1, Zenon DEF HeldWhileBusy
  <2>3. QED
    BY <1>1, <1>3, <1>5, <2>2, Zenon DEF locking, Forget, FilesTypes
<1>6. ASSUME finish(p) \/ open_refused(p) \/ sys_error(p) \/ crash(p) PROVE OrderInv'
  BY <1>1, <1>3, <1>6, Zenon DEF finish, open_refused, sys_error, crash, Forget, FilesTypes
<1>7. ASSUME remove_stale_tmp(p) \/ open_create(p) \/ unlink_open(p) \/ unlink_lockfile(p)
      PROVE  OrderInv'
  BY <1>1, <1>3, <1>7, Zenon
  DEF remove_stale_tmp, open_create, unlink_open, unlink_lockfile, FilesTypes
<1>8. ASSUME open_reuse(p) PROVE OrderInv'
  <2>1. /\ UNCHANGED <<latest, npub, nfiles, path>> /\ path # NoFile /\ hdr'[p] = path
        /\ \A q \in Procs : q # p => UNCHANGED <<wpc[q], req[q], hdr[q]>>
        /\ wpc'[p] = "writing"
    BY <1>1, <1>8, Zenon DEF open_reuse, Opened, FilesTypes
  <2>2. QED
    BY <1>2, <2>1, Zenon
<1>9. ASSUME create_fill(p) PROVE OrderInv'
  <2>1. /\ UNCHANGED <<latest, npub, nfiles, path, hdr, req>> /\ wpc[p] = "fill"
        /\ \A q \in Procs : q # p => wpc'[q] = wpc[q]
        /\ wpc'[p] = "rename"
    BY <1>1, <1>9, Zenon DEF create_fill, FilesTypes
  <2>2. QED
    BY <1>2, <2>1, Zenon DEF Owns, Publishing, Retiring
<1>10. ASSUME retire_set(p) \/ retire_notify(p) PROVE OrderInv'
  <2>1. /\ UNCHANGED <<latest, npub, nfiles, path, hdr, req>>
        /\ \A q \in Procs : q # p => wpc'[q] = wpc[q]
        /\ wpc[p] \in {"retire", "retire_notify"} /\ wpc'[p] \in {"retire_notify", "retire_wake"}
    BY <1>1, <1>10, Zenon DEF retire_set, retire_notify, FilesTypes
  <2>2. QED
    BY <1>2, <2>1, Zenon DEF Owns, Publishing, Retiring
<1>11. ASSUME retire_wake(p) PROVE OrderInv'
  <2>1. /\ UNCHANGED <<latest, npub, nfiles, path, hdr>> /\ wpc[p] = "retire_wake"
        /\ \A q \in Procs : q # p => UNCHANGED <<wpc[q], req[q]>>
        /\ wpc'[p] = IF req[p] = None THEN "unlink_lock" ELSE "writing"
    BY <1>1, <1>11, Zenon DEF retire_wake, Opened, FilesTypes
  <2>2. QED
    BY <1>2, <2>1, Zenon DEF Owns, Publishing, Retiring
<1>12. ASSUME publish_notify(p) \/ publish_wake(p) PROVE OrderInv'
  <2>1. /\ UNCHANGED <<latest, npub, nfiles, path, hdr, req>>
        /\ \A q \in Procs : q # p => wpc'[q] = wpc[q]
        /\ wpc[p] \in {"notify", "wake"} /\ wpc'[p] \in {"wake", "writing"}
    BY <1>1, <1>12, Zenon DEF publish_notify, publish_wake, FilesTypes
  <2>2. QED
    BY <1>2, <2>1, Zenon DEF Owns, Publishing, Retiring
\* Steps that no other process can be in the way of.
<1>13. ASSUME lpc[p] = "in", NEW q \in Procs, q # p, wpc'[q] = wpc[q]
       PROVE  ~Owns(q)' /\ wpc'[q] \notin {"fill", "rename"}
  BY <1>13, Alone, Zenon DEF Owns, Publishing, Retiring
<1>14. ASSUME unlink_data(p) PROVE OrderInv'
  <2>1. /\ UNCHANGED <<latest, npub, nfiles, hdr, req>> /\ path' = NoFile
        /\ wpc[p] = "unlink_data" /\ req[p] = None
        /\ \A q \in Procs : q # p => wpc'[q] = wpc[q]
        /\ wpc'[p] \in {"unlink_lock", "retire"}
    BY <1>1, <1>14, Zenon DEF unlink_data, FilesTypes, FilesAtWork
  <2>2. QED
    BY <1>2, <2>1, Zenon DEF Owns, Publishing, Retiring
<1>15. ASSUME create_tmp(p) PROVE OrderInv'
  <2>1. /\ UNCHANGED <<latest, npub, path>> /\ hdr'[p] = nfiles' /\ lpc[p] = "in"
        /\ \A q \in Procs : q # p => wpc'[q] = wpc[q]
        /\ wpc'[p] = "fill"
    BY <1>1, <1>15, Zenon DEF create_tmp, FilesTypes, HeldWhileBusy
  <2>2. ~Owns(p)'
    BY <2>1, Zenon DEF Owns, Publishing, Retiring
  <2>3. QED
    BY <1>13, <2>1, <2>2, Zenon DEF OrderInv
<1>16. ASSUME create_rename(p) PROVE OrderInv'
  <2>1. /\ UNCHANGED <<latest, npub, nfiles, hdr>> /\ path' = hdr[p] /\ lpc[p] = "in"
        /\ wpc[p] = "rename" /\ wpc'[p] \in {"writing", "retire"}
        /\ \A q \in Procs : q # p => wpc'[q] = wpc[q]
    BY <1>1, <1>16, Zenon DEF create_rename, FilesTypes, HeldWhileBusy
  <2>2. hdr[p] = nfiles
    BY <2>1, Zenon DEF OrderInv
  <2>3. \A g \in Files : nfiles < g => latest[g] = 0
    BY <1>1 DEF FilesInv, FilesFresh, FilesTypes, Files
  <2>4. QED
    BY <1>13, <2>1, <2>2, <2>3, Zenon DEF OrderInv
<1>17. ASSUME publish(p) PROVE OrderInv'
  <2>1. /\ UNCHANGED <<path, nfiles, hdr, req>> /\ npub' = npub + 1
        /\ latest' = [latest EXCEPT ![hdr[p]] = npub + 1] /\ lpc[p] = "in"
        /\ wpc[p] = "writing" /\ wpc'[p] \in {"writing", "notify"}
        /\ \A q \in Procs : q # p => wpc'[q] = wpc[q]
    BY <1>1, <1>17, Zenon DEF publish, FilesTypes, HeldWhileBusy
  <2>2. /\ Owns(p) /\ hdr[p] \in Files /\ (path # 0 => path = hdr[p])
        /\ \A g \in Files : hdr[p] < g => latest[g] = 0
    <3>1. Owns(p)
      BY <2>1, Zenon DEF Owns, Publishing
    <3>2. hdr[p] \in Files
      BY <1>1, <3>1 DEF FilesAtWork, FilesTypes, Files
    <3>3. QED
      BY <1>1, <3>1, <3>2, Zenon DEF FilesAtWork, OrderInv
  <2>3. /\ npub \in Nat /\ \A f \in Files : f \in Nat /\ latest[f] \in Nat /\ latest[f] <= npub
        /\ \A f \in Files : latest'[f] = IF f = hdr[p] THEN npub + 1 ELSE latest[f]
    <3>1. npub \in Nat /\ \A f \in Files : f \in Nat
      BY <1>1 DEF FilesTypes, Files
    <3>2. \A f \in Files : latest[f] \in Nat /\ latest[f] <= npub
      BY <1>1, Zenon DEF FilesTypes, OrderInv
    <3>3. \A f \in Files : latest'[f] = IF f = hdr[p] THEN npub + 1 ELSE latest[f]
      BY <1>1, <2>1, <2>2, Zenon DEF FilesTypes
    <3>4. QED
      BY <3>1, <3>2, <3>3, Zenon
  <2>4. \A f \in Files : latest'[f] <= npub'
    BY <2>1, <2>3
  <2>5. \A g \in Files : hdr[p] < g => latest'[g] = 0
    BY <2>2, <2>3
  <2>6. ASSUME NEW f \in Files, NEW g \in Files, f < g, latest'[g] # 0
        PROVE  latest'[f] <= latest'[g]
    <3>1. f # hdr[p]
      BY <2>5, <2>6
    <3>2. latest[f] <= npub /\ latest'[f] = latest[f] /\ latest[f] \in Nat
      BY <2>3, <3>1
    <3>3. CASE g = hdr[p]
      BY <2>3, <3>2, <3>3
    <3>4. CASE g # hdr[p]
      <4>1. latest'[g] = latest[g]
        BY <2>3, <3>4
      <4>2. QED
        BY <2>6, <3>2, <4>1, Zenon DEF OrderInv
    <3>5. QED
      BY <3>3, <3>4, Zenon
  <2>7. ASSUME NEW q \in Procs PROVE /\ Owns(q)' => hdr'[q] = hdr[p]
                                     /\ wpc'[q] \notin {"fill", "rename"}
    BY <1>13, <2>1, Zenon
  <2>8. QED
    BY <2>1, <2>2, <2>4, <2>5, <2>6, <2>7, Zenon DEF OrderInv
<1>18. QED
  BY <1>4, <1>5, <1>6, <1>7, <1>8, <1>9, <1>10, <1>11, <1>12, <1>14, <1>15, <1>16, <1>17, Zenon
  DEF Writer

\* What a step of a writer can do to the files that handles know: values and
\* RETIRED marks stay or are followed by newer ones, and only a file that still
\* had its temporary name, the newest one, comes to the path.
LEMMA WriterEffect ==
  ASSUME OrderInv, FilesInv, FilesInv', NEW p \in Procs, Writer(p)
  PROVE  /\ nfiles <= nfiles' /\ \A f \in tmps' : f \in tmps \/ f > nfiles
         /\ \A f \in Files : latest[f] <= latest'[f] /\ (retired[f] => retired'[f])
         /\ path' = path \/ path' = NoFile \/ (path' = nfiles /\ nfiles \in tmps)
<1> USE DEF fileVars, stateVars, procVars, Step, NoFile
<1>1. /\ FilesTypes /\ FilesTypes' /\ FilesAtWork(p) /\ nfiles \in Nat /\ npub \in Nat
      /\ \A n \in Nat : n <= n /\ n <= n + 1
  BY DEF FilesInv, FilesTypes
<1>2. \A f \in Files : latest[f] \in Nat /\ latest[f] <= latest[f]
  BY <1>1, Zenon DEF FilesTypes
<1>3. ASSUME UNCHANGED <<latest, retired, nfiles>>, tmps' \subseteq tmps,
             path' = path \/ path' = 0 \/ (path' = nfiles /\ nfiles \in tmps)
      PROVE  /\ nfiles <= nfiles' /\ \A f \in tmps' : f \in tmps \/ f > nfiles
             /\ \A f \in Files : latest[f] <= latest'[f] /\ (retired[f] => retired'[f])
             /\ path' = path \/ path' = NoFile \/ (path' = nfiles /\ nfiles \in tmps)
  BY <1>1, <1>2, <1>3, Zenon
<1>4. ASSUME (\E g \in Geoms, re \in BOOLEAN : writer_open(p, g, re)) \/ unlink(p) \/ locking(p)
      PROVE  UNCHANGED <<latest, retired, nfiles, tmps, path>>
  BY <1>4, Zenon DEF writer_open, unlink, locking
<1>5. ASSUME finish(p) \/ open_refused(p) \/ crash(p) \/ open_reuse(p) \/ open_create(p)
             \/ create_fill(p) \/ retire_notify(p) \/ retire_wake(p) \/ publish_notify(p)
             \/ publish_wake(p) \/ unlink_open(p) \/ unlink_lockfile(p)
      PROVE  UNCHANGED <<latest, retired, nfiles, tmps, path>>
  BY <1>5, Zenon
  DEF finish, open_refused, crash, open_reuse, open_create, create_fill, retire_notify, retire_wake,
      publish_notify, publish_wake, unlink_open, unlink_lockfile
<1>6. ASSUME sys_error(p) \/ remove_stale_tmp(p) \/ unlink_data(p)
      PROVE  UNCHANGED <<latest, retired, nfiles>> /\ tmps' \subseteq tmps /\ path' \in {path, 0}
  BY <1>6, Zenon DEF sys_error, remove_stale_tmp, unlink_data
<1>7. ASSUME create_rename(p)
      PROVE  /\ UNCHANGED <<latest, retired, nfiles>> /\ tmps' \subseteq tmps
             /\ path' = nfiles /\ nfiles \in tmps
  BY <1>7, Zenon DEF create_rename, OrderInv
<1>8. ASSUME create_tmp(p)
      PROVE  /\ UNCHANGED <<latest, retired, path>>
             /\ nfiles' = nfiles + 1 /\ tmps' = tmps \cup {nfiles + 1} /\ nfiles + 1 > nfiles
  BY <1>1, <1>8 DEF create_tmp
<1>9. ASSUME retire_set(p)
      PROVE  /\ UNCHANGED <<latest, nfiles, tmps, path>>
             /\ \A f \in Files : retired[f] => retired'[f]
  BY <1>1, <1>9, Zenon DEF retire_set, FilesTypes
<1>10. ASSUME publish(p)
       PROVE  /\ UNCHANGED <<retired, nfiles, tmps, path>>
              /\ \A f \in Files : latest[f] <= latest'[f]
  <2>1. UNCHANGED <<retired, nfiles, tmps, path>> /\ latest' = [latest EXCEPT ![hdr[p]] = npub + 1]
    BY <1>10, Zenon DEF publish
  <2>2. \A f \in Files : latest'[f] = latest[f] \/ latest'[f] = npub + 1
    BY <1>1, <2>1, Zenon DEF FilesTypes
  <2>3. \A f \in Files : latest[f] <= npub + 1
    BY <1>1, <1>2 DEF OrderInv
  <2>4. QED
    BY <1>2, <2>1, <2>2, <2>3, Zenon
<1>11. CASE create_tmp(p)
  BY <1>1, <1>2, <1>8, <1>11, Zenon
<1>12. CASE retire_set(p) \/ publish(p)
  BY <1>1, <1>2, <1>9, <1>10, <1>12, Zenon
<1>13. CASE create_rename(p) \/ sys_error(p) \/ remove_stale_tmp(p) \/ unlink_data(p)
  BY <1>3, <1>6, <1>7, <1>13, Zenon
<1>14. QED
  BY <1>3, <1>4, <1>5, <1>11, <1>12, <1>13, Zenon DEF Writer

\* Such a step, and rm, leave what a handle has seen in order.
LEMMA SeenFrame ==
  ASSUME FilesTypes, FilesTypes', nfiles <= nfiles', \A f \in tmps' : f \in tmps \/ f > nfiles,
         \A f \in Files : latest[f] <= latest'[f] /\ (retired[f] => retired'[f]),
         path' = path \/ path' = NoFile \/ (path' = nfiles /\ nfiles \in tmps),
         NEW pl, NEW f \in 0 .. MaxFiles, NEW a,
         NEW x \in [value : Nat, generation : Nat \X Nat, file : 0 .. MaxFiles, attached : BOOLEAN],
         SeenOK(pl, f, a, x)
  PROVE  SeenOK(pl, f, a, x)'
<1> DEFINE g == x.file
<1> USE DEF NoFile
<1>1. /\ g \in 0 .. MaxFiles /\ x.value \in Nat /\ nfiles \in Nat /\ nfiles' \in Nat
      /\ path \in Nat /\ path' \in Nat
  BY DEF FilesTypes
<1>2. ASSUME NEW h \in 0 .. MaxFiles, Known(h) PROVE Known(h)'
  BY <1>1, <1>2 DEF Known
<1>3. Known(f)' /\ Known(g)'
  BY <1>1, <1>2, Zenon DEF SeenOK
<1>4. ASSUME NEW h \in 0 .. MaxFiles, h # 0
      PROVE  /\ h \in Files /\ latest[h] \in Nat /\ latest'[h] \in Nat
             /\ latest[h] <= latest'[h] /\ (retired[h] => retired'[h])
  <2>1. h \in Files
    BY <1>4 DEF Files
  <2>2. QED
    BY <2>1, Zenon DEF FilesTypes
<1>5. g # 0 => x.value <= latest'[g]
  BY <1>1, <1>4 DEF SeenOK
<1>6. f = 0 /\ g # 0 => retired'[g] \/ path' # g
  BY <1>1, <1>4, Zenon DEF SeenOK, Known
<1>7. pl = "attached" => f # 0 /\ a /\ (f = g => retired'[f])
  BY <1>4, Zenon DEF SeenOK
<1>8. QED
  BY <1>3, <1>5, <1>6, <1>7, Zenon DEF SeenOK

\* A step of reader r that takes it to a place in order keeps the invariant.
LEMMA ReadMove ==
  ASSUME ReadInv, NEW r \in Readers, ReadTypes',
         UNCHANGED <<path, tmps, nfiles, retired, latest, npub, wpc, req, hdr>>,
         \A s \in Readers : s # r =>
           UNCHANGED <<rpc[s], rop[s], rc[s], rhdr[s], announce[s], got[s]>>,
         PlaceOK(rpc'[r], rop'[r], rc'[r], rhdr'[r]),
         SeenOK(rpc'[r], rhdr'[r], announce'[r], got'[r])
  PROVE  ReadInv'
<1>1. OrderInv'
  BY OrderFrame, Zenon DEF ReadInv, Owns, Publishing, Retiring
<1>2. PlaceOK(rpc[r], rop[r], rc[r], rhdr[r])' /\ SeenOK(rpc[r], rhdr[r], announce[r], got[r])'
  BY Zenon DEF PlaceOK, SeenOK, Known
<1>3. ASSUME NEW s \in Readers, s # r
      PROVE  PlaceOK(rpc[s], rop[s], rc[s], rhdr[s])' /\ SeenOK(rpc[s], rhdr[s], announce[s], got[s])'
  <2>1. PlaceOK(rpc[s], rop[s], rc[s], rhdr[s]) /\ SeenOK(rpc[s], rhdr[s], announce[s], got[s])
    BY Zenon DEF ReadInv
  <2>2. QED
    BY <1>3, <2>1, Zenon DEF PlaceOK, SeenOK, Known
<1>4. QED
  BY <1>1, <1>2, <1>3, Zenon DEF ReadInv

\* A handle lets go of its file because it is retired, or not at the path; it
\* will announce the next one if it has to.
LEMMA LetsGo ==
  ASSUME FilesTypes, NEW pl, NEW to, to # "attached", NEW f \in 0 .. MaxFiles, NEW a, NEW b,
         NEW x \in [value : Nat, generation : Nat \X Nat, file : 0 .. MaxFiles, attached : BOOLEAN],
         SeenOK(pl, f, a, x), f # NoFile => retired[f] \/ path # f
  PROVE  SeenOK(to, NoFile, b, x)
<1> USE DEF NoFile
<1>1. Known(0)
  BY DEF Known, FilesTypes, Files
<1>2. ASSUME x.file # 0, f # 0 PROVE retired[x.file] \/ path # x.file
  BY <1>2 DEF SeenOK, Known, FilesTypes
<1>3. QED
  BY <1>1, <1>2, Zenon DEF SeenOK

\* Every step of a reader keeps the invariant.
LEMMA ReadReaderStep ==
  ASSUME ReadInv, FilesInv, GenInv, NEW r \in Readers, Reader(r)
  PROVE  ReadInv'
<1> USE DEF NoFile
<1>1. UNCHANGED <<path, tmps, nfiles, retired, latest, npub, wpc, req, hdr>>
  BY ReaderKeepsFiles, Zenon DEF fileVars, procVars
<1>2. /\ PlaceOK(rpc[r], rop[r], rc[r], rhdr[r])
      /\ SeenOK(rpc[r], rhdr[r], announce[r], got[r])
      /\ ReadTypes /\ FilesTypes
  BY Zenon DEF ReadInv, FilesInv
<1>3. /\ rhdr[r] \in 0 .. MaxFiles
      /\ got[r] \in [value : Nat, generation : Nat \X Nat, file : 0 .. MaxFiles, attached : BOOLEAN]
  BY <1>2, Zenon DEF ReadTypes
<1>4. /\ 0 \in 0 .. MaxFiles /\ path \in 0 .. MaxFiles
      /\ \A f \in 0 .. MaxFiles : f # 0 => f \in Files
  BY <1>2, FilesAssumption DEF FilesTypes, Files
\* It goes on with the same file, or returns without a value.
<1>5. ASSUME NEW to \in ReaderPlaces, NEW o \in {"none", "read", "describe", "wait", "alive"},
             NEW c \in Codes, rpc' = [rpc EXCEPT ![r] = to],
             rop' = rop \/ rop' = [rop EXCEPT ![r] = o], rop'[r] = o,
             rc' = rc \/ rc' = [rc EXCEPT ![r] = c], rc'[r] = c, UNCHANGED <<rhdr, announce, got>>,
             rpc[r] # "attached", to # "attached", PlaceOK(to, o, c, rhdr[r])
      PROVE  ReadInv'
  <2>1. ReadTypes' /\ rpc'[r] = to
    BY <1>2, <1>5, Zenon DEF ReadTypes
  <2>2. \A s \in Readers : s # r =>
          UNCHANGED <<rpc[s], rop[s], rc[s], rhdr[s], announce[s], got[s]>>
    BY <1>2, <1>5, Zenon DEF ReadTypes
  <2>3. SeenOK(to, rhdr[r], announce[r], got[r])
    BY <1>2, <1>5, Zenon DEF SeenOK
  <2>4. QED
    BY <1>1, <1>5, <2>1, <2>2, <2>3, ReadMove, Zenon
<1>6. ASSUME NEW c \in Codes, Return(r, c), UNCHANGED <<rhdr, announce, got>>, rpc[r] # "attached"
      PROVE  ReadInv'
  <2>1. /\ rpc' = [rpc EXCEPT ![r] = "idle"] /\ rop' = [rop EXCEPT ![r] = "none"]
        /\ rc' = [rc EXCEPT ![r] = c] /\ rop'[r] = "none" /\ rc'[r] = c
    BY <1>2, <1>6, Zenon DEF Return, ReadTypes
  <2>2. PlaceOK("idle", "none", c, rhdr[r]) /\ "idle" \in ReaderPlaces
    BY Zenon DEF PlaceOK, ReaderPlaces
  <2>3. QED
    BY <1>5, <1>6, <2>1, <2>2, Zenon
<1>7. ASSUME NEW to \in ReaderPlaces, At(r, rpc[r], to), UNCHANGED <<rop, rc, rhdr, announce, got>>,
             rpc[r] # "attached", to # "attached", PlaceOK(to, rop[r], rc[r], rhdr[r])
      PROVE  ReadInv'
  <2>1. rop[r] \in {"none", "read", "describe", "wait", "alive"} /\ rc[r] \in Codes
    BY <1>2, Zenon DEF ReadTypes
  <2>2. QED
    BY <1>5, <1>7, <2>1, Zenon DEF At
\* It maps another file.
<1>8. ASSUME NEW to \in ReaderPlaces, NEW c \in Codes, NEW f \in 0 .. MaxFiles, NEW a \in BOOLEAN,
             rpc' = [rpc EXCEPT ![r] = to], rhdr' = [rhdr EXCEPT ![r] = f],
             announce' = announce \/ announce' = [announce EXCEPT ![r] = a], announce'[r] = a,
             rc' = rc \/ rc' = [rc EXCEPT ![r] = c], rc'[r] = c, UNCHANGED <<rop, got>>,
             PlaceOK(to, rop[r], c, f), SeenOK(to, f, a, got[r])
      PROVE  ReadInv'
  <2>1. ReadTypes' /\ rpc'[r] = to /\ rhdr'[r] = f
    BY <1>2, <1>8, Zenon DEF ReadTypes
  <2>2. \A s \in Readers : s # r =>
          UNCHANGED <<rpc[s], rop[s], rc[s], rhdr[s], announce[s], got[s]>>
    BY <1>2, <1>8, Zenon DEF ReadTypes
  <2>3. QED
    BY <1>1, <1>8, <2>1, <2>2, ReadMove, Zenon
<1>9. ASSUME reader_close(r) PROVE ReadInv'
  <2>1. /\ rpc[r] = "idle" /\ rop[r] = "none" /\ UNCHANGED <<rpc, rop>>
        /\ rhdr' = [rhdr EXCEPT ![r] = 0] /\ announce' = [announce EXCEPT ![r] = FALSE]
        /\ got' = [got EXCEPT ![r] = NoResult] /\ rc' = [rc EXCEPT ![r] = "OK"]
    BY <1>2, <1>9, Zenon DEF reader_close, Map, PlaceOK
  <2>2. /\ NoResult.value = 0 /\ NoResult.file = 0
        /\ NoResult \in [value : Nat, generation : Nat \X Nat, file : 0 .. MaxFiles,
                         attached : BOOLEAN]
    BY <1>4 DEF NoResult, Random
  <2>3. "OK" \in Codes
    BY Zenon DEF Codes
  <2>4. /\ ReadTypes' /\ rhdr'[r] = 0 /\ announce'[r] = FALSE /\ got'[r] = NoResult
        /\ \A s \in Readers : s # r =>
             UNCHANGED <<rpc[s], rop[s], rc[s], rhdr[s], announce[s], got[s]>>
    BY <1>2, <1>4, <2>1, <2>2, <2>3, Zenon DEF ReadTypes
  <2>5. Known(0)
    BY <1>2 DEF Known, FilesTypes, Files
  <2>6. PlaceOK("idle", "none", rc'[r], 0) /\ SeenOK("idle", 0, FALSE, NoResult)
    BY <2>2, <2>5, Zenon DEF PlaceOK, SeenOK
  <2>7. QED
    BY <1>1, <2>1, <2>4, <2>6, ReadMove, Zenon
<1>10. ASSUME \/ \E o \in Calls : call(r, o)
              \/ \E last \in used \cup {Random}, t \in Timed : state_wait(r, last, t)
              \/ writer_alive(r)
       PROVE  ReadInv'
  <2>1. PICK o \in {"read", "describe", "wait", "alive"}, to \in {"sync", "identity"} :
          /\ rop[r] = "none" /\ rop' = [rop EXCEPT ![r] = o] /\ rpc' = [rpc EXCEPT ![r] = to]
          /\ UNCHANGED <<rc, rhdr, announce, got>>
    BY <1>10, Zenon DEF call, state_wait, writer_alive, handleVars
  <2>2. /\ rpc[r] = "idle" /\ rop'[r] = o /\ rc'[r] = rc[r] /\ rc[r] \in Codes
        /\ o \in {"none", "read", "describe", "wait", "alive"} /\ to \in ReaderPlaces
        /\ to # "attached" /\ PlaceOK(to, o, rc[r], rhdr[r])
    BY <1>2, <2>1, Zenon DEF PlaceOK, ReadTypes, ReaderPlaces
  <2>3. rpc[r] # "attached"
    BY <2>2, Zenon
  <2>4. QED
    BY <1>5, <2>1, <2>2, <2>3, Zenon
<1>11. {"attach", "attached", "synced", "sync"} \subseteq ReaderPlaces
       /\ {"OK", "NODATA", "FORMAT", "SYS"} \subseteq Codes
       /\ rc[r] \in Codes /\ announce[r] \in BOOLEAN
  BY <1>2, Zenon DEF ReaderPlaces, Codes, ReadTypes
<1>12. ASSUME reader_sync(r) PROVE ReadInv'
  <2>1. /\ rpc[r] = "sync" /\ rop[r] # "none" /\ UNCHANGED <<rop, announce, got>>
        /\ rc' = [rc EXCEPT ![r] = "OK"] /\ rc'[r] = "OK"
    BY <1>2, <1>12, Zenon DEF reader_sync, At, PlaceOK, ReadTypes
  <2>2. CASE rhdr[r] # 0 /\ ~retired[rhdr[r]]
    <3>1. rpc' = [rpc EXCEPT ![r] = "synced"] /\ rhdr' = [rhdr EXCEPT ![r] = rhdr[r]]
      BY <1>12, <2>2, Zenon DEF reader_sync, At, Map
    <3>2. PlaceOK("synced", rop[r], "OK", rhdr[r]) /\ SeenOK("synced", rhdr[r], announce[r], got[r])
      BY <1>2, <2>1, <2>2, Zenon DEF PlaceOK, SeenOK
    <3>3. QED
      BY <1>3, <1>8, <1>11, <2>1, <3>1, <3>2, Zenon
  <2>3. CASE ~(rhdr[r] # 0 /\ ~retired[rhdr[r]])
    <3>1. rpc' = [rpc EXCEPT ![r] = "attach"] /\ rhdr' = [rhdr EXCEPT ![r] = 0]
      BY <1>12, <2>3, Zenon DEF reader_sync, At, Map
    <3>2. PlaceOK("attach", rop[r], "OK", 0)
      BY <2>1, Zenon DEF PlaceOK
    <3>3. SeenOK("attach", 0, announce[r], got[r])
      BY <1>2, <1>3, <2>3, LetsGo, Zenon
    <3>4. QED
      BY <1>4, <1>8, <1>11, <2>1, <3>1, <3>2, <3>3, Zenon
  <2>4. QED
    BY <2>2, <2>3, Zenon
<1>13. ASSUME attach(r) PROVE ReadInv'
  <2>1. rpc[r] = "attach" /\ rop[r] # "none" /\ rhdr[r] = 0 /\ UNCHANGED <<rop, got>>
    BY <1>2, <1>13, Zenon DEF attach, At, PlaceOK
  <2>2. CASE path # 0 /\ kind[path] \in {"ok", "minor", "corrupt"}
    <3>1. /\ rpc' = [rpc EXCEPT ![r] = "attached"] /\ rhdr' = [rhdr EXCEPT ![r] = path]
          /\ announce' = [announce EXCEPT ![r] = TRUE] /\ rc' = [rc EXCEPT ![r] = "OK"]
      BY <1>13, <2>2, Zenon DEF attach, At, Map
    <3>2. announce'[r] = TRUE /\ rc'[r] = "OK"
      BY <1>2, <3>1, Zenon DEF ReadTypes
    <3>3. PlaceOK("attached", rop[r], "OK", path)
      BY <2>1, Zenon DEF PlaceOK
    <3>4. Known(path)
      BY <1>2 DEF Known, FilesInv, FilesFresh, FilesTypes
    <3>5. SeenOK("attached", path, TRUE, got[r])
      BY <1>2, <2>1, <2>2, <3>4, Zenon DEF SeenOK, Known
    <3>6. QED
      BY <1>4, <1>8, <1>11, <2>1, <3>1, <3>2, <3>3, <3>5, Zenon
  <2>3. CASE ~(path # 0 /\ kind[path] \in {"ok", "minor", "corrupt"})
    <3>1. PICK c \in {"NODATA", "FORMAT"} :
            /\ rpc' = [rpc EXCEPT ![r] = "synced"] /\ rhdr' = [rhdr EXCEPT ![r] = 0]
            /\ announce' = [announce EXCEPT ![r] = announce[r]] /\ rc' = [rc EXCEPT ![r] = c]
      BY <1>2, <1>13, <2>3, Zenon DEF attach, At, Map, ReadTypes
    <3>2. announce'[r] = announce[r] /\ rc'[r] = c /\ c \in Codes
      BY <1>2, <1>11, <3>1, Zenon DEF ReadTypes
    <3>3. PlaceOK("synced", rop[r], c, 0) /\ SeenOK("synced", 0, announce[r], got[r])
      BY <1>2, <2>1, <3>1, Zenon DEF PlaceOK, SeenOK
    <3>4. QED
      BY <1>4, <1>8, <1>11, <2>1, <3>1, <3>2, <3>3, Zenon
  <2>4. QED
    BY <2>2, <2>3, Zenon
<1>14. ASSUME attach_check(r) PROVE ReadInv'
  <2>1. rpc[r] = "attached" /\ rop[r] # "none" /\ rhdr[r] # 0 /\ UNCHANGED <<rop, announce, got>>
    BY <1>2, <1>14, Zenon DEF attach_check, At, PlaceOK, SeenOK
  <2>2. CASE ~retired[rhdr[r]]
    <3>1. /\ rpc' = [rpc EXCEPT ![r] = "synced"] /\ rhdr' = [rhdr EXCEPT ![r] = rhdr[r]]
          /\ rc' = [rc EXCEPT ![r] = "OK"]
      BY <1>14, <2>2, Zenon DEF attach_check, At, Map
    <3>2. rc'[r] = "OK"
      BY <1>2, <3>1, Zenon DEF ReadTypes
    <3>3. PlaceOK("synced", rop[r], "OK", rhdr[r]) /\ SeenOK("synced", rhdr[r], announce[r], got[r])
      BY <1>2, <2>1, <2>2, Zenon DEF PlaceOK, SeenOK
    <3>4. QED
      BY <1>3, <1>8, <1>11, <2>1, <3>1, <3>2, <3>3, Zenon
  <2>3. CASE retired[rhdr[r]]
    <3>1. PICK to \in {"attach", "synced"}, c \in {"OK", "NODATA"} :
            /\ rpc' = [rpc EXCEPT ![r] = to] /\ rhdr' = [rhdr EXCEPT ![r] = 0]
            /\ rc' = [rc EXCEPT ![r] = c] /\ (to = "synced" => c # "OK")
      BY <1>14, <2>3, Zenon DEF attach_check, At, Map
    <3>2. rc'[r] = c /\ c \in Codes /\ to \in ReaderPlaces /\ to # "attached"
      BY <1>2, <1>11, <3>1, Zenon DEF ReadTypes
    <3>3. PlaceOK(to, rop[r], c, 0)
      BY <2>1, <3>1, Zenon DEF PlaceOK
    <3>4. SeenOK(to, 0, announce[r], got[r])
      BY <1>2, <1>3, <2>3, <3>2, LetsGo, Zenon
    <3>5. QED
      BY <1>4, <1>8, <1>11, <2>1, <3>1, <3>2, <3>3, <3>4, Zenon
  <2>4. QED
    BY <2>2, <2>3, Zenon
<1>15. ASSUME identity_check(r) PROVE ReadInv'
  <2>1. /\ rpc[r] = "identity" /\ rop[r] # "none" /\ UNCHANGED <<rop, rc, announce, got>>
        /\ rpc' = [rpc EXCEPT ![r] = "sync"]
    BY <1>2, <1>15, Zenon DEF identity_check, At, PlaceOK
  <2>2. \A f : PlaceOK("sync", rop[r], rc[r], f)
    BY <2>1, Zenon DEF PlaceOK
  <2>3. CASE path = rhdr[r]
    <3>1. rhdr' = [rhdr EXCEPT ![r] = rhdr[r]]
      BY <1>15, <2>3, Zenon DEF identity_check, Map
    <3>2. SeenOK("sync", rhdr[r], announce[r], got[r])
      BY <1>2, <2>1, Zenon DEF SeenOK
    <3>3. QED
      BY <1>3, <1>8, <1>11, <2>1, <2>2, <3>1, <3>2, Zenon
  <2>4. CASE path # rhdr[r]
    <3>1. rhdr' = [rhdr EXCEPT ![r] = 0]
      BY <1>15, <2>4, Zenon DEF identity_check, Map
    <3>2. SeenOK("sync", 0, announce[r], got[r])
      BY <1>2, <1>3, <2>4, LetsGo, Zenon
    <3>3. QED
      BY <1>4, <1>8, <1>11, <2>1, <2>2, <3>1, <3>2, Zenon
  <2>5. QED
    BY <2>3, <2>4, Zenon
<1>16. ASSUME attach_error(r) PROVE ReadInv'
  <2>1. /\ rpc[r] = "attach" /\ rop[r] # "none" /\ UNCHANGED <<rop, rhdr, announce, got>>
        /\ rpc' = [rpc EXCEPT ![r] = "synced"] /\ rc' = [rc EXCEPT ![r] = "SYS"] /\ rc'[r] = "SYS"
    BY <1>2, <1>16, Zenon DEF attach_error, At, PlaceOK, handleVars, ReadTypes
  <2>2. PlaceOK("synced", rop[r], "SYS", rhdr[r])
    BY <2>1, Zenon DEF PlaceOK
  <2>3. rop[r] \in {"none", "read", "describe", "wait", "alive"} /\ rpc[r] # "attached"
    BY <1>2, <2>1, Zenon DEF ReadTypes
  <2>4. QED
    BY <1>5, <1>11, <2>1, <2>2, <2>3, Zenon
<1>17. ASSUME state_read(r), rc'[r] = "OK" PROVE ReadInv'
  <2>1. /\ rpc[r] = "reading" /\ rc[r] = "OK" /\ rhdr[r] # 0 /\ UNCHANGED rhdr
        /\ latest[rhdr[r]] # 0
        /\ got' = [got EXCEPT ![r] = [value |-> latest[rhdr[r]], generation |-> gen[rhdr[r]],
                                      file |-> rhdr[r], attached |-> announce[r]]]
        /\ announce' = [announce EXCEPT ![r] = FALSE] /\ Return(r, "OK")
    BY <1>2, <1>17, Zenon DEF state_read, Return, ReadCode, PlaceOK, ReadTypes
  <2>2. PICK x : x = [value |-> latest[rhdr[r]], generation |-> gen[rhdr[r]], file |-> rhdr[r],
                      attached |-> announce[r]]
    BY Zenon
  <2>3. /\ x.value = latest[rhdr[r]] /\ x.file = rhdr[r]
        /\ x \in [value : Nat, generation : Nat \X Nat, file : 0 .. MaxFiles, attached : BOOLEAN]
    <3>1. latest[rhdr[r]] \in Nat /\ gen[rhdr[r]] \in Nat \X Nat
      BY <1>2, <1>3, <1>4, <2>1, Zenon DEF FilesTypes, GenInv
    <3>2. QED
      BY <1>3, <1>11, <2>2, <3>1
  <2>4. /\ ReadTypes' /\ rpc'[r] = "idle" /\ rop'[r] = "none" /\ rc'[r] = "OK"
        /\ announce'[r] = FALSE /\ got'[r] = x
        /\ \A s \in Readers : s # r =>
             UNCHANGED <<rpc[s], rop[s], rc[s], rhdr[s], announce[s], got[s]>>
    <3>1. "idle" \in ReaderPlaces
      BY Zenon DEF ReaderPlaces
    <3>2. got' = [got EXCEPT ![r] = x]
      BY <2>1, <2>2, Zenon
    <3>3. /\ rpc' = [rpc EXCEPT ![r] = "idle"] /\ rop' = [rop EXCEPT ![r] = "none"]
          /\ rc' = [rc EXCEPT ![r] = "OK"]
      BY <2>1, Zenon DEF Return
    <3>4. announce' \in [Readers -> BOOLEAN]
      BY <1>2, <2>1, Zenon DEF ReadTypes
    <3>5. ReadTypes'
      <4>1. /\ rpc' \in [Readers -> ReaderPlaces] /\ rc' \in [Readers -> Codes]
            /\ rop' \in [Readers -> {"none", "read", "describe", "wait", "alive"}]
        BY <1>2, <1>11, <3>1, <3>3, Zenon DEF ReadTypes
      <4>2. got' \in [Readers -> [value : Nat, generation : Nat \X Nat, file : 0 .. MaxFiles,
                                 attached : BOOLEAN]]
        BY <1>2, <2>3, <3>2, Zenon DEF ReadTypes
      <4>3. QED
        BY <1>2, <2>1, <3>4, <4>1, <4>2, Zenon DEF ReadTypes
    <3>6. announce'[r] = FALSE
      BY <1>2, <2>1, Zenon DEF ReadTypes
    <3>7. \A s \in Readers : s # r =>
            UNCHANGED <<rpc[s], rop[s], rc[s], rhdr[s], announce[s], got[s]>>
      BY <1>2, <2>1, <3>2, <3>3, Zenon DEF ReadTypes
    <3>8. QED
      BY <1>2, <3>2, <3>3, <3>5, <3>6, <3>7, Zenon DEF ReadTypes
  <2>5. PlaceOK("idle", "none", "OK", rhdr[r])
    BY Zenon DEF PlaceOK
  <2>6. rhdr[r] <= rhdr[r] /\ latest[rhdr[r]] <= latest[rhdr[r]]
    BY <1>3, <2>3
  <2>7. SeenOK("idle", rhdr[r], FALSE, x)
    BY <1>2, <2>1, <2>3, <2>6, Zenon DEF SeenOK
  <2>8. QED
    BY <1>1, <2>1, <2>4, <2>5, <2>7, ReadMove, Zenon
<1>18. ASSUME \/ read_busy(r) \/ (state_read(r) /\ rc'[r] # "OK") \/ state_describe(r)
              \/ writer_alive_getlk(r) \/ call_error(r) \/ wait_refuse(r) \/ wait_timeout(r)
              \/ wait_interrupted(r)
       PROVE  ReadInv'
  <2>1. rpc[r] # "attached" /\ UNCHANGED rhdr
    BY <1>2, <1>18, Zenon
    DEF read_busy, state_read, state_describe, writer_alive_getlk, call_error, wait_refuse,
        wait_timeout, wait_interrupted, handleVars
  <2>2. UNCHANGED <<announce, got>>
    <3>1. ASSUME NEW c, Return(r, c) PROVE rc'[r] = c
      BY <1>2, <3>1, Zenon DEF Return, ReadTypes
    <3>2. ASSUME state_read(r), rc'[r] # "OK" PROVE UNCHANGED <<announce, got>>
      BY <3>1, <3>2, Zenon DEF state_read
    <3>3. QED
      BY <1>18, <3>2, Zenon
      DEF read_busy, state_describe, writer_alive_getlk, call_error, wait_refuse, wait_timeout,
          wait_interrupted, handleVars
  <2>3. \E c \in Codes : Return(r, c)
    BY <1>11, <1>18, Zenon
    DEF read_busy, state_read, state_describe, writer_alive_getlk, call_error, wait_refuse,
        wait_timeout, wait_interrupted, ReadCode, Codes
  <2>4. QED
    BY <1>6, <2>1, <2>2, <2>3, Zenon
<1>19. ASSUME read_start(r) \/ wait_poll(r) \/ wait_load(r) PROVE ReadInv'
  <2>1. PICK to \in {"reading", "sync", "retired"} :
          /\ rpc[r] = "synced" /\ At(r, rpc[r], to) /\ UNCHANGED <<rop, rc, rhdr, announce, got>>
          /\ to # "sync" => rc[r] = "OK"
          /\ rop[r] = IF to = "reading" THEN "read" ELSE "wait"
    BY <1>19, Zenon DEF read_start, wait_poll, wait_load, At, handleVars
  <2>2. PlaceOK(to, rop[r], rc[r], rhdr[r]) /\ to \in ReaderPlaces /\ to # "attached"
    BY <1>2, <2>1, Zenon DEF PlaceOK, ReaderPlaces
  <2>3. rpc[r] # "attached"
    BY <2>1, Zenon
  <2>4. QED
    BY <1>7, <2>1, <2>2, <2>3, Zenon
<1>20. ASSUME wait_retired(r) \/ futex_wait(r) \/ wait_woken(r) \/ wait_slice(r) PROVE ReadInv'
  <2>1. PICK to \in {"sync", "peek", "sleep", "identity"} :
          /\ rpc[r] \in {"retired", "futex", "sleep"} /\ At(r, rpc[r], to)
          /\ UNCHANGED <<rop, rc, rhdr, announce, got>>
    BY <1>20, Zenon DEF wait_retired, futex_wait, wait_woken, wait_slice, At, handleVars
  <2>2. PlaceOK(to, rop[r], rc[r], rhdr[r]) /\ to \in ReaderPlaces /\ to # "attached"
    BY <1>2, <2>1, Zenon DEF PlaceOK, ReaderPlaces
  <2>3. rpc[r] # "attached"
    BY <2>1, Zenon
  <2>4. QED
    BY <1>7, <2>1, <2>2, <2>3, Zenon
<1>21. ASSUME writer_alive_open(r) \/ wait_peek(r) PROVE ReadInv'
  <2>1. /\ rpc[r] \in {"synced", "peek"} /\ UNCHANGED <<rhdr, announce, got>>
        /\ \/ \E c \in Codes : Return(r, c)
           \/ \E to \in {"getlk", "futex"} :
                /\ At(r, rpc[r], to) /\ UNCHANGED <<rop, rc>>
                /\ rop[r] = IF to = "getlk" THEN "alive" ELSE "wait"
                /\ to = "futex" => rhdr[r] # 0
    BY <1>2, <1>21, Zenon DEF writer_alive_open, wait_peek, handleVars, At, PlaceOK, Codes
  <2>2. rpc[r] # "attached"
    BY <2>1, Zenon
  <2>3. ASSUME NEW to \in {"getlk", "futex"}, At(r, rpc[r], to), UNCHANGED <<rop, rc>>,
               rop[r] = IF to = "getlk" THEN "alive" ELSE "wait", to = "futex" => rhdr[r] # 0
        PROVE  ReadInv'
    <3>1. PlaceOK(to, rop[r], rc[r], rhdr[r]) /\ to \in ReaderPlaces /\ to # "attached"
      BY <2>3, Zenon DEF PlaceOK, ReaderPlaces
    <3>2. QED
      BY <1>7, <2>1, <2>2, <2>3, <3>1, Zenon
  <2>4. QED
    BY <1>6, <2>1, <2>2, <2>3, Zenon
<1>22. Begin(r) => ReadInv'
  BY <1>9, <1>10, Zenon DEF Begin
<1>23. Run(r) => ReadInv'
  BY <1>12, <1>13, <1>14, <1>15, <1>17, <1>18, <1>19, <1>20, <1>21, Zenon DEF Run
<1>24. QED
  BY <1>16, <1>18, <1>20, <1>22, <1>23, Zenon DEF Reader

\* The handles are new at first.
LEMMA ReadInitInv == Init => ReadInv
<1> SUFFICES ASSUME Init PROVE ReadInv
  BY Zenon
<1> USE DEF NoFile
<1>1. /\ rpc = [r \in Readers |-> "idle"] /\ rop = [r \in Readers |-> "none"]
      /\ rc = [r \in Readers |-> "OK"] /\ rhdr = [r \in Readers |-> 0]
      /\ announce = [r \in Readers |-> FALSE] /\ got = [r \in Readers |-> NoResult]
  BY Zenon DEF Init
<1>2. /\ 0 \in 0 .. MaxFiles /\ NoResult.value = 0 /\ NoResult.file = 0
      /\ NoResult \in [value : Nat, generation : Nat \X Nat, file : 0 .. MaxFiles,
                       attached : BOOLEAN]
  BY FilesAssumption DEF NoResult, Random
<1>3. ReadTypes
  <2>1. "idle" \in ReaderPlaces /\ "OK" \in Codes
    BY Zenon DEF ReaderPlaces, Codes
  <2>2. QED
    BY <1>1, <1>2, <2>1, Zenon DEF ReadTypes
<1>4. Known(0)
  <2>1. FilesInv
    BY FilesInitInv, Zenon
  <2>2. QED
    BY <2>1 DEF Known, FilesInv, FilesTypes, Files
<1>5. PlaceOK("idle", "none", "OK", 0) /\ SeenOK("idle", 0, FALSE, NoResult)
  BY <1>2, <1>4, Zenon DEF PlaceOK, SeenOK
<1>6. QED
  BY <1>1, <1>3, <1>5, OrderInitInv, Zenon DEF ReadInv

\* Every step keeps the invariant: of a process that may die or fail, of rm and
\* of a reader.
LEMMA ReadNextInv ==
  ASSUME ReadInv, FilesInv, FilesInv', GenInv, OneHolder, [Next]_vars
  PROVE  ReadInv'
<1>1. ASSUME OrderInv', UNCHANGED <<rpc, rop, rc, rhdr, announce, got>>,
             nfiles <= nfiles', \A f \in tmps' : f \in tmps \/ f > nfiles,
             \A f \in Files : latest[f] <= latest'[f] /\ (retired[f] => retired'[f]),
             path' = path \/ path' = NoFile \/ (path' = nfiles /\ nfiles \in tmps)
      PROVE  ReadInv'
  <2>1. ASSUME NEW r \in Readers
        PROVE  PlaceOK(rpc[r], rop[r], rc[r], rhdr[r])' /\ SeenOK(rpc[r], rhdr[r], announce[r], got[r])'
    <3>1. PICK pl, f, a, x : pl = rpc[r] /\ f = rhdr[r] /\ a = announce[r] /\ x = got[r]
      OBVIOUS
    <3>1a. /\ f \in 0 .. MaxFiles
           /\ x \in [value : Nat, generation : Nat \X Nat, file : 0 .. MaxFiles, attached : BOOLEAN]
      BY <3>1, Zenon DEF ReadInv, ReadTypes
    <3>2. SeenOK(pl, f, a, x)
      BY <3>1, Zenon DEF ReadInv
    <3>3. SeenOK(pl, f, a, x)'
      BY <1>1, <3>1a, <3>2, SeenFrame, Zenon DEF FilesInv
    <3>4. QED
      BY <1>1, <3>1, <3>3, Zenon DEF ReadInv, PlaceOK, SeenOK, Known
  <2>2. QED
    BY <1>1, <2>1, Zenon DEF ReadInv, ReadTypes
<1>2. ASSUME NEW p \in Procs, WriterStep(p) PROVE ReadInv'
  <2>1. OrderInv /\ Writer(p) /\ UNCHANGED <<rpc, rop, rc, rhdr, announce, got>>
    BY <1>2, Zenon DEF ReadInv, WriterStep, readerVars, handleVars
  <2>2. OrderInv'
    BY <2>1, OrderWriterStep, Zenon
  <2>3. QED
    BY <1>1, <2>1, <2>2, WriterEffect, Zenon
<1>3. ASSUME UNCHANGED <<tmps, nfiles, retired, latest, npub, wpc, req, hdr>>,
             path' = path \/ path' = NoFile, UNCHANGED <<rpc, rop, rc, rhdr, announce, got>>
      PROVE  ReadInv'
  <2>1. OrderInv'
    BY <1>3, OrderFrame, Zenon DEF ReadInv, Owns, Publishing, Retiring
  <2>2. nfiles <= nfiles' /\ \A f \in Files : latest[f] <= latest'[f]
    BY <1>3 DEF FilesInv, FilesTypes
  <2>3. QED
    BY <1>1, <1>3, <2>1, <2>2, Zenon
<1>4. ASSUME rm_data, UNCHANGED readerVars PROVE ReadInv'
  BY <1>3, <1>4, Zenon DEF rm_data, stateVars, procVars, readerVars, handleVars
<1>5. ASSUME UNCHANGED vars PROVE ReadInv'
  BY <1>3, <1>5, Zenon
  DEF vars, filesVars, fileVars, stateVars, procVars, readerVars, handleVars
<1>6. QED
  BY <1>2, <1>4, <1>5, ReadReaderStep, Zenon DEF Next

\* The invariant of reading holds throughout.
LEMMA ReadInvariance == Spec => []ReadInv
<1>1. ReadInv /\ FilesInv /\ FilesInv' /\ GenInv /\ OneHolder /\ [Next]_vars => ReadInv'
  BY ReadNextInv, Zenon
<1>2. QED
  BY <1>1, ReadInitInv, FilesInvariance, GenInvariance, OneWriter, PTL DEF Spec

\* The only step that hands out a value, and what a returning read is.
LEMMA HandsOut ==
  ASSUME ReadInv, NEW r \in Readers, Reader(r)
  PROVE  \/ /\ got'[r].value = latest[rhdr[r]] /\ got'[r].generation = gen[rhdr[r]]
            /\ got'[r].file = rhdr[r] /\ got'[r].attached = announce[r]
            /\ rpc[r] = "reading" /\ rhdr[r] \in Files /\ latest[rhdr[r]] # 0
         \/ /\ got'[r] = got[r] \/ got'[r] = NoResult
            /\ ~(rop[r] = "read" /\ rop'[r] = "none" /\ rc'[r] = "OK")
<1>1. ReadTypes /\ PlaceOK(rpc[r], rop[r], rc[r], rhdr[r])
  BY Zenon DEF ReadInv
<1>2. ASSUME NEW c, Return(r, c) PROVE rc'[r] = c
  BY <1>1, <1>2, Zenon DEF Return, ReadTypes
<1>3. ASSUME reader_close(r) PROVE got'[r] = NoResult /\ rop[r] # "read"
  BY <1>1, <1>3, Zenon DEF reader_close, ReadTypes
<1>4. ASSUME \/ (\E o \in Calls : call(r, o)) \/ writer_alive(r)
             \/ \E last \in used \cup {Random}, t \in Timed : state_wait(r, last, t)
      PROVE  got' = got /\ rop[r] # "read"
  BY <1>4, Zenon DEF call, writer_alive, state_wait, handleVars
<1>5. ASSUME \/ reader_sync(r) \/ attach(r) \/ attach_check(r) \/ identity_check(r)
             \/ attach_error(r) \/ read_start(r)
      PROVE  got' = got /\ rop' = rop
  BY <1>5, Zenon
  DEF reader_sync, attach, attach_check, identity_check, attach_error, read_start, handleVars
<1>6. ASSUME read_busy(r) PROVE got' = got /\ rc'[r] # "OK"
  BY <1>2, <1>6, Zenon DEF read_busy, handleVars
<1>7. ASSUME \/ state_describe(r) \/ writer_alive_open(r) \/ writer_alive_getlk(r) \/ call_error(r)
             \/ wait_refuse(r) \/ wait_poll(r) \/ wait_load(r)
      PROVE  got' = got /\ rop[r] # "read"
  BY <1>1, <1>7, Zenon
  DEF state_describe, writer_alive_open, writer_alive_getlk, call_error, wait_refuse, wait_poll,
      wait_load, handleVars, PlaceOK
<1>8. ASSUME \/ wait_timeout(r) \/ wait_retired(r) \/ wait_peek(r) \/ futex_wait(r) \/ wait_woken(r)
             \/ wait_slice(r) \/ wait_interrupted(r)
      PROVE  got' = got /\ rop[r] # "read"
  BY <1>1, <1>8, Zenon
  DEF wait_timeout, wait_retired, wait_peek, futex_wait, wait_woken, wait_slice, wait_interrupted,
      At, handleVars, PlaceOK
<1>9. ASSUME state_read(r), rc'[r] # "OK" PROVE got' = got
  BY <1>2, <1>9, Zenon DEF state_read
<1>10. ASSUME state_read(r), rc'[r] = "OK"
       PROVE  /\ got'[r].value = latest[rhdr[r]] /\ got'[r].generation = gen[rhdr[r]]
              /\ got'[r].file = rhdr[r] /\ got'[r].attached = announce[r]
              /\ rpc[r] = "reading" /\ rhdr[r] \in Files /\ latest[rhdr[r]] # 0
  <2>1. /\ rc[r] = "OK" /\ ReadCode(rhdr[r]) = "OK"
        /\ got' = [got EXCEPT ![r] = [value |-> latest[rhdr[r]], generation |-> gen[rhdr[r]],
                                      file |-> rhdr[r], attached |-> announce[r]]]
    BY <1>2, <1>10, Zenon DEF state_read
  <2>2. rpc[r] = "reading" /\ rhdr[r] # 0 /\ latest[rhdr[r]] # 0
    BY <1>1, <1>10, <2>1, Zenon DEF state_read, ReadCode, PlaceOK, NoFile
  <2>3. rhdr[r] \in Files
    BY <1>1, <2>2 DEF ReadTypes, Files
  <2>4. PICK x : x = [value |-> latest[rhdr[r]], generation |-> gen[rhdr[r]], file |-> rhdr[r],
                      attached |-> announce[r]]
    BY Zenon
  <2>5. /\ x.value = latest[rhdr[r]] /\ x.generation = gen[rhdr[r]]
        /\ x.file = rhdr[r] /\ x.attached = announce[r]
    BY <2>4, Zenon
  <2>6. got'[r] = x
    BY <1>1, <2>1, <2>4, Zenon DEF ReadTypes
  <2>7. QED
    BY <2>2, <2>3, <2>5, <2>6, Zenon
<1>11. QED
  BY <1>3, <1>4, <1>5, <1>6, <1>7, <1>8, <1>9, <1>10, Zenon DEF Reader, Begin, Run

\* A step leaves what other handles have handed out alone.
LEMMA OthersKeep ==
  ASSUME ReadInv, [Next]_vars, NEW r \in Readers, ~Reader(r)
  PROVE  UNCHANGED <<got[r], rop[r]>>
<1>1. ASSUME NEW s \in Readers, Reader(s) PROVE UNCHANGED <<got[r], rop[r]>>
  <2>1. s # r /\ ReadTypes
    BY <1>1, Zenon DEF ReadInv
  <2>2. ASSUME NEW c, Return(s, c) PROVE UNCHANGED rop[r]
    BY <2>1, <2>2, Zenon DEF Return, ReadTypes
  <2>3. ASSUME Begin(s) PROVE UNCHANGED <<got[r], rop[r]>>
    BY <2>1, <2>3, Zenon
    DEF Begin, reader_close, call, writer_alive, state_wait, handleVars, ReadTypes
  <2>4. ASSUME \/ reader_sync(s) \/ attach(s) \/ attach_check(s) \/ identity_check(s)
               \/ attach_error(s) \/ read_start(s) \/ wait_poll(s) \/ wait_load(s)
               \/ wait_retired(s) \/ futex_wait(s) \/ wait_woken(s) \/ wait_slice(s)
        PROVE  UNCHANGED <<got[r], rop[r]>>
    BY <2>4, Zenon
    DEF reader_sync, attach, attach_check, identity_check, attach_error, read_start, wait_poll,
        wait_load, wait_retired, futex_wait, wait_woken, wait_slice, handleVars
  <2>5. ASSUME \/ read_busy(s) \/ state_describe(s) \/ writer_alive_open(s)
               \/ writer_alive_getlk(s) \/ call_error(s) \/ wait_refuse(s) \/ wait_timeout(s)
               \/ wait_interrupted(s) \/ wait_peek(s)
        PROVE  UNCHANGED <<got[r], rop[r]>>
    BY <2>2, <2>5, Zenon
    DEF read_busy, state_describe, writer_alive_open, writer_alive_getlk, call_error, wait_refuse,
        wait_timeout, wait_interrupted, wait_peek, handleVars
  <2>6. ASSUME state_read(s) PROVE UNCHANGED <<got[r], rop[r]>>
    BY <2>1, <2>2, <2>6, Zenon DEF state_read, ReadTypes
  <2>7. QED
    BY <1>1, <2>3, <2>4, <2>5, <2>6, Zenon DEF Reader, Run
<1>2. ASSUME UNCHANGED readerVars \/ UNCHANGED vars PROVE UNCHANGED <<got[r], rop[r]>>
  BY <1>2, Zenon DEF vars, readerVars, handleVars
<1>3. QED
  BY <1>1, <1>2, Zenon DEF Next, WriterStep

\* A handle never goes back to an older value: not when it reattaches, however
\* many processes replace, unlink, die and are restarted, and not when somebody
\* deletes the data file.
THEOREM HandlesNeverGoBack == Spec => NeverOlder
<1>1. ASSUME ReadInv, FilesInv, [Next]_vars
      PROVE  [\A r \in Readers : got'[r] # NoResult => got'[r].value >= got[r].value]_vars
  <2> SUFFICES ASSUME NEW r \in Readers, got'[r] # NoResult PROVE got'[r].value >= got[r].value
    BY Zenon
  <2>1. got[r] \in [value : Nat, generation : Nat \X Nat, file : 0 .. MaxFiles, attached : BOOLEAN]
    BY <1>1, Zenon DEF ReadInv, ReadTypes
  <2>2. got[r].value \in Nat /\ got[r].file \in 0 .. MaxFiles
    BY <2>1, Zenon
  <2>3. CASE got'[r] = got[r]
    <3>1. \A n \in Nat : n >= n
      OBVIOUS
    <3>2. QED
      BY <2>2, <2>3, <3>1, Zenon
  <2>4. CASE got'[r].value = latest[rhdr[r]] /\ rhdr[r] \in Files /\ latest[rhdr[r]] # 0
    <3>1. latest \in [Files -> Nat] /\ latest[rhdr[r]] \in Nat
      BY <1>1, <2>4, Zenon DEF FilesInv, FilesTypes
    <3>2. rhdr[r] # 0 /\ rhdr[r] \in Nat
      BY <2>4, FilesAssumption DEF Files
    <3>3. SeenOK(rpc[r], rhdr[r], announce[r], got[r])
      BY <1>1, Zenon DEF ReadInv
    <3>4. CASE got[r].file = 0
      <4>1. got[r].value = 0
        BY <3>3, <3>4, Zenon DEF SeenOK, NoFile
      <4>2. QED
        BY <2>4, <3>1, <4>1
    <3>5. CASE got[r].file # 0
      <4>1. got[r].file \in Files /\ got[r].file \in Nat
        BY <2>2, <3>5 DEF Files
      <4>2. got[r].value <= latest[got[r].file] /\ got[r].file <= rhdr[r]
        BY <3>2, <3>3, <3>5, Zenon DEF SeenOK, NoFile
      <4>3. got[r].file = rhdr[r] \/ got[r].file < rhdr[r]
        BY <3>2, <4>1, <4>2
      <4>4. got[r].file < rhdr[r] => latest[got[r].file] <= latest[rhdr[r]]
        BY <1>1, <2>4, <4>1, Zenon DEF ReadInv, OrderInv
      <4>5. latest[got[r].file] \in Nat
        BY <3>1, <4>1, Zenon
      <4>6. \A a, b, c \in Nat : a <= b /\ b <= c => c >= a
        OBVIOUS
      <4>7. \A a, b \in Nat : a <= b => b >= a
        OBVIOUS
      <4>8. QED
        BY <2>2, <2>4, <3>1, <4>2, <4>3, <4>4, <4>5, <4>6, <4>7, Zenon
    <3>6. QED
      BY <3>4, <3>5, Zenon
  <2>5. QED
    BY <1>1, <2>3, <2>4, HandsOut, OthersKeep, Zenon
<1>2. QED
  BY <1>1, ReadInvariance, FilesInvariance, PTL DEF Spec, NeverOlder

\* PSMSGR_INFO_ATTACHED marks exactly the results that come from another file
\* than the result before, whatever the handle went through in between.
THEOREM AttachedMarksExactly == Spec => AttachedMarksNewFile
<1>1. ASSUME ReadInv, [Next]_vars
      PROVE  [\A r \in Readers :
                (rop[r] = "read" /\ rop'[r] = "none" /\ rc'[r] = "OK")
                  => (got'[r].attached <=> got'[r].file # got[r].file)]_vars
  <2> SUFFICES ASSUME NEW r \in Readers, rop[r] = "read", rop'[r] = "none", rc'[r] = "OK"
               PROVE  got'[r].attached <=> got'[r].file # got[r].file
    BY Zenon
  <2>1. Reader(r)
    BY <1>1, OthersKeep, Zenon
  <2>2. /\ got'[r].file = rhdr[r] /\ got'[r].attached = announce[r]
        /\ rpc[r] = "reading" /\ rhdr[r] \in Files
    BY <1>1, <2>1, HandsOut, Zenon
  <2>3. announce[r] <=> rhdr[r] # got[r].file
    <3>1. rhdr[r] # NoFile
      BY <2>2, FilesAssumption DEF Files, NoFile
    <3>2. rpc[r] # "attached"
      BY <2>2, Zenon
    <3>3. QED
      BY <1>1, <3>1, <3>2, Zenon DEF ReadInv, SeenOK
  <2>4. QED
    BY <2>2, <2>3, Zenon
<1>2. QED
  BY <1>1, ReadInvariance, PTL DEF Spec, AttachedMarksNewFile

=============================================================================
