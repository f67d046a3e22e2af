----------------------------- MODULE ChannelLock ----------------------------
(***************************************************************************)
(* The writer lock of a channel (src/src/state.c, lock_channel): an OFD    *)
(* lock on an inode that the lock path may stop naming.  Whoever gets the  *)
(* lock checks that the path still names the locked inode, because         *)
(* psmsgr_state_unlink removes the lock file while it holds the lock.      *)
(* psmsgr_state_writer_alive asks whether anybody has the lock.            *)
(*                                                                         *)
(* Each action is one system call, with what the caller does about its     *)
(* result.  An inode number is free for reuse once neither the path nor an *)
(* open descriptor refers to it.                                           *)
(*                                                                         *)
(* A definition X_Change that comes before X is X with a plausible mistake *)
(* in it; PROJECT.json says which property notices.                        *)
(***************************************************************************)
CONSTANTS
  Procs,     \* threads that open a writer or unlink the channel
  Readers,   \* threads that ask for the writer
  Inodes,    \* inode numbers for lock files
  None

ASSUME LockAssumption == None \notin Procs /\ None \notin Inodes

VARIABLES
  lockpath,  \* the inode that the lock path names, or None
  owner,     \* per inode: who holds the OFD lock
  lock_fd,   \* per process: the inode of its descriptor, or None
  lpc,       \* where each process is in lock_channel and after it
  apc,       \* where each reader is in writer_alive
  alive_fd,  \* the inode of its descriptor, or None
  alive,     \* what its last call answered
  (* History, read by no code: *)
  through    \* who has held the channel since the call began

holderVars == <<lockpath, owner, lock_fd, lpc>>
aliveVars == <<apc, alive_fd, alive>>
lockVars == <<holderVars, aliveVars, through>>

InUse == {lock_fd[p] : p \in Procs} \cup {alive_fd[r] : r \in Readers} \cup {lockpath}

-----------------------------------------------------------------------------

Go(p, where) ==
  /\ lpc' = [lpc EXCEPT ![p] = where]
  /\ through' = [r \in Readers |-> IF lpc[p] = "in" THEN through[r] \ {p} ELSE through[r]]
  /\ UNCHANGED aliveVars

\* close(lock_fd): the kernel releases the OFD lock with it.
CloseLock(p) ==
  /\ lock_fd' = [lock_fd EXCEPT ![p] = None]
  /\ owner' = [i \in Inodes |-> IF owner[i] = p THEN None ELSE owner[i]]
  /\ UNCHANGED lockpath

lock_channel(p) ==
  lpc[p] = "out" /\ Go(p, "create") /\ UNCHANGED <<lockpath, owner, lock_fd>>

\* open(O_CREAT | O_EXCL).
lock_create(p) ==
  /\ lpc[p] = "create"
  /\ IF lockpath # None
     THEN Go(p, "open") /\ UNCHANGED <<lockpath, lock_fd>>
     ELSE \E i \in Inodes \ InUse :
            /\ lockpath' = i
            /\ lock_fd' = [lock_fd EXCEPT ![p] = i]
            /\ Go(p, "lock")
  /\ UNCHANGED owner

\* The second open, without O_CREAT.
lock_open(p) ==
  /\ lpc[p] = "open"
  /\ lock_fd' = [lock_fd EXCEPT ![p] = lockpath]
  /\ Go(p, IF lockpath = None THEN "create" ELSE "lock")
  /\ UNCHANGED <<lockpath, owner>>

lock_take_Shared(p) ==
  /\ lpc[p] = "lock"
  /\ owner' = [owner EXCEPT ![lock_fd[p]] = p]
  /\ Go(p, "check")
  /\ UNCHANGED <<lockpath, lock_fd>>

\* fcntl(F_OFD_SETLK).
lock_take(p) ==
  LET i == lock_fd[p] IN
  /\ lpc[p] = "lock"
  /\ owner' = [owner EXCEPT ![i] = IF @ = None THEN p ELSE @]
  /\ Go(p, IF owner[i] = None THEN "check" ELSE "held")
  /\ UNCHANGED <<lockpath, lock_fd>>

names_inode_Always(p) == TRUE
names_inode(p) == lockpath = lock_fd[p]

lock_held_Retry(p) == lpc[p] = "held" /\ Go(p, "create") /\ CloseLock(p)

\* Somebody holds the lock: a writer of this channel if the path still names
\* the inode (WRITER_EXISTS), else an unlink that is about to let go of it.
lock_held(p) ==
  /\ lpc[p] = "held"
  /\ Go(p, IF names_inode(p) THEN "out" ELSE "create")
  /\ CloseLock(p)

\* The identity check of the inode just locked.
lock_check(p) ==
  /\ lpc[p] = "check"
  /\ IF names_inode(p)
     THEN Go(p, "in") /\ UNCHANGED <<lockpath, owner, lock_fd>>
     ELSE Go(p, "create") /\ CloseLock(p)

unlink_lock_Unchecked(p) ==
  /\ lpc[p] \in {"check", "in"}
  /\ lockpath' = None
  /\ Go(p, "removed")
  /\ UNCHANGED <<owner, lock_fd>>

\* psmsgr_state_unlink removes the lock file it holds.
unlink_lock(p) ==
  /\ lpc[p] = "in"
  /\ lockpath' = None
  /\ Go(p, "removed")
  /\ UNCHANGED <<owner, lock_fd>>

\* The end of an unlink or of a writer handle, an error return, or the death
\* of the process.
release(p) == lpc[p] # "out" /\ Go(p, "out") /\ CloseLock(p)

Locking(p) ==
  \/ lock_create(p) \/ lock_open(p) \/ lock_take(p) \/ lock_held(p) \/ lock_check(p)

-----------------------------------------------------------------------------
(* psmsgr_state_writer_alive, as far as the lock goes. *)

Holders == {p \in Procs : lpc[p] = "in"}

alive_start(r) ==
  /\ apc[r] = "idle"
  /\ apc' = [apc EXCEPT ![r] = "open"]
  /\ through' = [through EXCEPT ![r] = Holders]
  /\ UNCHANGED <<holderVars, alive_fd, alive>>

Answer(r, a) ==
  /\ apc' = [apc EXCEPT ![r] = "idle"]
  /\ alive' = [alive EXCEPT ![r] = a]
  /\ through' = [through EXCEPT ![r] = {}]

alive_open(r) ==
  /\ apc[r] = "open"
  /\ IF lockpath = None
     THEN Answer(r, "no") /\ UNCHANGED alive_fd
     ELSE /\ apc' = [apc EXCEPT ![r] = "getlk"]
          /\ alive_fd' = [alive_fd EXCEPT ![r] = lockpath]
          /\ UNCHANGED <<alive, through>>
  /\ UNCHANGED holderVars

\* fcntl(F_OFD_GETLK), which takes no lock.
alive_getlk(r) ==
  /\ apc[r] = "getlk"
  /\ Answer(r, IF owner[alive_fd[r]] # None THEN "yes" ELSE "no")
  /\ alive_fd' = [alive_fd EXCEPT ![r] = None]
  /\ UNCHANGED holderVars

\* A system call fails.
alive_error(r) ==
  /\ apc[r] # "idle"
  /\ Answer(r, "SYS")
  /\ alive_fd' = [alive_fd EXCEPT ![r] = None]
  /\ UNCHANGED holderVars

-----------------------------------------------------------------------------

LockInit ==
  /\ lockpath \in Inodes \cup {None}
  /\ owner = [i \in Inodes |-> None]
  /\ lock_fd = [p \in Procs |-> None]
  /\ lpc = [p \in Procs |-> "out"]
  /\ apc = [r \in Readers |-> "idle"]
  /\ alive_fd = [r \in Readers |-> None]
  /\ alive = [r \in Readers |-> "no"]
  /\ through = [r \in Readers |-> {}]

LockNext ==
  \/ \E p \in Procs : lock_channel(p) \/ Locking(p) \/ unlink_lock(p) \/ release(p)
  \/ \E r \in Readers : alive_start(r) \/ alive_open(r) \/ alive_getlk(r) \/ alive_error(r)

LockSpec == LockInit /\ [][LockNext]_lockVars

\* A thread inside lock_channel keeps running; holders need not let go.
LockLive == LockSpec /\ \A p \in Procs : WF_lockVars(Locking(p))

-----------------------------------------------------------------------------

\* Every variable has its type.
LockTypeOK ==
  /\ lockpath \in Inodes \cup {None}
  /\ owner \in [Inodes -> Procs \cup {None}]
  /\ lock_fd \in [Procs -> Inodes \cup {None}]
  /\ lpc \in [Procs -> {"out", "create", "open", "lock", "held", "check", "in",
                        "removed"}]
  /\ apc \in [Readers -> {"idle", "open", "getlk"}]
  /\ alive_fd \in [Readers -> Inodes \cup {None}]
  /\ alive \in [Readers -> {"yes", "no", "SYS"}]
  /\ through \in [Readers -> SUBSET Procs]

\* At most one process holds the channel, however lock files come and go: a
\* writer handle, or an unlink that has not yet removed the lock file.
OneHolder == \A p, q \in Procs : lpc[p] = "in" /\ lpc[q] = "in" => p = q

\* While somebody holds the channel, the lock path names the inode they have
\* locked: whoever comes finds the lock, and nobody else removes it.
HolderIsVisible ==
  \A p \in Procs : lpc[p] = "in" => lockpath = lock_fd[p] /\ owner[lockpath] = p

\* writer_alive does not miss a writer: if one held the channel during the
\* whole call, the answer is not 0.
AliveSeesHolder ==
  [][\A r \in Readers :
       (apc[r] # "idle" /\ apc'[r] = "idle" /\ through[r] # {}) => alive'[r] # "no"]_lockVars

\* A caller of lock_channel gets an answer, unless somebody else removed the
\* lock file under it.
LockReturns ==
  \A p \in Procs :
    lpc[p] = "create" ~> (lpc[p] \in {"out", "in"} \/ \E q \in Procs : lpc[q] = "removed")
=============================================================================
