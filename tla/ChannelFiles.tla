---------------------------- MODULE ChannelFiles ----------------------------
(***************************************************************************)
(* The data files of a channel: how psmsgr_state_writer_open creates,      *)
(* reuses or replaces the file at the data path, how psmsgr_state_unlink   *)
(* removes it, and how both tell the readers of the old file to leave it   *)
(* (src/src/state.c).  A process may die between any two steps, leaving    *)
(* temporary files and half-done replacements, and somebody may rm the     *)
(* data file.                                                              *)
(*                                                                         *)
(* A published value is its number; StateRing shows that a file serves the *)
(* values published in it atomically.  A generation is a pair <<k, n>>:    *)
(* the random one that value k came with, incremented n times.  That two   *)
(* random generations differ is an assumption here (it fails once in 2^32  *)
(* new files).  Futex words are counted without wrap-around.               *)
(*                                                                         *)
(* A definition X_Change that comes before X is X with a plausible mistake *)
(* in it; PROJECT.json says which property notices.                        *)
(***************************************************************************)
EXTENDS ChannelLock, Naturals

CONSTANTS
  Geoms,         \* capacity, slot_count, payload_type and config_flags
  NoNotify,      \* the geometries with PSMI_CONFIG_NO_NOTIFY
  LeftBehind,    \* what an earlier library left at the data path
  Crashes,       \* whether processes die
  Faults,        \* whose system calls fail: a set of "writers" and "readers"
  Rm,            \* whether data files are deleted behind the library's back
  MaxFiles,      \* bound: data files created
  MaxValues      \* bound: values published

\* "ok": a valid file of this version; "minor": of another minor version;
\* "corrupt": with an impossible `latest'; "bad": with our magic and an
\* invalid header; "foreign": anything else; "blank": under construction.
Kinds == {"ok", "minor", "corrupt", "bad", "foreign", "blank"}

ASSUME FilesAssumption ==
  /\ NoNotify \subseteq Geoms
  /\ LeftBehind \subseteq (Kinds \ {"blank"}) \cup {"retired", "absent"}
  /\ Crashes \in BOOLEAN /\ Faults \subseteq {"writers", "readers"} /\ Rm \in BOOLEAN
  /\ MaxFiles \in Nat \ {0} /\ MaxValues \in Nat

Files == 1 .. MaxFiles
NoFile == 0
Random == <<0, 0>>                 \* a random generation not used yet

VARIABLES
  path,                            \* the file the data path names, or NoFile
  tmps,                            \* the files that have a temporary name
  nfiles,                          \* files created so far
  kind, geom,                      \* per file: its header
  retired, latest, gen, notify,    \* per file: RETIRED; value, generation; futex
  asleep,                          \* per reader: the file whose futex it waits on
  wpc,                             \* where each process is while it holds the lock
  req, recreate,                   \* the options of its writer_open
  old, hdr,                        \* the file it replaces, the file it maps
  wgen,                            \* the generation it publishes next
  (* History, read by no code: *)
  npub,                            \* values published
  replaced,                        \* files the library took from the path
  used                             \* generations published

fileVars == <<path, tmps, nfiles, kind, geom>>
stateVars == <<retired, latest, gen, notify, asleep>>
procVars == <<wpc, req, recreate, old, hdr, wgen>>
filesVars == <<fileVars, stateVars, procVars, npub, replaced, used>>

Step(p, from, to) == wpc[p] = from /\ wpc' = [wpc EXCEPT ![p] = to]

\* The process forgets its call or its handle.
Forget(p) ==
  /\ wpc' = [wpc EXCEPT ![p] = "none"]
  /\ req' = [req EXCEPT ![p] = None]
  /\ recreate' = [recreate EXCEPT ![p] = FALSE]
  /\ old' = [old EXCEPT ![p] = NoFile]
  /\ hdr' = [hdr EXCEPT ![p] = NoFile]
  /\ wgen' = [wgen EXCEPT ![p] = Random]

\* writer_open is done when next, and its locals are gone.
Opened(p, next) ==
  IF next = "writing"
  THEN /\ req' = [req EXCEPT ![p] = None]
       /\ recreate' = [recreate EXCEPT ![p] = FALSE]
       /\ old' = [old EXCEPT ![p] = NoFile]
  ELSE UNCHANGED <<req, recreate, old>>

-----------------------------------------------------------------------------
(* The calls, and the lock. *)

\* psmsgr_state_writer_open with geometry g.
writer_open(p, g, re) ==
  /\ lock_channel(p)
  /\ wpc' = [wpc EXCEPT ![p] = "stale"]
  /\ req' = [req EXCEPT ![p] = g]
  /\ recreate' = [recreate EXCEPT ![p] = re]
  /\ UNCHANGED <<fileVars, stateVars, old, hdr, wgen, npub, replaced, used>>

unlink(p) ==
  /\ lock_channel(p)
  /\ wpc' = [wpc EXCEPT ![p] = "stale"]
  /\ UNCHANGED <<fileVars, stateVars, req, recreate, old, hdr, wgen, npub, replaced, used>>

locking(p) ==
  /\ Locking(p)
  /\ IF lpc'[p] = "out" THEN Forget(p) ELSE UNCHANGED procVars
  /\ UNCHANGED <<fileVars, stateVars, npub, replaced, used>>

finish_Unlinks(p) ==
  /\ lpc[p] # "out" /\ Go(p, "out")
  /\ lock_fd' = [lock_fd EXCEPT ![p] = None]
  /\ owner' = [i \in Inodes |-> IF owner[i] = p THEN None ELSE owner[i]]
  /\ lockpath' = None
  /\ wpc[p] = "writing" \/ lpc[p] = "removed"
  /\ Forget(p)
  /\ UNCHANGED <<fileVars, stateVars, npub, replaced, used>>

\* Close of a writer handle, or the end of an unlink.
finish(p) ==
  /\ release(p)
  /\ wpc[p] = "writing" \/ lpc[p] = "removed"
  /\ Forget(p)
  /\ UNCHANGED <<fileVars, stateVars, npub, replaced, used>>

\* A system call of writer_open or unlink fails, for one because the file
\* system is full; create_file removes its temporary file.
sys_error(p) ==
  /\ release(p)
  /\ "writers" \in Faults \/ (wpc[p] = "mktemp" /\ nfiles = MaxFiles)
  /\ wpc[p] = "stale" => lpc[p] # "in"
  /\ wpc[p] \in {"stale", "open", "mktemp", "fill", "rename", "unlink_open",
                 "unlink_data", "unlink_lock"}
  /\ Forget(p)
  /\ tmps' = tmps \ {hdr[p]}
  /\ UNCHANGED <<path, nfiles, kind, geom, stateVars, npub, replaced, used>>

crash(p) ==
  /\ Crashes
  /\ release(p)
  /\ Forget(p)
  /\ UNCHANGED <<fileVars, stateVars, npub, replaced, used>>

\* Somebody deletes the data file behind the library's back.
rm_data ==
  /\ Rm
  /\ path # NoFile
  /\ path' = NoFile
  /\ UNCHANGED <<tmps, nfiles, kind, geom, stateVars, procVars, npub, replaced, used, lockVars>>

-----------------------------------------------------------------------------
(* psmsgr_state_writer_open, holding the lock. *)

remove_stale_tmp_Unlocked(p) ==
  /\ IF tmps = {}
     THEN /\ lpc[p] = "in"
          /\ Step(p, "stale", IF req[p] = None THEN "unlink_open" ELSE "open")
          /\ UNCHANGED tmps
     ELSE wpc[p] = "stale" /\ UNCHANGED wpc /\ \E f \in tmps : tmps' = tmps \ {f}
  /\ UNCHANGED <<path, nfiles, kind, geom, stateVars, req, recreate, old, hdr, wgen,
                 npub, replaced, used, lockVars>>

\* The temporary files of this channel, one by one; it is best effort.
remove_stale_tmp(p) ==
  /\ lpc[p] = "in"
  /\ \/ /\ tmps = {} \/ "writers" \in Faults
        /\ Step(p, "stale", IF req[p] = None THEN "unlink_open" ELSE "open")
        /\ UNCHANGED tmps
     \/ wpc[p] = "stale" /\ UNCHANGED wpc /\ \E f \in tmps : tmps' = tmps \ {f}
  /\ UNCHANGED <<path, nfiles, kind, geom, stateVars, req, recreate, old, hdr, wgen,
                 npub, replaced, used, lockVars>>

carried_generation_Same(f) == IF latest[f] = 0 THEN Random ELSE gen[f]
carried_generation(f) == IF latest[f] = 0 THEN Random ELSE <<gen[f][1], gen[f][2] + 1>>

disposition_Retired(f, g, re) ==
  IF kind[f] \notin {"ok", "minor"} THEN (IF re THEN "create" ELSE "FORMAT")
  ELSE IF geom[f] # g THEN (IF re THEN "create" ELSE "MISMATCH")
  ELSE IF kind[f] = "minor" THEN "create" ELSE "reuse"

\* What open_data does about the file f at the path.
disposition(f, g, re) ==
  IF kind[f] \notin {"ok", "minor"} THEN (IF re THEN "create" ELSE "FORMAT")
  ELSE IF retired[f] THEN "create"
  ELSE IF geom[f] # g THEN (IF re THEN "create" ELSE "MISMATCH")
  ELSE IF kind[f] = "minor" THEN "create" ELSE "reuse"

\* open_data reuses the file ...
open_reuse(p) ==
  /\ path # NoFile
  /\ disposition(path, req[p], recreate[p]) = "reuse"
  /\ Step(p, "open", "writing")
  /\ Opened(p, "writing")
  /\ hdr' = [hdr EXCEPT ![p] = path]
  /\ wgen' = [wgen EXCEPT ![p] = carried_generation(path)]
  /\ UNCHANGED <<fileVars, stateVars, npub, replaced, used, lockVars>>

\* ... or goes on to create_file ...
open_create(p) ==
  /\ path # NoFile => disposition(path, req[p], recreate[p]) = "create"
  /\ Step(p, "open", "mktemp")
  /\ old' = [old EXCEPT ![p] = IF path # NoFile /\ kind[path] # "foreign" THEN path ELSE NoFile]
  /\ wgen' = [wgen EXCEPT ![p] = IF path # NoFile /\ kind[path] \in {"ok", "minor"}
                                 THEN carried_generation(path) ELSE Random]
  /\ UNCHANGED <<fileVars, stateVars, req, recreate, hdr, npub, replaced, used, lockVars>>

\* ... or refuses: FORMAT or MISMATCH.
open_refused(p) ==
  /\ wpc[p] = "open"
  /\ path # NoFile
  /\ disposition(path, req[p], recreate[p]) \in {"FORMAT", "MISMATCH"}
  /\ release(p)
  /\ Forget(p)
  /\ UNCHANGED <<fileVars, stateVars, npub, replaced, used>>

\* create_file: mkostemp.
create_tmp(p) ==
  /\ nfiles < MaxFiles
  /\ Step(p, "mktemp", "fill")
  /\ nfiles' = nfiles + 1
  /\ tmps' = tmps \cup {nfiles'}
  /\ hdr' = [hdr EXCEPT ![p] = nfiles']
  /\ UNCHANGED <<path, kind, geom, stateVars, req, recreate, old, wgen, npub, replaced,
                 used, lockVars>>

\* create_file: the header, through the mapping.
create_fill(p) ==
  /\ Step(p, "fill", "rename")
  /\ kind' = [kind EXCEPT ![hdr[p]] = "ok"]
  /\ geom' = [geom EXCEPT ![hdr[p]] = req[p]]
  /\ UNCHANGED <<path, tmps, nfiles, stateVars, req, recreate, old, hdr, wgen, npub,
                 replaced, used, lockVars>>

create_rename_NoRetire(p) ==
  /\ hdr[p] \in tmps
  /\ Step(p, "rename", "writing")
  /\ Opened(p, "writing")
  /\ path' = hdr[p]
  /\ tmps' = tmps \ {hdr[p]}
  /\ replaced' = replaced \cup ({path} \ {NoFile})
  /\ UNCHANGED <<nfiles, kind, geom, stateVars, hdr, wgen, npub, used, lockVars>>

\* create_file: rename.
create_rename(p) ==
  LET next == IF old[p] = NoFile THEN "writing" ELSE "retire" IN
  /\ hdr[p] \in tmps
  /\ Step(p, "rename", next)
  /\ Opened(p, next)
  /\ path' = hdr[p]
  /\ tmps' = tmps \ {hdr[p]}
  /\ replaced' = replaced \cup ({path} \ {NoFile})
  /\ UNCHANGED <<nfiles, kind, geom, stateVars, hdr, wgen, npub, used, lockVars>>

-----------------------------------------------------------------------------
(* retire, for a replaced and for an unlinked file. *)

retire_set(p) ==
  /\ Step(p, "retire", "retire_notify")
  /\ retired' = [retired EXCEPT ![old[p]] = TRUE]
  /\ UNCHANGED <<fileVars, latest, gen, notify, asleep, req, recreate, old, hdr, wgen,
                 npub, replaced, used, lockVars>>

retire_notify(p) ==
  /\ Step(p, "retire_notify", "retire_wake")
  /\ notify' = [notify EXCEPT ![old[p]] = @ + 1]
  /\ UNCHANGED <<fileVars, retired, latest, gen, asleep, req, recreate, old, hdr, wgen,
                 npub, replaced, used, lockVars>>

futex_wake_all(f) ==
  asleep' = [r \in Readers |-> IF asleep[r] = f THEN NoFile ELSE asleep[r]]

retire_wake(p) ==
  LET next == IF req[p] = None THEN "unlink_lock" ELSE "writing" IN
  /\ Step(p, "retire_wake", next)
  /\ Opened(p, next)
  /\ futex_wake_all(old[p])
  /\ UNCHANGED <<fileVars, retired, latest, gen, notify, hdr, wgen, npub, replaced, used,
                 lockVars>>

-----------------------------------------------------------------------------
(* Publishing, as far as other files and waiting readers can tell. *)

publish(p) ==
  LET v == npub + 1
      g == IF wgen[p] = Random THEN <<v, 0>> ELSE wgen[p]
  IN /\ npub < MaxValues
     /\ Step(p, "writing", IF geom[hdr[p]] \in NoNotify THEN "writing" ELSE "notify")
     /\ npub' = v
     /\ latest' = [latest EXCEPT ![hdr[p]] = v]
     /\ gen' = [gen EXCEPT ![hdr[p]] = g]
     /\ used' = used \cup {g}
     /\ wgen' = [wgen EXCEPT ![p] = <<g[1], g[2] + 1>>]
     /\ UNCHANGED <<fileVars, retired, notify, asleep, req, recreate, old, hdr, replaced,
                    lockVars>>

publish_notify(p) ==
  /\ Step(p, "notify", "wake")
  /\ notify' = [notify EXCEPT ![hdr[p]] = @ + 1]
  /\ UNCHANGED <<fileVars, retired, latest, gen, asleep, req, recreate, old, hdr, wgen,
                 npub, replaced, used, lockVars>>

publish_wake(p) ==
  /\ Step(p, "wake", "writing")
  /\ futex_wake_all(hdr[p])
  /\ UNCHANGED <<fileVars, retired, latest, gen, notify, req, recreate, old, hdr, wgen,
                 npub, replaced, used, lockVars>>

-----------------------------------------------------------------------------
(* psmsgr_state_unlink, holding the lock. *)

\* The header is mapped if it has our magic, and the mmap succeeds.
unlink_open(p) ==
  /\ Step(p, "unlink_open", IF path = NoFile THEN "unlink_lock" ELSE "unlink_data")
  /\ \E mapped \in {TRUE, "writers" \notin Faults} :
       old' = [old EXCEPT ![p] = IF path # NoFile /\ kind[path] # "foreign" /\ mapped
                                 THEN path ELSE NoFile]
  /\ UNCHANGED <<fileVars, stateVars, req, recreate, hdr, wgen, npub, replaced, used, lockVars>>

unlink_data(p) ==
  /\ Step(p, "unlink_data", IF path = NoFile \/ old[p] = NoFile THEN "unlink_lock" ELSE "retire")
  /\ path' = NoFile
  /\ replaced' = replaced \cup ({path} \ {NoFile})
  /\ UNCHANGED <<tmps, nfiles, kind, geom, stateVars, req, recreate, old, hdr, wgen,
                 npub, used, lockVars>>

unlink_lockfile(p) ==
  /\ Step(p, "unlink_lock", "unlinked")
  /\ unlink_lock(p)
  /\ UNCHANGED <<fileVars, stateVars, req, recreate, old, hdr, wgen, npub, replaced, used>>

-----------------------------------------------------------------------------

Writer(p) ==
  \/ \E g \in Geoms, re \in BOOLEAN : writer_open(p, g, re)
  \/ unlink(p) \/ locking(p) \/ finish(p) \/ sys_error(p) \/ crash(p)
  \/ remove_stale_tmp(p) \/ open_reuse(p) \/ open_create(p) \/ open_refused(p)
  \/ create_tmp(p) \/ create_fill(p) \/ create_rename(p)
  \/ retire_set(p) \/ retire_notify(p) \/ retire_wake(p)
  \/ publish(p) \/ publish_notify(p) \/ publish_wake(p)
  \/ unlink_open(p) \/ unlink_data(p) \/ unlink_lockfile(p)

FilesInit ==
  /\ \E k \in LeftBehind, g \in Geoms :
       /\ path = IF k = "absent" THEN NoFile ELSE 1
       /\ nfiles = path
       /\ kind = [f \in Files |-> IF f # path THEN "blank"
                                  ELSE IF k = "retired" THEN "ok" ELSE k]
       /\ geom = [f \in Files |-> IF f = path /\ k \notin {"bad", "foreign"} THEN g ELSE None]
       /\ retired = [f \in Files |-> f = path /\ k = "retired"]
  /\ tmps = {}
  /\ latest = [f \in Files |-> IF f = path THEN 1 ELSE 0]
  /\ gen = [f \in Files |-> IF f = path THEN <<1, 0>> ELSE Random]
  /\ notify = [f \in Files |-> 0]
  /\ asleep = [r \in Readers |-> NoFile]
  /\ wpc = [p \in Procs |-> "none"]
  /\ req = [p \in Procs |-> None]
  /\ recreate = [p \in Procs |-> FALSE]
  /\ old = [p \in Procs |-> NoFile]
  /\ hdr = [p \in Procs |-> NoFile]
  /\ wgen = [p \in Procs |-> Random]
  /\ npub = path /\ replaced = {} /\ used = {gen[f] : f \in Files} \ {Random}
=============================================================================
