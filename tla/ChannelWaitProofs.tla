-------------------------- MODULE ChannelWaitProofs -------------------------
(***************************************************************************)
(* What readers are told, for any number of readers and writers: a file    *)
(* that was replaced is marked RETIRED (the invariant RetireInv), and no   *)
(* wake-up of a waiting reader is lost (WaitInv).                          *)
(***************************************************************************)
EXTENDS ChannelProofs

-----------------------------------------------------------------------------
(* Retirement. *)

\* writer_open and unlink remember the file at the path, to retire it.
RemembersOld(p) ==
  Creating(p) \/ wpc[p] = "unlink_data"
    => path = NoFile \/ kind[path] = "foreign" \/ old[p] = path

\* The inductive invariant of retirement.
RetireInv ==
  /\ ReplacedIsRetired
  /\ \A f \in replaced : f \in Files /\ f <= nfiles /\ f \notin tmps
  /\ \A p \in Procs : RemembersOld(p)

\* A step that replaces nothing and interrupts no retirement keeps the
\* invariant.
LEMMA RetireFrame ==
  ASSUME RetireInv, FilesInv, FilesTypes', UNCHANGED replaced,
         \A f \in replaced : kind'[f] = kind[f] /\ (retired[f] => retired'[f]),
         nfiles <= nfiles' /\ \A f \in tmps' : f \in tmps \/ f > nfiles,
         \A q \in Procs : wpc[q] = "retire" =>
           \/ wpc'[q] = "retire" /\ old'[q] = old[q]
           \/ retired'[old[q]],
         \A q \in Procs : RemembersOld(q)'
  PROVE  RetireInv'
<1>1. ASSUME NEW f \in replaced PROVE f \in Files /\ f <= nfiles' /\ f \notin tmps'
  BY DEF RetireInv, FilesInv, FilesTypes, Files
<1>2. ASSUME NEW f \in replaced, ~retired'[f], kind'[f] # "foreign"
      PROVE  \E p \in Procs : wpc'[p] = "retire" /\ old'[p] = f
  <2>1. PICK p \in Procs : wpc[p] = "retire" /\ old[p] = f
    BY <1>2, Zenon DEF RetireInv, ReplacedIsRetired
  <2>2. QED
    BY <1>2, <2>1, Zenon
<1>3. ReplacedIsRetired'
  BY <1>2, Zenon DEF ReplacedIsRetired
<1>4. QED
  BY <1>1, <1>3, Zenon DEF RetireInv

\* Nobody dies and no system call of a writer fails: every step of a writer
\* keeps the invariant.
LEMMA RetireWriterStep ==
  ASSUME ~Crashes, "writers" \notin Faults,
         RetireInv, FilesInv, FilesInv', OneHolder, NEW p \in Procs, Writer(p)
  PROVE  RetireInv'
<1> USE DEF fileVars, stateVars, procVars, Step, NoFile
<1>1. /\ FilesTypes /\ FilesTypes' /\ HeldWhileBusy(p) /\ FilesAtWork(p) /\ RemembersOld(p)
      /\ nfiles \in Nat
  BY DEF RetireInv, FilesInv, FilesTypes
<1>2. ASSUME UNCHANGED <<path, kind, nfiles, retired, replaced>>, tmps' \subseteq tmps,
             wpc[p] # "retire", RemembersOld(p)',
             \A q \in Procs : q # p => UNCHANGED <<wpc[q], old[q]>>
      PROVE  RetireInv'
  <2>1. ASSUME NEW q \in Procs PROVE RemembersOld(q)'
    BY <1>2, <2>1 DEF RetireInv, RemembersOld, Creating
  <2>2. ASSUME NEW q \in Procs, wpc[q] = "retire" PROVE wpc'[q] = "retire" /\ old'[q] = old[q]
    BY <1>2, <2>2, Zenon
  <2>3. nfiles <= nfiles'
    BY <1>1, <1>2
  <2>4. QED
    BY <1>1, <1>2, <2>1, <2>2, <2>3, RetireFrame, Zenon
<1>3. ASSUME lpc[p] = "in", NEW q \in Procs, q # p, wpc'[q] = wpc[q]
      PROVE  wpc[q] # "retire" /\ RemembersOld(q)'
  BY <1>3, Alone, Zenon DEF RemembersOld, Creating
<1>4. ASSUME (\E g \in Geoms, re \in BOOLEAN : writer_open(p, g, re)) \/ unlink(p) PROVE RetireInv'
  BY <1>1, <1>2, <1>4, Zenon
  DEF writer_open, unlink, lock_channel, HeldWhileBusy, FilesTypes, RemembersOld, Creating
<1>5. ASSUME locking(p) PROVE RetireInv'
  <2>1. lpc[p] # "in"
    BY <1>5, Zenon DEF locking, Locking, lock_create, lock_open, lock_take, lock_held, lock_check
  <2>2. wpc[p] # "retire"
    BY <1>1, <2>1, Zenon DEF HeldWhileBusy
  <2>3. QED
    BY <1>1, <1>2, <1>5, <2>2, Zenon DEF locking, Forget, FilesTypes, RemembersOld, Creating
<1>6. ASSUME finish(p) \/ open_refused(p) \/ sys_error(p) PROVE RetireInv'
  <2>1. wpc[p] # "retire" /\ Forget(p) /\ tmps' \subseteq tmps
    BY <1>1, <1>6, Zenon DEF finish, open_refused, sys_error, HeldWhileBusy
  <2>2. QED
    BY <1>1, <1>2, <1>6, <2>1, Zenon
    DEF finish, open_refused, sys_error, Forget, FilesTypes, RemembersOld, Creating
<1>7. ASSUME crash(p) PROVE FALSE
  BY <1>7, Zenon DEF crash
<1>8. ASSUME \/ remove_stale_tmp(p) \/ publish(p) \/ publish_notify(p) \/ publish_wake(p)
             \/ retire_notify(p)
      PROVE  RetireInv'
  BY <1>1, <1>2, <1>8, Zenon
  DEF remove_stale_tmp, publish, publish_notify, publish_wake, retire_notify, FilesTypes,
      RemembersOld, Creating
<1>9. ASSUME retire_wake(p) \/ open_reuse(p) \/ unlink_lockfile(p) PROVE RetireInv'
  BY <1>1, <1>2, <1>9, Zenon
  DEF retire_wake, open_reuse, unlink_lockfile, Opened, FilesTypes, RemembersOld, Creating
<1>10. ASSUME open_create(p) PROVE RetireInv'
  BY <1>1, <1>2, <1>10, Zenon DEF open_create, FilesTypes, RemembersOld, Creating
<1>11. ASSUME unlink_open(p) PROVE RetireInv'
  BY <1>1, <1>2, <1>11, Zenon DEF unlink_open, FilesTypes, RemembersOld, Creating
<1>12. ASSUME create_tmp(p) PROVE RetireInv'
  <2>1. /\ nfiles' = nfiles + 1 /\ tmps' = tmps \cup {nfiles + 1}
        /\ wpc[p] = "mktemp" /\ wpc' = [wpc EXCEPT ![p] = "fill"]
        /\ UNCHANGED <<path, kind, retired, replaced, old>>
    BY <1>12, Zenon DEF create_tmp
  <2>2. RemembersOld(p)'
    BY <1>1, <2>1, Zenon DEF RemembersOld, Creating, FilesTypes
  <2>3. lpc[p] = "in" /\ \A q \in Procs : q # p => wpc'[q] = wpc[q]
    BY <1>1, <2>1, Zenon DEF HeldWhileBusy, FilesTypes
  <2>4. QED
    BY <1>1, <1>3, <2>1, <2>2, <2>3, RetireFrame
<1>13. ASSUME create_fill(p) PROVE RetireInv'
  <2>1. /\ kind' = [kind EXCEPT ![hdr[p]] = "ok"] /\ hdr[p] \in tmps
        /\ wpc[p] = "fill" /\ wpc' = [wpc EXCEPT ![p] = "rename"]
        /\ UNCHANGED <<path, nfiles, tmps, retired, replaced, old>>
    BY <1>1, <1>13, Zenon DEF create_fill, FilesAtWork
  <2>2. RemembersOld(p)'
    <3>1. path # NoFile => kind'[path] = kind[path]
      BY <1>1, <2>1 DEF FilesInv, FilesFresh, FilesTypes, Files
    <3>2. QED
      BY <1>1, <2>1, <3>1, Zenon DEF RemembersOld, Creating, FilesTypes
  <2>3. lpc[p] = "in" /\ \A q \in Procs : q # p => wpc'[q] = wpc[q]
    BY <1>1, <2>1, Zenon DEF HeldWhileBusy, FilesTypes
  <2>4. \A f \in replaced : kind'[f] = kind[f]
    BY <1>1, <2>1, Zenon DEF RetireInv, FilesTypes
  <2>5. QED
    BY <1>1, <1>3, <2>1, <2>2, <2>3, <2>4, RetireFrame
<1>14. ASSUME retire_set(p) PROVE RetireInv'
  <2>1. /\ retired' = [retired EXCEPT ![old[p]] = TRUE] /\ old[p] \in Files
        /\ wpc[p] = "retire" /\ wpc' = [wpc EXCEPT ![p] = "retire_notify"]
        /\ UNCHANGED <<path, kind, nfiles, tmps, replaced, old>>
    BY <1>1, <1>14 DEF retire_set, FilesAtWork, Retiring, FilesTypes, Files
  <2>2. RemembersOld(p)'
    BY <1>1, <2>1, Zenon DEF RemembersOld, Creating, FilesTypes
  <2>3. lpc[p] = "in" /\ \A q \in Procs : q # p => wpc'[q] = wpc[q]
    BY <1>1, <2>1, Zenon DEF HeldWhileBusy, FilesTypes
  <2>4. retired'[old[p]] /\ \A f \in replaced : retired[f] => retired'[f]
    BY <1>1, <2>1, Zenon DEF RetireInv, FilesTypes
  <2>5. QED
    BY <1>1, <1>3, <2>1, <2>2, <2>3, <2>4, RetireFrame
<1>15. ASSUME create_rename(p) \/ unlink_data(p) PROVE RetireInv'
  <2>1. /\ lpc[p] = "in" /\ wpc[p] \in {"rename", "unlink_data"}
        /\ replaced' = replaced \cup ({path} \ {0})
        /\ \A q \in Procs : q # p => wpc'[q] = wpc[q]
        /\ tmps' \subseteq tmps
        /\ UNCHANGED <<kind, retired, nfiles>>
    BY <1>1, <1>15, Zenon DEF create_rename, unlink_data, HeldWhileBusy, FilesTypes
  <2>2. path # 0 /\ old[p] # 0 => wpc'[p] = "retire" /\ old'[p] = old[p]
    BY <1>1, <1>15, Zenon DEF create_rename, unlink_data, Opened, FilesTypes
  <2>3. ASSUME NEW q \in Procs PROVE RemembersOld(q)'
    <3>1. CASE q # p
      BY <1>3, <2>1, <3>1, Zenon
    <3>2. CASE q = p
      <4>1. wpc'[p] \in {"writing", "retire", "unlink_lock"}
        BY <1>1, <1>15, Zenon DEF create_rename, unlink_data, FilesTypes
      <4>2. QED
        BY <3>2, <4>1, Zenon DEF RemembersOld, Creating
    <3>3. QED
      BY <3>1, <3>2, Zenon
  <2>4. ASSUME NEW f \in replaced' PROVE f \in Files /\ f <= nfiles' /\ f \notin tmps'
    BY <1>1, <2>1, <2>4 DEF RetireInv, FilesInv, FilesFresh, FilesTypes, Files
  <2>5. ASSUME NEW f \in replaced', ~retired[f], kind[f] # "foreign"
        PROVE  \E q \in Procs : wpc'[q] = "retire" /\ old'[q] = f
    <3>1. CASE f = path
      <4>1. old[p] = path /\ path # 0
        BY <1>1, <2>1, <2>4, <2>5, <3>1 DEF RemembersOld, Creating, Files
      <4>2. QED
        BY <2>2, <3>1, <4>1, Zenon
    <3>2. CASE f # path
      <4>1. PICK q \in Procs : wpc[q] = "retire"
        BY <2>1, <2>5, <3>2, Zenon DEF RetireInv, ReplacedIsRetired
      <4>2. QED
        BY <1>3, <2>1, <4>1, Zenon
    <3>3. QED
      BY <3>1, <3>2, Zenon
  <2>6. ReplacedIsRetired'
    BY <2>1, <2>5, Zenon DEF ReplacedIsRetired
  <2>7. QED
    BY <2>3, <2>4, <2>6, Zenon DEF RetireInv
<1>16. QED
  BY <1>4, <1>5, <1>6, <1>7, <1>8, <1>9, <1>10, <1>11, <1>12, <1>13, <1>14, <1>15, Zenon DEF Writer

\* Unless a process dies or a system call fails on the way, whoever takes a
\* file from the data path marks it RETIRED, also when somebody deletes the
\* file meanwhile.  (The run chan_killed shows that a death does matter.)
THEOREM ReplacedFilesAreRetired ==
  ASSUME ~Crashes, "writers" \notin Faults
  PROVE  Spec => []ReplacedIsRetired
<1>1. Init => RetireInv
  BY ZenonT(30) DEF Init, FilesInit, RetireInv, ReplacedIsRetired, RemembersOld, Creating
<1>2. RetireInv /\ FilesInv /\ FilesInv' /\ OneHolder /\ [Next]_vars => RetireInv'
  <2> SUFFICES ASSUME RetireInv, FilesInv, FilesInv', OneHolder, [Next]_vars PROVE RetireInv'
    BY Zenon
  <2>1. ASSUME NEW p \in Procs, WriterStep(p) PROVE RetireInv'
    BY <2>1, RetireWriterStep, Zenon DEF WriterStep
  <2>2. ASSUME UNCHANGED <<tmps, nfiles, kind, retired, replaced, wpc, old>>,
               path' = path \/ path' = NoFile
        PROVE  RetireInv'
    BY <2>2, Zenon DEF RetireInv, ReplacedIsRetired, RemembersOld, Creating
  <2>3. ASSUME rm_data PROVE RetireInv'
    BY <2>2, <2>3, Zenon DEF rm_data, stateVars, procVars
  <2>4. ASSUME NEW r \in Readers, Reader(r) PROVE RetireInv'
    BY <2>2, <2>4, ReaderKeepsFiles, Zenon DEF fileVars, procVars
  <2>5. ASSUME UNCHANGED vars PROVE RetireInv'
    BY <2>2, <2>5, Zenon DEF vars, filesVars, fileVars, stateVars, procVars
  <2>6. QED
    BY <2>1, <2>3, <2>4, <2>5, Zenon DEF Next
<1>3. RetireInv => ReplacedIsRetired
  BY Zenon DEF RetireInv
<1>4. QED
  BY <1>1, <1>2, <1>3, FilesInvariance, OneWriter, PTL DEF Spec

-----------------------------------------------------------------------------
(* Waiting. *)

\* Somebody has changed f, and is about to increment its futex word, or to
\* wake its waiters.
ToNotify(f) ==
  \E p \in Procs : \/ hdr[p] = f /\ wpc[p] = "notify"
                   \/ old[p] = f /\ wpc[p] = "retire_notify"
ToWake(f) ==
  \E p \in Procs : \/ hdr[p] = f /\ wpc[p] = "wake"
                   \/ old[p] = f /\ wpc[p] = "retire_wake"

\* What a reader that knows generation last waits for has happened to f.
Happened(last, f) == retired[f] \/ (ReadCode(f) = "OK" /\ gen[f] # last)

WaitTypes ==
  /\ notify \in [Files -> Nat] /\ geom \in [Files -> Geoms \cup {None}]
  /\ rpc \in [Readers -> ReaderPlaces]
  /\ rop \in [Readers -> {"none", "read", "describe", "wait", "alive"}]
  /\ rc \in [Readers -> Codes]
  /\ rhdr \in [Readers -> 0 .. MaxFiles] /\ asleep \in [Readers -> 0 .. MaxFiles]
  /\ rgeom \in [Readers -> Geoms \cup {None}]
  /\ wn \in [Readers -> Nat] /\ wval \in [Readers -> Nat]
  /\ wlast \in [Readers -> Nat \X Nat]

\* The file of a handle stays what it was when the handle attached.
HandleOK(r) ==
  /\ rhdr[r] # NoFile => /\ rhdr[r] <= nfiles /\ rhdr[r] \notin tmps
                         /\ rgeom[r] = geom[rhdr[r]]
  /\ rpc[r] = "attached" \/ (rpc[r] = "synced" /\ rc[r] = "OK") => rhdr[r] # NoFile
  /\ rop[r] = "none" => rpc[r] = "idle"
  /\ rpc[r] \in {"retired", "peek", "futex", "sleep"} =>
       rhdr[r] # NoFile /\ rgeom[r] \notin NoNotify
  /\ asleep[r] # NoFile => rpc[r] = "sleep" /\ asleep[r] = rhdr[r]

\* What wait missed since it loaded the futex word, the word will tell.
WaitOK(r) ==
  LET f == rhdr[r] IN
  /\ rpc[r] \in {"retired", "peek", "futex"} => wn[r] <= notify[f]
  /\ rpc[r] = "peek" /\ notify[f] = wn[r] /\ (retired[f] \/ latest[f] # wval[r]) => ToNotify(f)
  /\ rpc[r] = "futex" /\ notify[f] = wn[r] /\ Happened(wlast[r], f) => ToNotify(f)
  /\ asleep[r] # NoFile /\ Happened(wlast[r], f) => ToNotify(f) \/ ToWake(f)

\* The inductive invariant of waiting.
WaitInv == WaitTypes /\ \A r \in Readers : HandleOK(r) /\ WaitOK(r)

\* A file that was lapped has changed.
LEMMA LapApart == \A a, b \in Nat : a - b >= Lap => a # b
BY ChannelAssumption

\* Nobody waits at first.
LEMMA WaitInitInv == Init => WaitInv
<1> SUFFICES ASSUME Init PROVE WaitInv
  BY Zenon
<1> USE FilesAssumption DEF Files, NoFile
<1>1. geom \in [Files -> Geoms \cup {None}]
  BY DEF Init, FilesInit
<1>2. /\ notify = [f \in Files |-> 0] /\ asleep = [r \in Readers |-> NoFile]
      /\ rpc = [r \in Readers |-> "idle"] /\ rop = [r \in Readers |-> "none"]
      /\ rc = [r \in Readers |-> "OK"] /\ rhdr = [r \in Readers |-> NoFile]
      /\ rgeom = [r \in Readers |-> None] /\ wn = [r \in Readers |-> 0]
      /\ wval = [r \in Readers |-> 0] /\ wlast = [r \in Readers |-> Random]
  BY Zenon DEF Init, FilesInit
<1>3. WaitTypes
  BY <1>1, <1>2 DEF WaitTypes, ReaderPlaces, Codes, Random
<1>4. ASSUME NEW r \in Readers PROVE HandleOK(r) /\ WaitOK(r)
  BY <1>2, Zenon DEF HandleOK, WaitOK
<1>5. QED
  BY <1>3, <1>4, Zenon DEF WaitInv

\* A step of a writer leaves the handles alone, and changes the header of no
\* file that a handle has mapped.
LEMMA WaitFrame ==
  ASSUME WaitInv, FilesInv, FilesTypes', WaitTypes',
         UNCHANGED <<rpc, rop, rc, rhdr, rgeom, wn, wval, wlast>>,
         nfiles <= nfiles', \A f \in tmps' : f \in tmps \/ f > nfiles,
         \A f \in Files : f <= nfiles /\ f \notin tmps => geom'[f] = geom[f],
         \A r \in Readers : asleep'[r] = asleep[r] \/ asleep'[r] = NoFile,
         \A r \in Readers : WaitOK(r)'
  PROVE  WaitInv'
<1>1. ASSUME NEW r \in Readers PROVE HandleOK(r)'
  <2>1. HandleOK(r) /\ rhdr[r] \in 0 .. MaxFiles /\ nfiles \in Nat /\ nfiles' \in Nat
    BY DEF WaitInv, WaitTypes, FilesInv, FilesTypes
  <2>2. rhdr[r] # NoFile => /\ rhdr[r] \in Files /\ rhdr[r] <= nfiles' /\ rhdr[r] \notin tmps'
                            /\ geom'[rhdr[r]] = geom[rhdr[r]]
    BY <2>1 DEF HandleOK, Files, NoFile
  <2>3. QED
    BY <2>1, <2>2, Zenon DEF HandleOK
<1>2. QED
  BY <1>1, Zenon DEF WaitInv

\* A step that changes nothing a reader looks at, and after which whoever was
\* to notify or wake still is, keeps the invariant.
LEMMA WaitQuiet ==
  ASSUME WaitInv, FilesInv, FilesTypes', WaitTypes',
         UNCHANGED <<rpc, rop, rc, rhdr, rgeom, wn, wval, wlast>>,
         UNCHANGED <<notify, retired, latest, gen, asleep>>,
         nfiles <= nfiles', \A f \in tmps' : f \in tmps \/ f > nfiles,
         \A f \in Files : f <= nfiles /\ f \notin tmps => geom'[f] = geom[f] /\ kind'[f] = kind[f],
         NEW p \in Procs,
         wpc[p] \notin {"notify", "wake", "retire_notify", "retire_wake"},
         \A q \in Procs : q # p => UNCHANGED <<wpc[q], old[q], hdr[q]>>
  PROVE  WaitInv'
<1>1. \A f : (ToNotify(f) => ToNotify(f)') /\ (ToWake(f) => ToWake(f)')
  BY Zenon DEF ToNotify, ToWake
<1>2. ASSUME NEW r \in Readers PROVE WaitOK(r)'
  <2>1. HandleOK(r) /\ WaitOK(r) /\ rhdr[r] \in 0 .. MaxFiles
    BY Zenon DEF WaitInv, WaitTypes
  <2>2. rhdr[r] # NoFile => kind'[rhdr[r]] = kind[rhdr[r]]
    BY <2>1 DEF HandleOK, Files, NoFile
  <2>3. rhdr[r] # NoFile => (Happened(wlast[r], rhdr[r])' <=> Happened(wlast[r], rhdr[r]))
    BY <2>2, Zenon DEF Happened, ReadCode
  <2>4. ToNotify(rhdr[r]) => ToNotify(rhdr[r])'
    BY <1>1 DEF ToNotify
  <2>5. ToWake(rhdr[r]) => ToWake(rhdr[r])'
    BY <1>1 DEF ToWake
  <2>6. QED
    BY <2>1, <2>3, <2>4, <2>5, Zenon DEF WaitOK, HandleOK
<1>3. QED
  BY <1>2, WaitFrame, Zenon

\* publish and retire change a file c that can be waited on only if they are
\* to notify its readers next.
LEMMA WaitChange ==
  ASSUME WaitInv, FilesInv, FilesTypes', WaitTypes', NEW c,
         UNCHANGED <<rpc, rop, rc, rhdr, rgeom, wn, wval, wlast>>,
         UNCHANGED <<notify, asleep, kind, geom, nfiles, tmps>>,
         \A f \in Files : f # c => UNCHANGED <<retired[f], latest[f], gen[f]>>,
         geom[c] \in NoNotify \/ ToNotify(c)',
         \A f : (ToNotify(f) => ToNotify(f)') /\ (ToWake(f) => ToWake(f)')
  PROVE  WaitInv'
<1>1. ASSUME NEW r \in Readers PROVE WaitOK(r)'
  <2>1. HandleOK(r) /\ WaitOK(r) /\ rhdr[r] \in 0 .. MaxFiles
    BY Zenon DEF WaitInv, WaitTypes
  <2>2. CASE rhdr[r] = c
    <3>1. rpc[r] \in {"retired", "peek", "futex", "sleep"} => ToNotify(rhdr[r])'
      BY <2>1, <2>2, Zenon DEF HandleOK, ToNotify
    <3>2. QED
      BY <2>1, <3>1, Zenon DEF HandleOK, WaitOK
  <2>3. CASE rhdr[r] # c
    <3>1. rhdr[r] # NoFile => /\ UNCHANGED <<retired[rhdr[r]], latest[rhdr[r]], gen[rhdr[r]]>>
                              /\ Happened(wlast[r], rhdr[r])' <=> Happened(wlast[r], rhdr[r])
      BY <2>1, <2>3 DEF Happened, ReadCode, Files, NoFile
    <3>2. /\ ToNotify(rhdr[r]) => ToNotify(rhdr[r])'
          /\ ToWake(rhdr[r]) => ToWake(rhdr[r])'
      BY DEF ToNotify, ToWake
    <3>3. QED
      BY <2>1, <3>1, <3>2, Zenon DEF HandleOK, WaitOK
  <2>4. QED
    BY <2>2, <2>3, Zenon
<1>2. nfiles <= nfiles'
  BY DEF FilesInv, FilesTypes
<1>3. QED
  BY <1>1, <1>2, WaitFrame, Zenon

\* The increment of the futex word of c: nobody goes to sleep on c any more
\* who loaded the word before.
LEMMA WaitNotify ==
  ASSUME WaitInv, FilesInv, FilesTypes', WaitTypes', NEW c \in Files,
         UNCHANGED <<rpc, rop, rc, rhdr, rgeom, wn, wval, wlast>>,
         UNCHANGED <<retired, latest, gen, asleep, kind, geom, nfiles, tmps>>,
         notify' = [notify EXCEPT ![c] = @ + 1],
         ToWake(c)',
         \A f : (f # c /\ ToNotify(f) => ToNotify(f)') /\ (ToWake(f) => ToWake(f)')
  PROVE  WaitInv'
<1>1. ASSUME NEW r \in Readers PROVE WaitOK(r)'
  <2>1. /\ HandleOK(r) /\ WaitOK(r) /\ rhdr[r] \in 0 .. MaxFiles
        /\ notify \in [Files -> Nat] /\ wn[r] \in Nat
    BY Zenon DEF WaitInv, WaitTypes
  <2>2. Happened(wlast[r], rhdr[r])' <=> Happened(wlast[r], rhdr[r])
    BY ZenonT(30) DEF Happened, ReadCode
  <2>3. CASE rhdr[r] = c
    <3>1. notify'[rhdr[r]] = notify[rhdr[r]] + 1 /\ notify[rhdr[r]] \in Nat
      BY <2>1, <2>3, Zenon
    <3>2. ToWake(rhdr[r])'
      BY <2>3, Zenon DEF ToWake
    <3>3. QED
      BY <2>1, <3>1, <3>2 DEF HandleOK, WaitOK
  <2>4. CASE rhdr[r] # c
    <3>1. rhdr[r] # NoFile => notify'[rhdr[r]] = notify[rhdr[r]]
      BY <2>1, <2>4, SMTT(30) DEF Files, NoFile
    <3>2. /\ ToNotify(rhdr[r]) => ToNotify(rhdr[r])'
          /\ ToWake(rhdr[r]) => ToWake(rhdr[r])'
      BY <2>4, SMTT(30) DEF ToNotify, ToWake
    <3>3. QED
      BY <2>1, <2>2, <3>1, <3>2, ZenonT(30) DEF HandleOK, WaitOK
  <2>5. QED
    BY <2>3, <2>4, Zenon
<1>2. nfiles <= nfiles'
  BY SMTT(30) DEF FilesInv, FilesTypes
<1>3. QED
  BY <1>1, <1>2, WaitFrame, Zenon

\* FUTEX_WAKE on c leaves nobody asleep there.
LEMMA WaitWake ==
  ASSUME WaitInv, FilesInv, FilesTypes', WaitTypes', NEW c,
         UNCHANGED <<rpc, rop, rc, rhdr, rgeom, wn, wval, wlast>>,
         UNCHANGED <<retired, latest, gen, notify, kind, geom, nfiles, tmps>>,
         futex_wake_all(c),
         \A f : (ToNotify(f) => ToNotify(f)') /\ (f # c /\ ToWake(f) => ToWake(f)')
  PROVE  WaitInv'
<1>1. ASSUME NEW r \in Readers PROVE WaitOK(r)'
  <2>1. HandleOK(r) /\ WaitOK(r)
    BY Zenon DEF WaitInv
  <2>2. Happened(wlast[r], rhdr[r])' <=> Happened(wlast[r], rhdr[r])
    BY Zenon DEF Happened, ReadCode
  <2>3. asleep'[r] # NoFile => asleep'[r] = asleep[r] /\ rhdr[r] # c
    BY <2>1, Zenon DEF futex_wake_all, HandleOK
  <2>4. /\ ToNotify(rhdr[r]) => ToNotify(rhdr[r])'
        /\ rhdr[r] # c /\ ToWake(rhdr[r]) => ToWake(rhdr[r])'
    BY SMTT(30) DEF ToNotify, ToWake
  <2>5. QED
    BY <2>1, <2>2, <2>3, <2>4, Zenon DEF WaitOK
<1>2. nfiles <= nfiles'
  BY SMTT(30) DEF FilesInv, FilesTypes
<1>3. \A r \in Readers : asleep'[r] = asleep[r] \/ asleep'[r] = NoFile
  BY Zenon DEF futex_wake_all
<1>4. QED
  BY <1>1, <1>2, <1>3, WaitFrame, Zenon

\* No process dies: every step of a writer keeps the invariant.
LEMMA WaitWriterStep ==
  ASSUME ~Crashes, WaitInv, FilesInv, FilesInv', GenInv, NEW p \in Procs, WriterStep(p)
  PROVE  WaitInv'
<1> USE FilesAssumption DEF fileVars, stateVars, procVars, Step, NoFile
<1>1. /\ FilesTypes /\ FilesTypes' /\ HeldWhileBusy(p) /\ FilesAtWork(p)
      /\ nfiles \in Nat /\ WaitTypes
  BY SMTT(30) DEF FilesInv, FilesTypes, WaitInv
<1>2. UNCHANGED <<rpc, rop, rc, rhdr, rgeom, wn, wval, wlast>>
  BY Zenon DEF WriterStep, readerVars, handleVars, waitVars
<1>3. ASSUME UNCHANGED <<notify, retired, latest, gen, asleep, geom, kind, nfiles>>,
             tmps' \subseteq tmps,
             wpc[p] \notin {"notify", "wake", "retire_notify", "retire_wake"},
             \A q \in Procs : q # p => UNCHANGED <<wpc[q], old[q], hdr[q]>>
      PROVE  WaitInv'
  <2>1. WaitTypes' /\ nfiles <= nfiles'
    BY <1>1, <1>2, <1>3, SMTT(30) DEF WaitTypes
  <2>2. QED
    BY <1>1, <1>2, <1>3, <2>1, WaitQuiet, ZenonT(30)
<1>4. ASSUME (\E g \in Geoms, re \in BOOLEAN : writer_open(p, g, re)) \/ unlink(p) PROVE WaitInv'
  BY <1>1, <1>3, <1>4, Zenon DEF writer_open, unlink, lock_channel, HeldWhileBusy, FilesTypes
<1>5. ASSUME locking(p) PROVE WaitInv'
  <2>1. lpc[p] # "in"
    BY <1>5, Zenon DEF locking, Locking, lock_create, lock_open, lock_take, lock_held, lock_check
  <2>2. wpc[p] \notin {"notify", "wake", "retire_notify", "retire_wake"}
    BY <1>1, <2>1, Zenon DEF HeldWhileBusy
  <2>3. QED
    BY <1>1, <1>3, <1>5, <2>2, Zenon DEF locking, Forget, FilesTypes
<1>6. ASSUME finish(p) \/ open_refused(p) \/ sys_error(p) PROVE WaitInv'
  <2>1. /\ wpc[p] \notin {"notify", "wake", "retire_notify", "retire_wake"}
        /\ Forget(p) /\ tmps' \subseteq tmps
    BY <1>1, <1>6, Zenon DEF finish, open_refused, sys_error, HeldWhileBusy
  <2>2. QED
    BY <1>1, <1>3, <1>6, <2>1, Zenon DEF finish, open_refused, sys_error, Forget, FilesTypes
<1>7. ASSUME crash(p) PROVE FALSE
  BY <1>7, Zenon DEF crash
<1>8. ASSUME remove_stale_tmp(p) \/ open_create(p) \/ unlink_open(p) \/ unlink_data(p)
      PROVE  WaitInv'
  BY <1>1, <1>3, <1>8, Zenon DEF remove_stale_tmp, open_create, unlink_open, unlink_data, FilesTypes
<1>9. ASSUME open_reuse(p) \/ create_rename(p) \/ unlink_lockfile(p) PROVE WaitInv'
  BY <1>1, <1>3, <1>9, ZenonT(30) DEF open_reuse, create_rename, unlink_lockfile, Opened, FilesTypes
<1>10. ASSUME create_tmp(p) PROVE WaitInv'
  <2>1. /\ nfiles' = nfiles + 1 /\ tmps' = tmps \cup {nfiles + 1} /\ wpc[p] = "mktemp"
        /\ UNCHANGED <<notify, retired, latest, gen, asleep, geom, kind>>
        /\ \A q \in Procs : q # p => UNCHANGED <<wpc[q], old[q], hdr[q]>>
    BY <1>1, <1>10, Zenon DEF create_tmp, FilesTypes
  <2>2. WaitTypes'
    BY <1>1, <1>2, <2>1, Zenon DEF WaitTypes
  <2>3. nfiles <= nfiles' /\ \A f \in tmps' : f \in tmps \/ f > nfiles
    BY <1>1, <2>1, SMTT(30)
  <2>4. QED
    BY <1>1, <1>2, <2>1, <2>2, <2>3, WaitQuiet, Zenon
<1>11. ASSUME create_fill(p) PROVE WaitInv'
  <2>1. /\ hdr[p] \in tmps /\ wpc[p] = "fill"
        /\ kind' = [kind EXCEPT ![hdr[p]] = "ok"] /\ geom' = [geom EXCEPT ![hdr[p]] = req[p]]
        /\ UNCHANGED <<notify, retired, latest, gen, asleep, nfiles, tmps>>
        /\ \A q \in Procs : q # p => UNCHANGED <<wpc[q], old[q], hdr[q]>>
    BY <1>1, <1>11, Zenon DEF create_fill, FilesAtWork, FilesTypes
  <2>2. WaitTypes'
    BY <1>1, <1>2, <2>1, Zenon DEF WaitTypes, FilesTypes
  <2>3. \A f \in Files : f \notin tmps => geom'[f] = geom[f] /\ kind'[f] = kind[f]
    BY <1>1, <2>1, SMTT(30) DEF WaitTypes, FilesTypes
  <2>4. nfiles <= nfiles'
    BY <1>1, <2>1, SMTT(30)
  <2>5. QED
    BY <1>1, <1>2, <2>1, <2>2, <2>3, <2>4, WaitQuiet, Zenon
<1>12. ASSUME \A q \in Procs : q # p => UNCHANGED <<wpc[q], old[q], hdr[q]>>
       PROVE  /\ \A f : wpc[p] \notin {"notify", "retire_notify"} /\ ToNotify(f) => ToNotify(f)'
              /\ \A f : wpc[p] \notin {"wake", "retire_wake"} /\ ToWake(f) => ToWake(f)'
              /\ \A f : wpc[p] \in {"notify", "wake"} /\ f # hdr[p] =>
                          (ToNotify(f) => ToNotify(f)') /\ (ToWake(f) => ToWake(f)')
              /\ \A f : wpc[p] \in {"retire_notify", "retire_wake"} /\ f # old[p] =>
                          (ToNotify(f) => ToNotify(f)') /\ (ToWake(f) => ToWake(f)')
  BY <1>12, Zenon DEF ToNotify, ToWake
<1>13. ASSUME publish(p) PROVE WaitInv'
  <2>1. /\ wpc[p] = "writing"
        /\ geom[hdr[p]] \in NoNotify \/ wpc'[p] = "notify"
        /\ UNCHANGED <<notify, retired, asleep, geom, kind, nfiles, tmps, hdr>>
        /\ \A f \in Files : f # hdr[p] => UNCHANGED <<latest[f], gen[f]>>
        /\ \A q \in Procs : q # p => UNCHANGED <<wpc[q], old[q], hdr[q]>>
    BY <1>1, <1>13, Zenon DEF publish, FilesTypes, GenInv
  <2>2. WaitTypes'
    BY <1>1, <1>2, <2>1, Zenon DEF WaitTypes
  <2>3. geom[hdr[p]] \in NoNotify \/ (\E c : c = hdr[p] /\ ToNotify(c)')
    BY <2>1, Zenon DEF ToNotify
  <2>4. PICK c : c = hdr[p]
    BY Zenon
  <2>5. geom[c] \in NoNotify \/ ToNotify(c)'
    BY <2>3, <2>4, Zenon
  <2>6. \A f : (ToNotify(f) => ToNotify(f)') /\ (ToWake(f) => ToWake(f)')
    BY <1>12, <2>1, Zenon
  <2>7. \A f \in Files : f # c => UNCHANGED <<retired[f], latest[f], gen[f]>>
    BY <2>1, <2>4, Zenon
  <2>8. QED
    BY <1>1, <1>2, <2>1, <2>2, <2>5, <2>6, <2>7, WaitChange, ZenonT(30)
<1>14. ASSUME retire_set(p) PROVE WaitInv'
  <2>1. /\ wpc[p] = "retire" /\ wpc'[p] = "retire_notify"
        /\ UNCHANGED <<notify, latest, gen, asleep, geom, kind, nfiles, tmps, old>>
        /\ \A f \in Files : f # old[p] => UNCHANGED retired[f]
        /\ \A q \in Procs : q # p => UNCHANGED <<wpc[q], old[q], hdr[q]>>
    BY <1>1, <1>14, Zenon DEF retire_set, FilesTypes
  <2>2. WaitTypes'
    BY <1>1, <1>2, <2>1, Zenon DEF WaitTypes
  <2>3. PICK c : c = old[p]
    BY Zenon
  <2>4. ToNotify(c)'
    BY <2>1, <2>3, Zenon DEF ToNotify
  <2>5. \A f : (ToNotify(f) => ToNotify(f)') /\ (ToWake(f) => ToWake(f)')
    BY <1>12, <2>1, Zenon
  <2>6. \A f \in Files : f # c => UNCHANGED <<retired[f], latest[f], gen[f]>>
    BY <2>1, <2>3, Zenon
  <2>7. QED
    BY <1>1, <1>2, <2>1, <2>2, <2>4, <2>5, <2>6, WaitChange, ZenonT(30)
<1>15. ASSUME publish_notify(p) \/ retire_notify(p) PROVE WaitInv'
  <2>1. PICK c \in Files :
          /\ \/ c = hdr[p] /\ wpc[p] = "notify" /\ wpc'[p] = "wake"
             \/ c = old[p] /\ wpc[p] = "retire_notify" /\ wpc'[p] = "retire_wake"
          /\ notify' = [notify EXCEPT ![c] = @ + 1]
    BY <1>1, <1>15, SMTT(30)
    DEF publish_notify, retire_notify, FilesTypes, FilesAtWork, Owns, Publishing, Retiring, Files
  <2>2. /\ UNCHANGED <<retired, latest, gen, asleep, geom, kind, nfiles, tmps, old, hdr>>
        /\ \A q \in Procs : q # p => UNCHANGED <<wpc[q], old[q], hdr[q]>>
    BY <1>1, <1>15, Zenon DEF publish_notify, retire_notify, FilesTypes
  <2>3. WaitTypes'
    <3>1. notify' \in [Files -> Nat]
      BY <1>1, <2>1, SMTT(30) DEF WaitTypes
    <3>2. QED
      BY <1>1, <1>2, <2>2, <3>1, Zenon DEF WaitTypes
  <2>4. ToWake(c)'
    BY <2>1, <2>2, Zenon DEF ToWake
  <2>5. \A f : (f # c /\ ToNotify(f) => ToNotify(f)') /\ (ToWake(f) => ToWake(f)')
    BY <1>12, <2>1, <2>2, Zenon
  <2>6. QED
    BY <1>1, <1>2, <2>1, <2>2, <2>3, <2>4, <2>5, WaitNotify, Zenon
<1>16. ASSUME publish_wake(p) \/ retire_wake(p) PROVE WaitInv'
  <2>1. PICK c : /\ \/ c = hdr[p] /\ wpc[p] = "wake"
                    \/ c = old[p] /\ wpc[p] = "retire_wake"
                 /\ futex_wake_all(c)
    BY <1>16, Zenon DEF publish_wake, retire_wake
  <2>2. /\ UNCHANGED <<retired, latest, gen, notify, geom, kind, nfiles, tmps>>
        /\ \A q \in Procs : q # p => UNCHANGED <<wpc[q], old[q], hdr[q]>>
    BY <1>1, <1>16, Zenon DEF publish_wake, retire_wake, Opened, FilesTypes
  <2>3. WaitTypes'
    <3>1. asleep' \in [Readers -> 0 .. MaxFiles]
      BY <1>1, <2>1, SMTT(30) DEF WaitTypes, futex_wake_all
    <3>2. QED
      BY <1>1, <1>2, <2>2, <3>1, Zenon DEF WaitTypes
  <2>4. \A f : (ToNotify(f) => ToNotify(f)') /\ (f # c /\ ToWake(f) => ToWake(f)')
    BY <1>12, <2>1, <2>2, Zenon
  <2>5. QED
    BY <1>1, <1>2, <2>1, <2>2, <2>3, <2>4, WaitWake, Zenon
<1>17. QED
  BY <1>4, <1>5, <1>6, <1>7, <1>8, <1>9, <1>10, <1>11, <1>13, <1>14, <1>15, <1>16, Zenon
  DEF Writer, WriterStep

\* Reader r goes to another place, in call o, with rc = c, a mapping of f with
\* geometry g, locals n, v and last of wait, and asleep on a.
Moves(r, to, o, c, f, g, n, v, last, a) ==
  /\ rpc' = [rpc EXCEPT ![r] = to] /\ rop' = [rop EXCEPT ![r] = o] /\ rc' = [rc EXCEPT ![r] = c]
  /\ rhdr' = [rhdr EXCEPT ![r] = f] /\ rgeom' = [rgeom EXCEPT ![r] = g]
  /\ wn' = [wn EXCEPT ![r] = n] /\ wval' = [wval EXCEPT ![r] = v]
  /\ wlast' = [wlast EXCEPT ![r] = last] /\ asleep' = [asleep EXCEPT ![r] = a]

\* The reader arrives in order.
ArrivesOK(to, o, c, f, g, n, v, last, a) ==
  /\ f # NoFile => f <= nfiles /\ f \notin tmps /\ g = geom[f]
  /\ to = "attached" \/ (to = "synced" /\ c = "OK") => f # NoFile
  /\ o = "none" => to = "idle"
  /\ to \in {"retired", "peek", "futex", "sleep"} => f # NoFile /\ g \notin NoNotify
  /\ a # NoFile => to = "sleep" /\ a = f
  /\ to \in {"retired", "peek", "futex"} => n <= notify[f]
  /\ to = "peek" /\ notify[f] = n /\ (retired[f] \/ latest[f] # v) => ToNotify(f)
  /\ to = "futex" /\ notify[f] = n /\ Happened(last, f) => ToNotify(f)
  /\ a # NoFile /\ Happened(last, f) => ToNotify(f) \/ ToWake(f)

\* A reader that arrives in order keeps the invariant.
LEMMA WaitMove ==
  ASSUME WaitInv, NEW r \in Readers,
         UNCHANGED <<path, tmps, nfiles, kind, geom, retired, latest, gen, notify, wpc, old, hdr>>,
         NEW to \in ReaderPlaces, NEW o \in {"none", "read", "describe", "wait", "alive"},
         NEW c \in Codes, NEW f \in 0 .. MaxFiles, NEW g \in Geoms \cup {None},
         NEW n \in Nat, NEW v \in Nat, NEW last \in Nat \X Nat, NEW a \in 0 .. MaxFiles,
         Moves(r, to, o, c, f, g, n, v, last, a),
         ArrivesOK(to, o, c, f, g, n, v, last, a)
  PROVE  WaitInv'
<1>1. WaitTypes'
  BY Zenon DEF WaitInv, WaitTypes, Moves
<1>2. /\ rpc'[r] = to /\ rop'[r] = o /\ rc'[r] = c /\ rhdr'[r] = f /\ rgeom'[r] = g
      /\ wn'[r] = n /\ wval'[r] = v /\ wlast'[r] = last /\ asleep'[r] = a
  BY Zenon DEF WaitInv, WaitTypes, Moves
<1>3. HandleOK(r)'
  BY <1>2, Zenon DEF ArrivesOK, HandleOK
<1>4. WaitOK(r)'
  <2>1. /\ ToNotify(rhdr[r])' <=> ToNotify(f)
        /\ ToWake(rhdr[r])' <=> ToWake(f)
        /\ Happened(wlast[r], rhdr[r])' <=> Happened(last, f)
    BY <1>2, Zenon DEF ToNotify, ToWake, Happened, ReadCode
  <2>2. QED
    BY <1>2, <2>1, Zenon DEF ArrivesOK, WaitOK
<1>5. ASSUME NEW s \in Readers, s # r PROVE HandleOK(s)' /\ WaitOK(s)'
  <2>1. /\ HandleOK(s) /\ WaitOK(s)
        /\ UNCHANGED <<rpc[s], rop[s], rc[s], rhdr[s], rgeom[s], wn[s], wval[s], wlast[s],
                       asleep[s]>>
    BY <1>5, Zenon DEF WaitInv, WaitTypes, Moves
  <2>2. /\ ToNotify(rhdr[s])' <=> ToNotify(rhdr[s])
        /\ ToWake(rhdr[s])' <=> ToWake(rhdr[s])
        /\ Happened(wlast[s], rhdr[s])' <=> Happened(wlast[s], rhdr[s])
    BY <2>1, Zenon DEF ToNotify, ToWake, Happened, ReadCode
  <2>3. QED
    BY <2>1, <2>2, Zenon DEF HandleOK, WaitOK
<1>6. QED
  BY <1>1, <1>3, <1>4, <1>5, Zenon DEF WaitInv

\* Every step of a reader keeps the invariant.
LEMMA WaitReaderStep ==
  ASSUME WaitInv, FilesInv, GenInv, NEW r \in Readers, Reader(r)
  PROVE  WaitInv'
<1> USE FilesAssumption, ChannelAssumption DEF NoFile
<1>1. UNCHANGED <<path, tmps, nfiles, kind, geom, retired, latest, gen, notify, wpc, old, hdr>>
  BY ReaderKeepsFiles, Zenon DEF fileVars, procVars
<1>2. /\ HandleOK(r) /\ WaitOK(r)
      /\ rpc[r] \in ReaderPlaces /\ rop[r] \in {"none", "read", "describe", "wait", "alive"}
      /\ rc[r] \in Codes /\ rhdr[r] \in 0 .. MaxFiles /\ rgeom[r] \in Geoms \cup {None}
      /\ wn[r] \in Nat /\ wval[r] \in Nat /\ wlast[r] \in Nat \X Nat
      /\ asleep[r] \in 0 .. MaxFiles /\ 0 \in 0 .. MaxFiles
  BY SMTT(30) DEF WaitInv, WaitTypes
<1>3. /\ rpc = [rpc EXCEPT ![r] = rpc[r]] /\ rop = [rop EXCEPT ![r] = rop[r]]
      /\ rc = [rc EXCEPT ![r] = rc[r]] /\ rhdr = [rhdr EXCEPT ![r] = rhdr[r]]
      /\ rgeom = [rgeom EXCEPT ![r] = rgeom[r]] /\ wn = [wn EXCEPT ![r] = wn[r]]
      /\ wval = [wval EXCEPT ![r] = wval[r]] /\ wlast = [wlast EXCEPT ![r] = wlast[r]]
      /\ asleep = [asleep EXCEPT ![r] = asleep[r]]
  BY Zenon DEF WaitInv, WaitTypes
<1>4. /\ path \in 0 .. MaxFiles /\ (path # 0 => path <= nfiles /\ path \notin tmps)
      /\ \A f \in Files : geom[f] \in Geoms \cup {None} /\ notify[f] \in Nat /\ latest[f] \in Nat
      /\ \A f \in 0 .. MaxFiles : f # 0 => f \in Files
      /\ Random \in Nat \X Nat
  BY SMTT(30) DEF FilesInv, FilesTypes, FilesFresh, WaitInv, WaitTypes, Files, Random
<1>5. rpc[r] # "sleep" => asleep[r] = 0 /\ asleep = [asleep EXCEPT ![r] = 0]
  BY <1>2, <1>3, Zenon DEF HandleOK
\* The call returns.
<1>6. ASSUME NEW c \in Codes, Return(r, c), UNCHANGED <<rhdr, rgeom>>,
             \/ rpc[r] # "sleep" /\ UNCHANGED asleep
             \/ asleep' = [asleep EXCEPT ![r] = 0]
      PROVE  WaitInv'
  <2>1. Moves(r, "idle", "none", c, rhdr[r], rgeom[r], 0, 0, Random, 0)
    BY <1>3, <1>5, <1>6, Zenon DEF Moves, Return
  <2>2. ArrivesOK("idle", "none", c, rhdr[r], rgeom[r], 0, 0, Random, 0)
    BY <1>2, Zenon DEF ArrivesOK, HandleOK
  <2>3. QED
    BY <1>1, <1>2, <1>4, <2>1, <2>2, WaitMove, Zenon DEF ReaderPlaces
\* It goes on, and is not about to sleep; its mapping is f.
<1>7. ASSUME NEW to \in {"idle", "sync", "attach", "attached", "identity", "synced", "reading",
                          "getlk"},
             NEW o \in {"none", "read", "describe", "wait", "alive"}, NEW c \in Codes,
             NEW f \in 0 .. MaxFiles, NEW g, NEW v \in Nat, NEW last \in Nat \X Nat,
             Moves(r, to, o, c, f, g, wn[r], v, last, 0),
             \/ f = rhdr[r] /\ g = rgeom[r]
             \/ f \in {0, path, rhdr[r]} /\ g = IF f = 0 THEN None ELSE geom[f],
             to = "attached" \/ (to = "synced" /\ c = "OK") => f # 0,
             o = "none" => to = "idle"
      PROVE  WaitInv'
  <2>1. g \in Geoms \cup {None}
    BY <1>2, <1>4, <1>7, Zenon
  <2>2. ArrivesOK(to, o, c, f, g, wn[r], v, last, 0)
    BY <1>2, <1>4, <1>7, Zenon DEF ArrivesOK, HandleOK
  <2>3. to \in ReaderPlaces /\ wn[r] \in Nat /\ 0 \in 0 .. MaxFiles
    BY <1>2, <1>7, Zenon DEF ReaderPlaces
  <2>4. \A n \in Nat, a \in 0 .. MaxFiles :
          Moves(r, to, o, c, f, g, n, v, last, a) /\ ArrivesOK(to, o, c, f, g, n, v, last, a)
            => WaitInv'
    BY <1>1, <2>1, <2>3, WaitMove, SMTT(30)
  <2>5. QED
    BY <1>7, <2>2, <2>3, <2>4, Zenon
\* It goes on with the same mapping, and may be about to sleep.
<1>7a. ASSUME NEW to \in ReaderPlaces, NEW n \in Nat, NEW v \in Nat, NEW a \in {0, rhdr[r]},
              Moves(r, to, rop[r], rc[r], rhdr[r], rgeom[r], n, v, wlast[r], a),
              ArrivesOK(to, rop[r], rc[r], rhdr[r], rgeom[r], n, v, wlast[r], a)
       PROVE  WaitInv'
  <2>1. \A o \in {"none", "read", "describe", "wait", "alive"}, c \in Codes, f \in 0 .. MaxFiles,
           g \in Geoms \cup {None}, last \in Nat \X Nat, b \in 0 .. MaxFiles :
          Moves(r, to, o, c, f, g, n, v, last, b) /\ ArrivesOK(to, o, c, f, g, n, v, last, b)
            => WaitInv'
    BY <1>1, WaitMove, SMTT(30)
  <2>2. a \in 0 .. MaxFiles
    BY <1>2, Zenon
  <2>3. QED
    BY <1>2, <1>7a, <2>1, <2>2, Zenon
<1>8. ASSUME reader_close(r) PROVE WaitInv'
  <2>1. rpc[r] = "idle"
    BY <1>2, <1>8, Zenon DEF reader_close, HandleOK
  <2>2. Moves(r, "idle", "none", "OK", 0, None, wn[r], wval[r], wlast[r], 0)
    BY <1>3, <1>5, <1>8, <2>1, Zenon
    DEF reader_close, Map, Moves, waitVars, filesVars, stateVars
  <2>3. QED
    BY <1>2, <1>7, <2>2, ZenonT(30) DEF Codes
<1>9. ASSUME NEW o \in Calls, call(r, o) PROVE WaitInv'
  <2>1. rpc[r] = "idle" /\ o \in {"read", "describe"}
    BY <1>2, <1>9, Zenon DEF call, HandleOK
  <2>2. Moves(r, "sync", o, rc[r], rhdr[r], rgeom[r], wn[r], wval[r], wlast[r], 0)
    BY <1>3, <1>5, <1>9, <2>1, Zenon DEF call, Moves, handleVars, waitVars, filesVars, stateVars
  <2>3. o \in {"none", "read", "describe", "wait", "alive"} /\ o # "none"
    BY <2>1, Zenon
  <2>4. QED
    BY <1>2, <1>7, <2>2, <2>3, ZenonT(30)
<1>10. ASSUME NEW last \in used \cup {Random}, NEW t \in Timed, state_wait(r, last, t)
       PROVE  WaitInv'
  <2>1. rpc[r] = "idle" /\ last \in Nat \X Nat
    BY <1>2, <1>4, <1>10, Zenon DEF state_wait, HandleOK, GenInv
  <2>2. Moves(r, "sync", "wait", rc[r], rhdr[r], rgeom[r], wn[r], wval[r], last, 0)
    BY <1>3, <1>5, <1>10, <2>1, Zenon DEF state_wait, Moves, handleVars, filesVars, stateVars
  <2>3. QED
    BY <1>2, <1>7, <2>1, <2>2, Zenon
<1>11. ASSUME writer_alive(r) PROVE WaitInv'
  <2>1. rpc[r] = "idle"
    BY <1>2, <1>11, Zenon DEF writer_alive, HandleOK
  <2>2. Moves(r, "identity", "alive", rc[r], rhdr[r], rgeom[r], wn[r], wval[r], wlast[r], 0)
    BY <1>3, <1>5, <1>11, <2>1, Zenon
    DEF writer_alive, Moves, handleVars, waitVars, filesVars, stateVars
  <2>3. QED
    BY <1>2, <1>7, <2>1, <2>2, Zenon
<1>12. ASSUME reader_sync(r) PROVE WaitInv'
  <2>1. /\ rpc[r] = "sync" /\ rop[r] # "none" /\ UNCHANGED <<rop, wn, wval, wlast, asleep>>
        /\ rc' = [rc EXCEPT ![r] = "OK"]
    BY <1>2, <1>12, Zenon DEF reader_sync, At, HandleOK, waitVars, filesVars, stateVars
  <2>2. CASE rhdr[r] # NoFile /\ ~retired[rhdr[r]]
    <3>1. Moves(r, "synced", rop[r], "OK", rhdr[r], IF rhdr[r] = 0 THEN None ELSE geom[rhdr[r]],
                wn[r], wval[r], wlast[r], 0)
      BY <1>3, <1>5, <1>12, <2>1, <2>2, Zenon DEF reader_sync, At, Map, Moves
    <3>2. "OK" \in Codes
      BY Zenon DEF Codes
    <3>3. QED
      BY <1>2, <1>7, <2>1, <2>2, <3>1, <3>2, Zenon
  <2>3. CASE ~(rhdr[r] # NoFile /\ ~retired[rhdr[r]])
    <3>1. Moves(r, "attach", rop[r], "OK", 0, None, wn[r], wval[r], wlast[r], 0)
      BY <1>3, <1>5, <1>12, <2>1, <2>3, Zenon DEF reader_sync, At, Map, Moves
    <3>2. "OK" \in Codes
      BY Zenon DEF Codes
    <3>3. QED
      BY <1>2, <1>7, <2>1, <3>1, <3>2, Zenon
  <2>4. QED
    BY <2>2, <2>3, Zenon
<1>13. ASSUME attach(r) PROVE WaitInv'
  <2>1. /\ rpc[r] = "attach" /\ rop[r] # "none" /\ UNCHANGED <<rop, wn, wval, wlast, asleep>>
    BY <1>2, <1>13, Zenon DEF attach, At, HandleOK, waitVars, filesVars, stateVars
  <2>2. CASE path # NoFile /\ kind[path] \in {"ok", "minor", "corrupt"}
    <3>1. Moves(r, "attached", rop[r], "OK", path, IF path = 0 THEN None ELSE geom[path],
                wn[r], wval[r], wlast[r], 0)
      BY <1>3, <1>5, <1>13, <2>1, <2>2, Zenon DEF attach, At, Map, Moves
    <3>2. "OK" \in Codes
      BY Zenon DEF Codes
    <3>3. QED
      BY <1>2, <1>4, <1>7, <2>1, <2>2, <3>1, <3>2, Zenon
  <2>3. CASE ~(path # NoFile /\ kind[path] \in {"ok", "minor", "corrupt"})
    <3>1. PICK c \in {"NODATA", "FORMAT"} :
            Moves(r, "synced", rop[r], c, 0, None, wn[r], wval[r], wlast[r], 0)
      BY <1>3, <1>5, <1>13, <2>1, <2>3, Zenon DEF attach, At, Map, Moves
    <3>2. c \in Codes /\ c # "OK"
      BY <3>1, ZenonT(30) DEF Codes
    <3>3. QED
      BY <1>2, <1>7, <2>1, <3>1, <3>2, Zenon
  <2>4. QED
    BY <2>2, <2>3, Zenon
<1>14. ASSUME attach_error(r) PROVE WaitInv'
  <2>1. /\ rpc[r] = "attach" /\ rop[r] # "none"
        /\ UNCHANGED <<rop, rhdr, rgeom, wn, wval, wlast, asleep>>
    BY <1>2, <1>14, Zenon DEF attach_error, At, HandleOK, handleVars, waitVars, filesVars, stateVars
  <2>2. Moves(r, "synced", rop[r], "SYS", rhdr[r], rgeom[r], wn[r], wval[r], wlast[r], 0)
    BY <1>3, <1>5, <1>14, <2>1, Zenon DEF attach_error, At, Moves
  <2>3. "OK" \in Codes /\ "SYS" \in Codes
    BY Zenon DEF Codes
  <2>4. QED
    BY <1>2, <1>7, <2>1, <2>2, <2>3, SMTT(30)
<1>15. ASSUME attach_check(r) PROVE WaitInv'
  <2>1. /\ rpc[r] = "attached" /\ rop[r] # "none" /\ rhdr[r] # 0
        /\ UNCHANGED <<rop, wn, wval, wlast, asleep>>
    BY <1>2, <1>15, Zenon DEF attach_check, At, HandleOK, waitVars, filesVars, stateVars
  <2>2. CASE ~retired[rhdr[r]]
    <3>1. Moves(r, "synced", rop[r], "OK", rhdr[r], IF rhdr[r] = 0 THEN None ELSE geom[rhdr[r]],
                wn[r], wval[r], wlast[r], 0)
      BY <1>3, <1>5, <1>15, <2>1, <2>2, Zenon DEF attach_check, At, Map, Moves
    <3>2. {"OK", "NODATA"} \subseteq Codes
      BY Zenon DEF Codes
    <3>3. QED
      BY <1>2, <1>7, <2>1, <3>1, <3>2, Zenon
  <2>3. CASE retired[rhdr[r]]
    <3>1. \/ Moves(r, "synced", rop[r], "NODATA", 0, None, wn[r], wval[r], wlast[r], 0)
          \/ Moves(r, "attach", rop[r], "OK", 0, None, wn[r], wval[r], wlast[r], 0)
      BY <1>3, <1>5, <1>15, <2>1, <2>3, Zenon DEF attach_check, At, Map, Moves
    <3>2. {"OK", "NODATA"} \subseteq Codes
      BY Zenon DEF Codes
    <3>3. QED
      BY <1>2, <1>7, <2>1, <3>1, <3>2, ZenonT(30)
  <2>4. QED
    BY <2>2, <2>3, Zenon
<1>16. ASSUME identity_check(r) PROVE WaitInv'
  <2>1. /\ rpc[r] = "identity" /\ rop[r] # "none" /\ UNCHANGED <<rop, rc, wn, wval, wlast, asleep>>
    BY <1>2, <1>16, Zenon DEF identity_check, At, HandleOK, waitVars, filesVars, stateVars
  <2>2. PICK f \in {path, 0} :
          Moves(r, "sync", rop[r], rc[r], f, IF f = 0 THEN None ELSE geom[f], wn[r], wval[r],
                wlast[r], 0)
    BY <1>3, <1>5, <1>16, <2>1, Zenon DEF identity_check, At, Map, Moves
  <2>3. f \in 0 .. MaxFiles
    BY <1>2, <1>4, Zenon
  <2>4. QED
    BY <1>2, <1>7, <2>1, <2>2, <2>3, SMTT(30)
<1>17. ASSUME read_start(r) PROVE WaitInv'
  <2>1. /\ rpc[r] = "synced" /\ rop[r] # "none" /\ rhdr[r] # 0
        /\ UNCHANGED <<rop, rc, rhdr, rgeom, wn, wlast, asleep>>
    BY <1>2, <1>17, Zenon DEF read_start, At, HandleOK, handleVars, filesVars, stateVars
  <2>2. latest[rhdr[r]] \in Nat
    BY <1>2, <1>4, <2>1, Zenon
  <2>3. Moves(r, "reading", rop[r], rc[r], rhdr[r], rgeom[r], wn[r], latest[rhdr[r]], wlast[r], 0)
    BY <1>3, <1>5, <1>17, <2>1, Zenon DEF read_start, At, Moves
  <2>4. QED
    BY <1>2, <1>7, <2>1, <2>2, <2>3, Zenon
<1>18. ASSUME read_busy(r) \/ state_read(r) \/ state_describe(r) PROVE WaitInv'
  <2>1. /\ rpc[r] # "sleep" /\ UNCHANGED <<rhdr, rgeom, asleep>>
        /\ \E c \in Codes : Return(r, c)
    BY <1>2, <1>18, Zenon
    DEF read_busy, state_read, state_describe, ReadCode, Codes, handleVars, filesVars, stateVars
  <2>2. QED
    BY <1>6, <2>1, Zenon
<1>19. ASSUME writer_alive_open(r) PROVE WaitInv'
  <2>1. /\ rpc[r] = "synced" /\ rop[r] = "alive" /\ UNCHANGED <<rhdr, rgeom, asleep>>
        /\ "OK" \in Codes
    BY <1>19, Zenon DEF writer_alive_open, handleVars, filesVars, stateVars, Codes
  <2>2. CASE Return(r, "OK")
    BY <1>6, <2>1, <2>2, Zenon
  <2>3. CASE rpc' = [rpc EXCEPT ![r] = "getlk"] /\ UNCHANGED <<rop, rc, waitVars>>
    <3>1. Moves(r, "getlk", rop[r], rc[r], rhdr[r], rgeom[r], wn[r], wval[r], wlast[r], 0)
      BY <1>3, <1>5, <2>1, <2>3, Zenon DEF Moves, waitVars
    <3>2. QED
      BY <1>2, <1>7, <2>1, <3>1, Zenon
  <2>4. QED
    BY <1>19, <2>2, <2>3, Zenon DEF writer_alive_open
<1>20. ASSUME writer_alive_getlk(r) \/ call_error(r) PROVE WaitInv'
  <2>1. /\ rpc[r] # "sleep" /\ UNCHANGED <<rhdr, rgeom, asleep>>
        /\ \E c \in Codes : Return(r, c)
    BY <1>20, Zenon DEF writer_alive_getlk, call_error, Codes, handleVars, filesVars, stateVars
  <2>2. QED
    BY <1>6, <2>1, Zenon
<1>21. ASSUME wait_refuse(r) \/ wait_timeout(r) PROVE WaitInv'
  <2>1. /\ rpc[r] # "sleep" /\ UNCHANGED <<rhdr, rgeom, asleep>>
        /\ \E c \in Codes : Return(r, c)
    BY <1>2, <1>21, Zenon DEF wait_refuse, wait_timeout, Codes, handleVars, filesVars, stateVars
  <2>2. QED
    BY <1>6, <2>1, Zenon
<1>22. ASSUME wait_interrupted(r) PROVE WaitInv'
  <2>1. /\ asleep' = [asleep EXCEPT ![r] = 0] /\ UNCHANGED <<rhdr, rgeom>>
        /\ "INTR" \in Codes /\ Return(r, "INTR")
    BY <1>22, Zenon DEF wait_interrupted, Codes, handleVars
  <2>2. QED
    BY <1>6, <2>1, Zenon
<1>23. ASSUME wait_poll(r) PROVE WaitInv'
  <2>1. /\ rpc[r] = "synced" /\ rop[r] = "wait"
        /\ UNCHANGED <<rop, rc, rhdr, rgeom, wn, wval, wlast, asleep>>
    BY <1>23, Zenon DEF wait_poll, At, handleVars, waitVars, filesVars, stateVars
  <2>2. Moves(r, "sync", rop[r], rc[r], rhdr[r], rgeom[r], wn[r], wval[r], wlast[r], 0)
    BY <1>3, <1>5, <1>23, <2>1, Zenon DEF wait_poll, At, Moves
  <2>3. QED
    BY <1>2, <1>7, <2>1, <2>2, ZenonT(30)
<1>24. ASSUME wait_load(r) PROVE WaitInv'
  <2>1. /\ rpc[r] = "synced" /\ rop[r] = "wait" /\ rhdr[r] # 0 /\ rgeom[r] \notin NoNotify
        /\ UNCHANGED <<rop, rc, rhdr, rgeom, wval, wlast, asleep>>
    BY <1>2, <1>24, Zenon DEF wait_load, At, HandleOK, handleVars, filesVars, stateVars
  <2>2. notify[rhdr[r]] \in Nat
    BY <1>2, <1>4, <2>1, Zenon
  <2>3. Moves(r, "retired", rop[r], rc[r], rhdr[r], rgeom[r], notify[rhdr[r]], wval[r], wlast[r], 0)
    BY <1>3, <1>5, <1>24, <2>1, ZenonT(30) DEF wait_load, At, Moves
  <2>4. ArrivesOK("retired", rop[r], rc[r], rhdr[r], rgeom[r], notify[rhdr[r]], wval[r],
                  wlast[r], 0)
    <3>1. \A n \in Nat : n <= n
      BY SMT
    <3>2. QED
      BY <1>2, <2>1, <2>2, <3>1, ZenonT(30) DEF ArrivesOK, HandleOK
  <2>5. "retired" \in ReaderPlaces
    BY Zenon DEF ReaderPlaces
  <2>6. QED
    BY <1>7a, <1>2, <2>2, <2>3, <2>4, <2>5, Zenon
<1>25. ASSUME wait_retired(r) PROVE WaitInv'
  <2>1. /\ rpc[r] = "retired" /\ rop[r] # "none" /\ rhdr[r] # 0 /\ rgeom[r] \notin NoNotify
        /\ UNCHANGED <<rop, rc, rhdr, rgeom, wn, wlast, asleep>>
    BY <1>2, <1>25, Zenon DEF wait_retired, At, HandleOK, handleVars, filesVars, stateVars
  <2>2. latest[rhdr[r]] \in Nat
    BY <1>2, <1>4, <2>1, Zenon
  <2>3. CASE retired[rhdr[r]]
    <3>1. Moves(r, "sync", rop[r], rc[r], rhdr[r], rgeom[r], wn[r], latest[rhdr[r]], wlast[r], 0)
      BY <1>3, <1>5, <1>25, <2>1, <2>3, Zenon DEF wait_retired, At, Moves
    <3>2. QED
      BY <1>2, <1>7, <2>1, <2>2, <3>1, Zenon
  <2>4. CASE ~retired[rhdr[r]]
    <3>1. Moves(r, "peek", rop[r], rc[r], rhdr[r], rgeom[r], wn[r], latest[rhdr[r]], wlast[r], 0)
      BY <1>3, <1>5, <1>25, <2>1, <2>4, Zenon DEF wait_retired, At, Moves
    <3>2. ArrivesOK("peek", rop[r], rc[r], rhdr[r], rgeom[r], wn[r], latest[rhdr[r]], wlast[r], 0)
      BY <1>2, <2>1, <2>4, Zenon DEF ArrivesOK, HandleOK, WaitOK
    <3>3. "peek" \in ReaderPlaces
      BY Zenon DEF ReaderPlaces
    <3>4. QED
      BY <1>7a, <1>2, <2>2, <3>1, <3>2, <3>3, Zenon
  <2>5. QED
    BY <2>3, <2>4, Zenon
<1>26. ASSUME wait_peek(r) PROVE WaitInv'
  <2>1. /\ rpc[r] = "peek" /\ rop[r] # "none" /\ rhdr[r] # 0 /\ rgeom[r] \notin NoNotify
        /\ UNCHANGED <<rhdr, rgeom, asleep>>
    BY <1>2, <1>26, Zenon DEF wait_peek, HandleOK, handleVars, filesVars, stateVars
  <2>2. ASSUME NEW c \in {"OK", "FORMAT"}, Return(r, c) PROVE WaitInv'
    <3>1. c \in Codes
      BY <2>2, Zenon DEF Codes
    <3>2. QED
      BY <1>6, <2>1, <2>2, <3>1, Zenon
  <2>3. ASSUME \/ ReadCode(rhdr[r]) = "NODATA"
               \/ gen[rhdr[r]] = wlast[r]
               \/ latest[rhdr[r]] - wval[r] >= Lap,
               rpc' = [rpc EXCEPT ![r] = "futex"], UNCHANGED <<rop, rc, waitVars>>
        PROVE  WaitInv'
    <3>1. Moves(r, "futex", rop[r], rc[r], rhdr[r], rgeom[r], wn[r], wval[r], wlast[r], 0)
      BY <1>3, <1>5, <2>1, <2>3, ZenonT(30) DEF Moves, waitVars
    <3>2. latest[rhdr[r]] - wval[r] >= Lap => latest[rhdr[r]] # wval[r]
      BY <1>2, <1>4, <2>1, LapApart, Zenon
    <3>3. Happened(wlast[r], rhdr[r]) => retired[rhdr[r]] \/ latest[rhdr[r]] # wval[r]
      BY <2>3, <3>2, Zenon DEF Happened
    <3>4. ArrivesOK("futex", rop[r], rc[r], rhdr[r], rgeom[r], wn[r], wval[r], wlast[r], 0)
      BY <1>2, <2>1, <3>3, Zenon DEF ArrivesOK, HandleOK, WaitOK
    <3>5. "futex" \in ReaderPlaces
      BY Zenon DEF ReaderPlaces
    <3>6. QED
      BY <1>7a, <1>2, <3>1, <3>4, <3>5, Zenon
  <2>4. QED
    BY <1>26, <2>2, <2>3, Zenon DEF wait_peek
<1>27. ASSUME futex_wait(r) PROVE WaitInv'
  <2>1. /\ rpc[r] = "futex" /\ rop[r] # "none" /\ rhdr[r] # 0 /\ rgeom[r] \notin NoNotify
        /\ UNCHANGED <<rop, rc, rhdr, rgeom, wn, wval, wlast>>
    BY <1>2, <1>27, Zenon DEF futex_wait, At, HandleOK, handleVars, waitVars
  <2>2. CASE notify[rhdr[r]] = wn[r]
    <3>1. Moves(r, "sleep", rop[r], rc[r], rhdr[r], rgeom[r], wn[r], wval[r], wlast[r], rhdr[r])
      BY <1>3, <1>27, <2>1, <2>2, Zenon DEF futex_wait, At, Moves
    <3>2. ArrivesOK("sleep", rop[r], rc[r], rhdr[r], rgeom[r], wn[r], wval[r], wlast[r], rhdr[r])
      BY <1>2, <2>1, <2>2, Zenon DEF ArrivesOK, HandleOK, WaitOK
    <3>3. "sleep" \in ReaderPlaces
      BY Zenon DEF ReaderPlaces
    <3>4. QED
      BY <1>7a, <1>2, <3>1, <3>2, <3>3, Zenon
  <2>3. CASE notify[rhdr[r]] # wn[r]
    <3>1. Moves(r, "sync", rop[r], rc[r], rhdr[r], rgeom[r], wn[r], wval[r], wlast[r], 0)
      BY <1>3, <1>27, <2>1, <2>3, Zenon DEF futex_wait, At, Moves
    <3>2. QED
      BY <1>2, <1>7, <2>1, <3>1, Zenon
  <2>4. QED
    BY <2>2, <2>3, Zenon
<1>28. ASSUME wait_woken(r) PROVE WaitInv'
  <2>1. /\ rpc[r] = "sleep" /\ rop[r] # "none" /\ asleep[r] = 0
        /\ UNCHANGED <<rop, rc, rhdr, rgeom, wn, wval, wlast, asleep>>
    BY <1>2, <1>28, Zenon DEF wait_woken, At, HandleOK, handleVars, waitVars, filesVars, stateVars
  <2>2. Moves(r, "sync", rop[r], rc[r], rhdr[r], rgeom[r], wn[r], wval[r], wlast[r], 0)
    BY <1>3, <1>28, <2>1, Zenon DEF wait_woken, At, Moves
  <2>3. QED
    BY <1>2, <1>7, <2>1, <2>2, ZenonT(30)
<1>29. ASSUME wait_slice(r) PROVE WaitInv'
  <2>1. /\ rpc[r] = "sleep" /\ rop[r] # "none" /\ asleep' = [asleep EXCEPT ![r] = 0]
        /\ UNCHANGED <<rop, rc, rhdr, rgeom, wn, wval, wlast>>
    BY <1>2, <1>29, Zenon DEF wait_slice, At, HandleOK, handleVars, waitVars
  <2>2. Moves(r, "identity", rop[r], rc[r], rhdr[r], rgeom[r], wn[r], wval[r], wlast[r], 0)
    BY <1>3, <1>29, <2>1, Zenon DEF wait_slice, At, Moves
  <2>3. QED
    BY <1>2, <1>7, <2>1, <2>2, Zenon
<1>30. Begin(r) => WaitInv'
  BY <1>8, <1>9, <1>10, <1>11, Zenon DEF Begin
<1>31. Run(r) => WaitInv'
  BY <1>12, <1>13, <1>15, <1>16, <1>17, <1>18, <1>19, <1>20, <1>21, <1>23, <1>24, <1>25, <1>26,
     <1>27, <1>28, Zenon
  DEF Run
<1>32. QED
  BY <1>14, <1>20, <1>21, <1>22, <1>29, <1>30, <1>31, Zenon DEF Reader

\* Unless a process dies, no wake-up is lost, with any number of waiting
\* readers, of writers that publish, replace or unlink, and of failing calls: a
\* reader that sleeps although its file has news is about to be woken.
THEOREM WakeUpsAreNotLost ==
  ASSUME ~Crashes
  PROVE  Spec => []NoLostWakeUp
<1>1. WaitInv /\ FilesInv /\ FilesInv' /\ GenInv /\ [Next]_vars => WaitInv'
  <2> SUFFICES ASSUME WaitInv, FilesInv, FilesInv', GenInv, [Next]_vars PROVE WaitInv'
    BY Zenon
  <2>1. ASSUME UNCHANGED <<tmps, nfiles, kind, geom, retired, latest, gen, notify, asleep, wpc, old,
                           hdr, rpc, rop, rc, rhdr, rgeom, wn, wval, wlast>>
        PROVE  WaitInv'
    <3>1. WaitTypes'
      BY <2>1, Zenon DEF WaitInv, WaitTypes
    <3>2. ASSUME NEW r \in Readers PROVE HandleOK(r)' /\ WaitOK(r)'
      <4>1. HandleOK(r) /\ WaitOK(r)
        BY Zenon DEF WaitInv
      <4>2. /\ Happened(wlast[r], rhdr[r])' <=> Happened(wlast[r], rhdr[r])
            /\ ToNotify(rhdr[r])' <=> ToNotify(rhdr[r])
            /\ ToWake(rhdr[r])' <=> ToWake(rhdr[r])
        BY <2>1, Zenon DEF Happened, ReadCode, ToNotify, ToWake
      <4>3. QED
        BY <2>1, <4>1, <4>2, Zenon DEF HandleOK, WaitOK
    <3>3. QED
      BY <3>1, <3>2, Zenon DEF WaitInv
  <2>2. ASSUME rm_data, UNCHANGED readerVars PROVE WaitInv'
    BY <2>1, <2>2, Zenon DEF rm_data, stateVars, procVars, readerVars, handleVars, waitVars
  <2>3. ASSUME UNCHANGED vars PROVE WaitInv'
    BY <2>1, <2>3, Zenon
    DEF vars, filesVars, fileVars, stateVars, procVars, readerVars, handleVars, waitVars
  <2>4. QED
    BY <2>2, <2>3, WaitWriterStep, WaitReaderStep, Zenon DEF Next
<1>2. WaitInv => NoLostWakeUp
  <2> SUFFICES ASSUME WaitInv, NEW r \in Readers, asleep[r] # NoFile,
                      Happened(wlast[r], asleep[r])
               PROVE  ToNotify(asleep[r]) \/ ToWake(asleep[r])
    BY Zenon DEF NoLostWakeUp, Happened, ToNotify, ToWake
  <2>1. QED
    BY Zenon DEF WaitInv, HandleOK, WaitOK
<1>3. QED
  BY <1>1, <1>2, WaitInitInv, FilesInvariance, GenInvariance, PTL DEF Spec

=============================================================================
