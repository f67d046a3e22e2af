--------------------------- MODULE ProgramsProofs ---------------------------
(***************************************************************************)
(* Proofs about the programs on top of a channel.  They use the library    *)
(* only through its calls, with generations that it handed out, so that    *)
(* what is proved of a channel holds of theirs.  From that, and from an    *)
(* invariant of its main loop, motor_reader prints values in order and     *)
(* takes bytes of another type for a motor_status at most when their file  *)
(* was retired before it could ask.                                        *)
(***************************************************************************)
EXTENDS Programs, ChannelProofs

-----------------------------------------------------------------------------

\* Where the two programs can be.
MotorPlaces == {"loop", "waited", "peeked", "peek_described", "asked", "read", "read_described",
                "exit"}
WatchPlaces == {"key", "key_peeked", "key_asked", "dump", "dump_asked", "dump_peeked", "wait",
                "waited", "exit"}

\* The generations a program can pass to wait: those of published values, and 0.
Generations == used \cup {Random}

Keys == [ino : 0 .. MaxFiles, peek_rc : Codes \cup {"none"}, generation : Generations,
         alive : {"yes", "no", "SYS"}]

\* What the state of the programs, and of their handles, consists of.
HandleTypes ==
  /\ geom \in [Files -> Geoms \cup {None}] /\ rgeom \in [Readers -> Geoms \cup {None}]
  /\ wlast \in [Readers -> Generations]
  /\ \A f \in Files : gen[f] \in Generations
  /\ \A r \in Readers : got[r].generation \in Generations

ProgramTypes ==
  /\ program \in {"motor", "watch"} /\ versions \subseteq Geoms
  /\ pp \in [Readers -> IF program = "motor" THEN MotorPlaces ELSE WatchPlaces]
  /\ shown \in [Readers -> Nat] /\ seen \in [Readers -> Generations]
  /\ key \in [Readers -> Keys] /\ next \in [Readers -> Keys]

\* What is proved of a channel.
ChannelInv == LockInv /\ FilesInv /\ GenInv /\ ReadInv

ProgramsInv == ChannelInv /\ HandleTypes /\ ProgramTypes

-----------------------------------------------------------------------------
(* The programs use the library through its calls. *)

\* A channel starts from what is proved of it.
LEMMA ChannelInitInv == Init => ChannelInv
<1>1. Init => LockInit
  BY Zenon DEF Init
<1>2. QED
  BY <1>1, LockInitInv, FilesInitInv, GenInitInv, ReadInitInv, Zenon DEF ChannelInv

\* Every step of a channel keeps what is proved of it.
LEMMA ChannelNextInv == ChannelInv /\ [Next]_vars => ChannelInv'
<1> SUFFICES ASSUME ChannelInv, [Next]_vars PROVE ChannelInv'
  BY Zenon
<1>1. LockInv /\ FilesInv /\ GenInv /\ ReadInv /\ OneHolder /\ LockTypeOK
  BY HoldersEqual, Zenon DEF ChannelInv, LockInv
<1>2. LockInv'
  BY <1>1, NextIsLockStep, LockNextInv, Zenon
<1>3. FilesInv'
  BY <1>1, FilesNextInv, Zenon
<1>4. GenInv'
  BY <1>1, GenNextInv, Zenon
<1>5. ReadInv'
  BY <1>1, <1>3, ReadNextInv, Zenon
<1>6. QED
  BY <1>2, <1>3, <1>4, <1>5, Zenon DEF ChannelInv

\* The calls of the programs are those of the channel's applications.
LEMMA CallsAre ==
  /\ "read" \in Calls /\ "describe" \in Calls /\ "wait" \in Calls /\ "alive" \in Calls
  /\ TRUE \in Timed
BY ProgramsAssumption

\* Each step of a program makes one call, with a generation that the library
\* handed out, or none.
LEMMA ProgramCalls ==
  ASSUME ProgramTypes, NEW r \in Readers, Program(r)
  PROVE  Begin(r) \/ UNCHANGED vars
<1>1. ASSUME call(r, "read") \/ call(r, "describe") \/ reader_close(r) \/ writer_alive(r)
      PROVE  Begin(r)
  BY <1>1, CallsAre, Zenon DEF Begin
<1>2. ASSUME NEW last \in Generations, state_wait(r, last, TRUE) PROVE Begin(r)
  BY <1>2, CallsAre, Zenon DEF Begin, Generations
<1>3. seen[r] \in Generations
  BY Zenon DEF ProgramTypes
<1>4. key[r].generation \in Generations
  BY DEF ProgramTypes, Keys
<1>5. CASE Motor(r)
  BY <1>1, <1>2, <1>3, <1>5, Zenon
  DEF Motor, motor_loop, motor_waited, motor_peeked, motor_timeout, motor_asked, motor_read,
      motor_print, payload_describe, Exit, NoCall
<1>6. ASSUME \/ watch_key_lstat(r) \/ watch_key_peeked(r) \/ watch_redraw(r) \/ watch_dump(r)
             \/ watch_liveness(r) \/ watch_value(r) \/ watch_waited(r)
      PROVE  Begin(r) \/ UNCHANGED vars
  BY <1>1, <1>6, Zenon
  DEF watch_key_lstat, watch_key_peeked, watch_redraw, watch_dump, watch_liveness, watch_value,
      watch_waited, peek_again, Exit, NoCall
<1>7. ASSUME watch_wait(r) PROVE Begin(r)
  BY <1>1, <1>2, <1>4, <1>7, Zenon DEF watch_wait, Exit
<1>8. QED
  BY <1>5, <1>6, <1>7, Zenon DEF Program, Watch

\* A step of a program, of a call it made, of a writer or of a signal is a
\* step of the channel.
LEMMA ProgramsIsNext ==
  ASSUME ProgramTypes, [ProgramsNext]_allVars
  PROVE  [Next]_vars
<1>1. ASSUME NEW r \in Readers, Program(r) PROVE [Next]_vars
  BY <1>1, ProgramCalls, Zenon DEF Next, Reader
<1>2. ASSUME NEW r \in Readers, signal(r) \/ Library(r) PROVE [Next]_vars
  BY <1>2, Zenon DEF signal, Library, Next, Reader
<1>3. ASSUME NEW p \in Procs, motor_writer(p) PROVE Next
  <2>1. ASSUME NEW g \in versions, writer_open(p, g, TRUE) PROVE Writer(p)
    BY <2>1, Zenon DEF Writer, ProgramTypes
  <2>2. QED
    BY <1>3, <2>1, Zenon DEF motor_writer, Writer, WriterStep, Next
<1>4. ASSUME UNCHANGED allVars PROVE UNCHANGED vars
  BY <1>4, Zenon DEF allVars
<1>5. QED
  BY <1>1, <1>2, <1>3, <1>4, Zenon DEF ProgramsNext

\* The only step of a writer that changes values is a publish, and the only
\* one that changes a geometry fills in a new file.
LEMMA WriterWrites ==
  ASSUME NEW p \in Procs, Writer(p)
  PROVE  /\ \/ UNCHANGED <<latest, gen, npub, used>>
            \/ \E g : /\ latest' = [latest EXCEPT ![hdr[p]] = npub + 1] /\ npub' = npub + 1
                      /\ gen' = [gen EXCEPT ![hdr[p]] = g] /\ used' = used \cup {g}
         /\ \/ UNCHANGED geom
            \/ wpc[p] = "fill" /\ geom' = [geom EXCEPT ![hdr[p]] = req[p]]
<1>1. ASSUME \/ (\E g \in Geoms, re \in BOOLEAN : writer_open(p, g, re)) \/ unlink(p) \/ locking(p)
             \/ finish(p) \/ open_refused(p) \/ crash(p) \/ open_reuse(p) \/ open_create(p)
      PROVE  UNCHANGED <<latest, gen, npub, used, geom>>
  BY <1>1, Zenon
  DEF writer_open, unlink, locking, finish, open_refused, crash, open_reuse, open_create,
      fileVars, stateVars
<1>2. ASSUME \/ sys_error(p) \/ remove_stale_tmp(p) \/ create_tmp(p) \/ create_rename(p)
             \/ retire_set(p) \/ retire_notify(p) \/ retire_wake(p) \/ publish_notify(p)
             \/ publish_wake(p) \/ unlink_open(p) \/ unlink_data(p) \/ unlink_lockfile(p)
      PROVE  UNCHANGED <<latest, gen, npub, used, geom>>
  BY <1>2, Zenon
  DEF sys_error, remove_stale_tmp, create_tmp, create_rename, retire_set, retire_notify,
      retire_wake, publish_notify, publish_wake, unlink_open, unlink_data, unlink_lockfile,
      fileVars, stateVars
<1>3. ASSUME create_fill(p)
      PROVE  /\ UNCHANGED <<latest, gen, npub, used>>
             /\ wpc[p] = "fill" /\ geom' = [geom EXCEPT ![hdr[p]] = req[p]]
  BY <1>3, Zenon DEF create_fill, Step, stateVars
<1>4. ASSUME publish(p)
      PROVE  /\ \E g : /\ latest' = [latest EXCEPT ![hdr[p]] = npub + 1] /\ npub' = npub + 1
                       /\ gen' = [gen EXCEPT ![hdr[p]] = g] /\ used' = used \cup {g}
             /\ UNCHANGED geom
  BY <1>4, Zenon DEF publish, fileVars
<1>5. QED
  BY <1>1, <1>2, <1>3, <1>4, Zenon DEF Writer

\* What a step of the channel does to the files: a value is replaced by a new
\* one, with a new generation, and a geometry does not change once the file has
\* been at the path.
LEMMA FilesGrow ==
  ASSUME ChannelInv, HandleTypes, [Next]_vars
  PROVE  /\ npub \in Nat /\ npub' \in Nat /\ npub <= npub' /\ used \subseteq used'
         /\ geom' \in [Files -> Geoms \cup {None}]
         /\ \A f \in Files : \/ latest'[f] = latest[f] /\ gen'[f] = gen[f]
                             \/ latest'[f] = npub + 1 /\ npub' = npub + 1 /\ gen'[f] \in used'
         /\ \A f \in Files : Known(f) => geom'[f] = geom[f]
<1>1. /\ FilesInv /\ FilesTypes /\ GenInv /\ npub \in Nat
      /\ geom \in [Files -> Geoms \cup {None}] /\ gen \in [Files -> Nat \X Nat]
      /\ latest \in [Files -> Nat]
  BY Zenon DEF ChannelInv, FilesInv, FilesTypes, GenInv, HandleTypes
<1>2. npub <= npub /\ npub <= npub + 1 /\ npub + 1 \in Nat
  BY <1>1
<1>3. ASSUME UNCHANGED <<latest, gen, npub, used>>
      PROVE  /\ npub' \in Nat /\ npub <= npub' /\ used \subseteq used'
             /\ \A f \in Files : latest'[f] = latest[f] /\ gen'[f] = gen[f]
  BY <1>1, <1>2, <1>3, Zenon
<1>4. ASSUME UNCHANGED geom
      PROVE  /\ geom' \in [Files -> Geoms \cup {None}]
             /\ \A f \in Files : geom'[f] = geom[f]
  BY <1>1, <1>4, Zenon
<1>5. CASE \E p \in Procs : WriterStep(p)
  <2>1. PICK p \in Procs : Writer(p)
    BY <1>5, Zenon DEF WriterStep
  <2>2. /\ wpc[p] = "fill" => hdr[p] \in tmps
        /\ req[p] \in Geoms \cup {None}
    BY <1>1, Zenon DEF FilesInv, FilesAtWork, FilesTypes
  <2>3. ASSUME NEW g, latest' = [latest EXCEPT ![hdr[p]] = npub + 1], npub' = npub + 1,
               gen' = [gen EXCEPT ![hdr[p]] = g], used' = used \cup {g}
        PROVE  /\ npub' \in Nat /\ npub <= npub' /\ used \subseteq used'
               /\ \A f \in Files : \/ latest'[f] = latest[f] /\ gen'[f] = gen[f]
                                   \/ latest'[f] = npub + 1 /\ gen'[f] \in used'
    <3>1. /\ g \in used' /\ used \subseteq used' /\ npub' \in Nat /\ npub <= npub'
      BY <1>2, <2>3, Zenon
    <3>2. ASSUME NEW f \in Files, f = hdr[p] PROVE latest'[f] = npub + 1 /\ gen'[f] = g
      BY <1>1, <2>3, <3>2, Zenon
    <3>3. ASSUME NEW f \in Files, f # hdr[p] PROVE latest'[f] = latest[f] /\ gen'[f] = gen[f]
      BY <1>1, <2>3, <3>3, Zenon
    <3>4. QED
      BY <3>1, <3>2, <3>3, Zenon
  <2>4. ASSUME wpc[p] = "fill", geom' = [geom EXCEPT ![hdr[p]] = req[p]]
        PROVE  /\ geom' \in [Files -> Geoms \cup {None}]
               /\ \A f \in Files : Known(f) => geom'[f] = geom[f]
    <3>1. geom' \in [Files -> Geoms \cup {None}]
      BY <1>1, <2>2, <2>4, Zenon
    <3>2. ASSUME NEW f \in Files, Known(f) PROVE geom'[f] = geom[f]
      BY <1>1, <2>2, <2>4, <3>2, Zenon DEF Known
    <3>3. QED
      BY <3>1, <3>2, Zenon
  <2>5. QED
    BY <1>1, <1>3, <1>4, <2>1, <2>3, <2>4, WriterWrites, Zenon
<1>6. CASE ~\E p \in Procs : WriterStep(p)
  <2>1. UNCHANGED <<latest, gen, npub, used, geom>>
    <3>1. ASSUME NEW r \in Readers, Reader(r) PROVE UNCHANGED <<latest, gen, npub, used, geom>>
      BY <3>1, ReaderKeepsFiles, Zenon DEF fileVars
    <3>2. ASSUME rm_data \/ UNCHANGED vars PROVE UNCHANGED <<latest, gen, npub, used, geom>>
      BY <3>2, Zenon DEF rm_data, stateVars, vars, filesVars, fileVars
    <3>3. QED
      BY <1>6, <3>1, <3>2, Zenon DEF Next
  <2>2. QED
    BY <1>1, <1>3, <1>4, <2>1, Zenon
<1>7. QED
  BY <1>5, <1>6, Zenon

\* A handle has the geometry of its file, and the generations it hands out are
\* published ones.
LEMMA HandleTypesNext ==
  ASSUME ChannelInv, HandleTypes, [Next]_vars
  PROVE  HandleTypes'
<1>1. /\ ReadInv /\ ReadTypes /\ FilesTypes /\ Generations \subseteq Generations'
      /\ \A f \in Files : gen'[f] \in Generations'
      /\ geom' \in [Files -> Geoms \cup {None}]
  BY FilesGrow, Zenon DEF ChannelInv, ReadInv, FilesInv, Generations, HandleTypes
<1>2. /\ rgeom \in [Readers -> Geoms \cup {None}] /\ wlast \in [Readers -> Generations']
      /\ geom \in [Files -> Geoms \cup {None}] /\ Random \in Generations'
  BY <1>1, Zenon DEF HandleTypes, Generations
<1>3. \A f \in 0 .. MaxFiles : f # 0 => f \in Files
  BY DEF Files
<1>4. ASSUME UNCHANGED <<rgeom, wlast, got>> PROVE HandleTypes'
  BY <1>1, <1>2, <1>4, Zenon DEF HandleTypes
<1>5. ASSUME NEW r \in Readers, Reader(r) PROVE HandleTypes'
  <2>1. \A s \in Readers : got'[s].generation \in Generations'
    <3>1. ASSUME NEW s \in Readers, Reader(s) PROVE got'[s].generation \in Generations'
      <4>1. /\ got'[s].generation = gen[rhdr[s]] /\ rhdr[s] \in Files
            \/ got'[s] = got[s] \/ got'[s] = NoResult
        BY <1>1, <3>1, HandsOut, Zenon
      <4>2. NoResult.generation = Random
        BY DEF NoResult
      <4>3. QED
        BY <1>1, <1>2, <4>1, <4>2, Zenon DEF HandleTypes
    <3>2. ASSUME NEW s \in Readers, ~Reader(s) PROVE got'[s].generation \in Generations'
      BY <1>1, <3>2, OthersKeep, Zenon DEF HandleTypes
    <3>3. QED
      BY <3>1, <3>2, Zenon
  <2>2. ASSUME NEW f \in 0 .. MaxFiles, Map(r, f) PROVE rgeom' \in [Readers -> Geoms \cup {None}]
    <3>1. (IF f = NoFile THEN None ELSE geom[f]) \in Geoms \cup {None}
      BY <1>2, <1>3, Zenon DEF NoFile
    <3>2. QED
      BY <1>2, <2>2, <3>1, Zenon DEF Map
  <2>3. ASSUME NEW c, Return(r, c) PROVE wlast' \in [Readers -> Generations']
    BY <1>2, <2>3, Zenon DEF Return
  <2>4. path \in 0 .. MaxFiles /\ rhdr[r] \in 0 .. MaxFiles /\ NoFile \in 0 .. MaxFiles
    BY <1>1, FilesAssumption DEF FilesTypes, ReadTypes, NoFile
  <2>5. ASSUME NEW last \in used \cup {Random}, NEW t \in Timed, state_wait(r, last, t)
        PROVE  rgeom' \in [Readers -> Geoms \cup {None}] /\ wlast' \in [Readers -> Generations']
    BY <1>1, <1>2, <2>5, Zenon DEF state_wait, handleVars, Generations
  <2>6. ASSUME \/ reader_close(r) \/ reader_sync(r) \/ attach(r) \/ attach_check(r)
               \/ identity_check(r)
        PROVE  rgeom' \in [Readers -> Geoms \cup {None}] /\ UNCHANGED wlast
    <3>1. /\ \E f \in 0 .. MaxFiles : Map(r, f)
          /\ UNCHANGED wlast
      BY <2>4, <2>6, Zenon
      DEF reader_close, reader_sync, attach, attach_check, identity_check, waitVars
    <3>2. QED
      BY <2>2, <3>1, Zenon
  <2>7. ASSUME \/ (\E o \in Calls : call(r, o)) \/ writer_alive(r) \/ attach_error(r)
               \/ read_start(r) \/ wait_poll(r) \/ wait_load(r) \/ wait_retired(r)
               \/ futex_wait(r) \/ wait_woken(r) \/ wait_slice(r)
        PROVE  UNCHANGED <<rgeom, wlast>>
    BY <2>7, Zenon
    DEF call, writer_alive, attach_error, read_start, wait_poll, wait_load, wait_retired,
        futex_wait, wait_woken, wait_slice, handleVars, waitVars
  <2>8. ASSUME \/ read_busy(r) \/ state_read(r) \/ state_describe(r) \/ writer_alive_open(r)
               \/ writer_alive_getlk(r) \/ call_error(r) \/ wait_refuse(r) \/ wait_timeout(r)
               \/ wait_interrupted(r) \/ wait_peek(r)
        PROVE  UNCHANGED rgeom /\ wlast' \in [Readers -> Generations']
    <3>1. UNCHANGED rgeom /\ ((\E c : Return(r, c)) \/ UNCHANGED wlast)
      BY <2>8, Zenon
      DEF read_busy, state_read, state_describe, writer_alive_open, writer_alive_getlk,
          call_error, wait_refuse, wait_timeout, wait_interrupted, wait_peek, handleVars, waitVars
    <3>2. QED
      BY <1>2, <2>3, <3>1, Zenon
  <2>9. rgeom' \in [Readers -> Geoms \cup {None}] /\ wlast' \in [Readers -> Generations']
    BY <1>2, <1>5, <2>5, <2>6, <2>7, <2>8, Zenon DEF Reader, Begin, Run
  <2>10. QED
    BY <1>1, <2>1, <2>9, Zenon DEF HandleTypes
<1>6. ASSUME UNCHANGED readerVars \/ UNCHANGED vars PROVE HandleTypes'
  BY <1>4, <1>6, Zenon DEF vars, readerVars, handleVars, waitVars
<1>7. QED
  BY <1>5, <1>6, Zenon DEF Next, WriterStep

\* The programs start with no value seen.
LEMMA ProgramsInitTypes == ProgramsInit => HandleTypes /\ ProgramTypes
<1> SUFFICES ASSUME ProgramsInit PROVE HandleTypes /\ ProgramTypes
  BY Zenon
<1>1. /\ Init /\ Random \in Generations
      /\ pp = [r \in Readers |-> IF program = "motor" THEN "loop" ELSE "key"]
      /\ shown = [r \in Readers |-> 0] /\ seen = [r \in Readers |-> Random]
      /\ key = [r \in Readers |-> NoKey] /\ next = [r \in Readers |-> NoKey]
  BY Zenon DEF ProgramsInit, Generations
<1>2. program \in {"motor", "watch"} /\ versions \subseteq Geoms
  <2>1. PICK s \in Setups : program = s.program /\ versions = s.versions
    BY Zenon DEF ProgramsInit
  <2>2. s \in [program : {"motor", "watch"}, versions : SUBSET Geoms, left : SUBSET Geoms]
    BY ProgramsAssumption, Zenon
  <2>3. QED
    BY <2>1, <2>2
<1>3. pp \in [Readers -> IF program = "motor" THEN MotorPlaces ELSE WatchPlaces]
  <2>1. "loop" \in MotorPlaces /\ "key" \in WatchPlaces
    BY Zenon DEF MotorPlaces, WatchPlaces
  <2>2. CASE program = "motor"
    BY <1>1, <2>1, <2>2, Zenon
  <2>3. CASE program # "motor"
    BY <1>1, <2>1, <2>3, Zenon
  <2>4. QED
    BY <2>2, <2>3, Zenon
<1>4. NoKey \in Keys
  BY <1>1, FilesAssumption DEF NoKey, Keys, NoFile, Files
<1>5. ProgramTypes
  <2>1. shown \in [Readers -> Nat]
    BY <1>1
  <2>2. QED
    BY <1>1, <1>2, <1>3, <1>4, <2>1, Zenon DEF ProgramTypes
<1>6. /\ rgeom = [r \in Readers |-> None] /\ wlast = [r \in Readers |-> Random]
      /\ got = [r \in Readers |-> NoResult]
      /\ used = {gen[f] : f \in Files} \ {Random}
      /\ \E g \in Geoms, b \in {TRUE, FALSE} :
           geom = [f \in Files |-> IF f = path /\ b THEN g ELSE None]
  BY <1>1, Zenon DEF Init, FilesInit
<1>7. geom \in [Files -> Geoms \cup {None}]
  <2>1. PICK g \in Geoms, b \in {TRUE, FALSE} :
          geom = [f \in Files |-> IF f = path /\ b THEN g ELSE None]
    BY <1>6, Zenon
  <2>2. \A f \in Files : (IF f = path /\ b THEN g ELSE None) \in Geoms \cup {None}
    BY Zenon
  <2>3. QED
    BY <2>1, <2>2, Zenon
<1>8. \A f \in Files : gen[f] \in Generations
  BY <1>6, Zenon DEF Generations
<1>9. NoResult.generation = Random
  BY DEF NoResult
<1>10. QED
  BY <1>1, <1>5, <1>6, <1>7, <1>8, <1>9, Zenon DEF HandleTypes

\* The variables of the programs keep their types.
LEMMA ProgramTypesNext ==
  ASSUME ChannelInv, HandleTypes, HandleTypes', ProgramTypes, [ProgramsNext]_allVars
  PROVE  ProgramTypes'
<1>1. /\ ReadTypes /\ FilesTypes /\ LockTypeOK /\ Generations \subseteq Generations'
  BY ProgramsIsNext, FilesGrow, Zenon DEF ChannelInv, ReadInv, FilesInv, LockInv, Generations
<1>2. Keys \subseteq Keys' /\ Random \in Generations'
  BY <1>1 DEF Keys, Generations
<1>3. /\ program \in {"motor", "watch"} /\ versions \subseteq Geoms
      /\ pp \in [Readers -> IF program = "motor" THEN MotorPlaces ELSE WatchPlaces]
      /\ shown \in [Readers -> Nat] /\ seen \in [Readers -> Generations']
      /\ key \in [Readers -> Keys'] /\ next \in [Readers -> Keys']
  BY <1>1, <1>2, Zenon DEF ProgramTypes
<1>4. ASSUME UNCHANGED <<program, versions, pp, shown, seen, key, next>> PROVE ProgramTypes'
  BY <1>3, <1>4, Zenon DEF ProgramTypes
<1>5. ASSUME UNCHANGED allVars PROVE ProgramTypes'
  BY <1>4, <1>5, Zenon DEF allVars, programVars
<1>6. ASSUME NEW p \in Procs, motor_writer(p) PROVE ProgramTypes'
  BY <1>4, <1>6, Zenon DEF motor_writer, programVars
<1>7. ASSUME NEW r \in Readers, signal(r) \/ Library(r) PROVE ProgramTypes'
  BY <1>4, <1>7, Zenon DEF signal, Library, programVars
<1>8. ASSUME NEW r \in Readers, Motor(r) PROVE ProgramTypes'
  <2>1. program = "motor"
    <3>1. pp[r] \in IF program = "motor" THEN MotorPlaces ELSE WatchPlaces
      BY <1>3, Zenon
    <3>2. \/ program = "motor"
          \/ pp[r] \in {"loop", "peeked", "peek_described", "asked", "read", "read_described"}
      BY <1>8, Zenon
      DEF Motor, motor_loop, motor_waited, motor_peeked, motor_timeout, motor_asked, motor_read,
          motor_print, Returned
    <3>3. QED
      BY <3>1, <3>2 DEF WatchPlaces
  <2>2. UNCHANGED <<program, versions, key, next>>
    BY <1>8, Zenon
    DEF Motor, motor_loop, motor_waited, motor_peeked, motor_timeout, motor_asked, motor_read,
        motor_print
  <2>3. pp \in [Readers -> MotorPlaces]
    BY <1>3, <2>1, Zenon
  <2>4. \E to \in MotorPlaces : Goto(r, to)
    <3>1. \E to \in {"loop", "waited", "peeked", "peek_described", "asked", "read",
                     "read_described", "exit"} : Goto(r, to)
      BY <1>8, Zenon
      DEF Motor, motor_loop, motor_waited, motor_peeked, motor_timeout, motor_asked, motor_read,
          motor_print, payload_describe, Exit
    <3>2. QED
      BY <3>1, Zenon DEF MotorPlaces
  <2>5. pp' \in [Readers -> MotorPlaces]
    BY <2>3, <2>4, Zenon DEF Goto
  <2>6. /\ shown' = shown \/ shown' = [shown EXCEPT ![r] = got[r].value]
        /\ seen' = seen \/ seen' = [seen EXCEPT ![r] = got[r].generation]
    BY <1>8, Zenon
    DEF Motor, motor_loop, motor_waited, motor_peeked, motor_timeout, motor_asked, motor_read,
        motor_print
  <2>7. got[r].value \in Nat
    BY <1>1 DEF ReadTypes
  <2>8. got[r].generation \in Generations'
    BY <1>1, Zenon DEF HandleTypes
  <2>9. shown' \in [Readers -> Nat] /\ seen' \in [Readers -> Generations']
    BY <1>3, <2>6, <2>7, <2>8, Zenon
  <2>10. QED
    BY <1>3, <2>1, <2>2, <2>5, <2>9, Zenon DEF ProgramTypes
<1>9. ASSUME NEW r \in Readers, Watch(r) PROVE ProgramTypes'
  <2>1. program = "watch"
    <3>1. pp[r] \in IF program = "motor" THEN MotorPlaces ELSE WatchPlaces
      BY <1>3, Zenon
    <3>2. \/ program = "watch"
          \/ pp[r] \in {"key", "key_peeked", "key_asked", "dump", "dump_asked", "dump_peeked",
                        "wait"}
      BY <1>9, Zenon
      DEF Watch, watch_key_lstat, watch_key_peeked, watch_redraw, watch_dump, watch_liveness,
          watch_value, watch_wait, watch_waited, Returned
    <3>3. QED
      BY <1>3, <3>1, <3>2 DEF MotorPlaces
  <2>2. UNCHANGED <<program, versions, seen>>
    BY <1>9, Zenon
    DEF Watch, watch_key_lstat, watch_key_peeked, watch_redraw, watch_dump, watch_liveness,
        watch_value, watch_wait, watch_waited, peek_again
  <2>3. pp \in [Readers -> WatchPlaces]
    BY <1>3, <2>1, Zenon
  <2>4. UNCHANGED pp \/ \E to \in WatchPlaces : Goto(r, to)
    <3>1. \/ UNCHANGED pp
          \/ \E to \in {"key", "key_peeked", "key_asked", "dump", "dump_asked", "dump_peeked",
                        "wait", "waited", "exit"} : Goto(r, to)
      BY <1>9, Zenon
      DEF Watch, watch_key_lstat, watch_key_peeked, watch_redraw, watch_dump, watch_liveness,
          watch_value, watch_wait, watch_waited, peek_again, Exit
    <3>2. QED
      BY <3>1, Zenon DEF WatchPlaces
  <2>5. pp' \in [Readers -> WatchPlaces]
    BY <2>3, <2>4, Zenon DEF Goto
  <2>6. \/ UNCHANGED shown \/ shown' = [shown EXCEPT ![r] = 0]
        \/ shown' = [shown EXCEPT ![r] = got[r].value]
    BY <1>9, Zenon
    DEF Watch, watch_key_lstat, watch_key_peeked, watch_redraw, watch_dump, watch_liveness,
        watch_value, watch_wait, watch_waited, peek_again
  <2>7. got[r].value \in Nat /\ 0 \in Nat
    BY <1>1 DEF ReadTypes
  <2>8. shown' \in [Readers -> Nat]
    BY <1>3, <2>6, <2>7, Zenon
  <2>9. /\ path \in 0 .. MaxFiles /\ rc[r] \in Codes /\ alive[r] \in {"yes", "no", "SYS"}
        /\ got[r].generation \in Generations' /\ next[r] \in Keys'
    BY <1>1, <1>3, Zenon DEF ReadTypes, FilesTypes, LockTypeOK, HandleTypes
  <2>10. NoKey \in Keys'
    BY <1>2, FilesAssumption DEF NoKey, Keys, NoFile, Files
  <2>11. ASSUME watch_key_lstat(r) PROVE UNCHANGED key /\ next' \in [Readers -> Keys']
    <3>1. [NoKey EXCEPT !.ino = path] \in Keys'
      BY <2>9, <2>10 DEF Keys
    <3>2. QED
      BY <1>3, <2>11, <3>1, Zenon DEF watch_key_lstat
  <2>12. ASSUME watch_key_peeked(r) PROVE UNCHANGED key /\ next' \in [Readers -> Keys']
    <3>1. CASE UNCHANGED <<key, next>>
      BY <1>3, <3>1, Zenon
    <3>2. CASE ~UNCHANGED <<key, next>>
      <4>1. PICK g \in Generations' :
              next' = [next EXCEPT ![r].peek_rc = rc[r], ![r].generation = g]
        BY <1>2, <2>9, <2>12, <3>2, Zenon DEF watch_key_peeked, peek_again
      <4>2. UNCHANGED key
        BY <2>12, Zenon DEF watch_key_peeked, peek_again
      <4>3. QED
        BY <1>3, <2>9, <4>1, <4>2 DEF Keys
    <3>3. QED
      BY <3>1, <3>2, Zenon
  <2>13. ASSUME watch_redraw(r) PROVE key' \in [Readers -> Keys'] /\ next' \in [Readers -> Keys']
    <3>1. [next[r] EXCEPT !.alive = alive[r]] \in Keys'
      BY <2>9 DEF Keys
    <3>2. QED
      BY <1>3, <2>10, <2>13, <3>1, Zenon DEF watch_redraw
  <2>14. ASSUME \/ watch_dump(r) \/ watch_liveness(r) \/ watch_value(r) \/ watch_wait(r)
                \/ watch_waited(r)
         PROVE  UNCHANGED <<key, next>>
    BY <2>14, Zenon
    DEF watch_dump, watch_liveness, watch_value, watch_wait, watch_waited, peek_again
  <2>15. key' \in [Readers -> Keys'] /\ next' \in [Readers -> Keys']
    BY <1>3, <1>9, <2>11, <2>12, <2>13, <2>14, Zenon DEF Watch
  <2>16. program' # "motor"
    BY <2>1, <2>2
  <2>17. QED
    BY <1>3, <2>1, <2>2, <2>5, <2>8, <2>15, <2>16, Zenon DEF ProgramTypes
<1>10. QED
  BY <1>5, <1>6, <1>7, <1>8, <1>9, Zenon DEF ProgramsNext, Program

\* A step of the programs is one of the channel, and keeps what is known of both.
LEMMA ProgramsNextInv ==
  ASSUME ProgramsInv, [ProgramsNext]_allVars
  PROVE  [Next]_vars /\ ProgramsInv'
<1>1. ChannelInv /\ HandleTypes /\ ProgramTypes
  BY Zenon DEF ProgramsInv
<1>2. [Next]_vars
  BY <1>1, ProgramsIsNext, Zenon
<1>3. ChannelInv' /\ HandleTypes'
  BY <1>1, <1>2, ChannelNextInv, HandleTypesNext, Zenon
<1>4. QED
  BY <1>1, <1>2, <1>3, ProgramTypesNext, Zenon DEF ProgramsInv

\* motor_reader, psmsgr-dump --watch and motor_writer implement applications
\* of the library: they make one call at a time on a handle, and wait with
\* generations it handed out.  What is proved of a channel holds of theirs.
THEOREM ProgramsUseChannel == ProgramsSpec => Spec
<1>1. ProgramsInit => Init /\ ProgramsInv
  BY ChannelInitInv, ProgramsInitTypes, Zenon DEF ProgramsInit, ProgramsInv
<1>2. ProgramsInv /\ [ProgramsNext]_allVars => [Next]_vars /\ ProgramsInv'
  BY ProgramsNextInv, Zenon
<1>3. QED
  BY <1>1, <1>2, PTL DEF ProgramsSpec, Spec

-----------------------------------------------------------------------------
(* motor_reader. *)

\* Generation g is that of value v, wherever v is the latest one.
Tells(v, g) == \A f \in Files : latest[f] = v /\ v # 0 => gen[f] = g

\* A file that the handle of r has, or is still to come to, has a newer value
\* than the one printed.
Newer(r) ==
  \E f \in Files : Known(f) /\ latest[f] > shown[r] /\ (rhdr[r] # NoFile => f <= rhdr[r])

\* motor_reader is in the call it makes at its place.
InCall(r) ==
  /\ rop[r] = "wait" => pp[r] = "waited" /\ wlast[r] = seen[r]
  /\ rop[r] = "read" => pp[r] \in {"peeked", "read"}
  /\ rop[r] = "describe" => pp[r] \in {"peek_described", "read_described"}
  /\ rop[r] = "alive" => pp[r] = "asked"

\* motor_reader has a value that it is going to print.
ToPrint(r) ==
  pp[r] = "read_described" \/ (pp[r] = "read" /\ rop[r] = "none" /\ rc[r] = "OK")

\* What motor_reader printed, and what it is about to print.
InOrder(r) ==
  /\ shown[r] <= npub
  /\ pp[r] # "exit" => shown[r] <= got[r].value
  /\ Tells(shown[r], seen[r]) /\ Tells(got[r].value, got[r].generation)
  /\ pp[r] = "waited" /\ rop[r] = "none" /\ rc[r] = "OK" => Newer(r)
  /\ pp[r] = "read" /\ rop[r] # "none" => Newer(r)
  /\ ToPrint(r) => got[r].value > shown[r]

\* The result is of the right type, or its file was retired.
Checked(r) ==
  got[r].file # NoFile => geom[got[r].file] \in MotorGeoms \/ retired[got[r].file]

\* The result is the first one of its file, and describe is to be called, is
\* running or has returned; the handle has the file.
ToCheck(r) ==
  /\ got[r].attached /\ rhdr[r] = got[r].file
  /\ rop[r] \in {"none", "describe"}
  /\ rop[r] = "none" => rc[r] = "OK"
  /\ rop[r] = "none" => pp[r] \in {"peeked", "read", "peek_described", "read_described"}
  /\ rop[r] = "describe" => rpc[r] = "sync" \/ (rpc[r] = "synced" /\ rc[r] = "OK")

OwnType(r) ==
  /\ rhdr[r] # NoFile => rgeom[r] = geom[rhdr[r]]
  /\ Checked(r) \/ ToCheck(r)

\* No two files have the same value.
OneFileEach == \A f, g \in Files : latest[f] = latest[g] /\ latest[f] # 0 => f = g

\* The inductive invariant of motor_reader.
MotorInv ==
  /\ OneFileEach
  /\ program = "motor" => \A r \in Readers : InCall(r) /\ InOrder(r) /\ OwnType(r)

-----------------------------------------------------------------------------

\* A file that was at the path stays one, values grow and RETIRED is never
\* taken back.
LEMMA KnownStays ==
  ASSUME ChannelInv, ChannelInv', [Next]_vars
  PROVE  /\ \A f \in 0 .. MaxFiles : Known(f) => Known(f)'
         /\ \A f \in Files : latest[f] <= latest'[f] /\ (retired[f] => retired'[f])
<1>1. /\ FilesTypes /\ FilesTypes' /\ OrderInv /\ FilesInv /\ FilesInv'
  BY Zenon DEF ChannelInv, FilesInv, ReadInv
<1>2. ASSUME nfiles <= nfiles', \A f \in tmps' : f \in tmps \/ f > nfiles,
             \A f \in Files : latest[f] <= latest'[f] /\ (retired[f] => retired'[f]),
             path' = path \/ path' = NoFile \/ (path' = nfiles /\ nfiles \in tmps)
      PROVE  /\ \A f \in 0 .. MaxFiles : Known(f) => Known(f)'
             /\ \A f \in Files : latest[f] <= latest'[f] /\ (retired[f] => retired'[f])
  <2>1. ASSUME NEW f \in 0 .. MaxFiles, Known(f) PROVE Known(f)'
    BY <1>1, <1>2, <2>1 DEF Known, FilesTypes, NoFile
  <2>2. QED
    BY <1>2, <2>1, Zenon
<1>3. CASE \E p \in Procs : WriterStep(p)
  BY <1>1, <1>2, <1>3, WriterEffect, Zenon DEF WriterStep
<1>4. CASE ~\E p \in Procs : WriterStep(p)
  <2>1. UNCHANGED <<nfiles, tmps, latest, retired>> /\ (path' = path \/ path' = NoFile)
    <3>1. ASSUME NEW r \in Readers, Reader(r)
          PROVE  UNCHANGED <<nfiles, tmps, latest, retired, path>>
      BY <3>1, ReaderKeepsFiles, Zenon DEF fileVars
    <3>2. ASSUME rm_data \/ UNCHANGED vars
          PROVE  UNCHANGED <<nfiles, tmps, latest, retired>> /\ (path' = path \/ path' = NoFile)
      BY <3>2, Zenon DEF rm_data, stateVars, vars, filesVars, fileVars
    <3>3. QED
      BY <1>4, <3>1, <3>2, Zenon DEF Next
  <2>2. nfiles <= nfiles' /\ \A f \in Files : latest[f] <= latest'[f]
    BY <1>1, <2>1 DEF FilesTypes
  <2>3. QED
    BY <1>2, <2>1, <2>2, Zenon
<1>5. QED
  BY <1>3, <1>4, Zenon

\* A value is published in one file only.
LEMMA OneFileNext ==
  ASSUME ProgramsInv, OneFileEach, [Next]_vars
  PROVE  OneFileEach'
<1>1. /\ npub \in Nat
      /\ \A f \in Files : \/ latest'[f] = latest[f] /\ gen'[f] = gen[f]
                          \/ latest'[f] = npub + 1
  BY FilesGrow, Zenon DEF ProgramsInv
<1>2. \A f \in Files : latest[f] \in Nat /\ latest[f] <= npub
  BY Zenon DEF ProgramsInv, ChannelInv, FilesInv, FilesTypes, ReadInv, OrderInv
<1>3. CASE UNCHANGED latest
  BY <1>3, Zenon DEF OneFileEach
<1>4. CASE \E p \in Procs : latest' = [latest EXCEPT ![hdr[p]] = npub + 1]
  <2>1. PICK h : latest' = [latest EXCEPT ![h] = npub + 1]
    BY <1>4, Zenon
  <2>2. /\ latest \in [Files -> Nat]
    BY Zenon DEF ProgramsInv, ChannelInv, FilesInv, FilesTypes
  <2>3. \A f \in Files : latest'[f] = IF f = h THEN npub + 1 ELSE latest[f]
    BY <2>1, <2>2, Zenon
  <2>4. \A f \in Files : latest[f] # npub + 1
    BY <1>1, <1>2
  <2>5. QED
    BY <2>3, <2>4, Zenon DEF OneFileEach
<1>5. QED
  <2>1. ASSUME NEW p \in Procs, WriterStep(p) PROVE OneFileEach'
    BY <1>3, <1>4, <2>1, WriterWrites, Zenon DEF WriterStep
  <2>2. ASSUME NEW r \in Readers, Reader(r) PROVE UNCHANGED latest
    BY <2>2, ReaderKeepsFiles, Zenon
  <2>3. ASSUME rm_data \/ UNCHANGED vars PROVE UNCHANGED latest
    BY <2>3, Zenon DEF rm_data, stateVars, vars, filesVars
  <2>4. QED
    BY <1>3, <2>1, <2>2, <2>3, Zenon DEF Next

\* What is known of reader r and its result.
LEMMA HandleFacts ==
  ASSUME ProgramsInv, NEW r \in Readers
  PROVE  /\ shown[r] \in Nat /\ got[r].value \in Nat /\ got[r].attached \in BOOLEAN
         /\ rhdr[r] \in 0 .. MaxFiles /\ got[r].file \in 0 .. MaxFiles
         /\ PlaceOK(rpc[r], rop[r], rc[r], rhdr[r])
         /\ SeenOK(rpc[r], rhdr[r], announce[r], got[r])
         /\ rop[r] \in {"none", "read", "describe", "wait", "alive"}
         /\ got[r].value <= npub
         /\ (got[r].file # NoFile => got[r].file \in Files)
         /\ (rhdr[r] # NoFile => rhdr[r] \in Files)
<1>1. /\ ReadTypes /\ ReadInv /\ ProgramTypes /\ FilesTypes
  BY Zenon DEF ProgramsInv, ChannelInv, ReadInv, FilesInv
<1>2. /\ shown[r] \in Nat
      /\ PlaceOK(rpc[r], rop[r], rc[r], rhdr[r])
      /\ SeenOK(rpc[r], rhdr[r], announce[r], got[r])
      /\ rop[r] \in {"none", "read", "describe", "wait", "alive"}
      /\ rhdr[r] \in 0 .. MaxFiles
      /\ got[r] \in [value : Nat, generation : Nat \X Nat, file : 0 .. MaxFiles,
                     attached : BOOLEAN]
  BY <1>1, Zenon DEF ProgramTypes, ReadInv, ReadTypes
<1>3. got[r].value \in Nat /\ got[r].attached \in BOOLEAN /\ got[r].file \in 0 .. MaxFiles
  BY <1>2
<1>4. \A f \in 0 .. MaxFiles : f # NoFile => f \in Files
  BY DEF Files, NoFile
<1>5. got[r].value <= npub
  <2>1. CASE got[r].file = NoFile
    BY <1>1, <1>2, <2>1 DEF SeenOK, FilesTypes
  <2>2. CASE got[r].file # NoFile
    <3>1. got[r].file \in Files /\ got[r].value <= latest[got[r].file]
      BY <1>2, <1>3, <1>4, <2>2, Zenon DEF SeenOK
    <3>2. latest[got[r].file] \in Nat /\ npub \in Nat /\ latest[got[r].file] <= npub
      BY <1>1, <3>1, Zenon DEF FilesTypes, ReadInv, OrderInv
    <3>3. QED
      BY <1>3, <3>1, <3>2
  <2>3. QED
    BY <2>1, <2>2, Zenon
<1>6. QED
  BY <1>2, <1>3, <1>4, <1>5, Zenon

\* A step that is not one of reader r leaves what motor_reader knows true: what
\* it printed is still told apart by its generation, and no value, retirement
\* or geometry of a file it may come to is taken back.
LEMMA MotorStays ==
  ASSUME ProgramsInv, ChannelInv', [Next]_vars, NEW r \in Readers,
         InCall(r), InOrder(r), OwnType(r),
         UNCHANGED <<rpc[r], rop[r], rc[r], rhdr[r], rgeom[r], wlast[r], got[r]>>,
         UNCHANGED <<pp[r], shown[r], seen[r]>>
  PROVE  InCall(r)' /\ InOrder(r)' /\ OwnType(r)'
<1>1. /\ \A f \in 0 .. MaxFiles : Known(f) => Known(f)'
      /\ \A f \in Files : latest[f] <= latest'[f] /\ (retired[f] => retired'[f])
      /\ \A f \in Files : \/ latest'[f] = latest[f] /\ gen'[f] = gen[f]
                          \/ latest'[f] = npub + 1
      /\ \A f \in Files : Known(f) => geom'[f] = geom[f]
      /\ npub \in Nat /\ npub' \in Nat /\ npub <= npub'
  BY KnownStays, FilesGrow, Zenon DEF ProgramsInv
<1>2. /\ shown[r] \in Nat /\ got[r].value \in Nat /\ got[r].value <= npub /\ shown[r] <= npub
      /\ (got[r].file # NoFile => got[r].file \in Files /\ Known(got[r].file))
      /\ (rhdr[r] # NoFile => rhdr[r] \in Files /\ Known(rhdr[r]))
  BY HandleFacts, Zenon DEF SeenOK, InOrder
<1>3. \A f \in Files : latest[f] \in Nat /\ latest'[f] \in Nat /\ f \in 0 .. MaxFiles
  <2>1. \A f \in Files : latest[f] \in Nat /\ latest'[f] \in Nat
    BY Zenon DEF ProgramsInv, ChannelInv, FilesInv, FilesTypes
  <2>2. \A f \in Files : f \in 0 .. MaxFiles
    BY DEF Files
  <2>3. QED
    BY <2>1, <2>2, Zenon
<1>4. ASSUME NEW v \in Nat, v <= npub, NEW g, Tells(v, g) PROVE Tells(v, g)'
  <2>1. v # npub + 1
    BY <1>1, <1>4
  <2>2. QED
    BY <1>1, <1>4, <2>1, Zenon DEF Tells
<1>5. ASSUME Newer(r) PROVE Newer(r)'
  <2>1. PICK f \in Files : Known(f) /\ latest[f] > shown[r] /\ (rhdr[r] # NoFile => f <= rhdr[r])
    BY <1>5, Zenon DEF Newer
  <2>2. latest'[f] > shown[r]
    BY <1>1, <1>2, <1>3, <2>1
  <2>3. QED
    BY <1>1, <1>3, <2>1, <2>2, Zenon DEF Newer
<1>6. PICK n, s, v, g : n = shown[r] /\ s = seen[r] /\ v = got[r].value /\ g = got[r].generation
  BY Zenon
<1>7. Tells(n, s)' /\ Tells(v, g)'
  BY <1>2, <1>4, <1>6, Zenon DEF InOrder
<1>8. shown'[r] <= npub'
  BY <1>1, <1>2
<1>9. InOrder(r)'
  BY <1>5, <1>6, <1>7, <1>8, Zenon DEF InOrder, ToPrint, Tells
<1>10. OwnType(r)'
  <2>1. Checked(r) => Checked(r)'
    BY <1>1, <1>2, Zenon DEF Checked
  <2>2. ToCheck(r) => ToCheck(r)'
    BY Zenon DEF ToCheck
  <2>3. QED
    BY <1>1, <1>2, <2>1, <2>2, Zenon DEF OwnType
<1>11. QED
  BY <1>9, <1>10, Zenon DEF InCall

\* The state of a handle that a step of r can change, and that of the files.
SameFiles == UNCHANGED <<path, tmps, nfiles, geom, retired, latest, gen, npub>>
SameProgram(r) == UNCHANGED <<pp[r], shown[r], seen[r]>>

\* A call goes on, with the same file or after it let go of it or attached the
\* one at the path.
LEMMA CallGoesOn ==
  ASSUME ProgramsInv, NEW r \in Readers, InCall(r), InOrder(r), OwnType(r),
         SameFiles, SameProgram(r), rop[r] # "none", UNCHANGED <<rop[r], wlast[r], got[r]>>,
         rhdr'[r] = rhdr[r] \/ rhdr'[r] = NoFile \/ rhdr'[r] = path,
         rhdr'[r] # NoFile => rgeom'[r] = geom[rhdr'[r]],
         Checked(r) \/ ToCheck(r)'
  PROVE  InCall(r)' /\ InOrder(r)' /\ OwnType(r)'
<1>1. Newer(r) => Newer(r)'
  BY Zenon DEF Newer, Known, SameFiles, SameProgram
<1>2. InOrder(r)'
  BY <1>1, Zenon DEF InOrder, ToPrint, Tells, SameFiles, SameProgram
<1>3. OwnType(r)'
  BY Zenon DEF OwnType, Checked, SameFiles, SameProgram
<1>4. QED
  BY <1>2, <1>3, Zenon DEF InCall, SameProgram

\* A call returns without a result: OK is the answer of a wait only if there is
\* a newer value.
LEMMA CallReturns ==
  ASSUME ProgramsInv, NEW r \in Readers, InCall(r), InOrder(r), OwnType(r),
         SameFiles, SameProgram(r), rop[r] # "none", rop'[r] = "none",
         UNCHANGED <<rhdr[r], rgeom[r], got[r]>>,
         rop[r] = "wait" /\ rc'[r] = "OK" => Newer(r), rop[r] = "read" => rc'[r] # "OK",
         Checked(r) \/ ToCheck(r)'
  PROVE  InCall(r)' /\ InOrder(r)' /\ OwnType(r)'
<1>1. rop[r] \in {"read", "describe", "wait", "alive"}
  BY HandleFacts, Zenon
<1>2. Newer(r) => Newer(r)'
  BY Zenon DEF Newer, Known, SameFiles, SameProgram
<1>3. pp[r] = "waited" => rop[r] = "wait"
  BY <1>1 DEF InCall
<1>4. pp[r] = "read" => rop[r] = "read"
  BY <1>1 DEF InCall
<1>5. InOrder(r)'
  BY <1>2, <1>3, <1>4, Zenon DEF InOrder, ToPrint, Tells, SameFiles, SameProgram
<1>6. OwnType(r)'
  BY Zenon DEF OwnType, Checked, SameFiles, SameProgram
<1>7. InCall(r)'
  BY Zenon DEF InCall
<1>8. QED
  BY <1>5, <1>6, <1>7, Zenon

\* wait sees a generation it was not called with: the file has a newer value
\* than the one printed.
LEMMA WaitFindsNewer ==
  ASSUME ProgramsInv, NEW r \in Readers, InCall(r), InOrder(r), rpc[r] = "peek",
         ReadCode(rhdr[r]) = "OK", gen[rhdr[r]] # wlast[r], rhdr[r] # NoFile
  PROVE  Newer(r)
<1>1. /\ rop[r] = "wait" /\ pp[r] = "waited" /\ wlast[r] = seen[r]
  BY HandleFacts, Zenon DEF PlaceOK, InCall
<1>2. /\ latest[rhdr[r]] # 0 /\ rhdr[r] \in Files /\ Known(rhdr[r])
  BY HandleFacts, Zenon DEF ReadCode, SeenOK
<1>3. /\ shown[r] <= got[r].value /\ (latest[rhdr[r]] = shown[r] => gen[rhdr[r]] = seen[r])
  BY <1>1, <1>2 DEF InOrder, Tells
<1>4. latest[rhdr[r]] # shown[r]
  BY <1>1, <1>3, Zenon
<1>5. shown[r] <= latest[rhdr[r]]
  <2>1. /\ shown[r] \in Nat /\ got[r].value \in Nat
        /\ \A f \in Files : latest[f] \in Nat
        /\ \A f, g \in Files : f < g /\ latest[g] # 0 => latest[f] <= latest[g]
        /\ got[r].file # NoFile => got[r].file \in Files /\ got[r].value <= latest[got[r].file]
                                   /\ got[r].file <= rhdr[r]
        /\ got[r].file = NoFile => got[r].value = 0
    BY HandleFacts, Zenon
    DEF ProgramsInv, ChannelInv, FilesInv, FilesTypes, ReadInv, OrderInv, SeenOK
  <2>2. CASE got[r].file = NoFile
    BY <1>2, <1>3, <2>1, <2>2
  <2>3. CASE got[r].file # NoFile
    <3>1. got[r].file < rhdr[r] \/ got[r].file = rhdr[r]
      BY <1>2, <2>1, <2>3 DEF Files
    <3>2. got[r].value <= latest[rhdr[r]]
      BY <1>2, <2>1, <2>3, <3>1
    <3>3. QED
      BY <1>2, <1>3, <2>1, <3>2
  <2>4. QED
    BY <2>2, <2>3, Zenon
<1>6. latest[rhdr[r]] > shown[r] /\ rhdr[r] <= rhdr[r]
  <2>1. latest[rhdr[r]] \in Nat /\ shown[r] \in Nat /\ rhdr[r] \in Nat
    <3>1. rhdr[r] \in Nat
      BY <1>2 DEF Files
    <3>2. QED
      BY <1>2, <3>1, HandleFacts, Zenon DEF ProgramsInv, ChannelInv, FilesInv, FilesTypes
  <2>2. QED
    BY <1>4, <1>5, <2>1
<1>7. QED
  BY <1>2, <1>6, Zenon DEF Newer

\* A read returns a value: one that is not older than the one before, newer
\* than the one printed if there is one, and of the type that was checked
\* unless its file is announced.
LEMMA ReadHandsOut ==
  ASSUME ProgramsInv, OneFileEach, NEW r \in Readers, InCall(r), InOrder(r), OwnType(r),
         SameFiles, SameProgram(r), rop[r] = "read", rpc[r] = "reading", rop'[r] = "none",
         rc'[r] = "OK", UNCHANGED <<rhdr[r], rgeom[r]>>,
         rhdr[r] \in Files, latest[rhdr[r]] # 0, rhdr[r] # NoFile,
         got'[r].value = latest[rhdr[r]], got'[r].generation = gen[rhdr[r]],
         got'[r].file = rhdr[r], got'[r].attached = announce[r]
  PROVE  InCall(r)' /\ InOrder(r)' /\ OwnType(r)'
<1>1. /\ shown[r] \in Nat /\ got[r].value \in Nat /\ rhdr[r] \in Nat
      /\ \A f \in Files : latest[f] \in Nat /\ f \in Nat
      /\ \A f, g \in Files : f < g /\ latest[g] # 0 => latest[f] <= latest[g]
      /\ got[r].file # NoFile => got[r].file \in Files /\ got[r].value <= latest[got[r].file]
                                 /\ got[r].file <= rhdr[r]
      /\ got[r].file = NoFile => got[r].value = 0
  <2>1. \A f \in Files : f \in Nat
    BY DEF Files
  <2>2. QED
    BY <2>1, HandleFacts, Zenon
    DEF ProgramsInv, ChannelInv, FilesInv, FilesTypes, ReadInv, OrderInv, SeenOK
<1>2. \A f \in Files : f <= rhdr[r] => latest[f] <= latest[rhdr[r]]
  <2>1. \A f \in Files : f <= rhdr[r] => f < rhdr[r] \/ f = rhdr[r]
    BY <1>1
  <2>2. latest[rhdr[r]] <= latest[rhdr[r]]
    BY <1>1
  <2>3. QED
    BY <1>1, <2>1, <2>2, Zenon
<1>3. got[r].value <= latest[rhdr[r]]
  <2>1. CASE got[r].file = NoFile
    BY <1>1, <2>1
  <2>2. CASE got[r].file # NoFile
    BY <1>1, <1>2, <2>2
  <2>3. QED
    BY <2>1, <2>2, Zenon
<1>4. pp[r] \in {"peeked", "read"}
  BY Zenon DEF InCall
<1>5. shown[r] <= latest[rhdr[r]]
  <2>1. shown[r] <= got[r].value
    BY <1>4 DEF InOrder
  <2>2. QED
    BY <1>1, <1>3, <2>1
<1>6. ASSUME pp[r] = "read" PROVE latest[rhdr[r]] > shown[r]
  <2>1. Newer(r)
    BY <1>6, Zenon DEF InOrder
  <2>2. PICK f \in Files : latest[f] > shown[r] /\ f <= rhdr[r]
    BY <2>1, Zenon DEF Newer
  <2>3. QED
    BY <1>1, <1>2, <2>2
<1>7. Tells(got[r].value, got[r].generation)'
  BY Zenon DEF Tells, OneFileEach, SameFiles
<1>8. InOrder(r)'
  <2>1. pp'[r] # "waited" /\ pp'[r] # "read_described"
    BY <1>4 DEF SameProgram
  <2>2. Tells(shown[r], seen[r])'
    BY Zenon DEF InOrder, Tells, SameFiles, SameProgram
  <2>3. shown'[r] <= npub' /\ shown'[r] <= got'[r].value
    BY <1>5, Zenon DEF InOrder, SameFiles, SameProgram
  <2>4. pp'[r] = "read" => got'[r].value > shown'[r]
    BY <1>6, Zenon DEF SameProgram
  <2>5. QED
    BY <1>7, <2>1, <2>2, <2>3, <2>4, Zenon DEF InOrder, ToPrint
<1>9. Checked(r)' \/ ToCheck(r)'
  <2>1. Checked(r)
    BY Zenon DEF OwnType, ToCheck
  <2>2. announce[r] \in BOOLEAN /\ (announce[r] <=> rhdr[r] # got[r].file)
    BY HandleFacts, Zenon DEF SeenOK, ProgramsInv, ChannelInv, ReadInv, ReadTypes
  <2>3. CASE announce[r]
    <3>1. pp'[r] \in {"peeked", "read", "peek_described", "read_described"}
      BY <1>4 DEF SameProgram
    <3>2. QED
      BY <2>3, <3>1, Zenon DEF ToCheck
  <2>4. CASE ~announce[r]
    BY <2>1, <2>2, <2>4, Zenon DEF Checked, SameFiles
  <2>5. QED
    BY <2>3, <2>4, Zenon
<1>10. OwnType(r)'
  BY <1>9, Zenon DEF OwnType, SameFiles
<1>11. QED
  BY <1>8, <1>10, Zenon DEF InCall

\* Every step of a library call keeps what motor_reader knows.
LEMMA LibraryKeeps ==
  ASSUME ProgramsInv, OneFileEach, NEW r \in Readers, InCall(r), InOrder(r), OwnType(r),
         SameProgram(r), Run(r) \/ wait_slice(r) \/ wait_timeout(r) \/ wait_interrupted(r)
  PROVE  InCall(r)' /\ InOrder(r)' /\ OwnType(r)'
<1> DEFINE Goal == InCall(r)' /\ InOrder(r)' /\ OwnType(r)'
<1>1. Reader(r)
  BY Zenon DEF Reader
<1>2. SameFiles
  BY <1>1, ReaderKeepsFiles, Zenon DEF SameFiles, fileVars
<1>3. /\ ReadInv /\ ReadTypes /\ wlast \in [Readers -> Generations]
      /\ rgeom \in [Readers -> Geoms \cup {None}]
      /\ PlaceOK(rpc[r], rop[r], rc[r], rhdr[r])
  BY HandleFacts, Zenon DEF ProgramsInv, ChannelInv, ReadInv, HandleTypes
<1>4. rop[r] \notin {"none", "describe"} => Checked(r)
  BY Zenon DEF OwnType, ToCheck
<1>5. rop[r] = "describe" /\ rpc[r] \notin {"sync", "synced"} => Checked(r)
  BY Zenon DEF OwnType, ToCheck
\* The call goes on with the same file.
<1>6. ASSUME rop[r] \in {"read", "wait", "alive"}, UNCHANGED <<rop, wlast, got, rhdr, rgeom>>
      PROVE  Goal
  <2>1. rop[r] # "none" /\ Checked(r) /\ (rhdr'[r] # NoFile => rgeom'[r] = geom[rhdr'[r]])
    BY <1>4, <1>6, Zenon DEF OwnType
  <2>2. QED
    BY <1>2, <1>6, <2>1, CallGoesOn, Zenon
<1>7. ASSUME \/ read_start(r) \/ wait_poll(r) \/ wait_load(r) \/ wait_retired(r)
             \/ futex_wait(r) \/ wait_woken(r) \/ wait_slice(r)
      PROVE  Goal
  <2>1. rop[r] \in {"read", "wait", "alive"} /\ UNCHANGED <<rop, wlast, got, rhdr, rgeom>>
    BY <1>3, <1>7, Zenon
    DEF read_start, wait_poll, wait_load, wait_retired, futex_wait, wait_woken, wait_slice, At,
        PlaceOK, handleVars, waitVars
  <2>2. QED
    BY <1>6, <2>1, Zenon
\* It maps another file, or none.
<1>8. ASSUME NEW f \in {NoFile, path, rhdr[r]}, Map(r, f), rop[r] # "none",
             UNCHANGED <<rop, wlast, got>>, Checked(r) \/ ToCheck(r)'
      PROVE  Goal
  <2>1. /\ rhdr'[r] = f /\ (f # NoFile => rgeom'[r] = geom[f])
    BY <1>3, <1>8, Zenon DEF Map, ReadTypes
  <2>2. /\ rhdr'[r] = rhdr[r] \/ rhdr'[r] = NoFile \/ rhdr'[r] = path
        /\ rhdr'[r] # NoFile => rgeom'[r] = geom[rhdr'[r]]
    BY <2>1, Zenon
  <2>3. QED
    BY <1>2, <1>8, <2>2, CallGoesOn, Zenon
<1>9. ASSUME attach(r) \/ attach_check(r) \/ identity_check(r) PROVE Goal
  <2>1. /\ \E f \in {NoFile, path, rhdr[r]} : Map(r, f)
        /\ rpc[r] \in {"attach", "attached", "identity"} /\ UNCHANGED <<rop, wlast, got>>
    BY <1>9, Zenon DEF attach, attach_check, identity_check, At, waitVars
  <2>2. rop[r] # "none"
    BY <1>3, <2>1 DEF PlaceOK
  <2>3. Checked(r)
    <3>1. rpc[r] \notin {"sync", "synced"}
      BY <2>1
    <3>2. QED
      BY <1>4, <1>5, <2>2, <3>1, Zenon
  <2>4. QED
    BY <1>8, <2>1, <2>2, <2>3, Zenon
<1>10. ASSUME reader_sync(r) PROVE Goal
  <2>1. /\ rpc[r] = "sync" /\ rc'[r] = "OK" /\ UNCHANGED <<rop, wlast, got>>
        /\ \/ rpc'[r] = "synced" /\ Map(r, rhdr[r])
           \/ Map(r, NoFile) /\ (rhdr[r] = NoFile \/ retired[rhdr[r]])
    BY <1>3, <1>10, Zenon DEF reader_sync, At, waitVars, ReadTypes
  <2>2. rop[r] # "none"
    BY <1>3, <2>1 DEF PlaceOK
  <2>3. CASE rpc'[r] = "synced" /\ Map(r, rhdr[r])
    <3>1. rhdr'[r] = rhdr[r]
      BY <1>3, <2>3, Zenon DEF Map, ReadTypes
    <3>2. ToCheck(r) => ToCheck(r)'
      BY <2>1, <2>2, <2>3, <3>1, Zenon DEF ToCheck
    <3>3. QED
      BY <1>8, <2>1, <2>2, <2>3, <3>2, Zenon DEF OwnType
  <2>4. CASE Map(r, NoFile) /\ (rhdr[r] = NoFile \/ retired[rhdr[r]])
    <3>1. Checked(r)
      BY <2>4, Zenon DEF OwnType, ToCheck, Checked
    <3>2. QED
      BY <1>8, <2>1, <2>2, <2>4, <3>1, Zenon
  <2>5. QED
    BY <2>1, <2>3, <2>4, Zenon
\* It returns.
<1>11. ASSUME NEW c, Return(r, c) PROVE rop'[r] = "none" /\ rc'[r] = c
  BY <1>3, <1>11, Zenon DEF Return, ReadTypes
<1>12. ASSUME NEW c, Return(r, c), UNCHANGED handleVars, rop[r] \in {"read", "wait", "alive"},
              rop[r] = "wait" /\ c = "OK" => Newer(r), rop[r] = "read" => c # "OK"
       PROVE  Goal
  <2>1. rop[r] # "none" /\ Checked(r) /\ UNCHANGED <<rhdr[r], rgeom[r], got[r]>>
    BY <1>4, <1>12, Zenon DEF handleVars
  <2>2. QED
    BY <1>2, <1>11, <1>12, <2>1, CallReturns, Zenon
<1>13. ASSUME \/ read_busy(r) \/ wait_refuse(r) \/ wait_timeout(r) \/ wait_interrupted(r)
       PROVE  Goal
  <2>1. PICK c : /\ Return(r, c) /\ UNCHANGED handleVars /\ rop[r] \in {"read", "wait", "alive"}
                 /\ c # "OK"
    BY <1>3, <1>13, Zenon
    DEF read_busy, wait_refuse, wait_timeout, wait_interrupted, PlaceOK
  <2>2. QED
    BY <1>12, <2>1, Zenon
<1>14. ASSUME writer_alive_open(r) \/ writer_alive_getlk(r) PROVE Goal
  <2>1. /\ rop[r] = "alive" /\ UNCHANGED handleVars
        /\ Return(r, "OK") \/ UNCHANGED <<rop, waitVars>>
    BY <1>3, <1>14, Zenon DEF writer_alive_open, writer_alive_getlk, PlaceOK
  <2>2. QED
    BY <1>6, <1>12, <2>1, Zenon DEF handleVars, waitVars
<1>15. ASSUME wait_peek(r) PROVE Goal
  <2>1. /\ rop[r] = "wait" /\ rpc[r] = "peek" /\ rhdr[r] # NoFile /\ UNCHANGED handleVars
        /\ \/ Return(r, "OK") /\ ReadCode(rhdr[r]) = "OK" /\ gen[rhdr[r]] # wlast[r]
           \/ Return(r, "FORMAT") \/ UNCHANGED <<rop, waitVars>>
    BY <1>3, <1>15, Zenon DEF wait_peek, PlaceOK
  <2>2. CASE Return(r, "OK") /\ ReadCode(rhdr[r]) = "OK" /\ gen[rhdr[r]] # wlast[r]
    <3>1. Newer(r)
      BY <2>1, <2>2, WaitFindsNewer, Zenon
    <3>2. QED
      BY <1>12, <2>1, <2>2, <3>1, Zenon
  <2>3. CASE Return(r, "FORMAT") \/ UNCHANGED <<rop, waitVars>>
    BY <1>6, <1>12, <2>1, <2>3, Zenon DEF handleVars, waitVars
  <2>4. QED
    BY <2>1, <2>2, <2>3, Zenon
<1>16. ASSUME state_describe(r) PROVE Goal
  <2>1. /\ rop[r] = "describe" /\ rpc[r] = "synced" /\ rop'[r] = "none" /\ rc'[r] = rc[r]
        /\ UNCHANGED <<rhdr[r], rgeom[r], got[r]>>
    BY <1>11, <1>16, Zenon DEF state_describe, handleVars
  <2>2. pp'[r] \in {"peek_described", "read_described"}
    BY <2>1, Zenon DEF InCall, SameProgram
  <2>3. ToCheck(r) => ToCheck(r)'
    BY <2>1, <2>2, Zenon DEF ToCheck
  <2>4. rop[r] # "none" /\ rop[r] # "wait" /\ rop[r] # "read" /\ (Checked(r) \/ ToCheck(r)')
    BY <2>1, <2>3, Zenon DEF OwnType
  <2>5. QED
    BY <1>2, <2>1, <2>4, CallReturns, Zenon
<1>17. ASSUME state_read(r) PROVE Goal
  <2>1. rop[r] = "read" /\ rop'[r] = "none" /\ UNCHANGED <<rhdr, rgeom>>
    BY <1>11, <1>17, Zenon DEF state_read
  <2>2. CASE rc'[r] = "OK"
    <3>1. /\ got'[r].value = latest[rhdr[r]] /\ got'[r].generation = gen[rhdr[r]]
          /\ got'[r].file = rhdr[r] /\ got'[r].attached = announce[r]
          /\ rpc[r] = "reading" /\ rhdr[r] \in Files /\ latest[rhdr[r]] # 0
      BY <1>1, <1>3, <2>1, <2>2, HandsOut, Zenon
    <3>2. rhdr[r] # NoFile
      BY <1>3, <3>1, Zenon DEF PlaceOK
    <3>3. QED
      BY <1>2, <2>1, <2>2, <3>1, <3>2, ReadHandsOut, Zenon
  <2>3. CASE rc'[r] # "OK"
    <3>1. PICK c : Return(r, c) /\ c # "OK" /\ UNCHANGED <<got, announce>>
      BY <1>11, <1>17, <2>3, Zenon DEF state_read
    <3>2. QED
      BY <1>12, <2>1, <3>1, Zenon DEF handleVars
  <2>4. QED
    BY <2>2, <2>3, Zenon
<1>18. QED
  BY <1>7, <1>9, <1>10, <1>13, <1>14, <1>15, <1>16, <1>17, Zenon DEF Run

\* motor_reader exits: its handle is closed.
LEMMA MotorExits ==
  ASSUME ProgramsInv, NEW r \in Readers, InCall(r), InOrder(r), OwnType(r), Exit(r),
         UNCHANGED <<shown, seen>>
  PROVE  InCall(r)' /\ InOrder(r)' /\ OwnType(r)'
<1>1. /\ ReadTypes /\ pp \in [Readers -> IF program = "motor" THEN MotorPlaces ELSE WatchPlaces]
  BY Zenon DEF ProgramsInv, ProgramTypes, ChannelInv, ReadInv
<1>2. /\ pp'[r] = "exit" /\ rop'[r] = "none" /\ rhdr'[r] = NoFile /\ got'[r] = NoResult
      /\ UNCHANGED <<latest, gen, npub>>
  BY <1>1, Zenon DEF Exit, Goto, reader_close, Map, ReadTypes, filesVars, stateVars
<1>3. NoResult.value = 0 /\ NoResult.file = NoFile
  BY DEF NoResult
<1>4. Tells(got[r].value, got[r].generation)'
  BY <1>2, <1>3, Zenon DEF Tells
<1>5. InOrder(r)'
  <2>1. pp'[r] \notin {"waited", "read", "read_described"}
    BY <1>2
  <2>2. QED
    BY <1>2, <1>4, <2>1, Zenon DEF InOrder, ToPrint, Tells
<1>6. InCall(r)' /\ OwnType(r)'
  BY <1>2, <1>3, Zenon DEF InCall, OwnType, Checked
<1>7. QED
  BY <1>5, <1>6, Zenon

\* motor_reader goes on without a call, or with the next call: the head of the
\* loop, a wait, a read, a describe or writer_alive.
LEMMA MotorGoesOn ==
  ASSUME ProgramsInv, NEW r \in Readers, InCall(r), InOrder(r), OwnType(r), SameFiles,
         UNCHANGED <<rc[r], rhdr[r], rgeom[r], got[r], shown[r], seen[r]>>,
         pp[r] # "exit", InCall(r)',
         pp'[r] = "waited" /\ rop'[r] = "none" /\ rc[r] = "OK" => Newer(r),
         pp'[r] = "read" => Newer(r) /\ rop'[r] # "none",
         pp'[r] = "read_described" => got[r].value > shown[r],
         Checked(r) \/ ToCheck(r)'
  PROVE  InOrder(r)' /\ OwnType(r)'
<1>1. Newer(r) => Newer(r)'
  BY Zenon DEF Newer, Known, SameFiles
<1>2. InOrder(r)'
  BY <1>1, Zenon DEF InOrder, ToPrint, Tells, SameFiles
<1>3. OwnType(r)'
  BY Zenon DEF OwnType, Checked, SameFiles
<1>4. QED
  BY <1>2, <1>3, Zenon

\* payload_ok accepts a result only after the check of its type.
LEMMA PayloadChecked ==
  ASSUME ProgramsInv, NEW r \in Readers, OwnType(r), rop[r] = "none",
         pp[r] \in {"peek_described", "read_described"}, payload_ok(r)
  PROVE  Checked(r)
<1>1. CASE ToCheck(r)
  <2>1. got[r].attached /\ rc[r] = "OK" /\ rhdr[r] = got[r].file
    BY <1>1, Zenon DEF ToCheck
  <2>2. rgeom[r] \in MotorGeoms
    BY <2>1, Zenon DEF payload_ok
  <2>3. QED
    BY <2>1, <2>2, Zenon DEF OwnType, Checked
<1>2. QED
  BY <1>1, Zenon DEF OwnType

\* Every step of motor_reader keeps what it knows.
LEMMA MotorKeeps ==
  ASSUME ProgramsInv, NEW r \in Readers, InCall(r), InOrder(r), OwnType(r), Motor(r),
         program = "motor"
  PROVE  InCall(r)' /\ InOrder(r)' /\ OwnType(r)'
<1> DEFINE Goal == InCall(r)' /\ InOrder(r)' /\ OwnType(r)'
<1>1. /\ ReadTypes /\ pp \in [Readers -> IF program = "motor" THEN MotorPlaces ELSE WatchPlaces]
      /\ wlast \in [Readers -> Generations] /\ shown \in [Readers -> Nat]
      /\ seen \in [Readers -> Generations]
  BY Zenon DEF ProgramsInv, ProgramTypes, ChannelInv, ReadInv, HandleTypes
<1>2. rop[r] = "none" /\ pp[r] # "exit"
  BY Zenon
  DEF Motor, motor_loop, motor_waited, motor_peeked, motor_timeout, motor_asked, motor_read,
      motor_print, Returned
<1>3. SameFiles
  <2>1. Begin(r) \/ UNCHANGED vars
    BY ProgramCalls, Zenon DEF Program, ProgramsInv
  <2>2. Begin(r) => SameFiles
    BY ReaderKeepsFiles, Zenon DEF Reader, SameFiles, fileVars
  <2>3. UNCHANGED vars => SameFiles
    BY Zenon DEF SameFiles, vars, filesVars, fileVars, stateVars
  <2>4. QED
    BY <2>1, <2>2, <2>3, Zenon
<1>4. ASSUME NEW to, Goto(r, to) PROVE pp'[r] = to
  BY <1>1, <1>4, Zenon DEF Goto
<1>5. ASSUME Exit(r), UNCHANGED <<shown, seen>> PROVE Goal
  BY <1>5, MotorExits, Zenon
\* It makes no call.
<1>6. ASSUME NoCall
      PROVE  UNCHANGED <<rop[r], rpc[r], rc[r], rhdr[r], rgeom[r], got[r], wlast[r]>>
  BY <1>6, Zenon DEF NoCall, vars, readerVars, handleVars, waitVars
<1>7. ASSUME NoCall, Goto(r, "loop"), UNCHANGED <<shown, seen>>, Checked(r) PROVE Goal
  <2>1. pp'[r] = "loop" /\ rop'[r] = "none" /\ UNCHANGED <<shown[r], seen[r]>>
    BY <1>2, <1>4, <1>6, <1>7, Zenon
  <2>2. InCall(r)'
    BY <2>1, Zenon DEF InCall
  <2>3. QED
    BY <1>2, <1>3, <1>6, <1>7, <2>1, <2>2, MotorGoesOn, Zenon
\* It calls read, describe or writer_alive.
<1>8. ASSUME NEW o \in {"read", "describe"}, call(r, o)
      PROVE  /\ rop'[r] = o /\ rpc'[r] = "sync"
             /\ UNCHANGED <<rc[r], rhdr[r], rgeom[r], got[r]>>
  BY <1>1, <1>8, Zenon DEF call, handleVars, ReadTypes
<1>9. ASSUME writer_alive(r)
      PROVE  rop'[r] = "alive" /\ UNCHANGED <<rc[r], rhdr[r], rgeom[r], got[r]>>
  BY <1>1, <1>9, Zenon DEF writer_alive, handleVars, ReadTypes
<1>10. ASSUME NEW to \in {"peeked", "read"}, call(r, "read"), Goto(r, to),
              UNCHANGED <<shown, seen>>, Checked(r), to = "read" => Newer(r)
       PROVE  Goal
  <2>1. /\ pp'[r] = to /\ rop'[r] = "read" /\ UNCHANGED <<shown[r], seen[r]>>
        /\ UNCHANGED <<rc[r], rhdr[r], rgeom[r], got[r]>>
    BY <1>4, <1>8, <1>10, Zenon
  <2>2. InCall(r)'
    BY <2>1, <1>10, Zenon DEF InCall
  <2>3. to # "waited" /\ to # "read_described"
    BY <1>10
  <2>4. QED
    BY <1>2, <1>3, <1>10, <2>1, <2>2, <2>3, MotorGoesOn, Zenon
<1>11. ASSUME NEW to \in {"peek_described", "read_described"}, payload_describe(r, to),
              UNCHANGED <<shown, seen>>, rc[r] = "OK",
              to = "read_described" => got[r].value > shown[r]
       PROVE  Goal
  <2>1. /\ pp'[r] = to /\ UNCHANGED <<shown[r], seen[r]>>
        /\ UNCHANGED <<rc[r], rhdr[r], rgeom[r], got[r]>>
        /\ \/ rop'[r] = "describe" /\ rpc'[r] = "sync" /\ got[r].attached
           \/ rop'[r] = "none" /\ ~got[r].attached
    BY <1>2, <1>4, <1>6, <1>8, <1>11, Zenon DEF payload_describe
  <2>2. InCall(r)'
    BY <2>1, Zenon DEF InCall
  <2>3. Checked(r) \/ ToCheck(r)'
    BY <2>1, Zenon DEF OwnType, ToCheck
  <2>4. to # "waited" /\ to # "read"
    BY <1>11
  <2>5. QED
    BY <1>2, <1>3, <1>11, <2>1, <2>2, <2>3, <2>4, MotorGoesOn, Zenon
\* The actions.
<1>12. pp[r] \in {"loop", "waited", "asked"} => Checked(r)
  BY <1>2 DEF OwnType, ToCheck
<1>13. rc[r] # "OK" => Checked(r)
  BY <1>2, Zenon DEF OwnType, ToCheck
<1>14. CASE motor_loop(r)
  <2>1. pp[r] = "loop" /\ UNCHANGED <<shown, seen>>
    BY <1>14, Zenon DEF motor_loop, Returned
  <2>2. CASE Exit(r)
    BY <1>5, <2>1, <2>2, Zenon
  <2>3. CASE Goto(r, "waited") /\ state_wait(r, seen[r], TRUE)
    <3>1. /\ pp'[r] = "waited" /\ rop'[r] = "wait" /\ wlast'[r] = seen[r]
          /\ UNCHANGED <<rc[r], rhdr[r], rgeom[r], got[r], shown[r], seen[r]>>
      BY <1>1, <1>4, <2>1, <2>3, Zenon DEF state_wait, handleVars, ReadTypes
    <3>2. InCall(r)'
      BY <3>1, Zenon DEF InCall
    <3>3. Checked(r)
      BY <1>12, <2>1
    <3>4. QED
      BY <1>2, <1>3, <3>1, <3>2, <3>3, MotorGoesOn, Zenon
  <2>4. QED
    BY <1>14, <2>2, <2>3, Zenon DEF motor_loop
<1>15. CASE motor_waited(r)
  <2>1. pp[r] = "waited" /\ UNCHANGED <<shown, seen>>
    BY <1>15, Zenon DEF motor_waited, Returned
  <2>2. Checked(r)
    BY <1>12, <2>1
  <2>3. rc[r] = "OK" => Newer(r)
    BY <1>2, <2>1, Zenon DEF InOrder
  <2>4. \/ Goto(r, "peeked") /\ call(r, "read")
        \/ Goto(r, "loop") /\ NoCall
        \/ rc[r] = "OK" /\ Goto(r, "read") /\ call(r, "read")
        \/ Exit(r)
    BY <1>15, Zenon DEF motor_waited
  <2>5. QED
    BY <1>5, <1>7, <1>10, <2>1, <2>2, <2>3, <2>4, Zenon
<1>16. CASE motor_peeked(r)
  <2>1. UNCHANGED <<shown, seen>>
    BY <1>16, Zenon DEF motor_peeked
  <2>2. \/ rc[r] = "OK" /\ payload_describe(r, "peek_described")
        \/ rc[r] # "OK" /\ Goto(r, "loop") /\ NoCall
    BY <1>16, Zenon DEF motor_peeked
  <2>3. QED
    BY <1>7, <1>11, <1>13, <2>1, <2>2, Zenon
<1>17. CASE motor_timeout(r)
  <2>1. pp[r] = "peek_described" /\ UNCHANGED <<shown, seen>>
    BY <1>17, Zenon DEF motor_timeout, Returned
  <2>2. CASE Exit(r)
    BY <1>5, <2>1, <2>2, Zenon
  <2>3. CASE payload_ok(r) /\ Goto(r, "asked") /\ writer_alive(r)
    <3>1. /\ pp'[r] = "asked" /\ rop'[r] = "alive" /\ UNCHANGED <<shown[r], seen[r]>>
          /\ UNCHANGED <<rc[r], rhdr[r], rgeom[r], got[r]>>
      BY <1>4, <1>9, <2>1, <2>3, Zenon
    <3>2. InCall(r)'
      BY <3>1, Zenon DEF InCall
    <3>3. Checked(r)
      BY <1>2, <2>1, <2>3, PayloadChecked, Zenon
    <3>4. QED
      BY <1>2, <1>3, <3>1, <3>2, <3>3, MotorGoesOn, Zenon
  <2>4. QED
    BY <1>17, <2>2, <2>3, Zenon DEF motor_timeout
<1>18. CASE motor_asked(r)
  <2>1. pp[r] = "asked" /\ Goto(r, "loop") /\ NoCall /\ UNCHANGED <<shown, seen>>
    BY <1>18, Zenon DEF motor_asked, Returned
  <2>2. Checked(r)
    BY <1>12, <2>1
  <2>3. QED
    BY <1>7, <2>1, <2>2, Zenon
<1>19. CASE motor_read(r)
  <2>1. pp[r] = "read" /\ UNCHANGED <<shown, seen>>
    BY <1>19, Zenon DEF motor_read, Returned
  <2>2. rc[r] = "OK" => got[r].value > shown[r]
    BY <1>2, <2>1, Zenon DEF InOrder, ToPrint
  <2>3. \/ rc[r] # "OK" /\ Goto(r, "loop") /\ NoCall
        \/ rc[r] = "OK" /\ payload_describe(r, "read_described")
        \/ Exit(r)
    <3>1. rc[r] \in {"NODATA", "BUSY"} => rc[r] # "OK"
      OBVIOUS
    <3>2. QED
      BY <1>19, <3>1, Zenon DEF motor_read
  <2>4. QED
    BY <1>5, <1>7, <1>11, <1>13, <2>1, <2>2, <2>3, Zenon
<1>20. CASE motor_print(r)
  <2>1. pp[r] = "read_described"
    BY <1>20, Zenon DEF motor_print, Returned
  <2>2. CASE Exit(r) /\ UNCHANGED <<shown, seen>>
    BY <1>5, <2>2, Zenon
  <2>3. CASE /\ payload_ok(r) /\ Goto(r, "loop") /\ NoCall
             /\ shown' = [shown EXCEPT ![r] = got[r].value]
             /\ seen' = [seen EXCEPT ![r] = got[r].generation]
    <3>1. /\ pp'[r] = "loop" /\ rop'[r] = "none" /\ shown'[r] = got[r].value
          /\ seen'[r] = got[r].generation
          /\ UNCHANGED <<rop[r], rpc[r], rc[r], rhdr[r], rgeom[r], got[r], wlast[r]>>
      BY <1>1, <1>2, <1>4, <1>6, <2>3, Zenon
    <3>2. Checked(r)
      BY <1>2, <2>1, <2>3, PayloadChecked, Zenon
    <3>3. got[r].value <= npub /\ got[r].value <= got[r].value
      <4>1. got[r].value \in Nat /\ got[r].value <= npub
        BY HandleFacts, Zenon
      <4>2. QED
        BY <4>1
    <3>4. InOrder(r)'
      BY <1>3, <3>1, <3>3, Zenon DEF InOrder, ToPrint, Tells, SameFiles
    <3>5. InCall(r)' /\ OwnType(r)'
      BY <1>3, <3>1, <3>2, Zenon DEF InCall, OwnType, Checked, SameFiles
    <3>6. QED
      BY <3>4, <3>5, Zenon
  <2>4. QED
    BY <1>20, <2>2, <2>3, Zenon DEF motor_print
<1>21. QED
  BY <1>14, <1>15, <1>16, <1>17, <1>18, <1>19, <1>20, Zenon DEF Motor

\* A step of another reader leaves the handle of r alone.
LEMMA OthersAlone ==
  ASSUME ProgramsInv, NEW r \in Readers, NEW s \in Readers, s # r, Reader(s)
  PROVE  UNCHANGED <<rpc[r], rop[r], rc[r], rhdr[r], rgeom[r], wlast[r], got[r]>>
<1>1. /\ ReadTypes /\ wlast \in [Readers -> Generations]
      /\ rgeom \in [Readers -> Geoms \cup {None}]
  BY Zenon DEF ProgramsInv, ChannelInv, ReadInv, HandleTypes
<1>2. ASSUME NEW c, Return(s, c) PROVE UNCHANGED <<rpc[r], rop[r], rc[r], wlast[r]>>
  BY <1>1, <1>2, Zenon DEF Return, ReadTypes
<1>3. ASSUME NEW f, Map(s, f) PROVE UNCHANGED <<rhdr[r], rgeom[r]>>
  BY <1>1, <1>3, Zenon DEF Map, ReadTypes
<1>4. ASSUME Begin(s)
      PROVE  UNCHANGED <<rpc[r], rop[r], rc[r], rhdr[r], rgeom[r], wlast[r], got[r]>>
  BY <1>1, <1>3, <1>4, Zenon
  DEF Begin, reader_close, call, writer_alive, state_wait, handleVars, waitVars, ReadTypes
<1>5. ASSUME reader_sync(s) \/ attach(s) \/ attach_check(s) \/ identity_check(s)
      PROVE  UNCHANGED <<rpc[r], rop[r], rc[r], rhdr[r], rgeom[r], wlast[r], got[r]>>
  BY <1>1, <1>3, <1>5, Zenon
  DEF reader_sync, attach, attach_check, identity_check, At, waitVars, ReadTypes
<1>6. ASSUME \/ attach_error(s) \/ read_start(s) \/ wait_poll(s) \/ wait_load(s)
             \/ wait_retired(s) \/ futex_wait(s) \/ wait_woken(s) \/ wait_slice(s)
      PROVE  UNCHANGED <<rpc[r], rop[r], rc[r], rhdr[r], rgeom[r], wlast[r], got[r]>>
  BY <1>1, <1>6, Zenon
  DEF attach_error, read_start, wait_poll, wait_load, wait_retired, futex_wait, wait_woken,
      wait_slice, At, handleVars, waitVars, ReadTypes
<1>7. ASSUME \/ read_busy(s) \/ state_describe(s) \/ writer_alive_open(s)
             \/ writer_alive_getlk(s) \/ call_error(s) \/ wait_refuse(s) \/ wait_timeout(s)
             \/ wait_interrupted(s) \/ wait_peek(s)
      PROVE  UNCHANGED <<rpc[r], rop[r], rc[r], rhdr[r], rgeom[r], wlast[r], got[r]>>
  <2>1. /\ UNCHANGED handleVars
        /\ \/ \E c : Return(s, c)
           \/ UNCHANGED <<rop, rc, waitVars>> /\ \E to : rpc' = [rpc EXCEPT ![s] = to]
    BY <1>7, Zenon
    DEF read_busy, state_describe, writer_alive_open, writer_alive_getlk, call_error, wait_refuse,
        wait_timeout, wait_interrupted, wait_peek
  <2>2. QED
    BY <1>1, <1>2, <2>1, Zenon DEF handleVars, waitVars, ReadTypes
<1>8. ASSUME state_read(s)
      PROVE  UNCHANGED <<rpc[r], rop[r], rc[r], rhdr[r], rgeom[r], wlast[r], got[r]>>
  BY <1>1, <1>2, <1>8, Zenon DEF state_read, ReadTypes
<1>9. QED
  BY <1>4, <1>5, <1>6, <1>7, <1>8, Zenon DEF Reader, Run

\* A step of one program leaves the state of the others alone.
LEMMA ProgramsAlone ==
  ASSUME ProgramsInv, NEW r \in Readers, NEW s \in Readers, s # r, Program(s)
  PROVE  SameProgram(r)
<1>1. /\ pp \in [Readers -> IF program = "motor" THEN MotorPlaces ELSE WatchPlaces]
      /\ shown \in [Readers -> Nat] /\ seen \in [Readers -> Generations]
  BY Zenon DEF ProgramsInv, ProgramTypes
<1>2. UNCHANGED pp \/ \E to : Goto(s, to)
  BY Zenon
  DEF Program, Motor, motor_loop, motor_waited, motor_peeked, motor_timeout, motor_asked,
      motor_read, motor_print, payload_describe, Watch, watch_key_lstat, watch_key_peeked,
      watch_redraw, watch_dump, watch_liveness, watch_value, watch_wait, watch_waited, peek_again,
      Exit
<1>3. /\ UNCHANGED shown \/ \E v : shown' = [shown EXCEPT ![s] = v]
      /\ UNCHANGED seen \/ \E g : seen' = [seen EXCEPT ![s] = g]
  BY Zenon
  DEF Program, Motor, motor_loop, motor_waited, motor_peeked, motor_timeout, motor_asked,
      motor_read, motor_print, Watch, watch_key_lstat, watch_key_peeked, watch_redraw,
      watch_dump, watch_liveness, watch_value, watch_wait, watch_waited, peek_again
<1>4. UNCHANGED pp[r]
  BY <1>1, <1>2, Zenon DEF Goto
<1>5. QED
  BY <1>1, <1>3, <1>4, Zenon DEF SameProgram

\* The readers run one program, and motor_reader takes no step of the watch.
LEMMA MotorOnlyMotor ==
  ASSUME ProgramsInv, NEW r \in Readers, program = "motor", Program(r)
  PROVE  Motor(r)
<1>1. pp[r] \in MotorPlaces
  BY Zenon DEF ProgramsInv, ProgramTypes
<1>2. Watch(r) => \/ program = "watch"
                  \/ pp[r] \in {"key", "key_peeked", "key_asked", "dump", "dump_asked",
                                "dump_peeked", "wait"}
  BY Zenon
  DEF Watch, watch_key_lstat, watch_key_peeked, watch_redraw, watch_dump, watch_liveness,
      watch_value, watch_wait, watch_waited, Returned
<1>3. ~Watch(r)
  BY <1>1, <1>2 DEF MotorPlaces
<1>4. QED
  BY <1>3, Zenon DEF Program

\* Every step of the programs, of their calls and of the writers keeps the
\* invariant of motor_reader.
LEMMA MotorNextInv ==
  ASSUME ProgramsInv, MotorInv, [ProgramsNext]_allVars
  PROVE  MotorInv'
<1>1. [Next]_vars /\ ChannelInv'
  BY ProgramsNextInv, Zenon DEF ProgramsInv
<1>2. OneFileEach /\ OneFileEach'
  BY <1>1, OneFileNext, Zenon DEF MotorInv
<1>3. UNCHANGED program
  BY Zenon
  DEF ProgramsNext, allVars, programVars, motor_writer, signal, Library, Program, Motor,
      motor_loop, motor_waited, motor_peeked, motor_timeout, motor_asked, motor_read, motor_print,
      Watch, watch_key_lstat, watch_key_peeked, watch_redraw, watch_dump, watch_liveness,
      watch_value, watch_wait, watch_waited, peek_again
<1>4. ASSUME program = "motor", NEW r \in Readers PROVE InCall(r)' /\ InOrder(r)' /\ OwnType(r)'
  <2>1. InCall(r) /\ InOrder(r) /\ OwnType(r)
    BY <1>4, Zenon DEF MotorInv
  <2>2. ASSUME UNCHANGED readerVars \/ UNCHANGED vars, SameProgram(r)
        PROVE  InCall(r)' /\ InOrder(r)' /\ OwnType(r)'
    <3>1. UNCHANGED <<rpc[r], rop[r], rc[r], rhdr[r], rgeom[r], wlast[r], got[r]>>
      BY <2>2, Zenon DEF vars, readerVars, handleVars, waitVars
    <3>2. QED
      BY <1>1, <2>1, <2>2, <3>1, MotorStays, Zenon DEF SameProgram
  <2>3. ASSUME NEW s \in Readers, s # r, Reader(s), SameProgram(r)
        PROVE  InCall(r)' /\ InOrder(r)' /\ OwnType(r)'
    BY <1>1, <2>1, <2>3, OthersAlone, MotorStays, Zenon DEF SameProgram
  <2>4. CASE UNCHANGED allVars \/ \E p \in Procs : motor_writer(p)
    <3>1. (UNCHANGED readerVars \/ UNCHANGED vars) /\ SameProgram(r)
      BY <2>4, Zenon DEF allVars, programVars, motor_writer, SameProgram
    <3>2. QED
      BY <2>2, <3>1, Zenon
  <2>5. ASSUME NEW s \in Readers, signal(s) \/ Library(s)
        PROVE  InCall(r)' /\ InOrder(r)' /\ OwnType(r)'
    <3>1. /\ SameProgram(r)
          /\ \/ Run(s) \/ wait_slice(s) \/ wait_timeout(s) \/ wait_interrupted(s)
             \/ UNCHANGED vars
      BY <2>5, Zenon DEF signal, Library, programVars, SameProgram
    <3>2. CASE UNCHANGED vars
      BY <2>2, <3>1, <3>2, Zenon
    <3>3. CASE Run(s) \/ wait_slice(s) \/ wait_timeout(s) \/ wait_interrupted(s)
      <4>1. CASE s = r
        BY <1>2, <2>1, <3>1, <3>3, <4>1, LibraryKeeps, Zenon
      <4>2. CASE s # r
        BY <2>3, <3>1, <3>3, <4>2, Zenon DEF Reader
      <4>3. QED
        BY <4>1, <4>2, Zenon
    <3>4. QED
      BY <3>1, <3>2, <3>3, Zenon
  <2>6. ASSUME NEW s \in Readers, Program(s) PROVE InCall(r)' /\ InOrder(r)' /\ OwnType(r)'
    <3>1. CASE s = r
      BY <1>4, <2>1, <2>6, <3>1, MotorOnlyMotor, MotorKeeps, Zenon
    <3>2. CASE s # r
      <4>1. SameProgram(r) /\ (Begin(s) \/ UNCHANGED vars)
        BY <2>6, <3>2, ProgramsAlone, ProgramCalls, Zenon DEF ProgramsInv
      <4>2. QED
        BY <2>2, <2>3, <3>2, <4>1, Zenon DEF Reader
    <3>3. QED
      BY <3>1, <3>2, Zenon
  <2>7. QED
    BY <2>4, <2>5, <2>6, Zenon DEF ProgramsNext
<1>5. QED
  BY <1>2, <1>3, <1>4, Zenon DEF MotorInv

\* motor_reader starts with nothing printed.
LEMMA MotorInitInv == ProgramsInit => MotorInv
<1> SUFFICES ASSUME ProgramsInit PROVE MotorInv
  BY Zenon
<1>1. /\ rop = [r \in Readers |-> "none"] /\ rhdr = [r \in Readers |-> NoFile]
      /\ got = [r \in Readers |-> NoResult] /\ shown = [r \in Readers |-> 0]
      /\ pp = [r \in Readers |-> IF program = "motor" THEN "loop" ELSE "key"]
      /\ latest = [f \in Files |-> IF f = path THEN 1 ELSE 0]
      /\ path \in {0, 1} /\ npub = path
  BY Zenon DEF ProgramsInit, Init, FilesInit, NoFile
<1>2. NoResult.value = 0 /\ NoResult.file = NoFile
  BY DEF NoResult
<1>3. OneFileEach
  BY <1>1, Zenon DEF OneFileEach
<1>4. ASSUME program = "motor", NEW r \in Readers PROVE InCall(r) /\ InOrder(r) /\ OwnType(r)
  <2>1. /\ rop[r] = "none" /\ rhdr[r] = NoFile /\ got[r] = NoResult /\ shown[r] = 0
        /\ pp[r] = "loop" /\ got[r].value = 0 /\ got[r].file = NoFile
    BY <1>1, <1>2, <1>4, Zenon
  <2>2. 0 <= npub /\ 0 <= 0
    BY <1>1
  <2>3. InOrder(r)
    BY <2>1, <2>2, Zenon DEF InOrder, ToPrint, Tells
  <2>4. InCall(r) /\ OwnType(r)
    BY <2>1, Zenon DEF InCall, OwnType, Checked
  <2>5. QED
    BY <2>3, <2>4, Zenon
<1>5. QED
  BY <1>3, <1>4, Zenon DEF MotorInv

\* What is known of both programs and of motor_reader holds throughout.
LEMMA MotorInvariance == ProgramsSpec => [](ProgramsInv /\ MotorInv)
<1>1. ProgramsInit => ProgramsInv /\ MotorInv
  BY ChannelInitInv, ProgramsInitTypes, MotorInitInv, Zenon DEF ProgramsInit, ProgramsInv
<1>2. ProgramsInv /\ MotorInv /\ [ProgramsNext]_allVars => (ProgramsInv /\ MotorInv)'
  BY ProgramsNextInv, MotorNextInv, Zenon
<1>3. QED
  BY <1>1, <1>2, PTL DEF ProgramsSpec

\* The step that prints.
LEMMA PrintingIs ==
  ASSUME ProgramsInv, MotorInv, [ProgramsNext]_allVars, NEW r \in Readers, Printing(r)
  PROVE  /\ program = "motor" /\ motor_print(r) /\ payload_ok(r)
         /\ shown'[r] = got[r].value /\ InOrder(r) /\ OwnType(r)
<1>1. pp[r] = "read_described" /\ pp'[r] = "loop"
  BY Zenon DEF Printing
<1>2. program = "motor"
  <2>1. pp[r] \in IF program = "motor" THEN MotorPlaces ELSE WatchPlaces
    BY Zenon DEF ProgramsInv, ProgramTypes
  <2>2. QED
    BY <1>1, <2>1 DEF WatchPlaces
<1>3. ~UNCHANGED pp[r]
  BY <1>1
<1>4. ~UNCHANGED allVars /\ ~(\E p \in Procs : motor_writer(p))
  BY <1>3, Zenon DEF allVars, programVars, motor_writer
<1>5. ~(\E s \in Readers : signal(s) \/ Library(s))
  BY <1>3, Zenon DEF signal, Library, programVars
<1>6. PICK s \in Readers : Program(s)
  BY <1>4, <1>5, Zenon DEF ProgramsNext
<1>7. s = r
  BY <1>3, <1>6, ProgramsAlone, Zenon DEF SameProgram
<1>8. Motor(r)
  BY <1>2, <1>6, <1>7, MotorOnlyMotor, Zenon
<1>9. motor_print(r)
  <2>1. \/ motor_print(r)
        \/ pp[r] \in {"loop", "waited", "peeked", "peek_described", "asked", "read"}
    BY <1>8, Zenon
    DEF Motor, motor_loop, motor_waited, motor_peeked, motor_timeout, motor_asked, motor_read,
        Returned
  <2>2. QED
    BY <1>1, <2>1
<1>10. ~Exit(r)
  <2>1. pp \in [Readers -> IF program = "motor" THEN MotorPlaces ELSE WatchPlaces]
    BY Zenon DEF ProgramsInv, ProgramTypes
  <2>2. Exit(r) => pp'[r] = "exit"
    BY <2>1, Zenon DEF Exit, Goto
  <2>3. QED
    BY <1>1, <2>2
<1>11. payload_ok(r) /\ shown' = [shown EXCEPT ![r] = got[r].value]
  BY <1>9, <1>10, Zenon DEF motor_print
<1>12. shown'[r] = got[r].value
  BY <1>11, Zenon DEF ProgramsInv, ProgramTypes
<1>13. QED
  BY <1>2, <1>9, <1>11, <1>12, Zenon DEF MotorInv

\* motor_reader prints no value twice and none older than one it printed, with
\* any number of writers that replace the file, close and are restarted.
THEOREM MotorPrintsInOrder == ProgramsSpec => PrintedInOrder
<1>1. ASSUME ProgramsInv, MotorInv, [ProgramsNext]_allVars
      PROVE  [\A r \in Readers : Printing(r) => shown'[r] > shown[r]]_allVars
  <2>1. ASSUME NEW r \in Readers, Printing(r) PROVE shown'[r] > shown[r]
    <3>1. shown'[r] = got[r].value /\ InOrder(r) /\ pp[r] = "read_described"
      BY <1>1, <2>1, PrintingIs, Zenon DEF Printing
    <3>2. QED
      BY <3>1, Zenon DEF InOrder, ToPrint
  <2>2. QED
    BY <2>1, Zenon
<1>2. QED
  BY <1>1, MotorInvariance, PTL DEF ProgramsSpec, PrintedInOrder

\* motor_reader prints bytes of another payload type at most if their file was
\* retired before describe looked at it: the flag of the first result of a
\* file is acted upon, whichever of its calls consumes it.
THEOREM MotorPrintsOwnType == ProgramsSpec => PrintsOwnType
<1>1. ASSUME ProgramsInv, MotorInv, [ProgramsNext]_allVars
      PROVE  [\A r \in Readers :
                Printing(r) => geom[got[r].file] \in MotorGeoms \/ retired[got[r].file]]_allVars
  <2>1. ASSUME NEW r \in Readers, Printing(r)
        PROVE  geom[got[r].file] \in MotorGeoms \/ retired[got[r].file]
    <3>1. /\ payload_ok(r) /\ InOrder(r) /\ OwnType(r) /\ pp[r] = "read_described"
          /\ rop[r] = "none"
      BY <1>1, <2>1, PrintingIs, Zenon DEF Printing, motor_print, Returned
    <3>2. Checked(r)
      BY <1>1, <3>1, PayloadChecked, Zenon
    <3>3. got[r].value > shown[r]
      BY <3>1, Zenon DEF InOrder, ToPrint
    <3>4. got[r].file # NoFile
      <4>1. /\ got[r].value \in Nat /\ shown[r] \in Nat
            /\ got[r].file = NoFile => got[r].value = 0
        BY <1>1, HandleFacts, Zenon DEF SeenOK
      <4>2. QED
        BY <3>3, <4>1
    <3>5. QED
      BY <3>2, <3>4, Zenon DEF Checked
  <2>2. QED
    BY <2>1, Zenon
<1>2. QED
  BY <1>1, MotorInvariance, PTL DEF ProgramsSpec, PrintsOwnType

=============================================================================
