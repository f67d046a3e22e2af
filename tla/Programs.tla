------------------------------ MODULE Programs ------------------------------
(***************************************************************************)
(* Two programs on top of a channel: the example motor_reader              *)
(* (src/examples/c/motor_reader.c), which prints each value once, and      *)
(* psmsgr-dump --watch (src/tools/psmsgr-dump.c), which redraws when the   *)
(* channel changes.  A step of a program looks at what its last library    *)
(* call returned, in rc, got and alive, and makes the next one; the call   *)
(* itself runs step by step in Channel, among the steps of any writers.    *)
(*                                                                         *)
(* The system calls of a program succeed here, no process is killed and    *)
(* nobody deletes the file: Channel has those steps.                       *)
(*                                                                         *)
(* Of what is printed, the values, and for the watch the writer's          *)
(* liveness, are kept.  A payload's length is that of its geometry.        *)
(*                                                                         *)
(* A definition X_Change that comes before X is X with a plausible mistake *)
(* in it; PROJECT.json says which property notices.                        *)
(***************************************************************************)
EXTENDS Channel

CONSTANTS
  Setups,          \* a program that reads, the geometries that writers ask for,
                   \* and those a file left behind may have
  MotorGeoms,      \* geometries with payload type MOTOR_STATUS_V1
  SameLength,      \* geometries whose values are as long as a motor_status
  BUSY_RETRIES

ASSUME ProgramsAssumption ==
  /\ Setups \subseteq [program : {"motor", "watch"}, versions : SUBSET Geoms,
                         left : SUBSET Geoms]
  /\ MotorGeoms \subseteq SameLength /\ SameLength \subseteq Geoms
  /\ BUSY_RETRIES \in Nat \ {0}
  /\ Calls = {"read", "describe", "wait", "alive"} /\ TRUE \in Timed

VARIABLES
  program,         \* what the readers run
  versions,        \* what the writers ask for
  pp,              \* where it is
  stop,            \* set by its signal handler
  shown,           \* the value it printed last, 0 for none
  seen,            \* motor_reader: generation of the last value printed
  key, next,       \* watch: what the screen depends on, and its new value
  busy,            \* watch: attempts of a peek that were BUSY
  raw              \* watch: dump_raw could read the file

programVars == <<program, versions, pp, stop, shown, seen, key, next, busy, raw>>
allVars == <<vars, programVars>>

NoKey == [ino |-> NoFile, peek_rc |-> "none", generation |-> Random, alive |-> "no"]

\* The call made last has returned, and the program is at from.
Returned(r, from) == pp[r] = from /\ rop[r] = "none"

Goto(r, to) == pp' = [pp EXCEPT ![r] = to]

\* The program makes no call in this step.
NoCall == UNCHANGED vars

\* main returns: the handle is closed.
Exit(r) == Goto(r, "exit") /\ reader_close(r)

-----------------------------------------------------------------------------
(* motor_reader. *)

motor_loop_Forever(r) ==
  /\ Returned(r, "loop")
  /\ IF stop[r] THEN Exit(r) ELSE Goto(r, "waited") /\ state_wait(r, seen[r], FALSE)
  /\ UNCHANGED <<program, versions, stop, shown, seen, key, next, busy, raw>>

\* The head of the loop: --count is not used.
motor_loop(r) ==
  /\ Returned(r, "loop")
  /\ IF stop[r] THEN Exit(r) ELSE Goto(r, "waited") /\ state_wait(r, seen[r], TRUE)
  /\ UNCHANGED <<program, versions, stop, shown, seen, key, next, busy, raw>>

motor_waited(r) ==
  /\ Returned(r, "waited")
  /\ program = "motor"
  /\ \/ rc[r] = "TIMEOUT" /\ Goto(r, "peeked") /\ call(r, "read")
     \/ rc[r] = "INTR" /\ Goto(r, "loop") /\ NoCall
     \/ rc[r] = "OK" /\ Goto(r, "read") /\ call(r, "read")
     \/ rc[r] \notin {"TIMEOUT", "INTR", "OK"} /\ Exit(r)
  /\ UNCHANGED <<program, versions, stop, shown, seen, key, next, busy, raw>>

\* payload_ok in two steps: describe if the result is the first of its file,
\* and then the payload type, unless describe failed, and the length.
payload_describe(r, then) ==
  IF got[r].attached THEN Goto(r, then) /\ call(r, "describe") ELSE Goto(r, then) /\ NoCall

payload_ok(r) ==
  /\ got[r].attached /\ rc[r] = "OK" => rgeom[r] \in MotorGeoms
  /\ geom[got[r].file] \in SameLength

motor_peeked_Unchecked(r) ==
  /\ Returned(r, "peeked")
  /\ IF rc[r] = "OK" THEN Goto(r, "asked") /\ writer_alive(r) ELSE Goto(r, "loop") /\ NoCall
  /\ UNCHANGED <<program, versions, stop, shown, seen, key, next, busy, raw>>

\* After a timeout, the peek: "waiting for the writer" if it fails.
motor_peeked(r) ==
  /\ Returned(r, "peeked")
  /\ IF rc[r] = "OK" THEN payload_describe(r, "peek_described") ELSE Goto(r, "loop") /\ NoCall
  /\ UNCHANGED <<program, versions, stop, shown, seen, key, next, busy, raw>>

\* "stale" or "writer gone", or the wrong payload.
motor_timeout(r) ==
  /\ Returned(r, "peek_described")
  /\ IF payload_ok(r) THEN Goto(r, "asked") /\ writer_alive(r) ELSE Exit(r)
  /\ UNCHANGED <<program, versions, stop, shown, seen, key, next, busy, raw>>

motor_asked(r) ==
  /\ Returned(r, "asked")
  /\ Goto(r, "loop")
  /\ NoCall
  /\ UNCHANGED <<program, versions, stop, shown, seen, key, next, busy, raw>>

motor_read(r) ==
  /\ Returned(r, "read")
  /\ \/ rc[r] \in {"NODATA", "BUSY"} /\ Goto(r, "loop") /\ NoCall
     \/ rc[r] = "OK" /\ payload_describe(r, "read_described")
     \/ rc[r] \notin {"NODATA", "BUSY", "OK"} /\ Exit(r)
  /\ UNCHANGED <<program, versions, stop, shown, seen, key, next, busy, raw>>

motor_print_Forgets(r) ==
  /\ Returned(r, "read_described")
  /\ IF payload_ok(r)
     THEN /\ shown' = [shown EXCEPT ![r] = got[r].value]
          /\ seen' = seen
          /\ Goto(r, "loop")
          /\ NoCall
     ELSE Exit(r) /\ UNCHANGED <<shown, seen>>
  /\ UNCHANGED <<program, versions, stop, key, next, busy, raw>>

motor_print(r) ==
  /\ Returned(r, "read_described")
  /\ IF payload_ok(r)
     THEN /\ shown' = [shown EXCEPT ![r] = got[r].value]
          /\ seen' = [seen EXCEPT ![r] = got[r].generation]
          /\ Goto(r, "loop")
          /\ NoCall
     ELSE Exit(r) /\ UNCHANGED <<shown, seen>>
  /\ UNCHANGED <<program, versions, stop, key, next, busy, raw>>

Motor(r) ==
  \/ motor_loop(r) \/ motor_waited(r) \/ motor_peeked(r) \/ motor_timeout(r)
  \/ motor_asked(r) \/ motor_read(r) \/ motor_print(r)

-----------------------------------------------------------------------------
(* psmsgr-dump --watch. *)

\* peek: while it is BUSY, up to BUSY_RETRIES times.
Again(r) == rc[r] = "BUSY" /\ busy[r] + 1 < BUSY_RETRIES
peek_again(r) ==
  /\ Again(r)
  /\ busy' = [busy EXCEPT ![r] = @ + 1]
  /\ call(r, "read")
  /\ UNCHANGED <<program, versions, pp, stop, shown, seen, key, next, raw>>

\* watch_key_of: lstat, then the peek, ...
watch_key_lstat(r) ==
  /\ Returned(r, "key")
  /\ next' = [next EXCEPT ![r] = [NoKey EXCEPT !.ino = path]]
  /\ Goto(r, "key_peeked")
  /\ call(r, "read")
  /\ UNCHANGED <<program, versions, stop, shown, seen, key, busy, raw>>

watch_key_peeked_NoGeneration(r) ==
  /\ Returned(r, "key_peeked")
  /\ \/ peek_again(r)
     \/ /\ ~Again(r)
        /\ next' = [next EXCEPT ![r].peek_rc = rc[r]]
        /\ busy' = [busy EXCEPT ![r] = 0]
        /\ Goto(r, "key_asked")
        /\ writer_alive(r)
        /\ UNCHANGED <<program, versions, stop, shown, seen, key, raw>>

\* ... then writer_alive ...
watch_key_peeked(r) ==
  /\ Returned(r, "key_peeked")
  /\ \/ peek_again(r)
     \/ /\ ~Again(r)
        /\ next' = [next EXCEPT ![r].peek_rc = rc[r],
                                ![r].generation = IF rc[r] = "OK" THEN got[r].generation ELSE Random]
        /\ busy' = [busy EXCEPT ![r] = 0]
        /\ Goto(r, "key_asked")
        /\ writer_alive(r)
        /\ UNCHANGED <<program, versions, stop, shown, seen, key, raw>>

\* ... and watch compares: a change is drawn, and the key it is drawn for was
\* taken before.
watch_redraw(r) ==
  LET k == [next[r] EXCEPT !.alive = alive[r]] IN
  /\ Returned(r, "key_asked")
  /\ key' = [key EXCEPT ![r] = k]
  /\ next' = [next EXCEPT ![r] = NoKey]
  /\ IF stop[r] THEN Exit(r) ELSE Goto(r, IF k # key[r] THEN "dump" ELSE "wait") /\ NoCall
  /\ UNCHANGED <<program, versions, stop, shown, seen, busy, raw>>

\* dump_raw: the file at the path is valid, though perhaps not its `latest';
\* then print_liveness, and print_value if it was.
watch_dump(r) ==
  /\ Returned(r, "dump")
  /\ raw' = [raw EXCEPT ![r] = path # NoFile /\ kind[path] \in {"ok", "minor", "corrupt"}]
  /\ shown' = [shown EXCEPT ![r] = 0]
  /\ Goto(r, "dump_asked")
  /\ writer_alive(r)
  /\ UNCHANGED <<program, versions, stop, seen, key, next, busy>>

watch_liveness(r) ==
  /\ Returned(r, "dump_asked")
  /\ IF raw[r] THEN Goto(r, "dump_peeked") /\ call(r, "read") ELSE Goto(r, "wait") /\ NoCall
  /\ raw' = [raw EXCEPT ![r] = FALSE]
  /\ UNCHANGED <<program, versions, stop, shown, seen, key, next, busy>>

watch_value(r) ==
  /\ Returned(r, "dump_peeked")
  /\ \/ peek_again(r)
     \/ /\ ~Again(r)
        /\ shown' = [shown EXCEPT ![r] = IF rc[r] = "OK" THEN got[r].value ELSE 0]
        /\ busy' = [busy EXCEPT ![r] = 0]
        /\ Goto(r, "wait")
        /\ NoCall
        /\ UNCHANGED <<program, versions, stop, seen, key, next, raw>>

watch_wait(r) ==
  /\ Returned(r, "wait")
  /\ IF stop[r] THEN Exit(r) ELSE Goto(r, "waited") /\ state_wait(r, key[r].generation, TRUE)
  /\ UNCHANGED <<program, versions, stop, shown, seen, key, next, busy, raw>>

\* After NOTSUP, FORMAT and SYS it sleeps for 100 ms.
watch_waited(r) ==
  /\ Returned(r, "waited")
  /\ program = "watch"
  /\ IF stop[r] THEN Exit(r) ELSE Goto(r, "key") /\ NoCall
  /\ UNCHANGED <<program, versions, stop, shown, seen, key, next, busy, raw>>

Watch(r) ==
  \/ watch_key_lstat(r) \/ watch_key_peeked(r) \/ watch_redraw(r) \/ watch_dump(r)
  \/ watch_liveness(r) \/ watch_value(r) \/ watch_wait(r) \/ watch_waited(r)

-----------------------------------------------------------------------------

(* motor_writer (src/examples/c/motor_writer.c). *)

\* One of its versions replaces what it finds, publishes until a signal or its count stops it,
\* and closes its handle.
motor_writer(p) ==
  /\ \/ \E g \in versions : writer_open(p, g, TRUE)
     \/ locking(p) \/ sys_error(p)
     \/ remove_stale_tmp(p) \/ open_reuse(p) \/ open_create(p)
     \/ create_tmp(p) \/ create_fill(p) \/ create_rename(p)
     \/ retire_set(p) \/ retire_notify(p) \/ retire_wake(p)
     \/ publish(p) \/ publish_notify(p) \/ publish_wake(p)
     \/ finish(p)
  /\ UNCHANGED <<readerVars, programVars>>

-----------------------------------------------------------------------------

\* SIGINT or SIGTERM: the handler sets stop, and a system call that sleeps is
\* interrupted; a signal that comes before it sleeps is not noticed by it.
signal(r) ==
  /\ pp[r] # "exit"
  /\ ~stop[r]
  /\ stop' = [stop EXCEPT ![r] = TRUE]
  /\ wait_interrupted(r) \/ (asleep[r] = NoFile /\ UNCHANGED vars)
  /\ UNCHANGED <<program, versions, pp, shown, seen, key, next, busy, raw>>

Program(r) == Motor(r) \/ Watch(r)

\* The library calls go on.
Library(r) ==
  /\ Run(r) \/ wait_slice(r) \/ wait_timeout(r)
  /\ UNCHANGED programVars

ProgramsInit ==
  /\ Init
  /\ \E s \in Setups : /\ program = s.program
                       /\ versions = s.versions
                       /\ path # NoFile => geom[path] \in s.left \cup {None}
  /\ pp = [r \in Readers |-> IF program = "motor" THEN "loop" ELSE "key"]
  /\ stop = [r \in Readers |-> FALSE]
  /\ shown = [r \in Readers |-> 0]
  /\ seen = [r \in Readers |-> Random]
  /\ key = [r \in Readers |-> NoKey]
  /\ next = [r \in Readers |-> NoKey]
  /\ busy = [r \in Readers |-> 0]
  /\ raw = [r \in Readers |-> FALSE]

ProgramsNext ==
  \/ \E p \in Procs : motor_writer(p)
  \/ \E r \in Readers : signal(r) \/ Program(r) \/ Library(r)

ProgramsSpec == ProgramsInit /\ [][ProgramsNext]_allVars

\* A program runs, a sleep ends, and the deadline of a wait, which is a point
\* in time, passes.
ProgramsLive ==
  /\ ProgramsSpec
  /\ \A r \in Readers : /\ WF_allVars(Program(r))
                        /\ WF_allVars(Run(r) /\ UNCHANGED programVars)
                        /\ WF_allVars(wait_slice(r) /\ UNCHANGED programVars)
                        /\ SF_allVars(wait_timeout(r) /\ UNCHANGED programVars)

-----------------------------------------------------------------------------
(* Properties. *)

Printing(r) == pp[r] = "read_described" /\ pp'[r] = "loop"

\* motor_reader prints no value twice and none older than one it printed,
\* over all restarts, replacements and reattachments.
PrintedInOrder == [][\A r \in Readers : Printing(r) => shown'[r] > shown[r]]_allVars

\* motor_reader takes bytes of another payload type for a motor_status at
\* most when their file was retired before it could ask: a flag consumed by a
\* peek is acted upon, and no check is skipped while the file is current.
PrintsOwnType ==
  [][\A r \in Readers :
       Printing(r) => geom[got[r].file] \in MotorGeoms \/ retired[got[r].file]]_allVars

\* What the comment on payload_ok says: the bytes are only a motor_status if
\* the payload type says so.
PrintsMotorStatus ==
  [][\A r \in Readers : Printing(r) => geom[got[r].file] \in MotorGeoms]_allVars

\* A signal ends both programs, also if it arrives just before a wait goes to
\* sleep and is not noticed by it.
StopEnds == \A r \in Readers : stop[r] ~> pp[r] = "exit"

\* The watch does not keep an outdated screen: it comes to show the channel's
\* value, and shows it again after each change.
Current(r) ==
  (path # NoFile /\ kind[path] \in {"ok", "minor"} /\ latest[path] # 0) => shown[r] = latest[path]
WatchShowsValue ==
  \A r \in Readers : []<>(program = "watch" =>
                            Current(r) \/ pp[r] = "exit")
=============================================================================
