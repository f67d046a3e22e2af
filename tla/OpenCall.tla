------------------------------ MODULE OpenCall ------------------------------
(***************************************************************************)
(* One call of psmsgr_state_writer_open on a channel that has no file yet, *)
(* seen from the caller: the options structure it was compiled with, the   *)
(* directory the channel shares with others, the file it leaves, and what  *)
(* becomes of that file's acceptance when its bytes are damaged            *)
(* (src/src/state.c).  What concurrent writers do is in Channel.           *)
(*                                                                         *)
(* A name is the sequence of its words between dots: every comparison the  *)
(* code makes of file names is aligned on dots.  Chars gives the length of *)
(* a word.                                                                 *)
(***************************************************************************)
EXTENDS FileFormat


CONSTANTS
  PSMSGR_STATE_DEFAULT_SLOTS, PSMSGR_NAME_MAX,
  Chars, BadWords,          \* the length of each word; words with other characters
  Names, TmpSuffixes,       \* channel names; what mkostemp puts for XXXXXX
  OneName,                  \* the name used with every choice of options
  Sizes,                    \* sizeof psmsgr_state_options in the caller
  Capacities, SlotCounts,   \* values a caller sets, good and bad
  Edges,                    \* words found in a damaged header
  MaxDamage

ASSUME CallAssumption ==
  /\ PSMSGR_STATE_DEFAULT_SLOTS \in PSMI_MIN_SLOTS .. PSMI_MAX_SLOTS
  /\ PSMI_MAX_SLOTS \in U32
  /\ PSMI_HEADER_SIZE \in U32
  /\ Capacities \subseteq U32
  /\ SlotCounts \subseteq U32
  /\ Edges \subseteq U32
  /\ Sizes \subseteq Nat

\* mkostemp puts six characters for XXXXXX, and the words the library ends its
\* own names with have another length.
ASSUME NameAssumption ==
  /\ OneName \in Names
  /\ Names \subseteq Seq(DOMAIN Chars)
  /\ \A x \in TmpSuffixes : Chars[x] = 6
  /\ Chars["state"] # 6 /\ Chars["lock"] # 6

VARIABLES
  pc,
  name,      \* the channel to open
  size,      \* the caller's sizeof, NoOptions when it passes no options
  written,   \* how many bytes of the structure options_init wrote
  val,       \* the fields the caller assigned, and their values
  o,         \* the library's copy of the options
  files,     \* the directory
  h, bytes,  \* the header and the size of the created file
  damage     \* how often it was damaged

vars == <<pc, name, size, written, val, o, files, h, bytes, damage>>

NULL == "NULL"
NoOptions == -1

-----------------------------------------------------------------------------
(* Options. *)

Offset == [struct_size |-> 0, capacity |-> 4, slot_count |-> 8, payload_type |-> 12,
           mode |-> 16, flags |-> 20, dir |-> 24]
Width == [struct_size |-> 4, capacity |-> 4, slot_count |-> 4, payload_type |-> 4,
          mode |-> 4, flags |-> 4, dir |-> 8]
Fields == DOMAIN Offset \ {"struct_size"}
Defaults == [capacity |-> 0, slot_count |-> PSMSGR_STATE_DEFAULT_SLOTS, payload_type |-> 0,
             mode |-> "0644", flags |-> {}, dir |-> NULL]
Assignable == [capacity |-> Capacities, slot_count |-> SlotCounts, payload_type |-> {7},
            mode |-> {"0600", "beyond 07777"}, flags |-> {{"RECREATE"}, {"unknown"}},
            dir |-> {"/d", ""}]

\* A field's bytes hold what the caller assigned, else the default if
\* options_init reached them, else whatever was there.
Residue == [capacity |-> 1, slot_count |-> PSMI_MAX_SLOTS, payload_type |-> 9, mode |-> "residue",
            flags |-> {"NO_NOTIFY"}, dir |-> "/residue"]
Stored(f) == IF f \in DOMAIN val THEN val[f]
             ELSE IF Offset[f] + Width[f] <= written THEN Defaults[f] ELSE Residue[f]

\* The memory of a structure that options_init did not fill is zero.
struct_size == IF written >= Width["struct_size"] THEN size ELSE 0

OPT_HAS_Begins(f) == struct_size >= Offset[f]
OPT_HAS(f) == struct_size >= Offset[f] + Width[f]

\* The caller fills the structure it has; a newer caller's unknown fields are
\* zeroed.
options_init_sized ==
  /\ pc = "declared"
  /\ size # NoOptions
  /\ written' = IF size < Width["struct_size"] THEN 0 ELSE size
  /\ pc' = "initialized"
  /\ UNCHANGED <<name, size, val, o, files, h, bytes, damage>>

\* The caller assigns a field its header has.
assign(f, v) ==
  /\ pc = "initialized"
  /\ f \notin DOMAIN val
  /\ Offset[f] + Width[f] <= size
  /\ val' = [g \in DOMAIN val \cup {f} |-> IF g = f THEN v ELSE val[g]]
  /\ UNCHANGED <<pc, name, size, written, o, files, h, bytes, damage>>

Loaded == [f \in Fields |-> IF size # NoOptions /\ OPT_HAS(f) THEN Stored(f) ELSE Defaults[f]]

InRange(opt) ==
  /\ opt.capacity <= PSMSGR_STATE_MAX_CAPACITY
  /\ opt.slot_count \in PSMI_MIN_SLOTS .. PSMI_MAX_SLOTS
  /\ opt.mode # "beyond 07777"
  /\ opt.flags \subseteq {"RECREATE", "NO_NOTIFY"}
  /\ opt.dir # ""

load_options ==
  /\ pc \in {"declared", "initialized"}
  /\ o' = Loaded
  /\ pc' = IF (size # NoOptions /\ struct_size = 0) \/ ~InRange(Loaded) THEN "INVAL" ELSE "loaded"
  /\ UNCHANGED <<name, size, written, val, files, h, bytes, damage>>

-----------------------------------------------------------------------------
(* Names. *)

strlen(ws) == SumFunction([i \in DOMAIN ws |-> Chars[ws[i]]]) + Len(ws) - 1

name_valid(ws) ==
  /\ ws[1] # ""                    \* neither empty nor beginning with a dot
  /\ strlen(ws) <= PSMSGR_NAME_MAX
  /\ \A i \in DOMAIN ws : ws[i] \notin BadWords

ValidNames == {ws \in Names : name_valid(ws)}

data_base(ws) == <<"psmsgr">> \o ws \o <<"state">>
lock_base(ws) == <<"psmsgr">> \o ws \o <<"lock">>
tmp_base(ws, x) == data_base(ws) \o <<"tmp", x>>

OwnTmps(ws) == {tmp_base(ws, x) : x \in TmpSuffixes}
FilesOf(ws) == {data_base(ws), lock_base(ws)} \cup OwnTmps(ws)

stale_tmp_AnyDots(ws, file) ==
  LET prefix == data_base(ws) \o <<"tmp">>
      suffix == SubSeq(file, Len(prefix) + 1, Len(file))
  IN /\ Len(file) > Len(prefix)
     /\ IsPrefix(prefix, file)
     /\ strlen(suffix) = 6

\* psmsgr.<name>.state.tmp. and then six characters, none of them a dot.
stale_tmp(ws, file) ==
  LET prefix == data_base(ws) \o <<"tmp">>
      suffix == SubSeq(file, Len(prefix) + 1, Len(file))
  IN /\ Len(file) > Len(prefix)
     /\ IsPrefix(prefix, file)
     /\ Len(suffix) = 1
     /\ Chars[suffix[1]] = 6

check_name ==
  /\ pc = "loaded"
  /\ pc' = IF name_valid(name) THEN "named" ELSE "INVAL"
  /\ UNCHANGED <<name, size, written, val, o, files, h, bytes, damage>>

\* paths_init, lock_channel (which leaves the lock file) and the sweep.
remove_stale_tmp ==
  /\ pc = "named"
  /\ files' = {f \in files : ~stale_tmp(name, f)} \cup {lock_base(name)}
  /\ pc' = "swept"
  /\ UNCHANGED <<name, size, written, val, o, h, bytes, damage>>

-----------------------------------------------------------------------------
(* The file. *)

create_file ==
  /\ pc = "swept"
  /\ files' = files \cup {data_base(name)}
  /\ h' = NewHeader(o.capacity, o.slot_count)
  /\ bytes' = psmi_file_size(o.slot_count, psmi_slot_stride(o.capacity))
  /\ pc' = "created"
  /\ UNCHANGED <<name, size, written, val, o, damage>>

\* A word of the header, or the size of the file, is no longer what the writer
\* left.  The call is over: what led to it is forgotten.
damaged ==
  /\ pc \in {"created", "damaged"}
  /\ damage < MaxDamage
  /\ damage' = damage + 1
  /\ \/ \E f \in {"magic", "version_major"} : h' = [h EXCEPT ![f] = FALSE] /\ UNCHANGED bytes
     \/ \E f \in DOMAIN h \ {"magic", "version_major"}, v \in Edges :
          h' = [h EXCEPT ![f] = v] /\ UNCHANGED bytes
     \/ \E b \in Edges : bytes' = b /\ UNCHANGED h
  /\ pc' = "damaged"
  /\ o' = Defaults /\ val' = <<>> /\ size' = NoOptions /\ written' = 0 /\ files' = {}
  /\ UNCHANGED name

Init ==
  /\ pc = "declared"
  /\ \/ /\ name \in Names
        /\ size = NoOptions
        /\ files = OwnTmps(name) \cup UNION {FilesOf(ws) : ws \in ValidNames \ {name}}
     \/ name = OneName /\ size \in Sizes /\ files = OwnTmps(name)
  /\ written = 0 /\ val = <<>>
  /\ o = Defaults
  /\ h = NewHeader(0, PSMSGR_STATE_DEFAULT_SLOTS) /\ bytes = 0
  /\ damage = 0

Next ==
  \/ options_init_sized
  \/ \E f \in Fields : \E v \in Assignable[f] : assign(f, v)
  \/ load_options
  \/ check_name
  \/ remove_stale_tmp
  \/ create_file
  \/ damaged

Spec == Init /\ [][Next]_vars

-----------------------------------------------------------------------------
(* Properties. *)

\* The options a writer works with are those the caller assigned and the
\* defaults for all others, also when the caller's structure ends before, in
\* the middle of or behind a field.  INVAL means a value out of range, a bad
\* name or a structure that was never initialized.
OptionsHonoured ==
  LET wanted == [f \in Fields |-> IF f \in DOMAIN val THEN val[f] ELSE Defaults[f]]
  IN /\ pc \in {"loaded", "named", "swept", "created"} => o = wanted /\ InRange(wanted)
     /\ pc = "INVAL" => \/ ~InRange(wanted)
                        \/ ~name_valid(name)
                        \/ size # NoOptions /\ written < Width["struct_size"]

\* The sweep removes exactly the temporary files of its own channel, whatever
\* the other channels in the directory are called.
SweepSpares ==
  [][pc = "named" /\ pc' = "swept" => files \ files' = OwnTmps(name)]_vars

\* A file that a writer creates is accepted by readers and by psmsgr-dump, and
\* has the geometry that was asked for.
CreatedIsAccepted ==
  pc = "created" => /\ header_valid(h, bytes)
                    /\ h.capacity = o.capacity
                    /\ h.slot_count = o.slot_count

\* However a header is damaged: if it is accepted, all its slots are inside
\* the file and apart from each other.
SlotsInside == header_valid(h, bytes) => SlotsFit(h, bytes)

\* psmsgr-dump calls a file invalid exactly when readers refuse it, and what
\* it says of `latest' is what a read returns.
DumpAgrees ==
  /\ (header_problem(h, bytes) = 0) <=> header_valid(h, bytes)
  /\ header_valid(h, bytes) =>
       \A latest \in U32, seq \in {0, 1, 2, 3, U32_MOD - 2}, n \in {h.capacity, h.capacity + 1} :
         <<print_latest(h, latest, seq, n), ReadVerdict(h, latest, seq, n)>> \in
           {<<"none", "NODATA">>, <<"INVALID", "FORMAT">>, <<"STALE", "BUSY">>, <<"ok", "OK">>}
=============================================================================
