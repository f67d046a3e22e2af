---------------------------- MODULE FormatProofs ----------------------------
(***************************************************************************)
(* For every capacity limit, slot limit, alignment and header size: what   *)
(* the library creates it accepts, a header it accepts, however it came    *)
(* about, describes slots inside the file, and psmsgr-dump accepts the     *)
(* same headers.  For every size of the options structure: the options     *)
(* are the caller's as far as that wrote them.  For every set of names:    *)
(* the sweep removes the temporary files of its own channel and no others. *)
(***************************************************************************)
EXTENDS OpenCall, SequenceTheorems, TLAPS

\* Rounding up to the alignment makes room: the stride of a slot is at least
\* its header and its capacity.  The uint32_t sum does not wrap, because of
\* the limit on the capacity.
LEMMA StrideHolds ==
  ASSUME NEW c \in Nat, c <= PSMSGR_STATE_MAX_CAPACITY
  PROVE  /\ psmi_slot_stride(c) \in U32
         /\ PSMI_SLOT_HEADER_SIZE + c <= psmi_slot_stride(c)
<1> DEFINE sum == PSMI_SLOT_HEADER_SIZE + c + PSMI_SLOT_ALIGN - 1
           over == sum % PSMI_SLOT_ALIGN
<1>1. U32_MOD \in Nat /\ sum \in Nat /\ sum < U32_MOD
  BY FormatAssumption, LayoutAssumption DEF U32_MOD, LATEST_MOD
<1>2. sum % U32_MOD = sum
  BY <1>1
<1>3. over \in 0 .. (PSMI_SLOT_ALIGN - 1)
  BY <1>1, FormatAssumption
<1>4. psmi_slot_stride(c) = sum - over
  BY <1>2, Zenon DEF psmi_slot_stride
<1>5. PSMI_SLOT_HEADER_SIZE + c = sum - PSMI_SLOT_ALIGN + 1
  BY FormatAssumption
<1> HIDE DEF sum, over
<1>6. PSMI_SLOT_HEADER_SIZE + c <= sum - over /\ sum - over \in 0 .. (U32_MOD - 1)
  BY <1>1, <1>3, <1>5, FormatAssumption
<1> QED
  BY <1>4, <1>6, Zenon DEF U32

\* Slots laid out one after another do not overtake the end of the last.
LEMMA Monotone ==
  ASSUME NEW n \in Nat, NEW s \in Nat, NEW i \in 0 .. (n - 1)
  PROVE  /\ i * s \in Nat
         /\ (i + 1) * s = i * s + s
         /\ (i + 1) * s <= n * s
<1>1. PICK k \in Nat : n = (i + 1) + k
  <2>1. n - (i + 1) \in Nat /\ n = (i + 1) + (n - (i + 1))
    OBVIOUS
  <2> QED
    BY <2>1, Zenon
<1>2. n * s = (i + 1) * s + k * s
  BY <1>1
<1>3. k * s \in Nat /\ i * s \in Nat
  BY <1>1
<1> QED
  BY <1>2, <1>3

\* A header that header_valid accepts describes slots that fit the file.
THEOREM ValidFits ==
  ASSUME NEW hdr \in Header, NEW n \in Nat, header_valid(hdr, n)
  PROVE  SlotsFit(hdr, n)
<1> SUFFICES ASSUME NEW i \in 0 .. (hdr.slot_count - 1)
             PROVE  /\ SlotAt(hdr, i) >= PSMI_HEADER_SIZE
                    /\ SlotAt(hdr, i) + PSMI_SLOT_HEADER_SIZE + hdr.capacity <= SlotAt(hdr, i + 1)
                    /\ SlotAt(hdr, i + 1) <= n
  BY Zenon DEF SlotsFit
<1>1. /\ hdr.slot_count \in Nat /\ hdr.slot_stride \in Nat /\ hdr.capacity \in Nat
      /\ hdr.slot_stride = psmi_slot_stride(hdr.capacity)
      /\ hdr.capacity <= PSMSGR_STATE_MAX_CAPACITY
      /\ PSMI_HEADER_SIZE + hdr.slot_count * hdr.slot_stride <= n
  BY DEF Header, U32, header_valid, psmi_file_size
<1>2. PSMI_SLOT_HEADER_SIZE + hdr.capacity <= hdr.slot_stride
  BY <1>1, StrideHolds, Zenon
<1>3. /\ i * hdr.slot_stride \in Nat
      /\ (i + 1) * hdr.slot_stride = i * hdr.slot_stride + hdr.slot_stride
      /\ (i + 1) * hdr.slot_stride <= hdr.slot_count * hdr.slot_stride
  BY <1>1, Monotone, Zenon
<1> DEFINE at == i * hdr.slot_stride  next == (i + 1) * hdr.slot_stride
           all == hdr.slot_count * hdr.slot_stride
<1>4. SlotAt(hdr, i) = PSMI_HEADER_SIZE + at /\ SlotAt(hdr, i + 1) = PSMI_HEADER_SIZE + next
  BY Zenon DEF SlotAt
<1>5. at \in Nat /\ next = at + hdr.slot_stride /\ next <= all /\ PSMI_HEADER_SIZE + all <= n
      /\ all \in Nat
  BY <1>1, <1>3
<1> HIDE DEF at, next, all
<1> QED
  BY <1>1, <1>2, <1>4, <1>5, FormatAssumption

\* What the writer stores in a new file passes its own check.
LEMMA NewIsValid ==
  ASSUME NEW c \in U32, c <= PSMSGR_STATE_MAX_CAPACITY,
         NEW k \in PSMI_MIN_SLOTS .. PSMI_MAX_SLOTS
  PROVE  /\ NewHeader(c, k) \in Header
         /\ psmi_file_size(k, psmi_slot_stride(c)) \in Nat
         /\ header_valid(NewHeader(c, k), psmi_file_size(k, psmi_slot_stride(c)))
<1>1. psmi_slot_stride(c) \in U32
  BY StrideHolds DEF U32
<1>2. k \in U32 /\ PSMI_SLOT_HEADER_SIZE \in U32
  BY FormatAssumption, CallAssumption, LayoutAssumption DEF U32, U32_MOD, LATEST_MOD
<1>3. NewHeader(c, k) \in Header
  BY <1>1, <1>2, CallAssumption, Zenon DEF NewHeader, Header
<1>4. k * psmi_slot_stride(c) \in Nat
  BY <1>1, <1>2 DEF U32
<1>5. psmi_file_size(k, psmi_slot_stride(c)) \in Nat
  BY <1>4, FormatAssumption DEF psmi_file_size
<1>6. header_valid(NewHeader(c, k), psmi_file_size(k, psmi_slot_stride(c)))
  BY <1>5 DEF header_valid, NewHeader
<1> QED
  BY <1>3, <1>5, <1>6, Zenon

-----------------------------------------------------------------------------
\* The inductive invariant: a header and a size at all times, options in range
\* from load_options on, the caller's fields of their type, and a created file
\* that is the one asked for.
FormatInv ==
  /\ h \in Header
  /\ bytes \in Nat
  /\ ("capacity" \in DOMAIN val => val["capacity"] \in U32)
  /\ pc \in {"loaded", "named", "swept", "created"} => InRange(o) /\ o.capacity \in U32
  /\ pc = "created" => /\ h = NewHeader(o.capacity, o.slot_count)
                       /\ bytes = psmi_file_size(o.slot_count, psmi_slot_stride(o.capacity))

\* Before a call, the header is one that create_file writes.
LEMMA FormatInit == Init => FormatInv
<1> SUFFICES ASSUME Init PROVE FormatInv
  BY Zenon
<1>1. 0 \in U32 /\ 0 <= PSMSGR_STATE_MAX_CAPACITY
  BY FormatAssumption, LayoutAssumption DEF U32, U32_MOD, LATEST_MOD
<1>2. h \in Header
  BY <1>1, NewIsValid, CallAssumption, Zenon DEF Init
<1>3. DOMAIN val = {}
  BY DEF Init
<1> QED
  BY <1>2, <1>3, Zenon DEF Init, FormatInv

\* Every step of a call keeps the numbers of a header and of the options
\* within their widths.
LEMMA FormatStep == FormatInv /\ [Next]_vars => FormatInv'
<1> SUFFICES ASSUME FormatInv, [Next]_vars PROVE FormatInv'
  BY Zenon
<1> USE DEF FormatInv
<1>1. CASE options_init_sized
  BY <1>1, Zenon DEF options_init_sized, InRange
<1>2. ASSUME NEW f \in Fields, NEW v \in Assignable[f], assign(f, v) PROVE FormatInv'
  <2>1. f = "capacity" => v \in U32
    BY CallAssumption DEF Assignable
  <2>2. val'["capacity"] \in U32 \/ "capacity" \notin DOMAIN val'
    BY <1>2, <2>1, Zenon DEF assign
  <2> QED
    BY <1>2, <2>2, Zenon DEF assign, InRange
<1>3. CASE load_options
  <2>1. Loaded.capacity \in U32
    <3>1. 0 \in U32 /\ 1 \in U32
      BY LayoutAssumption DEF U32, U32_MOD, LATEST_MOD
    <3>2. Loaded.capacity \in {val["capacity"], 0, 1} /\ (Loaded.capacity \in {0, 1} \/ "capacity" \in DOMAIN val)
      BY Zenon DEF Loaded, Stored, Defaults, Residue, Fields, Offset
    <3> QED
      BY <3>1, <3>2, Zenon
  <2> QED
    BY <1>3, <2>1, Zenon DEF load_options, InRange
<1>4. CASE check_name
  BY <1>4, Zenon DEF check_name, InRange
<1>5. CASE remove_stale_tmp
  BY <1>5, Zenon DEF remove_stale_tmp, InRange
<1>6. CASE create_file
  <2>1. /\ NewHeader(o.capacity, o.slot_count) \in Header
        /\ psmi_file_size(o.slot_count, psmi_slot_stride(o.capacity)) \in Nat
    BY <1>6, NewIsValid, Zenon DEF create_file, InRange
  <2> QED
    BY <1>6, <2>1, Zenon DEF create_file, InRange
<1>7. CASE damaged
  <2>1. h' \in Header /\ bytes' \in Nat
    <3>1. \A v \in Edges : v \in U32 /\ v \in Nat
      BY CallAssumption DEF U32
    <3> QED
      BY <1>7, <3>1 DEF damaged, Header
  <2>2. DOMAIN val' = {} /\ pc' = "damaged"
    BY <1>7 DEF damaged
  <2> QED
    BY <2>1, <2>2
<1>8. CASE UNCHANGED vars
  BY <1>8, Zenon DEF vars, InRange
<1> QED
  BY <1>1, <1>2, <1>3, <1>4, <1>5, <1>6, <1>7, <1>8 DEF Next

\* The header invariant holds in every reachable state.
LEMMA FormatInvariant == Spec => []FormatInv
  BY FormatInit, FormatStep, PTL DEF Spec

\* Whatever happens to a header, one that header_valid accepts has all its
\* slots inside the file and apart from each other.
THEOREM SlotsInsideTheorem == Spec => []SlotsInside
<1>1. FormatInv => SlotsInside
  BY ValidFits, Zenon DEF FormatInv, SlotsInside
<1> QED
  BY <1>1, FormatInvariant, PTL

\* create_file leaves a file that attach accepts, with the geometry asked for.
THEOREM CreatedIsAcceptedTheorem == Spec => []CreatedIsAccepted
<1>1. FormatInv => CreatedIsAccepted
  <2> SUFFICES ASSUME FormatInv, pc = "created" PROVE CreatedIsAccepted
    BY Zenon DEF CreatedIsAccepted
  <2>1. o.capacity \in U32 /\ o.capacity <= PSMSGR_STATE_MAX_CAPACITY
        /\ o.slot_count \in PSMI_MIN_SLOTS .. PSMI_MAX_SLOTS
    BY Zenon DEF FormatInv, InRange
  <2>2. header_valid(h, bytes)
    BY <2>1, NewIsValid, Zenon DEF FormatInv
  <2> QED
    BY <2>2 DEF FormatInv, CreatedIsAccepted, NewHeader
<1> QED
  BY <1>1, FormatInvariant, PTL

-----------------------------------------------------------------------------
(* psmsgr-dump. *)

\* The first of up to eight problems.
LEMMA FirstProblem ==
  ASSUME NEW I \in SUBSET (1 .. 8), I # {}
  PROVE  Min(I) \in I
<1> SUFFICES ASSUME \A x \in I : \E y \in I : ~(x =< y) PROVE FALSE
  BY Zenon DEF Min
<1>1. 1 \notin I
  OBVIOUS
<1>2. 2 \notin I
  BY <1>1
<1>3. 3 \notin I
  BY <1>1, <1>2
<1>4. 4 \notin I
  BY <1>1, <1>2, <1>3
<1>5. 5 \notin I
  BY <1>1, <1>2, <1>3, <1>4
<1>6. 6 \notin I
  BY <1>1, <1>2, <1>3, <1>4, <1>5
<1>7. 7 \notin I
  BY <1>1, <1>2, <1>3, <1>4, <1>5, <1>6
<1>8. 8 \notin I
  BY <1>1, <1>2, <1>3, <1>4, <1>5, <1>6, <1>7
<1>9. PICK x \in I : x \in 1 .. 8
  BY Zenon
<1> QED
  BY <1>1, <1>2, <1>3, <1>4, <1>5, <1>6, <1>7, <1>8, <1>9

\* A header has no problem exactly when the library accepts it.
LEMMA ProblemsAreChecks ==
  ASSUME NEW hdr \in Header, NEW n \in Nat
  PROVE  (\A i \in 1 .. 8 : ~Problems(hdr, n)[i]) <=> header_valid(hdr, n)
<1> DEFINE P == Problems(hdr, n)
<1>1. /\ P[1] <=> ~hdr.magic
      /\ P[2] <=> ~hdr.version_major
      /\ P[3] <=> hdr.header_size # PSMI_HEADER_SIZE
      /\ P[4] <=> hdr.slot_header_size # PSMI_SLOT_HEADER_SIZE
  BY Zenon DEF Problems
<1>2. /\ P[5] <=> hdr.slot_count < PSMI_MIN_SLOTS \/ hdr.slot_count > PSMI_MAX_SLOTS
      /\ P[6] <=> hdr.capacity > PSMSGR_STATE_MAX_CAPACITY
      /\ P[7] <=> hdr.slot_stride # psmi_slot_stride(hdr.capacity)
      /\ P[8] <=> psmi_file_size(hdr.slot_count, hdr.slot_stride) > n
  BY Zenon DEF Problems
<1>3. (\A i \in 1 .. 8 : ~P[i]) <=> ~P[1] /\ ~P[2] /\ ~P[3] /\ ~P[4] /\ ~P[5] /\ ~P[6] /\ ~P[7] /\ ~P[8]
  OBVIOUS
<1>4. /\ hdr.slot_count \in Nat /\ hdr.slot_stride \in Nat /\ hdr.capacity \in Nat
      /\ PSMI_MIN_SLOTS \in Nat /\ PSMI_MAX_SLOTS \in Nat /\ PSMSGR_STATE_MAX_CAPACITY \in Nat
  BY FormatAssumption DEF Header, U32
<1>5. psmi_file_size(hdr.slot_count, hdr.slot_stride) \in Nat
  BY <1>4, FormatAssumption DEF psmi_file_size
<1> HIDE DEF P
<1>6. ~P[5] <=> hdr.slot_count \in PSMI_MIN_SLOTS .. PSMI_MAX_SLOTS
  BY <1>2, <1>4
<1>7. ~P[6] <=> hdr.capacity <= PSMSGR_STATE_MAX_CAPACITY
  BY <1>2, <1>4
<1>8. ~P[8] <=> psmi_file_size(hdr.slot_count, hdr.slot_stride) <= n
  BY <1>2, <1>5
<1> QED
  BY <1>1, <1>2, <1>3, <1>6, <1>7, <1>8 DEF header_valid, P

\* header_problem of psmsgr-dump and header_valid of the library make the same
\* decision on every header and every file size.
THEOREM DumpDecides ==
  ASSUME NEW hdr \in Header, NEW n \in Nat
  PROVE  (header_problem(hdr, n) = 0) <=> header_valid(hdr, n)
<1> DEFINE I == {i \in 1 .. 8 : Problems(hdr, n)[i]}
<1>1. header_problem(hdr, n) = IF I # {} THEN Min(I) ELSE 0
  <2>1. Len(Problems(hdr, n)) = 8
    BY Zenon DEF Problems
  <2> QED
    BY <2>1, Zenon DEF header_problem, SelectInSeq
<1>2. I # {} => Min(I) # 0
  BY FirstProblem
<1>3. I = {} <=> header_valid(hdr, n)
  BY ProblemsAreChecks, Zenon
<1> QED
  BY <1>1, <1>2, <1>3, Zenon

\* print_latest of psmsgr-dump says of `latest' what read_latest would return.
LEMMA DumpSays ==
  ASSUME NEW hdr, NEW latest, NEW seq, NEW n
  PROVE  <<print_latest(hdr, latest, seq, n), ReadVerdict(hdr, latest, seq, n)>> \in
           {<<"none", "NODATA">>, <<"INVALID", "FORMAT">>, <<"STALE", "BUSY">>, <<"ok", "OK">>}
BY Zenon DEF print_latest, ReadVerdict

\* psmsgr-dump and the library agree on every file, intact or damaged.
THEOREM DumpAgreesTheorem == Spec => []DumpAgrees
<1>1. FormatInv => DumpAgrees
  BY DumpDecides, DumpSays, Zenon DEF FormatInv, DumpAgrees
<1> QED
  BY <1>1, FormatInvariant, PTL

-----------------------------------------------------------------------------
(* Options. *)

\* What the caller means.
Wanted == [f \in Fields |-> IF f \in DOMAIN val THEN val[f] ELSE Defaults[f]]

\* The size a caller passes is that of its structure, which options_init has
\* filled if it has room for struct_size; only then can it assign a field, and
\* only one it has.  After load_options the library has what the caller means.
OptionsInv ==
  /\ size \in Nat \cup {NoOptions}
  /\ written = 0 \/ (size \in Nat /\ written = size /\ size >= 4)
  /\ pc = "declared" => DOMAIN val = {}
  /\ pc = "initialized" => written = size \/ size < 4
  /\ pc = "initialized" => size # NoOptions
  /\ size = NoOptions => DOMAIN val = {}
  /\ \A f \in DOMAIN val : f \in Fields /\ Offset[f] + Width[f] <= size
  /\ OptionsHonoured

\* Field by field: a structure that says how large it is loads as what the
\* caller means, wherever it ends.
LEMMA LoadedIsWanted ==
  ASSUME OptionsInv, size = NoOptions \/ struct_size # 0
  PROVE  Loaded = Wanted
<1> SUFFICES ASSUME NEW f \in Fields
             PROVE  (IF size # NoOptions /\ OPT_HAS(f) THEN Stored(f) ELSE Defaults[f])
                    = IF f \in DOMAIN val THEN val[f] ELSE Defaults[f]
  BY Zenon DEF Loaded, Wanted
<1>1. CASE size = NoOptions
  BY <1>1, Zenon DEF OptionsInv
<1>2. CASE size # NoOptions
  <2>1. written = size /\ struct_size = size
    BY <1>2 DEF struct_size, OptionsInv, Width
  <2> QED
    BY <1>2, <2>1, Zenon DEF OPT_HAS, Stored, OptionsInv
<1> QED
  BY <1>1, <1>2

\* A structure that says nothing of its size was not filled.
LEMMA NoSize ==
  ASSUME OptionsInv, size # NoOptions, struct_size = 0
  PROVE  written < Width["struct_size"]
BY DEF OptionsInv, struct_size, Width

\* Every step of a call keeps what is known of the options structure.
LEMMA OptionsStep ==
  ASSUME OptionsInv, [Next]_vars
  PROVE  OptionsInv'
<1>1. CASE options_init_sized
  BY <1>1 DEF options_init_sized, OptionsInv, OptionsHonoured, Width
<1>2. ASSUME NEW f \in Fields, NEW v \in Assignable[f], assign(f, v)
      PROVE  OptionsInv'
  <2>1. DOMAIN val' = DOMAIN val \cup {f}
    BY <1>2, Zenon DEF assign
  <2> QED
    BY <1>2, <2>1, Zenon DEF assign, OptionsInv, OptionsHonoured
<1>3. CASE load_options
  <2>1. OptionsHonoured'
    <3>1. Wanted' = Wanted /\ InRange(Wanted)' = InRange(Wanted)
      BY <1>3, Zenon DEF load_options, Wanted, InRange
    <3>2. CASE pc' = "loaded"
      <4>1. (size = NoOptions \/ struct_size # 0) /\ InRange(Loaded) /\ o' = Loaded
        BY <1>3, <3>2, Zenon DEF load_options
      <4>2. o' = Wanted /\ InRange(Wanted)
        BY <4>1, LoadedIsWanted, Zenon
      <4> QED
        BY <3>1, <3>2, <4>2, Zenon DEF OptionsHonoured, Wanted
    <3>3. CASE pc' = "INVAL"
      <4>1. CASE size # NoOptions /\ struct_size = 0
        BY <1>3, <3>3, <4>1, NoSize DEF load_options, OptionsHonoured
      <4>2. CASE ~(size # NoOptions /\ struct_size = 0)
        BY <1>3, <3>1, <3>3, <4>2, LoadedIsWanted DEF load_options, OptionsHonoured, Wanted
      <4> QED
        BY <4>1, <4>2, Zenon
    <3> QED
      BY <1>3, <3>2, <3>3, Zenon DEF load_options
  <2> QED
    BY <1>3, <2>1, Zenon DEF load_options, OptionsInv
<1>4. CASE check_name
  BY <1>4, Zenon DEF check_name, OptionsInv, OptionsHonoured, InRange
<1>5. CASE remove_stale_tmp
  BY <1>5, Zenon DEF remove_stale_tmp, OptionsInv, OptionsHonoured, InRange
<1>6. CASE create_file
  BY <1>6, Zenon DEF create_file, OptionsInv, OptionsHonoured, InRange
<1>7. CASE damaged
  BY <1>7 DEF damaged, OptionsInv, OptionsHonoured
<1>8. CASE UNCHANGED vars
  BY <1>8, Zenon DEF vars, OptionsInv, OptionsHonoured, InRange
<1> QED
  BY <1>1, <1>2, <1>3, <1>4, <1>5, <1>6, <1>7, <1>8 DEF Next

\* The options of a writer are those its caller assigned, and the defaults for
\* all others, for every size of the caller's structure, be it older, newer or
\* cut in the middle of a field.
THEOREM OptionsHonouredTheorem == Spec => []OptionsHonoured
<1>1. Init => OptionsInv
  <2> SUFFICES ASSUME Init PROVE OptionsInv
    BY Zenon
  <2>1. pc = "declared" /\ written = 0 /\ DOMAIN val = {} /\ size \in Nat \cup {NoOptions}
    <3>1. pc = "declared" /\ written = 0 /\ DOMAIN val = {}
      BY DEF Init
    <3>2. size \in Nat \cup {NoOptions}
      BY CallAssumption, Zenon DEF Init
    <3> QED
      BY <3>1, <3>2
  <2> QED
    BY <2>1, Zenon DEF OptionsInv, OptionsHonoured
<1>2. OptionsInv /\ [Next]_vars => OptionsInv'
  BY OptionsStep, Zenon
<1>3. OptionsInv => OptionsHonoured
  BY Zenon DEF OptionsInv
<1> QED
  BY <1>1, <1>2, <1>3, PTL DEF Spec

-----------------------------------------------------------------------------
(* Names. *)

\* The words that names of files are made of.
Words == DOMAIN Chars \cup TmpSuffixes \cup {"psmsgr", "state", "lock", "tmp"}

\* Sequences of one and of two words.
LEMMA OneOrTwoWords ==
  ASSUME NEW v \in Words, NEW w \in Words
  PROVE  /\ <<v>> \in Seq(Words) /\ Len(<<v>>) = 1 /\ <<v>>[1] = v
         /\ <<v, w>> \in Seq(Words) /\ Len(<<v, w>>) = 2 /\ <<v, w>>[1] = v /\ <<v, w>>[2] = w
OBVIOUS

\* The words the library adds.
LEMMA LibraryWords == "psmsgr" \in Words /\ "state" \in Words /\ "lock" \in Words /\ "tmp" \in Words
BY Zenon DEF Words

\* A channel name is a sequence of words.
LEMMA NameWords ==
  ASSUME NEW ws \in Names
  PROVE  ws \in Seq(Words)
BY NameAssumption, SeqDef DEF Words

\* The words of a file name made of a channel name between two words.
LEMMA Between ==
  ASSUME NEW ws \in Seq(Words), NEW w \in Words
  PROVE  LET b == <<"psmsgr">> \o ws \o <<w>> IN
         /\ b \in Seq(Words) /\ Len(b) = Len(ws) + 2
         /\ b[1] = "psmsgr" /\ b[Len(ws) + 2] = w
         /\ \A i \in 1 .. Len(ws) : b[i + 1] = ws[i]
<1> DEFINE a == <<"psmsgr">> \o ws  b == a \o <<w>>
<1>1. /\ <<"psmsgr">> \in Seq(Words) /\ Len(<<"psmsgr">>) = 1
      /\ <<w>> \in Seq(Words) /\ Len(<<w>>) = 1
  BY LibraryWords, OneOrTwoWords, Zenon
<1>2. /\ a \in Seq(Words) /\ Len(a) = Len(ws) + 1 /\ a[1] = "psmsgr"
      /\ \A i \in 1 .. Len(ws) : a[i + 1] = ws[i]
  BY <1>1, ConcatProperties
<1> HIDE DEF a
<1>3. /\ b \in Seq(Words) /\ Len(b) = Len(ws) + 2 /\ b[Len(ws) + 2] = w
      /\ \A i \in 1 .. Len(ws) + 1 : b[i] = a[i]
  BY <1>1, <1>2, ConcatProperties
<1> QED
  BY <1>2, <1>3 DEF a

\* The part of a temporary file's name before what mkostemp puts.
TmpPrefix(ws) == data_base(ws) \o <<"tmp">>

\* The words of a temporary file's prefix, place by place.
LEMMA PrefixIs ==
  ASSUME NEW ws \in Seq(Words)
  PROVE  /\ TmpPrefix(ws) \in Seq(Words) /\ Len(TmpPrefix(ws)) = Len(ws) + 3
         /\ TmpPrefix(ws)[1] = "psmsgr" /\ TmpPrefix(ws)[Len(ws) + 2] = "state" /\ TmpPrefix(ws)[Len(ws) + 3] = "tmp"
         /\ \A i \in 1 .. Len(ws) : TmpPrefix(ws)[i + 1] = ws[i]
<1> DEFINE b == data_base(ws)
<1>1. /\ b \in Seq(Words) /\ Len(b) = Len(ws) + 2 /\ b[1] = "psmsgr" /\ b[Len(ws) + 2] = "state"
      /\ \A i \in 1 .. Len(ws) : b[i + 1] = ws[i]
  BY Between, LibraryWords DEF data_base
<1>2. <<"tmp">> \in Seq(Words) /\ Len(<<"tmp">>) = 1
  BY LibraryWords, OneOrTwoWords, Zenon
<1> HIDE DEF b
<1>3. /\ b \o <<"tmp">> \in Seq(Words) /\ Len(b \o <<"tmp">>) = Len(ws) + 3
      /\ (b \o <<"tmp">>)[Len(ws) + 3] = "tmp"
      /\ \A i \in 1 .. Len(ws) + 2 : (b \o <<"tmp">>)[i] = b[i]
  BY <1>1, <1>2, ConcatProperties
<1> QED
  BY <1>1, <1>3 DEF b, TmpPrefix

\* The name of a temporary file.
LEMMA TmpIs ==
  ASSUME NEW ws \in Seq(Words), NEW x \in Words
  PROVE  /\ tmp_base(ws, x) \in Seq(Words) /\ Len(tmp_base(ws, x)) = Len(ws) + 4
         /\ tmp_base(ws, x)[Len(ws) + 4] = x
         /\ \A i \in 1 .. Len(ws) + 3 : tmp_base(ws, x)[i] = TmpPrefix(ws)[i]
<1> DEFINE b == data_base(ws)
<1>1. b \in Seq(Words) /\ Len(b) = Len(ws) + 2
  BY Between, LibraryWords, Zenon DEF data_base
<1>2. /\ <<"tmp">> \in Seq(Words) /\ Len(<<"tmp">>) = 1
      /\ <<"tmp", x>> \in Seq(Words) /\ Len(<<"tmp", x>>) = 2
  BY LibraryWords, OneOrTwoWords, Zenon
<1> HIDE DEF b
<1>3. /\ b \o <<"tmp", x>> \in Seq(Words) /\ Len(b \o <<"tmp", x>>) = Len(ws) + 4
      /\ (b \o <<"tmp", x>>)[Len(ws) + 3] = "tmp" /\ (b \o <<"tmp", x>>)[Len(ws) + 4] = x
      /\ \A i \in 1 .. Len(ws) + 2 : (b \o <<"tmp", x>>)[i] = b[i]
  BY <1>1, <1>2, ConcatProperties
<1>4. /\ (b \o <<"tmp">>)[Len(ws) + 3] = "tmp"
      /\ \A i \in 1 .. Len(ws) + 2 : (b \o <<"tmp">>)[i] = b[i]
  BY <1>1, <1>2, ConcatProperties
<1> QED
  BY <1>3, <1>4 DEF b, TmpPrefix, tmp_base

\* remove_stale_tmp's test, word by word.
LEMMA StaleIs ==
  ASSUME NEW ws \in Seq(Words), NEW file \in Seq(Words)
  PROVE  stale_tmp(ws, file) <=> /\ Len(file) = Len(ws) + 4
                                 /\ \A i \in 1 .. Len(ws) + 3 : file[i] = TmpPrefix(ws)[i]
                                 /\ Chars[file[Len(ws) + 4]] = 6
<1> DEFINE p == TmpPrefix(ws)  n == Len(ws) + 3  s == SubSeq(file, n + 1, Len(file))
<1>1. p \in Seq(Words) /\ Len(p) = n /\ n \in Nat /\ Len(file) \in Nat
  BY PrefixIs
<1>2. stale_tmp(ws, file) <=> /\ Len(file) > n /\ IsPrefix(p, file) /\ Len(s) = 1 /\ Chars[s[1]] = 6
  BY <1>1, Zenon DEF stale_tmp, TmpPrefix
<1> SUFFICES ASSUME Len(file) > n
             PROVE  /\ IsPrefix(p, file) <=> \A i \in 1 .. n : file[i] = p[i]
                    /\ Len(s) = 1 <=> Len(file) = n + 1
                    /\ s[1] = file[n + 1]
  <2>1. n + 1 = Len(ws) + 4 /\ (Len(file) = n + 1 => Len(file) > n)
    BY <1>1
  <2> HIDE DEF p, s, n
  <2> QED
    BY <1>2, <2>1, Zenon DEF n, p
<1>3. \A i \in 1 .. Len(file) : file[i] \in Words
  BY LenProperties, Zenon
<1>4. \A i \in 1 .. n : p[i] \in Words
  BY <1>1, LenProperties, Zenon
<1>5. Len(s) = Len(file) - n /\ s[1] = file[n + 1]
  BY <1>1, <1>3, SubSeqProperties
<1>6. IsPrefix(p, file) <=> \A i \in 1 .. n : file[i] = p[i]
  <2> DEFINE a == SubSeq(p, 1, n)  b == SubSeq(file, 1, n)
  <2>1. a \in Seq(Words) /\ Len(a) = n /\ \A i \in 1 .. n : a[i] = p[i]
    BY <1>1, <1>4, SubSeqProperties
  <2>2. b \in Seq(Words) /\ Len(b) = n /\ \A i \in 1 .. n : b[i] = file[i]
    BY <1>1, <1>3, SubSeqProperties
  <2>3. IsPrefix(p, file) <=> a = b
    BY <1>1 DEF IsPrefix
  <2> HIDE DEF a, b
  <2>4. a = b <=> \A i \in 1 .. n : a[i] = b[i]
    BY <2>1, <2>2, SeqEqual
  <2> QED
    BY <2>1, <2>2, <2>3, <2>4, Zenon
<1> QED
  BY <1>1, <1>5, <1>6

\* The files of another channel are not taken for temporary files of this one.
LEMMA OthersAreNotStale ==
  ASSUME NEW ws \in Names, NEW vs \in Names, vs # ws, NEW f \in FilesOf(vs)
  PROVE  ~stale_tmp(ws, f)
<1>1. ws \in Seq(Words) /\ vs \in Seq(Words) /\ Len(ws) \in Nat /\ Len(vs) \in Nat
  BY NameWords
<1>2. ASSUME NEW w \in {"state", "lock"}, f = <<"psmsgr">> \o vs \o <<w>>
      PROVE  ~stale_tmp(ws, f)
  <2>1. f \in Seq(Words) /\ Len(f) = Len(vs) + 2 /\ f[Len(vs) + 2] = w
    BY <1>1, <1>2, Between, LibraryWords
  <2>2. Len(f) = Len(ws) + 4 => f[Len(ws) + 4] = w
    BY <1>1, <2>1, Zenon
  <2>3. Chars[w] # 6
    BY <1>2, NameAssumption, Zenon
  <2> QED
    BY <1>1, <2>1, <2>2, <2>3, StaleIs
<1>3. ASSUME NEW x \in TmpSuffixes, f = tmp_base(vs, x)
      PROVE  ~stale_tmp(ws, f)
  <2>1. /\ f \in Seq(Words) /\ Len(f) = Len(vs) + 4
        /\ \A i \in 1 .. Len(vs) + 3 : f[i] = TmpPrefix(vs)[i]
    BY <1>1, <1>3, TmpIs DEF Words
  <2> SUFFICES ASSUME Len(f) = Len(ws) + 4, \A i \in 1 .. Len(ws) + 3 : f[i] = TmpPrefix(ws)[i]
               PROVE  FALSE
    BY <1>1, <2>1, StaleIs, Zenon
  <2>2. Len(vs) = Len(ws)
    BY <1>1, <2>1
  <2>3. ASSUME NEW i \in 1 .. Len(ws) PROVE vs[i] = ws[i]
    <3>1. i + 1 \in 1 .. Len(ws) + 3
      BY <1>1
    <3>2. TmpPrefix(vs)[i + 1] = vs[i] /\ TmpPrefix(ws)[i + 1] = ws[i]
      BY <1>1, <2>2, PrefixIs, Zenon
    <3> QED
      BY <2>1, <2>2, <3>1, <3>2
  <2> QED
    BY <1>1, <2>2, <2>3, SeqEqual
<1> QED
  BY <1>2, <1>3, Zenon DEF FilesOf, OwnTmps, data_base, lock_base

\* Its own temporary files are, and its lock file is not.
LEMMA OwnAreStale ==
  ASSUME NEW ws \in Names
  PROVE  (\A f \in OwnTmps(ws) : stale_tmp(ws, f)) /\ ~stale_tmp(ws, lock_base(ws))
<1>1. ws \in Seq(Words) /\ Len(ws) \in Nat
  BY NameWords
<1>2. ASSUME NEW x \in TmpSuffixes PROVE stale_tmp(ws, tmp_base(ws, x))
  <2> DEFINE f == tmp_base(ws, x)
  <2>1. x \in Words /\ Chars[x] = 6
    BY NameAssumption, Zenon DEF Words
  <2>2. /\ f \in Seq(Words) /\ Len(f) = Len(ws) + 4 /\ f[Len(ws) + 4] = x
        /\ \A i \in 1 .. Len(ws) + 3 : f[i] = TmpPrefix(ws)[i]
    BY <1>1, <2>1, TmpIs
  <2> HIDE DEF f
  <2>3. stale_tmp(ws, f)
    BY <1>1, <2>1, <2>2, StaleIs
  <2> QED
    BY <2>3, Zenon DEF f
<1>3. ~stale_tmp(ws, lock_base(ws))
  <2>1. lock_base(ws) \in Seq(Words) /\ Len(lock_base(ws)) = Len(ws) + 2
    BY <1>1, Between, LibraryWords, Zenon DEF lock_base
  <2> QED
    BY <1>1, <2>1, StaleIs
<1> QED
  BY <1>2, <1>3, Zenon DEF OwnTmps

\* Until the sweep, the directory has the temporary files of the channel and
\* files of others.
DirInv ==
  /\ name \in Names
  /\ pc \in {"declared", "initialized", "loaded", "named"} =>
       /\ OwnTmps(name) \subseteq files
       /\ files \subseteq OwnTmps(name) \cup UNION {FilesOf(ws) : ws \in Names \ {name}}

\* The sweep removes the temporary files of its own channel and no file of
\* another, whatever the names of the two: also if one of them contains the
\* words that the library ends its names with.
THEOREM SweepSparesTheorem == Spec => SweepSpares
<1>1. Init => DirInv
  <2> SUFFICES ASSUME Init PROVE DirInv
    BY Zenon
  <2>1. name \in Names /\ OwnTmps(name) \subseteq files
    BY NameAssumption, Zenon DEF Init
  <2>2. files \subseteq OwnTmps(name) \cup UNION {FilesOf(ws) : ws \in Names \ {name}}
    BY Zenon DEF Init, ValidNames
  <2> QED
    BY <2>1, <2>2 DEF DirInv
<1>2. DirInv /\ [Next]_vars => DirInv'
  BY Zenon DEF DirInv, Next, vars, options_init_sized, assign, load_options,
     check_name, remove_stale_tmp,
         create_file, damaged
<1>3. DirInv /\ [Next]_vars => [pc = "named" /\ pc' = "swept" => files \ files' = OwnTmps(name)]_vars
  <2> SUFFICES ASSUME DirInv, Next, pc = "named", pc' = "swept"
               PROVE  files \ files' = OwnTmps(name)
    BY Zenon DEF vars
  <2>1. files' = {f \in files : ~stale_tmp(name, f)} \cup {lock_base(name)}
    BY Zenon DEF Next, options_init_sized, assign, load_options, check_name,
       remove_stale_tmp, create_file, damaged
  <2>2. \A f \in files : stale_tmp(name, f) <=> f \in OwnTmps(name)
    BY OthersAreNotStale, OwnAreStale, Zenon DEF DirInv
  <2>3. lock_base(name) \notin OwnTmps(name) /\ OwnTmps(name) \subseteq files
    BY OwnAreStale, Zenon DEF DirInv
  <2> QED
    BY <2>1, <2>2, <2>3, Zenon
<1> QED
  BY <1>1, <1>2, <1>3, PTL DEF Spec, SweepSpares
=============================================================================
