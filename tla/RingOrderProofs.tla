-------------------------- MODULE RingOrderProofs ---------------------------
(***************************************************************************)
(* The inductive invariant of RingOrder, for any number of slots, retries  *)
(* and publishes, and what follows from it: under the C11 orders that the  *)
(* code gives its accesses, a read is of one publish, a handle does not go *)
(* back, and a waiter sleeps only on what it has seen.                     *)
(*                                                                         *)
(* The argument is about views.  The even message of slot.seq that commit  *)
(* stores carries the header and the payload of its publish, and whatever  *)
(* is stored over them later carries the odd message stored before it.  A  *)
(* reader that copied any of that finds, after its fence, no even message  *)
(* that it could take for the one it began with.                           *)
(***************************************************************************)
EXTENDS RingOrder, TLAPS

-----------------------------------------------------------------------------
(* The locations, and the messages in them. *)

LatestLoc == <<"latest">>
NotifyLoc == <<"notify">>
StateLoc == <<"state">>
SeqLoc(s) == <<"seq", s>>
InfoLoc(s) == <<"info", s>>
DataLoc(s) == <<"data", s>>

Words == [slot : Slots, seq : Nat]
Values == Nat \cup Words \cup {"in use", "RETIRED"}
Views == [Locs -> Nat]
Messages == [val : Values, view : Views]
Notes == [id : Nat, retired : BOOLEAN]

Size(l) == Len(mem[l])
Val(l, j) == mem[l][j].val
Seen(l, j, k) == mem[l][j].view[k]

\* The publish that the even message j of the counter of slot s commits.
SeqId(s, j) == Val(InfoLoc(s), Seen(SeqLoc(s), j, InfoLoc(s)))

\* The publish that message m of header.latest names.
LatestId(m) ==
  IF Val(LatestLoc, m) = NONE THEN 0
  ELSE SeqId(Val(LatestLoc, m).slot, Seen(LatestLoc, m, SeqLoc(Val(LatestLoc, m).slot)))

-----------------------------------------------------------------------------
(* The inductive invariant. *)

MemTypes == mem \in [Locs -> Seq(Messages)]

WriterTypes ==
  /\ rel \in Views
  /\ wpc \in {"idle", "data", "info", "seq", "latest", "notify", "retiring", "retired"}
  /\ wlatest \in Words
  /\ open_slot \in Slots
  /\ open_seq \in Nat
  /\ begins \in Nat
  /\ noted \in Seq(Notes)

ReaderTypes ==
  /\ view \in Views
  /\ acq \in Views
  /\ rpc \in {"idle", "notify", "state", "latest", "seq", "info", "data", "recheck",
              "futex", "asleep", "left"}
  /\ op \in {"read", "wait"}
  /\ tries \in Nat
  /\ n \in Nat
  /\ latest \in Words
  /\ q1 \in Nat
  /\ info \in Nat
  /\ data \in Nat
  /\ got \in [info : Nat, data : Nat]
  /\ busy \in BOOLEAN

\* A view names messages that exist.
Bounded(v) == \A l \in Locs : v[l] \in 1 .. Size(l)

\* A message carries messages that exist, and itself.
Carries(l, j) == Seen(l, j, l) = j /\ \A k \in Locs : Seen(l, j, k) \in 1 .. Size(k)

\* What each location holds.
Contents ==
  /\ \A l \in Locs : Size(l) \in Nat \ {0} /\ \A j \in 1 .. Size(l) : Carries(l, j)
  /\ \A s \in Slots : /\ \A j \in 1 .. Size(SeqLoc(s)) : Val(SeqLoc(s), j) \in Nat
                      /\ \A j \in 1 .. Size(InfoLoc(s)) : Val(InfoLoc(s), j) \in Nat
                      /\ \A j \in 1 .. Size(DataLoc(s)) : Val(DataLoc(s), j) \in Nat
  /\ \A m \in 1 .. Size(LatestLoc) : Val(LatestLoc, m) \in Words
  /\ \A j \in 1 .. Size(NotifyLoc) : Val(NotifyLoc, j) = j - 1
  /\ \A j \in 1 .. Size(StateLoc) : j >= 2 => Val(StateLoc, j) = "RETIRED"

\* The counter of a slot grows, and an even value is stored once.
Rising(s) ==
  \A j, k \in 1 .. Size(SeqLoc(s)) : j < k =>
    /\ Val(SeqLoc(s), j) <= Val(SeqLoc(s), k)
    /\ Val(SeqLoc(s), j) % 2 = 0 => Val(SeqLoc(s), j) < Val(SeqLoc(s), k)

\* An even message carries a header and a payload of one publish, ...
Whole(s, j) == Val(DataLoc(s), Seen(SeqLoc(s), j, DataLoc(s))) = SeqId(s, j)

\* ... and what is stored over them carries a later message of the counter.
Guarded(s, j) ==
  /\ \A i \in 1 .. Size(InfoLoc(s)) :
       i > Seen(SeqLoc(s), j, InfoLoc(s)) => Seen(InfoLoc(s), i, SeqLoc(s)) > j
  /\ \A i \in 1 .. Size(DataLoc(s)) :
       i > Seen(SeqLoc(s), j, DataLoc(s)) => Seen(DataLoc(s), i, SeqLoc(s)) > j

SlotOK(s) ==
  /\ Rising(s)
  /\ \A j \in 1 .. Size(SeqLoc(s)) : Val(SeqLoc(s), j) % 2 = 0 => Whole(s, j) /\ Guarded(s, j)

\* The last value stored at l.
Top(l) == Val(l, Size(l))

\* The slot that the writer has open.
OpenOK ==
  /\ wpc \in {"data", "info", "seq", "latest"} =>
       open_seq % 2 = 0 /\ (wlatest = NONE \/ open_slot # wlatest.slot)
  /\ wpc \in {"data", "info", "seq"} =>
       /\ rel[SeqLoc(open_slot)] = Size(SeqLoc(open_slot))
       /\ Top(SeqLoc(open_slot)) = open_seq + 1
  /\ wpc \in {"info", "seq"} => Top(DataLoc(open_slot)) = begins
  /\ wpc \in {"seq", "latest"} => Top(InfoLoc(open_slot)) = begins
  /\ wpc = "latest" =>
       /\ Top(SeqLoc(open_slot)) = open_seq + 2
       /\ Seen(SeqLoc(open_slot), Size(SeqLoc(open_slot)), InfoLoc(open_slot)) = Size(InfoLoc(open_slot))

\* A message of header.latest carries the commit that it names.
Names(m) ==
  LET s == Val(LatestLoc, m).slot
  IN Val(LatestLoc, m) # NONE =>
       /\ Val(LatestLoc, m).seq % 2 = 0
       /\ Val(SeqLoc(s), Seen(LatestLoc, m, SeqLoc(s))) = Val(LatestLoc, m).seq

\* The slot that header.latest names is left alone.
Untouched ==
  wlatest # NONE =>
    /\ Seen(LatestLoc, Size(LatestLoc), SeqLoc(wlatest.slot)) = Size(SeqLoc(wlatest.slot))
    /\ Seen(SeqLoc(wlatest.slot), Size(SeqLoc(wlatest.slot)), InfoLoc(wlatest.slot))
         = Size(InfoLoc(wlatest.slot))

LatestOK ==
  /\ Top(LatestLoc) = wlatest
  /\ \A m \in 1 .. Size(LatestLoc) : Names(m) /\ LatestId(m) \in Nat
  /\ \A l, m \in 1 .. Size(LatestLoc) : l < m => LatestId(l) < LatestId(m)
  /\ Untouched
  /\ LatestId(Size(LatestLoc)) <= begins
  /\ wpc \in {"data", "info", "seq", "latest"} => LatestId(Size(LatestLoc)) < begins
  /\ wpc = "notify" => LatestId(Size(LatestLoc)) = begins /\ begins > 0

\* A value of notify carries what it tells of.
Tells(k) ==
  IF noted[k].retired THEN Seen(NotifyLoc, k + 1, StateLoc) >= 2
  ELSE noted[k].id > 0 /\ LatestId(Seen(NotifyLoc, k + 1, LatestLoc)) = noted[k].id

NotifyOK ==
  /\ Len(noted) + 1 = Size(NotifyLoc)
  /\ wpc = "retiring" => Size(StateLoc) >= 2
  /\ \A k \in 1 .. Len(noted) : Tells(k)

WriterInv ==
  /\ MemTypes /\ WriterTypes /\ Bounded(rel) /\ Contents
  /\ \A s \in Slots : SlotOK(s)
  /\ OpenOK /\ LatestOK /\ NotifyOK

\* A waiter that started from the value n of notify: what n tells of is a
\* publish, not newer than x, or older than x.
ToldAtMost(x) == n > 0 => ~noted[n].retired /\ noted[n].id > 0 /\ noted[n].id <= x
ToldBelow(x) == n > 0 => ~noted[n].retired /\ noted[n].id > 0 /\ noted[n].id < x

\* The attempt to read what message m of header.latest names: the copies are
\* of its publish, or the fence brings a later message of the counter.
Attempt(m) ==
  LET s == latest.slot
      j == Seen(LatestLoc, m, SeqLoc(s))
  IN /\ Val(LatestLoc, m) = latest
     /\ latest # NONE
     /\ got.info <= LatestId(m)
     /\ op = "wait" => ToldAtMost(LatestId(m))
     /\ view[SeqLoc(s)] >= j
     /\ rpc \in {"info", "data", "recheck"} =>
          /\ q1 = latest.seq
          /\ view[InfoLoc(s)] >= Seen(SeqLoc(s), j, InfoLoc(s))
          /\ view[DataLoc(s)] >= Seen(SeqLoc(s), j, DataLoc(s))
     /\ rpc \in {"data", "recheck"} => info = LatestId(m) \/ acq[SeqLoc(s)] > j
     /\ rpc = "recheck" /\ op = "read" => data = LatestId(m) \/ acq[SeqLoc(s)] > j

ReadOK ==
  /\ got.data = got.info
  /\ got.info <= LatestId(view[LatestLoc])
  /\ rpc = "data" => op = "read"
  /\ rpc \in {"seq", "info", "data", "recheck"} => \E m \in 1 .. view[LatestLoc] : Attempt(m)

WaitOK ==
  /\ n <= Len(noted)
  /\ rpc \in {"notify", "state", "futex", "asleep"} => op = "wait"
  /\ rpc = "state" /\ n > 0 =>
       IF noted[n].retired THEN view[StateLoc] >= 2
       ELSE noted[n].id > 0 /\ noted[n].id <= LatestId(view[LatestLoc])
  /\ rpc = "latest" /\ op = "wait" => ToldAtMost(LatestId(view[LatestLoc]))
  /\ rpc \in {"futex", "asleep"} =>
       ToldAtMost(got.info) \/ (busy /\ ToldBelow(LatestId(Size(LatestLoc))))

ReaderInv == ReaderTypes /\ Bounded(view) /\ Bounded(acq) /\ ReadOK /\ WaitOK

Inv == WriterInv /\ ReaderInv

-----------------------------------------------------------------------------
(* Facts on numbers, for the leaves about messages and views. *)

\* Two comparisons make one.
LEMMA GeqTrans ==
  \A a, b, c \in Nat : /\ a >= b /\ b >= c => a >= c
                       /\ a >= b /\ b > c => a > c
OBVIOUS

\* A number is not above and below another.
LEMMA GeqNotLess == \A a, b \in Nat : a >= a /\ (a >= b => ~(b > a))
OBVIOUS

\* The position of a message is a number, and stays one of a longer location.
LEMMA Positions ==
  /\ \A b : \A a \in 1 .. b : a \in Nat
  /\ \A a, b \in Nat : a >= b => \A c \in 1 .. b : c \in 1 .. a
  /\ \A b \in Nat : \A a \in 1 .. b : \A c \in 1 .. a : c \in 1 .. b
OBVIOUS

-----------------------------------------------------------------------------
(* Locations, and what a store does to them. *)

\* The locations of the header and of each slot.
LEMMA LocsAre ==
  /\ LatestLoc \in Locs /\ NotifyLoc \in Locs /\ StateLoc \in Locs
  /\ \A s \in Slots : SeqLoc(s) \in Locs /\ InfoLoc(s) \in Locs /\ DataLoc(s) \in Locs
BY DEF Locs, LatestLoc, NotifyLoc, StateLoc, SeqLoc, InfoLoc, DataLoc

\* They are different from one another.
LEMMA LocsDiffer ==
  /\ LatestLoc # NotifyLoc /\ LatestLoc # StateLoc /\ NotifyLoc # StateLoc
  /\ \A s \in Slots : /\ SeqLoc(s) \notin {LatestLoc, NotifyLoc, StateLoc}
                      /\ InfoLoc(s) \notin {LatestLoc, NotifyLoc, StateLoc}
                      /\ DataLoc(s) \notin {LatestLoc, NotifyLoc, StateLoc}
  /\ \A s, t \in Slots : /\ SeqLoc(s) # InfoLoc(t) /\ SeqLoc(s) # DataLoc(t) /\ InfoLoc(s) # DataLoc(t)
                         /\ SeqLoc(s) = SeqLoc(t) => s = t
                         /\ InfoLoc(s) = InfoLoc(t) => s = t
                         /\ DataLoc(s) = DataLoc(t) => s = t
BY DEF Locs, LatestLoc, NotifyLoc, StateLoc, SeqLoc, InfoLoc, DataLoc

\* The messages that there are stay.
Grows ==
  \A l \in Locs : /\ Size(l)' \in Nat /\ Size(l)' >= Size(l)
                  /\ \A j \in 1 .. Size(l) : /\ Val(l, j)' = Val(l, j)
                                             /\ \A k \in Locs : Seen(l, j, k)' = Seen(l, j, k)

\* The store of x at l, with the view w.
Stored(l, x, w) ==
  /\ Grows
  /\ \A k \in Locs : k # l => Size(k)' = Size(k)
  /\ Size(l)' = Size(l) + 1
  /\ Top(l)' = x
  /\ \A k \in Locs : Seen(l, Size(l), k)' = IF k = l THEN Size(l)' ELSE w[k]

\* A store appends one message to the history of its location.
LEMMA AppendStores ==
  ASSUME MemTypes, NEW l \in Locs, NEW x \in Values, NEW w \in Views, Append1(l, x, w)
  PROVE  MemTypes' /\ Stored(l, x, w)
<1> DEFINE msg == [val |-> x, view |-> [w EXCEPT ![l] = Len(mem[l]) + 1]]
<1>1. mem' = [mem EXCEPT ![l] = Append(@, msg)]
  BY Zenon DEF Append1
<1>2. \A k \in Locs : mem[k] \in Seq(Messages) /\ Len(mem[k]) \in Nat
  BY DEF MemTypes
<1>3. msg \in Messages
  BY <1>2 DEF Messages, Views
<1> HIDE DEF msg
<1>4. mem'[l] = Append(mem[l], msg) /\ \A k \in Locs : k # l => mem'[k] = mem[k]
  BY <1>1, Zenon DEF MemTypes
<1>5. /\ Append(mem[l], msg) \in Seq(Messages)
      /\ Len(Append(mem[l], msg)) = Len(mem[l]) + 1
      /\ \A j \in 1 .. Len(mem[l]) : Append(mem[l], msg)[j] = mem[l][j]
      /\ Append(mem[l], msg)[Len(mem[l]) + 1] = msg
  BY <1>2, <1>3
<1>6. MemTypes'
  <2>1. \A k \in Locs : mem'[k] \in Seq(Messages)
    BY <1>2, <1>4, <1>5, Zenon
  <2>2. mem' = [k \in Locs |-> mem'[k]]
    BY <1>1, Zenon DEF MemTypes
  <2> QED BY <2>1, <2>2, Zenon DEF MemTypes
<1>7. Grows
  <2> SUFFICES ASSUME NEW k \in Locs
               PROVE  /\ Len(mem'[k]) \in Nat /\ Len(mem'[k]) >= Len(mem[k])
                      /\ \A j \in 1 .. Len(mem[k]) : mem'[k][j] = mem[k][j]
    BY Zenon DEF Grows, Size, Val, Seen
  <2>1. CASE k = l
    BY <2>1, <1>2, <1>4, <1>5
  <2>2. CASE k # l
    BY <2>2, <1>2, <1>4
  <2> QED BY <2>1, <2>2, Zenon
<1>8. /\ Size(l)' = Size(l) + 1
      /\ \A k \in Locs : k # l => Size(k)' = Size(k)
  BY <1>4, <1>5, Zenon DEF Size
<1>9. mem'[l][Len(mem'[l])] = msg
  BY <1>4, <1>5, Zenon
<1>10. Top(l)' = x
  BY <1>9 DEF Top, Val, Size, msg
<1>11. \A k \in Locs : Seen(l, Size(l), k)' = IF k = l THEN Size(l)' ELSE w[k]
  BY <1>8, <1>9 DEF Seen, Size, msg, Views
<1> QED BY <1>6, <1>7, <1>8, <1>10, <1>11, Zenon DEF Stored

-----------------------------------------------------------------------------
(* What a store keeps of the invariant. *)

\* What a message of a slot's counter carries stays what it was.
LEMMA WholeStays ==
  ASSUME Contents, Grows, NEW s \in Slots, NEW j \in 1 .. Size(SeqLoc(s))
  PROVE  Whole(s, j)' <=> Whole(s, j)
<1>1. ASSUME NEW l \in Locs
      PROVE  /\ Seen(SeqLoc(s), j, l) \in 1 .. Size(l)
             /\ Seen(SeqLoc(s), j, l)' = Seen(SeqLoc(s), j, l)
  BY LocsAre, Zenon DEF Contents, Carries, Grows
<1>2. PICK a : Seen(SeqLoc(s), j, InfoLoc(s)) = a /\ Seen(SeqLoc(s), j, InfoLoc(s))' = a /\ a \in 1 .. Size(InfoLoc(s))
  BY <1>1, LocsAre, Zenon
<1>3. PICK b : Seen(SeqLoc(s), j, DataLoc(s)) = b /\ Seen(SeqLoc(s), j, DataLoc(s))' = b /\ b \in 1 .. Size(DataLoc(s))
  BY <1>1, LocsAre, Zenon
<1>4. Val(InfoLoc(s), a)' = Val(InfoLoc(s), a) /\ Val(DataLoc(s), b)' = Val(DataLoc(s), b)
  BY <1>2, <1>3, LocsAre, Zenon DEF Grows
<1> QED BY <1>2, <1>3, <1>4 DEF Whole, SeqId

\* The contents of the locations are kept by a store of a value of its kind.
LEMMA StoreContents ==
  ASSUME Contents, NEW l \in Locs, NEW x, NEW w, Bounded(w), Stored(l, x, w),
         \A s \in Slots : l \in {SeqLoc(s), InfoLoc(s), DataLoc(s)} => x \in Nat,
         l = LatestLoc => x \in Words,
         l = NotifyLoc => x = Size(NotifyLoc),
         l = StateLoc => x = "RETIRED"
  PROVE  Contents'
<1>1. \A k \in Locs : Size(k) \in Nat \ {0} /\ Size(k)' \in Nat \ {0}
  BY DEF Contents, Stored, Grows
<1>2. ASSUME NEW k \in Locs, NEW j \in 1 .. Size(k)', k # l \/ j # Size(l)'
      PROVE  /\ j \in 1 .. Size(k)
             /\ Val(k, j)' = Val(k, j)
             /\ \A i \in Locs : Seen(k, j, i)' = Seen(k, j, i)
  BY <1>1, <1>2 DEF Stored, Grows
<1>3. ASSUME NEW k \in Locs, NEW j \in 1 .. Size(k)' PROVE Carries(k, j)'
  <2>1. CASE k # l \/ j # Size(l)'
    <3>1. j \in 1 .. Size(k) /\ \A i \in Locs : Seen(k, j, i)' = Seen(k, j, i)
      BY <2>1, <1>2, Zenon
    <3>2. Carries(k, j)
      BY <3>1, Zenon DEF Contents
    <3>3. \A i \in Locs : Size(i)' >= Size(i)
      BY Zenon DEF Stored, Grows
    <3> QED BY <1>1, <3>1, <3>2, <3>3 DEF Carries
  <2>2. CASE k = l /\ j = Size(l)'
    <3>1. \A i \in Locs : Seen(k, j, i)' = IF i = l THEN Size(l)' ELSE w[i]
      BY <2>2, Zenon DEF Stored
    <3>2. \A i \in Locs : w[i] \in 1 .. Size(i) /\ Size(i)' >= Size(i)
      BY Zenon DEF Bounded, Stored, Grows
    <3> QED BY <1>1, <2>2, <3>1, <3>2 DEF Carries
  <2> QED BY <2>1, <2>2, Zenon
<1>4. ASSUME NEW k \in Locs, NEW j \in 1 .. Size(k)'
      PROVE  (k # l \/ j # Size(l)') \/ (k = l /\ j = Size(l)' /\ Val(k, j)' = x)
  BY Zenon DEF Stored, Top
<1>5. ASSUME NEW s \in Slots
      PROVE  /\ \A j \in 1 .. Size(SeqLoc(s))' : Val(SeqLoc(s), j)' \in Nat
             /\ \A j \in 1 .. Size(InfoLoc(s))' : Val(InfoLoc(s), j)' \in Nat
             /\ \A j \in 1 .. Size(DataLoc(s))' : Val(DataLoc(s), j)' \in Nat
  BY <1>2, <1>4, LocsAre DEF Contents
<1>6. \A m \in 1 .. Size(LatestLoc)' : Val(LatestLoc, m)' \in Words'
  <2>1. Words' = Words
    BY Zenon DEF Words, Slots
  <2> QED BY <1>2, <1>4, <2>1, LocsAre DEF Contents
<1>7. \A j \in 1 .. Size(NotifyLoc)' : Val(NotifyLoc, j)' = j - 1
  BY <1>1, <1>2, <1>4, LocsAre DEF Contents, Stored
<1>8. \A j \in 1 .. Size(StateLoc)' : j >= 2 => Val(StateLoc, j)' = "RETIRED"
  BY <1>2, <1>4, LocsAre, Zenon DEF Contents
<1>9. Slots' = Slots /\ Locs' = Locs
  BY Zenon DEF Slots, Locs
<1> QED BY <1>1, <1>3, <1>5, <1>6, <1>7, <1>8, <1>9, Zenon DEF Contents, SeqLoc,
           InfoLoc, DataLoc, LatestLoc, NotifyLoc, StateLoc

\* A slot none of whose locations is stored to.
LEMMA SlotFrame ==
  ASSUME Contents, NEW s \in Slots, SlotOK(s), Grows,
         \A l \in {SeqLoc(s), InfoLoc(s), DataLoc(s)} : Size(l)' = Size(l)
  PROVE  SlotOK(s)'
<1>1. \A j \in 1 .. Size(SeqLoc(s)) : Val(SeqLoc(s), j)' = Val(SeqLoc(s), j)
  BY LocsAre, Zenon DEF Grows
<1>2. ASSUME NEW j \in 1 .. Size(SeqLoc(s)) PROVE Whole(s, j)' <=> Whole(s, j)
  BY WholeStays, Zenon
<1>3. ASSUME NEW j \in 1 .. Size(SeqLoc(s)) PROVE Guarded(s, j)' <=> Guarded(s, j)
  BY LocsAre DEF Grows, Guarded
<1> QED BY <1>1, <1>2, <1>3, Zenon DEF SlotOK, Rising

\* The parity of a counter that begin_slot makes odd.
LEMMA Parity ==
  ASSUME NEW q \in Nat, q % 2 = 0
  PROVE  (q + 1) % 2 = 1 /\ (q + 2) % 2 = 0
OBVIOUS

\* An even message is not the last one while the counter is odd.
LEMMA EvenBefore ==
  ASSUME Contents, NEW s \in Slots, NEW q \in Nat, q % 2 = 0, Top(SeqLoc(s)) = q + 1,
         NEW j \in 1 .. Size(SeqLoc(s)), Val(SeqLoc(s), j) % 2 = 0
  PROVE  j < Size(SeqLoc(s))
BY Parity, LocsAre DEF Top, Contents

\* begin_slot: the counter of the slot becomes odd.
LEMMA SlotBegin ==
  ASSUME Contents, NEW s \in Slots, SlotOK(s), NEW q \in Nat, q % 2 = 0,
         Top(SeqLoc(s)) \in {q, q + 1}, NEW w, Stored(SeqLoc(s), q + 1, w)
  PROVE  SlotOK(s)'
<1>1. /\ Size(SeqLoc(s)) \in Nat \ {0}
      /\ Size(SeqLoc(s))' = Size(SeqLoc(s)) + 1
      /\ Size(InfoLoc(s))' = Size(InfoLoc(s))
      /\ Size(DataLoc(s))' = Size(DataLoc(s))
      /\ Val(SeqLoc(s), Size(SeqLoc(s)))' = q + 1
  BY LocsAre, LocsDiffer, Zenon DEF Contents, Stored, Top
<1>2. ASSUME NEW j \in 1 .. Size(SeqLoc(s))
      PROVE  /\ Val(SeqLoc(s), j)' = Val(SeqLoc(s), j)
             /\ Val(SeqLoc(s), j) \in Nat
             /\ Val(SeqLoc(s), j) <= q + 1
             /\ Val(SeqLoc(s), j) % 2 = 0 => Val(SeqLoc(s), j) < q + 1
  <2>1. Val(SeqLoc(s), j)' = Val(SeqLoc(s), j) /\ Val(SeqLoc(s), j) \in Nat
    BY LocsAre, Zenon DEF Stored, Grows, Contents
  <2>2. CASE j = Size(SeqLoc(s))
    BY <2>1, <2>2, Parity DEF Top
  <2>3. CASE j < Size(SeqLoc(s))
    BY <1>1, <2>1, <2>3 DEF SlotOK, Rising, Top
  <2> QED BY <1>1, <2>1, <2>2, <2>3
<1>3. Rising(s)'
  <2> SUFFICES ASSUME NEW j \in 1 .. Size(SeqLoc(s))', NEW k \in 1 .. Size(SeqLoc(s))', j < k
               PROVE  /\ Val(SeqLoc(s), j)' <= Val(SeqLoc(s), k)'
                      /\ Val(SeqLoc(s), j)' % 2 = 0 => Val(SeqLoc(s), j)' < Val(SeqLoc(s), k)'
    BY Zenon DEF Rising
  <2>1. j \in 1 .. Size(SeqLoc(s))
    BY <1>1
  <2>2. CASE k = Size(SeqLoc(s))'
    BY <1>1, <1>2, <2>1, <2>2, Zenon
  <2>3. CASE k \in 1 .. Size(SeqLoc(s))
    BY <1>2, <2>1, <2>3, Zenon DEF SlotOK, Rising
  <2> QED BY <1>1, <2>2, <2>3
<1>4. ASSUME NEW j \in 1 .. Size(SeqLoc(s))', Val(SeqLoc(s), j)' % 2 = 0
      PROVE  Whole(s, j)' /\ Guarded(s, j)'
  <2>1. j \in 1 .. Size(SeqLoc(s))
    BY <1>1, <1>4, Parity
  <2>2. Whole(s, j) /\ Guarded(s, j)
    BY <1>2, <1>4, <2>1, Zenon DEF SlotOK
  <2>3. Whole(s, j)'
    BY <2>1, <2>2, WholeStays, Zenon DEF Stored
  <2>4. Guarded(s, j)'
    BY <1>1, <2>1, <2>2, LocsAre DEF Stored, Grows, Guarded
  <2> QED BY <2>3, <2>4, Zenon
<1> QED BY <1>3, <1>4, Zenon DEF SlotOK

\* The header or the payload is stored after the counter became odd.
LEMMA SlotStore ==
  ASSUME Contents, NEW s \in Slots, SlotOK(s), NEW q \in Nat, q % 2 = 0,
         Top(SeqLoc(s)) = q + 1, NEW l \in {InfoLoc(s), DataLoc(s)}, NEW x,
         Bounded(rel), rel[SeqLoc(s)] = Size(SeqLoc(s)), Stored(l, x, rel)
  PROVE  SlotOK(s)'
<1>1. /\ Size(SeqLoc(s)) \in Nat \ {0}
      /\ Size(SeqLoc(s))' = Size(SeqLoc(s))
      /\ Size(l) \in Nat \ {0}
      /\ Size(l)' = Size(l) + 1
      /\ Seen(l, Size(l), SeqLoc(s))' = Size(SeqLoc(s))
      /\ \A k \in {InfoLoc(s), DataLoc(s)} : k # l => Size(k)' = Size(k)
  BY LocsAre, LocsDiffer, Zenon DEF Contents, Stored
<1>2. \A j \in 1 .. Size(SeqLoc(s)) : Val(SeqLoc(s), j)' = Val(SeqLoc(s), j)
  BY LocsAre, Zenon DEF Stored, Grows
<1>3. Rising(s)'
  BY <1>1, <1>2 DEF SlotOK, Rising
<1>4. ASSUME NEW j \in 1 .. Size(SeqLoc(s)), Val(SeqLoc(s), j) % 2 = 0
      PROVE  Whole(s, j)' /\ Guarded(s, j)'
  <2>1. Whole(s, j) /\ Guarded(s, j) /\ j < Size(SeqLoc(s))
    BY <1>4, EvenBefore, Zenon DEF SlotOK
  <2>2. Whole(s, j)'
    BY <2>1, WholeStays, Zenon DEF Stored
  <2>3. ASSUME NEW k \in {InfoLoc(s), DataLoc(s)}, NEW i \in 1 .. Size(k)',
               i > Seen(SeqLoc(s), j, k)'
        PROVE  Seen(k, i, SeqLoc(s))' > j
    <3>1. CASE k = l /\ i = Size(l)'
      BY <1>1, <2>1, <3>1, Zenon
    <3>2. CASE i \in 1 .. Size(k)
      BY <2>1, <2>3, <3>2, LocsAre DEF Stored, Grows, Guarded
    <3> QED BY <1>1, <3>1, <3>2
  <2> QED BY <2>2, <2>3, Zenon DEF Guarded
<1> QED BY <1>1, <1>2, <1>3, <1>4, Zenon DEF SlotOK

\* commit_slot: the counter becomes even, and carries all that was stored.
LEMMA SlotCommit ==
  ASSUME Contents, NEW s \in Slots, SlotOK(s), NEW q \in Nat, q % 2 = 0,
         Top(SeqLoc(s)) = q + 1, Top(InfoLoc(s)) = Top(DataLoc(s)),
         NEW w, \A l \in Locs : w[l] = Size(l), Stored(SeqLoc(s), q + 2, w)
  PROVE  SlotOK(s)'
<1>1. /\ Size(SeqLoc(s)) \in Nat \ {0} /\ Size(InfoLoc(s)) \in Nat \ {0} /\ Size(DataLoc(s)) \in Nat \ {0}
      /\ Size(SeqLoc(s))' = Size(SeqLoc(s)) + 1
      /\ Size(InfoLoc(s))' = Size(InfoLoc(s))
      /\ Size(DataLoc(s))' = Size(DataLoc(s))
      /\ Val(SeqLoc(s), Size(SeqLoc(s)))' = q + 2
      /\ Seen(SeqLoc(s), Size(SeqLoc(s)), InfoLoc(s))' = Size(InfoLoc(s))
      /\ Seen(SeqLoc(s), Size(SeqLoc(s)), DataLoc(s))' = Size(DataLoc(s))
  BY LocsAre, LocsDiffer, Zenon DEF Contents, Stored, Top
<1>2. ASSUME NEW j \in 1 .. Size(SeqLoc(s))
      PROVE  /\ Val(SeqLoc(s), j)' = Val(SeqLoc(s), j)
             /\ Val(SeqLoc(s), j) \in Nat
             /\ Val(SeqLoc(s), j) <= q + 1
  <2>1. Val(SeqLoc(s), j)' = Val(SeqLoc(s), j) /\ Val(SeqLoc(s), j) \in Nat
    BY LocsAre, Zenon DEF Stored, Grows, Contents
  <2>2. CASE j = Size(SeqLoc(s))
    BY <2>1, <2>2 DEF Top
  <2>3. CASE j < Size(SeqLoc(s))
    BY <1>1, <2>1, <2>3 DEF SlotOK, Rising, Top
  <2> QED BY <1>1, <2>1, <2>2, <2>3
<1>3. Rising(s)'
  <2> SUFFICES ASSUME NEW j \in 1 .. Size(SeqLoc(s))', NEW k \in 1 .. Size(SeqLoc(s))', j < k
               PROVE  /\ Val(SeqLoc(s), j)' <= Val(SeqLoc(s), k)'
                      /\ Val(SeqLoc(s), j)' % 2 = 0 => Val(SeqLoc(s), j)' < Val(SeqLoc(s), k)'
    BY Zenon DEF Rising
  <2>1. j \in 1 .. Size(SeqLoc(s))
    BY <1>1
  <2>2. CASE k = Size(SeqLoc(s))'
    BY <1>1, <1>2, <2>1, <2>2
  <2>3. CASE k \in 1 .. Size(SeqLoc(s))
    BY <1>2, <2>1, <2>3, Zenon DEF SlotOK, Rising
  <2> QED BY <1>1, <2>2, <2>3
<1>4. ASSUME NEW j \in 1 .. Size(SeqLoc(s))', Val(SeqLoc(s), j)' % 2 = 0
      PROVE  Whole(s, j)' /\ Guarded(s, j)'
  <2>1. CASE j = Size(SeqLoc(s))'
    <3>1. Val(InfoLoc(s), Size(InfoLoc(s)))' = Val(DataLoc(s), Size(DataLoc(s)))'
      BY <1>1, LocsAre DEF Stored, Grows, Top
    <3>2. Whole(s, j)'
      BY <1>1, <2>1, <3>1, Zenon DEF Whole, SeqId
    <3>3. Guarded(s, j)'
      BY <1>1, <2>1 DEF Guarded
    <3> QED BY <3>2, <3>3, Zenon
  <2>2. CASE j \in 1 .. Size(SeqLoc(s))
    <3>1. Whole(s, j) /\ Guarded(s, j)
      BY <1>2, <1>4, <2>2, Zenon DEF SlotOK
    <3>2. Whole(s, j)'
      BY <2>2, <3>1, WholeStays, Zenon DEF Stored
    <3>3. Guarded(s, j)'
      BY <1>1, <2>2, <3>1, LocsAre DEF Stored, Grows, Guarded
    <3> QED BY <3>2, <3>3, Zenon
  <2> QED BY <1>1, <2>1, <2>2
<1> QED BY <1>3, <1>4, Zenon DEF SlotOK

-----------------------------------------------------------------------------
(* header.latest and header.notify. *)

\* The publish that a message names does not change.
LEMMA LatestIdStays ==
  ASSUME Contents, Grows
  PROVE  \A m \in 1 .. Size(LatestLoc) : LatestId(m)' = LatestId(m)
<1> SUFFICES ASSUME NEW m \in 1 .. Size(LatestLoc) PROVE LatestId(m)' = LatestId(m)
  BY Zenon
<1> DEFINE s == Val(LatestLoc, m).slot
<1>1. Val(LatestLoc, m)' = Val(LatestLoc, m) /\ s \in Slots
  BY LocsAre, Zenon DEF Grows, Contents, Words
<1>2. /\ Seen(LatestLoc, m, SeqLoc(s)) \in 1 .. Size(SeqLoc(s))
      /\ (Seen(LatestLoc, m, SeqLoc(s)))' = Seen(LatestLoc, m, SeqLoc(s))
  BY <1>1, LocsAre DEF Grows, Contents, Carries, SeqLoc
<1>3. ASSUME NEW t \in Slots, NEW j \in 1 .. Size(SeqLoc(t))
      PROVE  SeqId(t, j)' = SeqId(t, j)
  BY LocsAre DEF SeqId, Grows, Contents, Carries
<1> QED BY <1>1, <1>2, <1>3, Zenon DEF LatestId, NONE

\* A step that leaves header.latest, and the slot that it names, as they are.
LEMMA LatestFrame ==
  ASSUME Contents, LatestOK, Grows, wlatest \in Words, wlatest' = wlatest,
         Size(LatestLoc)' = Size(LatestLoc),
         wlatest # NONE => /\ Size(SeqLoc(wlatest.slot))' = Size(SeqLoc(wlatest.slot))
                           /\ Size(InfoLoc(wlatest.slot))' = Size(InfoLoc(wlatest.slot)),
         begins \in Nat, begins' \in Nat, begins' >= begins, wpc' # "notify",
         wpc' \in {"data", "info", "seq", "latest"} => LatestId(Size(LatestLoc)) < begins'
  PROVE  LatestOK'
<1>1. Size(LatestLoc) \in Nat \ {0} /\ \A m \in 1 .. Size(LatestLoc) : LatestId(m)' = LatestId(m)
  BY LatestIdStays, LocsAre, Zenon DEF Contents
<1>2. Top(LatestLoc)' = wlatest'
  BY <1>1, LocsAre DEF LatestOK, Top, Grows
<1>3. ASSUME NEW m \in 1 .. Size(LatestLoc) PROVE Names(m)'
  <2>1. Names(m) /\ Val(LatestLoc, m)' = Val(LatestLoc, m) /\ Val(LatestLoc, m) \in Words
    BY LocsAre, Zenon DEF LatestOK, Grows, Contents
  <2>2. ASSUME NEW s \in Slots
        PROVE  /\ Seen(LatestLoc, m, SeqLoc(s))' = Seen(LatestLoc, m, SeqLoc(s))
               /\ Seen(LatestLoc, m, SeqLoc(s)) \in 1 .. Size(SeqLoc(s))
               /\ \A j \in 1 .. Size(SeqLoc(s)) : Val(SeqLoc(s), j)' = Val(SeqLoc(s), j)
    BY LocsAre DEF Grows, Contents, Carries
  <2> QED BY <2>1, <2>2, Zenon DEF Names, Words, NONE
<1>4. Untouched'
  <2> SUFFICES ASSUME wlatest # NONE, NEW s \in Slots, s = wlatest.slot
               PROVE  /\ Seen(LatestLoc, Size(LatestLoc), SeqLoc(s))' = Size(SeqLoc(s))'
                      /\ Seen(SeqLoc(s), Size(SeqLoc(s)), InfoLoc(s))' = Size(InfoLoc(s))'
    BY Zenon DEF Untouched, Words, NONE
  <2>1. /\ Seen(LatestLoc, Size(LatestLoc), SeqLoc(s)) = Size(SeqLoc(s))
        /\ Seen(SeqLoc(s), Size(SeqLoc(s)), InfoLoc(s)) = Size(InfoLoc(s))
    BY Zenon DEF LatestOK, Untouched
  <2>2. Size(SeqLoc(s)) \in Nat \ {0}
    BY LocsAre, Zenon DEF Contents
  <2> QED BY <1>1, <2>1, <2>2, LocsAre DEF Grows
<1>5. LatestId(Size(LatestLoc))' = LatestId(Size(LatestLoc)) /\ LatestId(Size(LatestLoc)) \in Nat
  BY <1>1 DEF LatestOK
<1> QED BY <1>1, <1>2, <1>3, <1>4, <1>5 DEF LatestOK

\* commit_slot stores header.latest: it names the publish that was begun last.
LEMMA LatestCommit ==
  ASSUME Contents, LatestOK, WriterTypes, OpenOK, wpc = "latest", wpc' = "notify",
         begins' = begins, wlatest' = [slot |-> open_slot, seq |-> open_seq + 2],
         NEW w, \A l \in Locs : w[l] = Size(l), Stored(LatestLoc, wlatest', w)
  PROVE  LatestOK'
<1>0. open_slot \in Slots /\ Size(LatestLoc) \in Nat
  BY LocsAre, Zenon DEF WriterTypes, Contents
<1> PICK s \in Slots : s = open_slot
  BY <1>0, Zenon
<1> PICK m \in Nat : m = Size(LatestLoc) + 1
  BY <1>0
<1>1. /\ open_seq \in Nat /\ begins \in Nat
      /\ wlatest'.slot = s /\ wlatest'.seq = open_seq + 2 /\ wlatest' # NONE
  BY DEF WriterTypes, NONE
<1>2. /\ Size(LatestLoc) \in Nat \ {0} /\ Size(SeqLoc(s)) \in Nat \ {0} /\ Size(InfoLoc(s)) \in Nat \ {0}
      /\ Size(LatestLoc)' = m
  BY <1>1, LocsAre, Zenon DEF Contents, Stored
<1>3. /\ Size(SeqLoc(s))' = Size(SeqLoc(s))
      /\ Size(InfoLoc(s))' = Size(InfoLoc(s))
      /\ Seen(LatestLoc, m, SeqLoc(s))' = Size(SeqLoc(s))
      /\ Val(SeqLoc(s), Size(SeqLoc(s)))' = open_seq + 2
      /\ Seen(SeqLoc(s), Size(SeqLoc(s)), InfoLoc(s))' = Size(InfoLoc(s))
      /\ Val(InfoLoc(s), Size(InfoLoc(s)))' = begins
  <2>1. Size(SeqLoc(s))' = Size(SeqLoc(s)) /\ Size(InfoLoc(s))' = Size(InfoLoc(s))
    BY LocsAre, LocsDiffer, Zenon DEF Stored
  <2>2. Seen(LatestLoc, m, SeqLoc(s))' = Size(SeqLoc(s))
    BY <1>2, LocsAre, LocsDiffer, Zenon DEF Stored
  <2>3. /\ Val(SeqLoc(s), Size(SeqLoc(s))) = open_seq + 2
        /\ Seen(SeqLoc(s), Size(SeqLoc(s)), InfoLoc(s)) = Size(InfoLoc(s))
        /\ Val(InfoLoc(s), Size(InfoLoc(s))) = begins
    BY Zenon DEF OpenOK, Top
  <2> QED BY <1>2, <2>1, <2>2, <2>3, LocsAre DEF Stored, Grows
<1>4. Val(LatestLoc, m)' = wlatest'
  BY <1>2, Zenon DEF Stored, Top
<1>5. LatestId(m)' = begins
  BY <1>1, <1>3, <1>4, Zenon DEF LatestId, SeqId
<1>6. \A k \in 1 .. Size(LatestLoc) : /\ LatestId(k)' = LatestId(k)
                                      /\ LatestId(k) \in Nat
                                      /\ LatestId(k) < begins
  <2>1. LatestId(Size(LatestLoc)) < begins
    BY Zenon DEF LatestOK
  <2> QED BY <1>1, <1>2, <2>1, LatestIdStays DEF Stored, LatestOK
<1>7. Names(m)'
  <2>1. (open_seq + 2) % 2 = 0
    BY <1>1, Parity, Zenon DEF OpenOK
  <2> QED BY <1>1, <1>3, <1>4, <2>1, Zenon DEF Names
<1>8. ASSUME NEW k \in 1 .. Size(LatestLoc) PROVE Names(k)'
  <2>1. Names(k) /\ Val(LatestLoc, k)' = Val(LatestLoc, k) /\ Val(LatestLoc, k) \in Words
    BY LocsAre, Zenon DEF LatestOK, Stored, Grows, Contents
  <2>2. ASSUME NEW t \in Slots
        PROVE  /\ Seen(LatestLoc, k, SeqLoc(t))' = Seen(LatestLoc, k, SeqLoc(t))
               /\ Seen(LatestLoc, k, SeqLoc(t)) \in 1 .. Size(SeqLoc(t))
               /\ \A j \in 1 .. Size(SeqLoc(t)) : Val(SeqLoc(t), j)' = Val(SeqLoc(t), j)
    BY LocsAre DEF Stored, Grows, Contents, Carries
  <2> QED BY <2>1, <2>2, Zenon DEF Names, Words, NONE
<1>9. Untouched'
  BY <1>1, <1>2, <1>3, Zenon DEF Untouched
<1>10. begins > 0
  BY <1>1, <1>2, <1>6
<1> QED
  <2>1. Top(LatestLoc)' = wlatest'
    BY <1>2, <1>4, Zenon DEF Top
  <2>2. \A k \in 1 .. Size(LatestLoc)' : Names(k)' /\ LatestId(k)' \in Nat
    BY <1>1, <1>2, <1>5, <1>6, <1>7, <1>8
  <2>3. \A k, l \in 1 .. Size(LatestLoc)' : k < l => LatestId(k)' < LatestId(l)'
    <3> SUFFICES ASSUME NEW k \in 1 .. Size(LatestLoc)', NEW l \in 1 .. Size(LatestLoc)', k < l
                 PROVE  LatestId(k)' < LatestId(l)'
      BY Zenon
    <3>1. k \in 1 .. Size(LatestLoc)
      BY <1>2
    <3>2. CASE l = m
      BY <1>5, <1>6, <3>1, <3>2, Zenon
    <3>3. CASE l \in 1 .. Size(LatestLoc)
      BY <1>6, <3>1, <3>3, Zenon DEF LatestOK
    <3> QED BY <1>2, <3>2, <3>3
  <2>4. LatestId(Size(LatestLoc))' = begins
    BY <1>2, <1>5, Zenon
  <2> QED BY <1>1, <1>9, <1>10, <2>1, <2>2, <2>3, <2>4 DEF LatestOK

\* What a message of header.notify carries stays.
LEMMA NotifySeenStays ==
  ASSUME Contents, Grows, NEW j \in 1 .. Size(NotifyLoc)
  PROVE  \A l \in Locs : /\ Seen(NotifyLoc, j, l)' = Seen(NotifyLoc, j, l)
                         /\ Seen(NotifyLoc, j, l) \in 1 .. Size(l)
BY LocsAre, Zenon DEF Grows, Contents, Carries

\* A step that does not store to header.notify.
LEMMA NotifyFrame ==
  ASSUME Contents, NotifyOK, Grows, noted' = noted, noted \in Seq(Notes),
         Size(NotifyLoc)' = Size(NotifyLoc), wpc' = "retiring" => Size(StateLoc)' >= 2
  PROVE  NotifyOK'
<1>1. ASSUME NEW k \in 1 .. Len(noted) PROVE Tells(k)'
  <2>1. Tells(k) /\ k + 1 \in 1 .. Size(NotifyLoc)
    BY DEF NotifyOK
  <2>2. \A l \in Locs : /\ Seen(NotifyLoc, k + 1, l)' = Seen(NotifyLoc, k + 1, l)
                        /\ Seen(NotifyLoc, k + 1, l) \in 1 .. Size(l)
    BY <2>1, NotifySeenStays, Zenon
  <2> QED BY <2>1, <2>2, LatestIdStays, LocsAre, Zenon DEF Tells
<1> QED BY <1>1, Zenon DEF NotifyOK

\* notify_add: the new value carries the publish, or the retirement.
LEMMA NotifyAdd ==
  ASSUME Contents, NotifyOK, LatestOK, noted \in Seq(Notes), begins \in Nat,
         NEW w, \A l \in Locs : w[l] = Size(l), NEW x, Stored(NotifyLoc, x, w),
         NEW retiring \in BOOLEAN, noted' = Append(noted, [id |-> begins, retired |-> retiring]),
         wpc' # "retiring", retiring => Size(StateLoc) >= 2, ~retiring => wpc = "notify"
  PROVE  NotifyOK'
<1>1. /\ Len(noted) \in Nat /\ Len(noted') = Len(noted) + 1
      /\ \A k \in 1 .. Len(noted) : noted'[k] = noted[k]
      /\ noted'[Len(noted) + 1] = [id |-> begins, retired |-> retiring]
  BY DEF Notes
<1>2. Size(NotifyLoc) \in Nat \ {0} /\ Size(NotifyLoc)' = Size(NotifyLoc) + 1
  BY LocsAre, Zenon DEF Contents, Stored
<1>3. ASSUME NEW k \in 1 .. Len(noted) PROVE Tells(k)'
  <2>1. Tells(k) /\ k + 1 \in 1 .. Size(NotifyLoc)
    BY DEF NotifyOK
  <2>2. \A l \in Locs : /\ Seen(NotifyLoc, k + 1, l)' = Seen(NotifyLoc, k + 1, l)
                        /\ Seen(NotifyLoc, k + 1, l) \in 1 .. Size(l)
    BY <2>1, NotifySeenStays, Zenon DEF Stored
  <2> QED BY <1>1, <2>1, <2>2, LatestIdStays, LocsAre, Zenon DEF Tells, Stored
<1>4. ASSUME NEW k \in Nat, k = Len(noted) + 1 PROVE Tells(k)'
  <2>1. k + 1 = Size(NotifyLoc)'
    BY <1>1, <1>2, <1>4, Zenon DEF NotifyOK
  <2>2. /\ Seen(NotifyLoc, k + 1, StateLoc)' = Size(StateLoc)
        /\ Seen(NotifyLoc, k + 1, LatestLoc)' = Size(LatestLoc)
    BY <2>1, LocsAre, LocsDiffer, Zenon DEF Stored
  <2>3. ~retiring => LatestId(Size(LatestLoc)) = begins /\ begins > 0
    BY Zenon DEF LatestOK
  <2>4. \A m \in 1 .. Size(LatestLoc) : LatestId(m)' = LatestId(m)
    BY LatestIdStays, Zenon DEF Stored
  <2>5. Size(LatestLoc) \in 1 .. Size(LatestLoc)
    BY LocsAre DEF Contents
  <2>6. LatestId(Seen(NotifyLoc, k + 1, LatestLoc))' = LatestId(Size(LatestLoc))
    BY <2>2, <2>4, <2>5, Zenon
  <2> QED BY <1>1, <1>4, <2>2, <2>3, <2>6 DEF Tells
<1> QED BY <1>1, <1>2, <1>3, <1>4 DEF NotifyOK

-----------------------------------------------------------------------------
(* The steps of the writer. *)

\* What the reader needs to know of a step of the writer.
NotedGrows == Len(noted') >= Len(noted) /\ \A k \in 1 .. Len(noted) : noted'[k] = noted[k]
Keeps == WriterInv' /\ Grows /\ NotedGrows

\* The writer's view of its own stores.
LEMMA NowBounded ==
  ASSUME MemTypes, Contents PROVE Now \in Views /\ Bounded(Now) /\ \A l \in Locs : Now[l] = Size(l)
BY DEF MemTypes, Contents, Now, Views, Bounded, Size

\* The slots that a store at l does not belong to.
LEMMA OtherSlots ==
  ASSUME Contents, NEW l \in Locs, NEW x, NEW w, Stored(l, x, w), NEW s \in Slots, SlotOK(s),
         l \notin {SeqLoc(s), InfoLoc(s), DataLoc(s)}
  PROVE  SlotOK(s)'
<1>1. Grows /\ \A k \in {SeqLoc(s), InfoLoc(s), DataLoc(s)} : Size(k)' = Size(k)
  BY LocsAre, Zenon DEF Stored
<1> QED BY <1>1, SlotFrame, Zenon

\* The slot behind the latest is another one, if there are two.
LEMMA NextSlot ==
  ASSUME NEW s \in Slots
  PROVE  (s + 1) % slot_count \in Slots /\ (s + 1) % slot_count # s
<1>1. slot_count \in Nat /\ slot_count >= 2
  BY OrderAssumption
<1>2. CASE s + 1 < slot_count
  <2>1. (s + 1) % slot_count = s + 1
    BY <1>1, <1>2 DEF Slots
  <2> QED BY <1>1, <1>2, <2>1 DEF Slots
<1>3. CASE s + 1 = slot_count
  <2>1. (s + 1) % slot_count = 0
    BY <1>1, <1>3 DEF Slots
  <2> QED BY <1>1, <1>3, <2>1 DEF Slots
<1> QED BY <1>1, <1>2, <1>3 DEF Slots

\* begin_slot keeps the invariant.
LEMMA BeginKeeps == ASSUME WriterInv, begin_slot PROVE Keeps
<1> DEFINE i0 == IF wlatest = NONE THEN 0 ELSE (wlatest.slot + 1) % slot_count
<1>1. i0 \in Slots /\ (wlatest = NONE \/ i0 # wlatest.slot)
  <2>1. 0 \in Slots
    BY OrderAssumption DEF Slots
  <2>2. wlatest.slot \in Slots
    BY Zenon DEF WriterInv, WriterTypes, Words
  <2> QED BY <2>1, <2>2, NextSlot, Zenon
<1> HIDE DEF i0
<1> PICK i \in Slots : i = i0
  BY <1>1, Zenon
<1> DEFINE q0 == Top(SeqLoc(i)) - (Top(SeqLoc(i)) % 2)
<1>2. /\ q0 \in Nat /\ q0 % 2 = 0 /\ Top(SeqLoc(i)) \in {q0, q0 + 1}
  <2>1. Top(SeqLoc(i)) \in Nat
    BY LocsAre DEF WriterInv, Contents, Top
  <2> QED BY <2>1
<1> HIDE DEF q0
<1> PICK q \in Nat : q = q0
  BY <1>2, Zenon
<1>3. /\ wpc = "idle" /\ wpc' = "data" /\ begins' = begins + 1
      /\ Append1(SeqLoc(i), q + 1, rel)
      /\ rel' = [Now EXCEPT ![SeqLoc(i)] = @ + 1]
      /\ open_slot' = i /\ open_seq' = q
      /\ wlatest' = wlatest /\ noted' = noted
  BY Zenon DEF begin_slot, StoreRelaxed, SeqLoc, Last, Top, Val, Size, i0, q0
<1>4. /\ MemTypes /\ WriterTypes /\ Bounded(rel) /\ Contents /\ OpenOK /\ LatestOK /\ NotifyOK
      /\ \A s \in Slots : SlotOK(s)
  BY Zenon DEF WriterInv
<1>5. MemTypes' /\ Stored(SeqLoc(i), q + 1, rel)
  <2>1. q + 1 \in Nat
    OBVIOUS
  <2>2. q + 1 \in Values /\ rel \in Views
    BY <1>4, <2>1, Zenon DEF Values, WriterTypes
  <2> QED BY <1>3, <1>4, <2>2, AppendStores, LocsAre, Zenon
<1>6. Grows
  BY <1>5, Zenon DEF Stored
<1>7. Contents'
  BY <1>4, <1>5, StoreContents, LocsAre, LocsDiffer
<1>8. rel' \in Views /\ \A l \in Locs : rel'[l] = Size(l)'
  <2>1. Now \in Views /\ \A l \in Locs : Now[l] = Size(l) /\ Size(l) \in Nat
    BY <1>4, NowBounded, Zenon DEF Contents
  <2>2. /\ \A l \in Locs : rel'[l] = IF l = SeqLoc(i) THEN Size(l) + 1 ELSE Size(l)
        /\ rel' \in Views
    BY <1>3, <2>1, LocsAre DEF Views
  <2> QED BY <1>5, <2>2, Zenon DEF Stored
<1>9. Bounded(rel)'
  BY <1>7, <1>8 DEF Bounded, Contents
<1>10. WriterTypes'
  BY <1>3, <1>4, <1>8 DEF WriterTypes, Words, Views
<1>11. ASSUME NEW s \in Slots PROVE SlotOK(s)'
  <2>1. CASE s = i
    BY <1>2, <1>4, <1>5, <2>1, SlotBegin, Zenon
  <2>2. CASE s # i
    BY <1>4, <1>5, <2>2, OtherSlots, LocsAre, LocsDiffer
  <2> QED BY <2>1, <2>2, Zenon
<1>12. OpenOK'
  <2>1. Top(SeqLoc(i))' = q + 1
    BY <1>5, Zenon DEF Stored
  <2> QED BY <1>1, <1>2, <1>3, <1>8, <2>1, LocsAre, Zenon DEF OpenOK, NONE
<1>13. LatestOK'
  <2>1. /\ wlatest \in Words /\ Size(LatestLoc)' = Size(LatestLoc)
        /\ \A s \in Slots : /\ s # i => Size(SeqLoc(s))' = Size(SeqLoc(s))
                            /\ Size(InfoLoc(s))' = Size(InfoLoc(s))
    BY <1>4, <1>5, LocsAre, LocsDiffer, Zenon DEF Stored, WriterTypes
  <2>2. wlatest # NONE => wlatest.slot \in Slots /\ wlatest.slot # i
    BY <1>1, <2>1, Zenon DEF Words
  <2>3. begins \in Nat /\ LatestId(Size(LatestLoc)) \in Nat /\ LatestId(Size(LatestLoc)) <= begins
    BY <1>4, LocsAre DEF WriterTypes, LatestOK, Contents
  <2> QED BY <1>3, <1>4, <1>6, <2>1, <2>2, <2>3, LatestFrame
<1>14. NotifyOK'
  <2>1. Size(NotifyLoc)' = Size(NotifyLoc)
    BY <1>5, LocsAre, LocsDiffer, Zenon DEF Stored
  <2> QED BY <1>3, <1>4, <1>6, <2>1, NotifyFrame, Zenon DEF WriterTypes
<1>15. NotedGrows
  BY <1>3, <1>4 DEF NotedGrows, WriterTypes
<1> QED BY <1>5, <1>6, <1>7, <1>9, <1>10, <1>11, <1>12, <1>13, <1>14, <1>15,
           Zenon DEF Keeps, WriterInv, Slots

\* A relaxed store to the header or the payload of the open slot.
LEMMA FillKeeps ==
  ASSUME WriterInv, NEW l \in {InfoLoc(open_slot), DataLoc(open_slot)}, StoreRelaxed(l, begins),
         wpc \in {"data", "info"}, wpc' \in {"info", "seq"},
         wpc' = "info" => l = DataLoc(open_slot),
         wpc' = "seq" => wpc = "info" /\ l = InfoLoc(open_slot),
         UNCHANGED <<rel, wlatest, open_slot, open_seq, begins, noted>>
  PROVE  Keeps
<1>1. /\ MemTypes /\ WriterTypes /\ Bounded(rel) /\ Contents /\ OpenOK /\ LatestOK /\ NotifyOK
      /\ \A s \in Slots : SlotOK(s)
  BY Zenon DEF WriterInv
<1>2. open_slot \in Slots
  BY <1>1, Zenon DEF WriterTypes
<1> PICK i \in Slots : i = open_slot
  BY <1>2, Zenon
<1>3. MemTypes' /\ Stored(l, begins, rel)
  <2>1. begins \in Values /\ rel \in Views /\ l \in Locs
    BY <1>1, LocsAre, Zenon DEF Values, WriterTypes
  <2> QED BY <1>1, <2>1, AppendStores, Zenon DEF StoreRelaxed
<1>4. Grows
  BY <1>3, Zenon DEF Stored
<1>5. Contents'
  BY <1>1, <1>3, StoreContents, LocsAre, LocsDiffer DEF WriterTypes
<1>6. Bounded(rel)'
  <2>1. \A k \in Locs : Size(k) \in Nat /\ Size(k)' \in Nat /\ Size(k)' >= Size(k)
    BY <1>1, <1>4, Zenon DEF Contents, Grows
  <2> QED BY <1>1, <2>1 DEF Bounded
<1>7. WriterTypes'
  BY <1>1, Zenon DEF WriterTypes, Words, Views
<1>8. /\ open_seq \in Nat /\ open_seq % 2 = 0
      /\ Top(SeqLoc(i)) = open_seq + 1
      /\ rel[SeqLoc(i)] = Size(SeqLoc(i))
      /\ wlatest = NONE \/ i # wlatest.slot
  BY <1>1, Zenon DEF OpenOK, WriterTypes
<1>9. ASSUME NEW s \in Slots PROVE SlotOK(s)'
  <2>1. CASE s = i
    BY <1>1, <1>3, <1>8, <2>1, SlotStore, Zenon
  <2>2. CASE s # i
    BY <1>1, <1>3, <2>2, OtherSlots, LocsAre, LocsDiffer
  <2> QED BY <2>1, <2>2, Zenon
<1>10. OpenOK'
  <2>1. /\ Size(SeqLoc(i))' = Size(SeqLoc(i)) /\ Size(SeqLoc(i)) \in Nat \ {0}
        /\ Top(SeqLoc(i))' = Top(SeqLoc(i))
    BY <1>1, <1>3, LocsAre, LocsDiffer DEF Stored, Grows, Contents, Top
  <2>2. Top(l)' = begins
    BY <1>3, Zenon DEF Stored
  <2>3. wpc' = "seq" => Top(DataLoc(i))' = begins
    <3>1. wpc' = "seq" => Top(DataLoc(i)) = begins /\ Size(DataLoc(i))' = Size(DataLoc(i))
      BY <1>1, <1>3, LocsAre, LocsDiffer, Zenon DEF OpenOK, Stored
    <3>2. Size(DataLoc(i)) \in Nat \ {0} /\ DataLoc(i) \in Locs
      BY <1>1, LocsAre, Zenon DEF Contents
    <3>3. Size(DataLoc(i)) \in 1 .. Size(DataLoc(i))
      BY <3>2
    <3>4. mem'[DataLoc(i)][Size(DataLoc(i))].val = Top(DataLoc(i))
      BY <1>4, <3>2, <3>3, Zenon DEF Grows, Top, Val
    <3> QED BY <3>1, <3>4, Zenon DEF Top, Val, DataLoc
  <2> QED BY <1>8, <2>1, <2>2, <2>3, Zenon DEF OpenOK, NONE
<1>11. LatestOK'
  <2>1. /\ wlatest \in Words /\ Size(LatestLoc)' = Size(LatestLoc)
        /\ \A s \in Slots : /\ Size(SeqLoc(s))' = Size(SeqLoc(s))
                            /\ s # i => Size(InfoLoc(s))' = Size(InfoLoc(s))
    BY <1>1, <1>3, LocsAre, LocsDiffer, Zenon DEF Stored, WriterTypes
  <2>2. wlatest # NONE => wlatest.slot \in Slots /\ wlatest.slot # i
    BY <1>8, <2>1, Zenon DEF Words
  <2>3. begins \in Nat /\ LatestId(Size(LatestLoc)) < begins
    BY <1>1, Zenon DEF WriterTypes, LatestOK
  <2> QED BY <1>1, <1>4, <2>1, <2>2, <2>3, LatestFrame
<1>12. NotifyOK'
  <2>1. Size(NotifyLoc)' = Size(NotifyLoc)
    BY <1>3, LocsAre, LocsDiffer, Zenon DEF Stored
  <2> QED BY <1>1, <1>4, <2>1, NotifyFrame, Zenon DEF WriterTypes
<1>13. NotedGrows
  BY <1>1 DEF NotedGrows, WriterTypes
<1> QED BY <1>3, <1>4, <1>5, <1>6, <1>7, <1>9, <1>10, <1>11, <1>12, <1>13,
           Zenon DEF Keeps, WriterInv, Slots

\* commit_slot stores the even counter.
LEMMA CommitSeqKeeps == ASSUME WriterInv, commit_seq PROVE Keeps
<1>1. /\ MemTypes /\ WriterTypes /\ Bounded(rel) /\ Contents /\ OpenOK /\ LatestOK /\ NotifyOK
      /\ \A s \in Slots : SlotOK(s)
  BY Zenon DEF WriterInv
<1>2. open_slot \in Slots
  BY <1>1, Zenon DEF WriterTypes
<1> PICK i \in Slots : i = open_slot
  BY <1>2, Zenon
<1>3. /\ wpc = "seq" /\ wpc' = "latest"
      /\ Append1(SeqLoc(i), open_seq + 2, Now)
      /\ UNCHANGED <<rel, wlatest, open_slot, open_seq, begins, noted>>
  BY Zenon DEF commit_seq, StoreRelease, SeqLoc
<1>4. Now \in Views /\ Bounded(Now) /\ \A l \in Locs : Now[l] = Size(l)
  BY <1>1, NowBounded, Zenon
<1>5. open_seq \in Nat /\ open_seq + 2 \in Nat
  BY <1>1 DEF WriterTypes
<1>6. MemTypes' /\ Stored(SeqLoc(i), open_seq + 2, Now)
  <2>1. open_seq + 2 \in Values
    BY <1>5, Zenon DEF Values
  <2> QED BY <1>1, <1>3, <1>4, <2>1, AppendStores, LocsAre, Zenon
<1>7. Grows
  BY <1>6, Zenon DEF Stored
<1>8. Contents'
  BY <1>1, <1>4, <1>5, <1>6, StoreContents, LocsAre, LocsDiffer, Zenon
<1>9. Bounded(rel)'
  <2>1. \A k \in Locs : Size(k) \in Nat /\ Size(k)' \in Nat /\ Size(k)' >= Size(k)
    BY <1>1, <1>7, Zenon DEF Contents, Grows
  <2> QED BY <1>1, <1>3, <2>1 DEF Bounded
<1>10. WriterTypes'
  BY <1>1, <1>3, Zenon DEF WriterTypes, Words, Views
<1>11. /\ open_seq % 2 = 0
       /\ Top(SeqLoc(i)) = open_seq + 1
       /\ Top(InfoLoc(i)) = begins /\ Top(DataLoc(i)) = begins
       /\ wlatest = NONE \/ i # wlatest.slot
  BY <1>1, <1>3, Zenon DEF OpenOK
<1>12. ASSUME NEW s \in Slots PROVE SlotOK(s)'
  <2>1. CASE s = i
    BY <1>1, <1>4, <1>5, <1>6, <1>11, <2>1, SlotCommit, Zenon
  <2>2. CASE s # i
    BY <1>1, <1>6, <2>2, OtherSlots, LocsAre, LocsDiffer
  <2> QED BY <2>1, <2>2, Zenon
<1>13. OpenOK'
  <2>1. /\ Size(InfoLoc(i))' = Size(InfoLoc(i)) /\ Size(InfoLoc(i)) \in Nat \ {0}
        /\ Top(InfoLoc(i))' = Top(InfoLoc(i))
    BY <1>1, <1>6, LocsAre, LocsDiffer DEF Stored, Grows, Contents, Top
  <2>2. /\ Top(SeqLoc(i))' = open_seq + 2
        /\ Seen(SeqLoc(i), Size(SeqLoc(i)), InfoLoc(i))' = Size(InfoLoc(i))
    BY <1>4, <1>6, LocsAre, LocsDiffer, Zenon DEF Stored
  <2> QED BY <1>3, <1>11, <2>1, <2>2, Zenon DEF OpenOK, NONE
<1>14. LatestOK'
  <2>1. /\ wlatest \in Words /\ Size(LatestLoc)' = Size(LatestLoc)
        /\ \A s \in Slots : /\ s # i => Size(SeqLoc(s))' = Size(SeqLoc(s))
                            /\ Size(InfoLoc(s))' = Size(InfoLoc(s))
    BY <1>1, <1>6, LocsAre, LocsDiffer, Zenon DEF Stored, WriterTypes
  <2>2. wlatest # NONE => wlatest.slot \in Slots /\ wlatest.slot # i
    BY <1>11, <2>1, Zenon DEF Words
  <2>3. begins \in Nat /\ LatestId(Size(LatestLoc)) < begins
    BY <1>1, <1>3, Zenon DEF WriterTypes, LatestOK
  <2> QED BY <1>1, <1>3, <1>7, <2>1, <2>2, <2>3, LatestFrame
<1>15. NotifyOK'
  <2>1. Size(NotifyLoc)' = Size(NotifyLoc)
    BY <1>6, LocsAre, LocsDiffer, Zenon DEF Stored
  <2> QED BY <1>1, <1>3, <1>7, <2>1, NotifyFrame, Zenon DEF WriterTypes
<1>16. NotedGrows
  BY <1>1, <1>3 DEF NotedGrows, WriterTypes
<1> QED BY <1>6, <1>7, <1>8, <1>9, <1>10, <1>12, <1>13, <1>14, <1>15, <1>16,
           Zenon DEF Keeps, WriterInv, Slots

\* commit_slot stores header.latest.
LEMMA CommitLatestKeeps == ASSUME WriterInv, commit_latest PROVE Keeps
<1>1. /\ MemTypes /\ WriterTypes /\ Bounded(rel) /\ Contents /\ OpenOK /\ LatestOK /\ NotifyOK
      /\ \A s \in Slots : SlotOK(s)
  BY Zenon DEF WriterInv
<1>2. /\ wpc = "latest" /\ wpc' = "notify"
      /\ wlatest' = [slot |-> open_slot, seq |-> open_seq + 2]
      /\ Append1(LatestLoc, wlatest', Now)
      /\ open_slot' = 0 /\ open_seq' = 0
      /\ UNCHANGED <<rel, begins, noted>>
  BY Zenon DEF commit_latest, StoreRelease, LatestLoc
<1>3. Now \in Views /\ Bounded(Now) /\ \A l \in Locs : Now[l] = Size(l)
  BY <1>1, NowBounded, Zenon
<1>4. wlatest' \in Words
  BY <1>1, <1>2 DEF WriterTypes, Words
<1> PICK x \in Words : x = wlatest'
  BY <1>4, Zenon
<1>5. MemTypes' /\ Stored(LatestLoc, x, Now)
  <2>1. x \in Values
    BY Zenon DEF Values
  <2> QED BY <1>1, <1>2, <1>3, <2>1, AppendStores, LocsAre, Zenon
<1>6. Grows
  BY <1>5, Zenon DEF Stored
<1>7. Contents'
  BY <1>1, <1>3, <1>5, StoreContents, LocsAre, LocsDiffer, Zenon
<1>8. Bounded(rel)'
  <2>1. \A k \in Locs : Size(k) \in Nat /\ Size(k)' \in Nat /\ Size(k)' >= Size(k)
    BY <1>1, <1>6, Zenon DEF Contents, Grows
  <2> QED BY <1>1, <1>2, <2>1 DEF Bounded
<1>9. WriterTypes'
  <2>1. 0 \in Slots
    BY OrderAssumption DEF Slots
  <2>2. Words' = Words /\ Slots' = Slots /\ Views' = Views
    BY Zenon DEF Words, Slots, Views
  <2> QED BY <1>1, <1>2, <1>4, <2>1, <2>2, Zenon DEF WriterTypes
<1>10. \A s \in Slots : SlotOK(s)'
  BY <1>1, <1>5, OtherSlots, LocsAre, LocsDiffer, Zenon
<1>11. OpenOK'
  BY <1>2, Zenon DEF OpenOK
<1>12. LatestOK'
  BY <1>1, <1>2, <1>3, <1>5, LatestCommit, Zenon
<1>13. NotifyOK'
  <2>1. Size(NotifyLoc)' = Size(NotifyLoc)
    BY <1>5, LocsAre, LocsDiffer, Zenon DEF Stored
  <2> QED BY <1>1, <1>2, <1>6, <2>1, NotifyFrame, Zenon DEF WriterTypes
<1>14. NotedGrows
  BY <1>1, <1>2 DEF NotedGrows, WriterTypes
<1> QED BY <1>5, <1>6, <1>7, <1>8, <1>9, <1>10, <1>11, <1>12, <1>13, <1>14,
           Zenon DEF Keeps, WriterInv, Slots

\* Between publishes: notify_add of a commit or of retire, and the store of
\* header.state.
LEMMA SignalKeeps ==
  ASSUME WriterInv, NEW l \in {NotifyLoc, StateLoc}, NEW x,
         x = IF l = NotifyLoc THEN Last(NotifyLoc) + 1 ELSE "RETIRED",
         StoreRelease(l, x),
         wpc \in {"idle", "notify", "retiring"},
         wpc' \in {"idle", "retiring", "retired"},
         l = StateLoc => wpc' = "retiring" /\ noted' = noted,
         l = NotifyLoc => /\ wpc' # "retiring"
                          /\ noted' = Append(noted, [id |-> begins, retired |-> (wpc = "retiring")])
                          /\ wpc # "idle",
         UNCHANGED <<rel, wlatest, open_slot, open_seq, begins>>
  PROVE  Keeps
<1>1. /\ MemTypes /\ WriterTypes /\ Bounded(rel) /\ Contents /\ OpenOK /\ LatestOK /\ NotifyOK
      /\ \A s \in Slots : SlotOK(s)
  BY Zenon DEF WriterInv
<1>2. Now \in Views /\ Bounded(Now) /\ \A k \in Locs : Now[k] = Size(k)
  BY <1>1, NowBounded, Zenon
<1>3. l = NotifyLoc => x = Size(NotifyLoc)
  <2>1. Size(NotifyLoc) \in Nat \ {0} /\ Last(NotifyLoc) = Val(NotifyLoc, Size(NotifyLoc))
    BY <1>1, LocsAre, Zenon DEF Contents, Last, Val, Size
  <2>2. Last(NotifyLoc) = Size(NotifyLoc) - 1
    BY <1>1, <2>1 DEF Contents
  <2> QED BY <2>1, <2>2
<1>4. l = StateLoc => x = "RETIRED"
  BY Zenon
<1>5. MemTypes' /\ Stored(l, x, Now)
  <2>1. Size(NotifyLoc) \in Nat
    BY <1>1, LocsAre, Zenon DEF Contents
  <2>2. x \in Values
    BY <1>3, <1>4, <2>1, Zenon DEF Values
  <2> QED BY <1>1, <1>2, <2>2, AppendStores, LocsAre, Zenon DEF StoreRelease
<1>6. Grows
  BY <1>5, Zenon DEF Stored
<1>7. Contents'
  BY <1>1, <1>2, <1>3, <1>4, <1>5, StoreContents, LocsAre, LocsDiffer
<1>8. Bounded(rel)'
  <2>1. \A k \in Locs : Size(k) \in Nat /\ Size(k)' \in Nat /\ Size(k)' >= Size(k)
    BY <1>1, <1>6, Zenon DEF Contents, Grows
  <2> QED BY <1>1, <2>1 DEF Bounded
<1>9. noted' \in Seq(Notes) /\ NotedGrows
  <2>1. noted \in Seq(Notes) /\ begins \in Nat
    BY <1>1, Zenon DEF WriterTypes
  <2>2. CASE l = StateLoc
    BY <2>1, <2>2 DEF NotedGrows
  <2>3. CASE l = NotifyLoc
    <3>1. [id |-> begins, retired |-> (wpc = "retiring")] \in Notes
      BY <2>1, Zenon DEF Notes
    <3>2. noted' = Append(noted, [id |-> begins, retired |-> (wpc = "retiring")])
      BY <2>3, Zenon
    <3> QED BY <2>1, <3>1, <3>2 DEF NotedGrows
  <2> QED BY <2>2, <2>3, Zenon
<1>10. WriterTypes'
  BY <1>1, <1>9, Zenon DEF WriterTypes, Words, Views
<1>11. \A s \in Slots : SlotOK(s)'
  BY <1>1, <1>5, OtherSlots, LocsAre, LocsDiffer
<1>12. OpenOK'
  BY Zenon DEF OpenOK
<1>13. LatestOK'
  <2>1. /\ wlatest \in Words /\ begins \in Nat /\ Size(LatestLoc)' = Size(LatestLoc)
        /\ \A s \in Slots : /\ Size(SeqLoc(s))' = Size(SeqLoc(s))
                            /\ Size(InfoLoc(s))' = Size(InfoLoc(s))
    BY <1>1, <1>5, LocsAre, LocsDiffer, Zenon DEF Stored, WriterTypes
  <2>2. wlatest # NONE => wlatest.slot \in Slots
    BY <2>1, Zenon DEF Words
  <2> QED BY <1>1, <1>6, <2>1, <2>2, LatestFrame
<1>14. NotifyOK'
  <2>1. noted \in Seq(Notes) /\ begins \in Nat
    BY <1>1, Zenon DEF WriterTypes
  <2>2. CASE l = StateLoc
    <3>1. Size(NotifyLoc)' = Size(NotifyLoc) /\ Size(StateLoc)' = Size(StateLoc) + 1 /\ Size(StateLoc) \in Nat \ {0}
      BY <1>1, <1>5, <2>2, LocsAre, Zenon DEF Stored, Contents
    <3> QED BY <1>1, <1>6, <2>1, <2>2, <3>1, NotifyFrame
  <2>3. CASE l = NotifyLoc
    <3>1. PICK r \in BOOLEAN : r = (wpc = "retiring")
      BY Zenon
    <3>2. r => Size(StateLoc) >= 2
      BY <1>1, <3>1, Zenon DEF NotifyOK
    <3>3. ~r => wpc = "notify"
      BY <2>3, <3>1, Zenon
    <3> QED BY <1>1, <1>2, <1>5, <2>1, <2>3, <3>1, <3>2, <3>3, NotifyAdd, Zenon
  <2> QED BY <2>2, <2>3, Zenon
<1> QED BY <1>5, <1>6, <1>7, <1>8, <1>9, <1>10, <1>11, <1>12, <1>13, <1>14,
           Zenon DEF Keeps, WriterInv, Slots

\* Where nothing is stored, the messages are the same.
LEMMA SameMessages ==
  ASSUME mem' = mem
  PROVE  /\ \A l : Size(l)' = Size(l)
         /\ \A l, j : Val(l, j)' = Val(l, j)
         /\ \A l, j, k : Seen(l, j, k)' = Seen(l, j, k)
BY Zenon DEF Size, Val, Seen

\* Where nothing is stored, the contents of the locations are the same.
LEMMA SameContents ==
  ASSUME MemTypes, Contents, mem' = mem
  PROVE  MemTypes' /\ Contents' /\ Grows
<1>1. MemTypes'
  BY Zenon DEF MemTypes
<1>2. Grows
  BY SameMessages DEF Grows, Contents
<1>3. \A l : \A j : Carries(l, j) => Carries(l, j)'
  BY SameMessages, Zenon DEF Carries
<1>4. Contents'
  BY <1>3, SameMessages DEF Contents
<1> QED BY <1>1, <1>2, <1>4, Zenon

\* state_abort leaves the open slot behind.
LEMMA AbortKeeps == ASSUME WriterInv, state_abort PROVE Keeps
<1>1. /\ MemTypes /\ WriterTypes /\ Bounded(rel) /\ Contents /\ OpenOK /\ LatestOK /\ NotifyOK
      /\ \A s \in Slots : SlotOK(s)
  BY Zenon DEF WriterInv
<1>2. /\ mem' = mem /\ wpc' = "idle" /\ open_slot' = 0 /\ open_seq' = 0
      /\ UNCHANGED <<rel, wlatest, begins, noted>>
  BY Zenon DEF state_abort
<1>3. MemTypes' /\ Contents' /\ Grows /\ \A l \in Locs : Size(l)' = Size(l)
  BY <1>1, <1>2, SameContents, SameMessages, Zenon
<1>4. WriterTypes' /\ Bounded(rel)'
  <2>1. 0 \in Slots
    BY OrderAssumption DEF Slots
  <2>2. WriterTypes'
    BY <1>1, <1>2, <2>1, Zenon DEF WriterTypes
  <2> QED BY <1>1, <1>2, <1>3, <2>2, Zenon DEF Bounded
<1>5. \A s \in Slots : SlotOK(s)'
  BY <1>1, <1>3, SlotFrame, LocsAre, Zenon
<1>6. OpenOK'
  BY <1>2, Zenon DEF OpenOK
<1>7. LatestOK'
  <2>1. wlatest \in Words /\ begins \in Nat
    BY <1>1, Zenon DEF WriterTypes
  <2>2. wlatest # NONE => wlatest.slot \in Slots
    BY <2>1, Zenon DEF Words
  <2> QED BY <1>1, <1>2, <1>3, <2>1, <2>2, LatestFrame, LocsAre
<1>8. NotifyOK'
  BY <1>1, <1>2, <1>3, NotifyFrame, LocsAre, Zenon DEF WriterTypes
<1>9. NotedGrows
  BY <1>1, <1>2 DEF NotedGrows, WriterTypes
<1> QED BY <1>3, <1>4, <1>5, <1>6, <1>7, <1>8, <1>9, Zenon DEF Keeps, WriterInv

\* Every step of the writer keeps its part of the invariant, and the messages
\* and notes that there are.
LEMMA WriterKeeps == ASSUME WriterInv, Writer PROVE Keeps
<1>1. CASE begin_slot
  BY <1>1, BeginKeeps, Zenon
<1>2. CASE store_data
  BY <1>2, FillKeeps, Zenon DEF store_data, DataLoc
<1>3. CASE state_abort
  BY <1>3, AbortKeeps, Zenon
<1>4. CASE commit_info
  BY <1>4, FillKeeps, Zenon DEF commit_info, InfoLoc
<1>5. CASE commit_seq
  BY <1>5, CommitSeqKeeps, Zenon
<1>6. CASE commit_latest
  BY <1>6, CommitLatestKeeps, Zenon
<1>7. CASE commit_notify
  <2>1. /\ wpc = "notify" /\ wpc' = "idle"
        /\ StoreRelease(NotifyLoc, Last(NotifyLoc) + 1)
        /\ noted' = Append(noted, [id |-> begins, retired |-> FALSE])
        /\ UNCHANGED <<rel, wlatest, open_slot, open_seq, begins>>
    BY <1>7, Zenon DEF commit_notify, notify_add, NotifyLoc
  <2>2. (wpc = "retiring") = FALSE
    BY <2>1, Zenon
  <2> QED BY <2>1, <2>2, SignalKeeps, LocsAre, LocsDiffer, Zenon
<1>8. CASE retire_state
  <2>1. /\ wpc = "idle" /\ wpc' = "retiring"
        /\ StoreRelease(StateLoc, "RETIRED")
        /\ UNCHANGED <<rel, wlatest, open_slot, open_seq, begins, noted>>
    BY <1>8, Zenon DEF retire_state, StateLoc
  <2> QED BY <2>1, SignalKeeps, LocsAre, LocsDiffer, Zenon
<1>9. CASE retire_notify
  <2>1. /\ wpc = "retiring" /\ wpc' = "retired"
        /\ StoreRelease(NotifyLoc, Last(NotifyLoc) + 1)
        /\ noted' = Append(noted, [id |-> begins, retired |-> TRUE])
        /\ UNCHANGED <<rel, wlatest, open_slot, open_seq, begins>>
    BY <1>9, Zenon DEF retire_notify, notify_add, NotifyLoc
  <2>2. (wpc = "retiring") = TRUE
    BY <2>1, Zenon
  <2> QED BY <2>1, <2>2, SignalKeeps, LocsAre, LocsDiffer, Zenon
<1> QED BY <1>1, <1>2, <1>3, <1>4, <1>5, <1>6, <1>7, <1>8, <1>9, Zenon DEF Writer

-----------------------------------------------------------------------------
(* The reader while the writer steps, and the writer while the reader does. *)

\* A step of the reader leaves the writer's part of the invariant alone.
LEMMA WriterStutters == ASSUME WriterInv, UNCHANGED writerVars PROVE WriterInv'
<1>1. /\ MemTypes /\ WriterTypes /\ Bounded(rel) /\ Contents /\ OpenOK /\ LatestOK /\ NotifyOK
      /\ \A s \in Slots : SlotOK(s)
  BY Zenon DEF WriterInv
<1>2. mem' = mem /\ UNCHANGED <<rel, wpc, wlatest, open_slot, open_seq, begins, noted>>
  BY Zenon DEF writerVars
<1>3. MemTypes' /\ Contents' /\ Grows /\ \A l : Size(l)' = Size(l)
  BY <1>1, <1>2, SameContents, SameMessages, Zenon
<1>4. WriterTypes' /\ Bounded(rel)'
  <2>1. WriterTypes'
    BY <1>1, <1>2, Zenon DEF WriterTypes
  <2> QED BY <1>1, <1>2, <1>3, <2>1, Zenon DEF Bounded
<1>5. \A s \in Slots : SlotOK(s)'
  BY <1>1, <1>3, SlotFrame, Zenon
<1>6. \A m : LatestId(m)' = LatestId(m)
  BY <1>2, SameMessages, Zenon DEF LatestId, SeqId, InfoLoc, SeqLoc
<1>7. OpenOK'
  BY <1>1, <1>2, SameMessages, Zenon DEF OpenOK, Top
<1>8. LatestOK'
  <2>1. \A m : Names(m)' <=> Names(m)
    BY <1>2, SameMessages, Zenon DEF Names
  <2>2. Untouched'
    <3>1. Untouched
      BY <1>1, Zenon DEF LatestOK
    <3> QED BY <1>2, <3>1, Zenon DEF Untouched, Size, Seen, LatestLoc, SeqLoc, InfoLoc
  <2> QED BY <1>1, <1>2, <1>3, <1>6, <2>1, <2>2, SameMessages, Zenon DEF LatestOK, Top
<1>9. NotifyOK'
  BY <1>1, <1>2, <1>3, NotifyFrame, Zenon DEF WriterTypes, NotifyOK
<1> QED BY <1>3, <1>4, <1>5, <1>7, <1>8, <1>9, Zenon DEF WriterInv

\* A later message of header.latest names a publish that is not older.
LEMMA LatestGrows ==
  ASSUME WriterInv, NEW l \in 1 .. Size(LatestLoc), NEW m \in 1 .. Size(LatestLoc), l <= m
  PROVE  LatestId(l) \in Nat /\ LatestId(m) \in Nat /\ LatestId(l) <= LatestId(m)
BY DEF WriterInv, LatestOK, Contents

\* A step of the writer keeps what the reader knows.
LEMMA ReaderStutters == ASSUME Inv, Keeps, UNCHANGED readerVars PROVE ReaderInv'
<1>1. /\ WriterInv /\ Contents /\ Contents' /\ WriterInv' /\ Grows /\ NotedGrows
      /\ ReaderTypes /\ Bounded(view) /\ Bounded(acq) /\ ReadOK /\ WaitOK
  BY Zenon DEF Inv, ReaderInv, Keeps, WriterInv
<1>2. UNCHANGED <<view, acq, rpc, op, tries, n, latest, q1, info, data, got, busy>>
  BY Zenon DEF readerVars, localVars
<1>3. \A l \in Locs : Size(l) \in Nat \ {0} /\ Size(l)' \in Nat \ {0} /\ Size(l)' >= Size(l)
  BY <1>1, Zenon DEF Contents, Grows
<1>4. ReaderTypes' /\ Bounded(view)' /\ Bounded(acq)'
  <2>1. ReaderTypes'
    BY <1>1, <1>2, Zenon DEF ReaderTypes
  <2> QED BY <1>1, <1>2, <1>3, <2>1, Positions, Zenon DEF Bounded
<1>5. \A m \in 1 .. Size(LatestLoc) : LatestId(m)' = LatestId(m)
  BY <1>1, LatestIdStays, Zenon
<1>6. view[LatestLoc] \in 1 .. Size(LatestLoc)
  BY <1>1, LocsAre, Zenon DEF Bounded
<1>7. LatestId(view[LatestLoc])' = LatestId(view[LatestLoc])
  BY <1>2, <1>5, <1>6, Zenon
<1>8. /\ Len(noted) \in Nat /\ Len(noted') \in Nat /\ n \in Nat
      /\ n > 0 => noted'[n] = noted[n] /\ noted[n].id \in Nat
  <2>1. /\ noted \in Seq(Notes) /\ noted' \in Seq(Notes)
        /\ n \in Nat /\ n <= Len(noted)
    BY <1>1, Zenon DEF WriterInv, WriterTypes, ReaderTypes, WaitOK
  <2>2. n > 0 => n \in 1 .. Len(noted)
    BY <2>1
  <2>3. \A k \in 1 .. Len(noted) : noted[k] \in Notes
    BY <2>1
  <2>4. n > 0 => noted[n].id \in Nat
    BY <2>2, <2>3, Zenon DEF Notes
  <2> QED BY <1>1, <2>1, <2>2, <2>4 DEF NotedGrows
<1>10. ASSUME NEW m \in 1 .. view[LatestLoc], Attempt(m), rpc \in {"seq", "info", "data", "recheck"}
       PROVE  Attempt(m)'
  <2>1. latest.slot \in Slots /\ m \in 1 .. Size(LatestLoc) /\ Val(LatestLoc, m)' = Val(LatestLoc, m)
    <3>1. latest.slot \in Slots
      BY <1>1, Zenon DEF ReaderTypes, Words
    <3>2. m \in 1 .. Size(LatestLoc)
      BY <1>3, <1>6, LocsAre, Positions, Zenon
    <3>3. Val(LatestLoc, m)' = Val(LatestLoc, m)
      BY <1>1, <3>2, LocsAre, Zenon DEF Grows
    <3> QED BY <3>1, <3>2, <3>3, Zenon
  <2> PICK s \in Slots : s = latest.slot
    BY <2>1, Zenon
  <2>2. /\ Seen(LatestLoc, m, SeqLoc(s))' = Seen(LatestLoc, m, SeqLoc(s))
        /\ Seen(LatestLoc, m, SeqLoc(s)) \in 1 .. Size(SeqLoc(s))
    BY <1>1, <2>1, LocsAre DEF Grows, Contents, Carries
  <2> PICK j \in 1 .. Size(SeqLoc(s)) : j = Seen(LatestLoc, m, SeqLoc(s))
    BY <2>2, Zenon
  <2>3. \A l \in Locs : Seen(SeqLoc(s), j, l)' = Seen(SeqLoc(s), j, l)
    BY <1>1, LocsAre, Zenon DEF Grows
  <2>4. LatestId(m)' = LatestId(m) /\ LatestId(m) \in Nat
    BY <1>1, <1>5, <2>1, LatestGrows
  <2>5. ToldAtMost(LatestId(m)) => ToldAtMost(LatestId(m))'
    BY <1>2, <1>8, <2>4, Zenon DEF ToldAtMost
  <2> QED BY <1>2, <1>10, <2>1, <2>2, <2>3, <2>4, <2>5, LocsAre, Zenon DEF Attempt
<1>11. ReadOK'
  BY <1>1, <1>2, <1>7, <1>10, Zenon DEF ReadOK
<1>12. LatestId(Size(LatestLoc)) \in Nat /\ LatestId(Size(LatestLoc))' \in Nat
       /\ LatestId(Size(LatestLoc)) <= LatestId(Size(LatestLoc))'
  <2>1. Size(LatestLoc) \in 1 .. Size(LatestLoc)' /\ Size(LatestLoc)' \in 1 .. Size(LatestLoc)'
    BY <1>3, LocsAre
  <2>2. \A l, m \in 1 .. Size(LatestLoc)' : l <= m => /\ LatestId(l)' \in Nat /\ LatestId(m)' \in Nat
                                                     /\ LatestId(l)' <= LatestId(m)'
    BY <1>1 DEF WriterInv, LatestOK
  <2>3. PICK z \in 1 .. Size(LatestLoc) : z = Size(LatestLoc)
    BY <1>3, LocsAre
  <2>4. LatestId(z)' = LatestId(z)
    BY <1>5, Zenon
  <2>5. LatestId(z)' \in Nat /\ LatestId(Size(LatestLoc))' \in Nat /\ LatestId(z)' <= LatestId(Size(LatestLoc))'
    BY <2>1, <2>2, <2>3
  <2> QED BY <2>3, <2>4, <2>5, Zenon
<1>13. WaitOK'
  <2>1. n' <= Len(noted')
    BY <1>1, <1>2, <1>8, GeqTrans, Zenon DEF WaitOK, NotedGrows
  <2>2. rpc \in {"futex", "asleep"} =>
          ToldAtMost(got.info)' \/ (busy' /\ ToldBelow(LatestId(Size(LatestLoc)))')
    <3>1. ToldAtMost(got.info) => ToldAtMost(got.info)'
      BY <1>2, <1>8, Zenon DEF ToldAtMost
    <3>2. ToldBelow(LatestId(Size(LatestLoc))) => ToldBelow(LatestId(Size(LatestLoc)))'
      BY <1>2, <1>8, <1>12, GeqTrans, Zenon DEF ToldBelow
    <3> QED BY <1>1, <1>2, <3>1, <3>2, Zenon DEF WaitOK
  <2>3. rpc = "latest" /\ op = "wait" => ToldAtMost(LatestId(view[LatestLoc]))'
    BY <1>1, <1>2, <1>7, <1>8, Zenon DEF WaitOK, ToldAtMost
  <2>4. rpc = "state" /\ n > 0 =>
          IF noted'[n].retired THEN view[StateLoc] >= 2
          ELSE noted'[n].id > 0 /\ noted'[n].id <= LatestId(view[LatestLoc])'
    BY <1>1, <1>7, <1>8, Zenon DEF WaitOK
  <2>5. rpc \in {"notify", "state", "futex", "asleep"} => op = "wait"
    BY <1>1, Zenon DEF WaitOK
  <2> QED BY <1>2, <2>1, <2>2, <2>3, <2>4, <2>5, Zenon DEF WaitOK
<1> QED BY <1>4, <1>11, <1>13, Zenon DEF ReaderInv

-----------------------------------------------------------------------------
(* The loads of the reader. *)

\* The load of message j of l brings what the message carries, at once or at
\* the next fence.
Loads(l, j) ==
  /\ view' \in Views /\ acq' \in Views
  /\ Bounded(view') /\ Bounded(acq')
  /\ j >= view[l] /\ view'[l] = j
  /\ \A k \in Locs : /\ view'[k] >= view[k] /\ acq'[k] >= acq[k]
                     /\ acq'[k] >= Seen(l, j, k)

\* Join takes the later message of each location.
LEMMA JoinIs ==
  ASSUME NEW v \in Views, NEW w \in Views
  PROVE  /\ Join(v, w) \in Views
         /\ \A l \in Locs : Join(v, w)[l] \in {v[l], w[l]} /\ Join(v, w)[l] >= v[l] /\ Join(v, w)[l] >= w[l]
BY DEF Join, Views

\* The view that a message carries.
LEMMA MessageView ==
  ASSUME MemTypes, Contents, NEW l \in Locs, NEW j \in 1 .. Size(l)
  PROVE  /\ mem[l][j].view \in Views /\ Bounded(mem[l][j].view)
         /\ \A k \in Locs : mem[l][j].view[k] = Seen(l, j, k)
         /\ Seen(l, j, l) = j
<1>1. mem[l] \in Seq(Messages) /\ j \in 1 .. Len(mem[l])
  BY Zenon DEF MemTypes, Size
<1>2. mem[l][j] \in Messages
  BY <1>1
<1> QED BY <1>2, Zenon DEF Messages, Contents, Carries, Bounded, Seen

\* An acquire load.
LEMMA AcquireLoads ==
  ASSUME MemTypes, Contents, ReaderTypes, Bounded(view), Bounded(acq),
         NEW l \in Locs, NEW j \in 1 .. Size(l), load_acquire(l, j)
  PROVE  Loads(l, j) /\ \A k \in Locs : view'[k] >= Seen(l, j, k)
<1> PICK m \in Views : m = mem[l][j].view
  BY MessageView, Zenon
<1>1. Bounded(m) /\ m[l] = j /\ \A k \in Locs : m[k] = Seen(l, j, k)
  BY MessageView, Zenon
<1>2. view' = Join(view, m) /\ acq' = Join(acq, m) /\ j >= view[l] /\ view \in Views /\ acq \in Views
  BY DEF load_acquire, Readable, ReaderTypes, Bounded
<1>3. /\ view' \in Views /\ acq' \in Views
      /\ \A k \in Locs : /\ view'[k] \in {view[k], m[k]} /\ view'[k] >= view[k] /\ view'[k] >= m[k]
                         /\ acq'[k] \in {acq[k], m[k]} /\ acq'[k] >= acq[k] /\ acq'[k] >= m[k]
  BY <1>2, JoinIs, Zenon
<1>4. Bounded(view') /\ Bounded(acq')
  BY <1>1, <1>3, Zenon DEF Bounded
<1>5. view'[l] = j
  BY <1>1, <1>2, <1>3 DEF Views
<1> QED BY <1>1, <1>2, <1>3, <1>4, <1>5, Zenon DEF Loads

\* A load of the racing copy.
LEMMA CopyLoads ==
  ASSUME MemTypes, Contents, ReaderTypes, Bounded(view), Bounded(acq),
         NEW l \in Locs, NEW j \in 1 .. Size(l), load_copy(l, j)
  PROVE  Loads(l, j)
<1> PICK m \in Views : m = mem[l][j].view
  BY MessageView, Zenon
<1>1. Bounded(m) /\ \A k \in Locs : m[k] = Seen(l, j, k)
  BY MessageView, Zenon
<1>2. view' = [view EXCEPT ![l] = j] /\ acq' = Join(acq, m) /\ j >= view[l] /\ view \in Views /\ acq \in Views
  BY DEF load_copy, Readable, ReaderTypes, Bounded
<1>3. /\ acq' \in Views
      /\ \A k \in Locs : acq'[k] \in {acq[k], m[k]} /\ acq'[k] >= acq[k] /\ acq'[k] >= m[k]
  BY <1>2, JoinIs, Zenon
<1>4. /\ view' \in Views
      /\ \A k \in Locs : view'[k] = IF k = l THEN j ELSE view[k]
  BY <1>2, Positions, Zenon DEF Views
<1>5. Bounded(view') /\ Bounded(acq')
  BY <1>1, <1>3, <1>4, Zenon DEF Bounded
<1>6. \A k \in Locs : view'[k] >= view[k]
  BY <1>2, <1>4 DEF Views
<1> QED BY <1>1, <1>2, <1>3, <1>4, <1>5, <1>6, Zenon DEF Loads

\* The fence and the load after it.
LEMMA FenceLoads ==
  ASSUME MemTypes, Contents, ReaderTypes, Bounded(view), Bounded(acq),
         NEW l \in Locs, NEW j \in 1 .. Size(l), j \in Readable(l, Join(view, acq)),
         view' = [Join(view, acq) EXCEPT ![l] = j], acq' = Join(acq, mem[l][j].view)
  PROVE  Loads(l, j) /\ j >= acq[l]
<1> PICK m \in Views : m = mem[l][j].view
  BY MessageView, Zenon
<1>1. Bounded(m) /\ \A k \in Locs : m[k] = Seen(l, j, k)
  BY MessageView, Zenon
<1>2. view \in Views /\ acq \in Views
  BY Zenon DEF ReaderTypes
<1> PICK f \in Views : f = Join(view, acq)
  BY <1>2, JoinIs, Zenon
<1>3. \A k \in Locs : f[k] \in {view[k], acq[k]} /\ f[k] >= view[k] /\ f[k] >= acq[k]
  BY <1>2, JoinIs, Zenon
<1>4. /\ acq' \in Views
      /\ \A k \in Locs : acq'[k] \in {acq[k], m[k]} /\ acq'[k] >= acq[k] /\ acq'[k] >= m[k]
  BY <1>2, JoinIs, Zenon
<1>5. j >= f[l] /\ f[l] >= view[l] /\ f[l] >= acq[l] /\ j >= view[l] /\ j >= acq[l]
  BY <1>2, <1>3 DEF Readable, Views
<1>6. /\ view' \in Views
      /\ \A k \in Locs : view'[k] = IF k = l THEN j ELSE f[k]
  <2>1. j \in Nat
    BY Positions, Zenon
  <2>2. view' = [f EXCEPT ![l] = j]
    BY Zenon
  <2>3. view' \in Views
    BY <2>1, <2>2, Zenon DEF Views
  <2> QED BY <2>2, <2>3, Zenon DEF Views
<1>7. Bounded(view') /\ Bounded(acq')
  BY <1>1, <1>3, <1>4, <1>6, Zenon DEF Bounded
<1>8. \A k \in Locs : view'[k] >= view[k]
  BY <1>3, <1>5, <1>6, Zenon
<1> QED BY <1>1, <1>4, <1>5, <1>6, <1>7, <1>8, Zenon DEF Loads

-----------------------------------------------------------------------------
(* What the messages tell the reader. *)

\* Message m of header.latest names a publish: facts on its slot.
LEMMA NamedCommit ==
  ASSUME WriterInv, NEW m \in 1 .. Size(LatestLoc), Val(LatestLoc, m) # NONE,
         NEW s \in Slots, s = Val(LatestLoc, m).slot,
         NEW j, j = Seen(LatestLoc, m, SeqLoc(s))
  PROVE  /\ j \in 1 .. Size(SeqLoc(s))
         /\ Val(SeqLoc(s), j) = Val(LatestLoc, m).seq
         /\ Val(SeqLoc(s), j) % 2 = 0 /\ Val(SeqLoc(s), j) \in Nat
         /\ LatestId(m) = SeqId(s, j)
         /\ Rising(s) /\ Whole(s, j) /\ Guarded(s, j)
<1>1. Names(m) /\ Contents /\ SlotOK(s)
  BY Zenon DEF WriterInv, LatestOK
<1>2. j \in 1 .. Size(SeqLoc(s))
  BY <1>1, LocsAre, Zenon DEF Contents, Carries
<1>3. Val(SeqLoc(s), j) = Val(LatestLoc, m).seq /\ Val(SeqLoc(s), j) % 2 = 0 /\ Val(SeqLoc(s), j) \in Nat
  BY <1>1, <1>2, Zenon DEF Names, Contents
<1>4. LatestId(m) = SeqId(s, j)
  BY Zenon DEF LatestId
<1> QED BY <1>1, <1>2, <1>3, <1>4, Zenon DEF SlotOK

\* The counter of the slot says what header.latest said: it is that message.
LEMMA SameCommit ==
  ASSUME WriterInv, NEW m \in 1 .. Size(LatestLoc), Val(LatestLoc, m) # NONE,
         NEW s \in Slots, s = Val(LatestLoc, m).slot,
         NEW k \in 1 .. Size(SeqLoc(s)), k >= Seen(LatestLoc, m, SeqLoc(s)),
         Val(SeqLoc(s), k) = Val(LatestLoc, m).seq
  PROVE  k = Seen(LatestLoc, m, SeqLoc(s))
<1> PICK j : j = Seen(LatestLoc, m, SeqLoc(s))
  BY Zenon
<1>1. /\ j \in 1 .. Size(SeqLoc(s)) /\ Val(SeqLoc(s), j) = Val(LatestLoc, m).seq
      /\ Val(SeqLoc(s), j) % 2 = 0 /\ Val(SeqLoc(s), j) \in Nat /\ Rising(s)
  BY NamedCommit, Zenon
<1>2. j < k => Val(SeqLoc(s), j) < Val(SeqLoc(s), k)
  BY <1>1, Zenon DEF Rising
<1>3. Size(SeqLoc(s)) \in Nat
  BY LocsAre, Zenon DEF WriterInv, Contents
<1> QED BY <1>1, <1>2, <1>3

\* It says something else: there is a newer publish.
LEMMA NewerCommit ==
  ASSUME WriterInv, NEW m \in 1 .. Size(LatestLoc), Val(LatestLoc, m) # NONE,
         NEW s \in Slots, s = Val(LatestLoc, m).slot,
         NEW k \in 1 .. Size(SeqLoc(s)), k >= Seen(LatestLoc, m, SeqLoc(s)),
         Val(SeqLoc(s), k) # Val(LatestLoc, m).seq
  PROVE  LatestId(m) \in Nat /\ LatestId(m) < LatestId(Size(LatestLoc))
<1> PICK j : j = Seen(LatestLoc, m, SeqLoc(s))
  BY Zenon
<1>1. j \in 1 .. Size(SeqLoc(s)) /\ Val(SeqLoc(s), j) = Val(LatestLoc, m).seq
  BY NamedCommit, Zenon
<1>2. Size(SeqLoc(s)) \in Nat /\ Size(LatestLoc) \in Nat \ {0}
  BY LocsAre, Zenon DEF WriterInv, Contents
<1>3. m # Size(LatestLoc)
  <2> SUFFICES ASSUME m = Size(LatestLoc) PROVE FALSE
    BY Zenon
  <2>1. wlatest = Val(LatestLoc, m)
    BY Zenon DEF WriterInv, LatestOK, Top
  <2>2. j = Size(SeqLoc(s))
    BY <2>1, Zenon DEF WriterInv, LatestOK, Untouched
  <2> QED BY <1>1, <1>2, <2>2
<1>4. m < Size(LatestLoc) /\ Size(LatestLoc) \in 1 .. Size(LatestLoc)
  BY <1>2, <1>3
<1> QED BY <1>4, Zenon DEF WriterInv, LatestOK

\* A copy is of the publish, or brings a later message of the counter.
LEMMA CopyIs ==
  ASSUME WriterInv, NEW m \in 1 .. Size(LatestLoc), Val(LatestLoc, m) # NONE,
         NEW s \in Slots, s = Val(LatestLoc, m).slot,
         NEW j, j = Seen(LatestLoc, m, SeqLoc(s)),
         NEW l \in {InfoLoc(s), DataLoc(s)}, NEW i \in 1 .. Size(l), i >= Seen(SeqLoc(s), j, l)
  PROVE  Val(l, i) \in Nat /\ (Val(l, i) = LatestId(m) \/ Seen(l, i, SeqLoc(s)) > j)
<1>1. LatestId(m) = SeqId(s, j) /\ Whole(s, j) /\ Guarded(s, j) /\ j \in 1 .. Size(SeqLoc(s))
  BY NamedCommit, Zenon
<1>2. Val(l, i) \in Nat
  BY Zenon DEF WriterInv, Contents
<1>3. Seen(SeqLoc(s), j, l) \in Nat
  BY <1>1, LocsAre DEF WriterInv, Contents, Carries
<1>4. CASE i = Seen(SeqLoc(s), j, l)
  BY <1>1, <1>2, <1>4, Zenon DEF Whole, SeqId
<1>5. CASE i > Seen(SeqLoc(s), j, l)
  BY <1>1, <1>2, <1>5, Zenon DEF Guarded
<1> QED BY <1>3, <1>4, <1>5

-----------------------------------------------------------------------------
(* The steps of the reader. *)

Moves ==
  /\ view' \in Views /\ acq' \in Views
  /\ Bounded(view') /\ Bounded(acq')
  /\ \A k \in Locs : view'[k] >= view[k] /\ acq'[k] >= acq[k]

\* A step of the reader sees the same messages and notes before and after.
LEMMA SameBefore ==
  ASSUME UNCHANGED writerVars
  PROVE  /\ noted' = noted
         /\ \A l : Size(l)' = Size(l)
         /\ \A l, j : Val(l, j)' = Val(l, j)
         /\ \A l, j, k : Seen(l, j, k)' = Seen(l, j, k)
         /\ \A m : LatestId(m)' = LatestId(m)
<1>1. mem' = mem /\ noted' = noted
  BY Zenon DEF writerVars
<1>2. \A m : LatestId(m)' = LatestId(m)
  BY <1>1, SameMessages, Zenon DEF LatestId, SeqId, InfoLoc, SeqLoc
<1> QED BY <1>1, <1>2, SameMessages, Zenon

\* The parts of the invariant that a later view keeps.
LEMMA ViewMoves ==
  ASSUME Inv, UNCHANGED writerVars, Moves
  PROVE  /\ Bounded(view)' /\ Bounded(acq)'
         /\ view[LatestLoc] \in 1 .. Size(LatestLoc) /\ view'[LatestLoc] \in 1 .. Size(LatestLoc)
         /\ view'[LatestLoc] >= view[LatestLoc]
         /\ LatestId(view[LatestLoc]) \in Nat /\ LatestId(view'[LatestLoc]) \in Nat
         /\ LatestId(view[LatestLoc]) <= LatestId(view'[LatestLoc])
         /\ LatestId(view[LatestLoc])' = LatestId(view'[LatestLoc])
         /\ got.info <= LatestId(view'[LatestLoc])
<1>1. WriterInv /\ Bounded(view) /\ got.info <= LatestId(view[LatestLoc]) /\ got.info \in Nat
  BY Zenon DEF Inv, ReaderInv, ReadOK, ReaderTypes
<1>2. Bounded(view)' /\ Bounded(acq)'
  BY SameBefore, Zenon DEF Moves, Bounded
<1>3. /\ view[LatestLoc] \in 1 .. Size(LatestLoc) /\ view'[LatestLoc] \in 1 .. Size(LatestLoc)
      /\ view'[LatestLoc] >= view[LatestLoc]
  BY <1>1, LocsAre, Zenon DEF Moves, Bounded
<1>4. /\ LatestId(view[LatestLoc]) \in Nat /\ LatestId(view'[LatestLoc]) \in Nat
      /\ LatestId(view[LatestLoc]) <= LatestId(view'[LatestLoc])
  BY <1>1, <1>3, LatestGrows, Zenon
<1>5. LatestId(view[LatestLoc])' = LatestId(view'[LatestLoc])
  BY SameBefore, Zenon DEF LatestLoc
<1> QED BY <1>1, <1>2, <1>3, <1>4, <1>5, GeqTrans, Zenon

\* The note that the reader's n stands for.
LEMMA NoteOfN ==
  ASSUME Inv PROVE n \in Nat /\ Len(noted) \in Nat /\ (n > 0 => n \in 1 .. Len(noted) /\ noted[n].id \in Nat)
<1>1. noted \in Seq(Notes) /\ n \in Nat /\ n <= Len(noted)
  BY Zenon DEF Inv, WriterInv, WriterTypes, ReaderInv, ReaderTypes, WaitOK
<1>2. \A k \in 1 .. Len(noted) : noted[k] \in Notes
  BY <1>1
<1>3. \A k \in 1 .. Len(noted) : noted[k].id \in Nat
  BY <1>2, Zenon DEF Notes
<1> QED BY <1>1, <1>3

\* psmi_state_read and the entry of psmi_state_wait.
LEMMA CallKeeps == ASSUME Inv, NEW o \in {"read", "wait"}, call(o) PROVE ReaderInv'
<1>1. /\ rpc' = IF o = "wait" THEN "notify" ELSE "latest"
      /\ op' = o /\ busy' = FALSE /\ UNCHANGED writerVars
      /\ UNCHANGED <<view, acq, tries, n, latest, q1, info, data, got>>
  BY Zenon DEF call, At, localVars
<1>2. ReaderTypes /\ Bounded(view) /\ Bounded(acq) /\ ReadOK /\ WaitOK
  BY Zenon DEF Inv, ReaderInv
<1>3. Moves
  BY <1>1, <1>2 DEF Moves, ReaderTypes, Views
<1>4. ReaderTypes'
  BY <1>1, <1>2, Zenon DEF ReaderTypes
<1>5. ReadOK'
  BY <1>1, <1>2, <1>3, ViewMoves, Zenon DEF ReadOK
<1>6. WaitOK'
  BY <1>1, <1>2, SameBefore, Zenon DEF WaitOK
<1> QED BY <1>1, <1>3, <1>4, <1>5, <1>6, ViewMoves, Zenon DEF ReaderInv

\* The wait takes its value of notify, and what that carries.
LEMMA NotifyLoadKeeps ==
  ASSUME Inv, NEW j \in 1 .. Size(NotifyLoc), wait_notify(j) PROVE ReaderInv'
<1>1. /\ rpc = "notify" /\ rpc' = "state" /\ n' = Val(NotifyLoc, j) /\ load_acquire(NotifyLoc, j)
      /\ UNCHANGED writerVars
      /\ UNCHANGED <<op, tries, latest, q1, info, data, got, busy>>
  BY Zenon DEF wait_notify, At, localVars, NotifyLoc, Val
<1>2. /\ ReaderTypes /\ Bounded(view) /\ Bounded(acq) /\ ReadOK /\ WaitOK
      /\ MemTypes /\ Contents /\ NotifyOK /\ WriterInv
  BY Zenon DEF Inv, ReaderInv, WriterInv
<1>3. Loads(NotifyLoc, j) /\ \A k \in Locs : view'[k] >= Seen(NotifyLoc, j, k)
  BY <1>1, <1>2, AcquireLoads, LocsAre, Zenon
<1>4. Moves
  BY <1>3, Zenon DEF Loads, Moves
<1>5. n' = j - 1 /\ n' \in Nat /\ Len(noted) \in Nat /\ n' <= Len(noted)
  <2>1. Size(NotifyLoc) \in Nat \ {0} /\ n' = j - 1 /\ Len(noted) + 1 = Size(NotifyLoc)
    BY <1>1, <1>2, LocsAre, Zenon DEF Contents, NotifyOK
  <2>2. Len(noted) \in Nat
    BY <1>2 DEF WriterInv, WriterTypes
  <2> QED BY <2>1, <2>2
<1>6. ReaderTypes'
  BY <1>1, <1>2, <1>4, <1>5, Zenon DEF ReaderTypes, Moves
<1>7. ReadOK'
  BY <1>1, <1>2, <1>4, ViewMoves, Zenon DEF ReadOK
<1>8. n' > 0 => IF noted[n'].retired THEN view'[StateLoc] >= 2
                ELSE noted[n'].id > 0 /\ noted[n'].id <= LatestId(view'[LatestLoc])
  <2> SUFFICES ASSUME NEW k \in Nat, k = n', k > 0
               PROVE  IF noted[k].retired THEN view'[StateLoc] >= 2
                      ELSE noted[k].id > 0 /\ noted[k].id <= LatestId(view'[LatestLoc])
    BY <1>5, Zenon
  <2>1. k \in 1 .. Len(noted) /\ k + 1 = j /\ Tells(k)
    BY <1>2, <1>5 DEF NotifyOK
  <2>2. \A l \in Locs : Seen(NotifyLoc, j, l) \in 1 .. Size(l) /\ Size(l) \in Nat
    BY <1>2, LocsAre, Zenon DEF Contents, Carries
  <2>3. CASE noted[k].retired
    <3>0. Seen(NotifyLoc, k + 1, StateLoc) >= 2
      BY <2>1, <2>3, Zenon DEF Tells
    <3>1. Seen(NotifyLoc, j, StateLoc) >= 2 /\ Seen(NotifyLoc, j, StateLoc) \in Nat
      <4>1. Seen(NotifyLoc, j, StateLoc) >= 2
        BY <2>1, <3>0, Zenon
      <4>2. Seen(NotifyLoc, j, StateLoc) \in Nat
        BY <2>2, LocsAre, GeqTrans, Positions, Zenon
      <4> QED BY <4>1, <4>2, Zenon
    <3>2. view'[StateLoc] >= Seen(NotifyLoc, j, StateLoc) /\ view'[StateLoc] \in Nat
      BY <1>3, <1>4, LocsAre, Zenon DEF Moves, Views
    <3> QED BY <2>3, <3>1, <3>2, GeqTrans, Zenon
  <2>4. CASE ~noted[k].retired
    <3>1. noted[k].id > 0 /\ LatestId(Seen(NotifyLoc, j, LatestLoc)) = noted[k].id
      BY <2>1, <2>4, Zenon DEF Tells
    <3>2. view'[LatestLoc] >= Seen(NotifyLoc, j, LatestLoc) /\ view'[LatestLoc] \in 1 .. Size(LatestLoc)
      BY <1>1, <1>3, <1>4, ViewMoves, LocsAre, Zenon
    <3>3. LatestId(Seen(NotifyLoc, j, LatestLoc)) <= LatestId(view'[LatestLoc])
      BY <1>2, <2>2, <3>2, LatestGrows, LocsAre, Zenon
    <3> QED BY <2>4, <3>1, <3>3, Zenon
  <2> QED BY <2>3, <2>4, Zenon
<1>9. WaitOK'
  <2>1. LatestId(view[LatestLoc])' = LatestId(view'[LatestLoc]) /\ noted' = noted
    BY <1>1, <1>4, ViewMoves, SameBefore, Zenon
  <2>2. op = "wait"
    BY <1>1, <1>2, Zenon DEF WaitOK
  <2> QED BY <1>1, <1>5, <1>8, <2>1, <2>2, Zenon DEF WaitOK, LatestLoc, StateLoc
<1> QED BY <1>1, <1>4, <1>6, <1>7, <1>9, ViewMoves, Zenon DEF ReaderInv

\* The wait looks at header.state: it does not miss a retirement it was told of.
LEMMA StateLoadKeeps ==
  ASSUME Inv, NEW j \in 1 .. Size(StateLoc), wait_state(j) PROVE ReaderInv'
<1>1. /\ rpc = "state" /\ rpc' = (IF Val(StateLoc, j) = "RETIRED" THEN "left" ELSE "latest")
      /\ load_acquire(StateLoc, j)
      /\ UNCHANGED writerVars
      /\ UNCHANGED <<op, tries, n, latest, q1, info, data, got, busy>>
  BY Zenon DEF wait_state, At, localVars, StateLoc, Val
<1>2. /\ ReaderTypes /\ Bounded(view) /\ Bounded(acq) /\ ReadOK /\ WaitOK
      /\ MemTypes /\ Contents
  BY Zenon DEF Inv, ReaderInv, WriterInv
<1>3. Loads(StateLoc, j)
  BY <1>1, <1>2, AcquireLoads, LocsAre, Zenon
<1>4. Moves
  BY <1>3, Zenon DEF Loads, Moves
<1>5. ReaderTypes'
  BY <1>1, <1>2, <1>4, Zenon DEF ReaderTypes, Moves
<1>6. ReadOK'
  BY <1>1, <1>2, <1>4, ViewMoves, Zenon DEF ReadOK
<1>7. rpc' = "latest" => ToldAtMost(LatestId(view'[LatestLoc]))
  <2>1. Val(StateLoc, j) # "RETIRED" /\ n > 0 => ~noted[n].retired
    <3>1. j >= view[StateLoc] /\ view[StateLoc] \in Nat
      BY <1>2, <1>3, LocsAre, Zenon DEF Loads, ReaderTypes, Views
    <3>2. j >= 2 => Val(StateLoc, j) = "RETIRED"
      BY <1>2, Zenon DEF Contents
    <3>3. n > 0 /\ noted[n].retired => view[StateLoc] >= 2
      BY <1>1, <1>2, Zenon DEF WaitOK
    <3> QED BY <3>1, <3>2, <3>3
  <2>2. n > 0 /\ ~noted[n].retired => noted[n].id > 0 /\ noted[n].id <= LatestId(view[LatestLoc])
    BY <1>1, <1>2, Zenon DEF WaitOK
  <2>3. LatestId(view[LatestLoc]) \in Nat /\ LatestId(view'[LatestLoc]) \in Nat
        /\ LatestId(view[LatestLoc]) <= LatestId(view'[LatestLoc])
    BY <1>1, <1>4, ViewMoves, Zenon
  <2> QED BY <1>1, <2>1, <2>2, <2>3, NoteOfN, GeqTrans, Zenon DEF ToldAtMost
<1>8. WaitOK'
  <2>1. LatestId(view[LatestLoc])' = LatestId(view'[LatestLoc]) /\ noted' = noted
    BY <1>1, <1>4, ViewMoves, SameBefore, Zenon
  <2>2. n <= Len(noted)
    BY <1>2, Zenon DEF WaitOK
  <2> QED BY <1>1, <1>7, <2>1, <2>2, Zenon DEF WaitOK, ToldAtMost
<1> QED BY <1>1, <1>4, <1>5, <1>6, <1>8, ViewMoves, Zenon DEF ReaderInv

\* read_latest loads header.latest.
LEMMA LatestLoadKeeps ==
  ASSUME Inv, NEW j \in 1 .. Size(LatestLoc), read_latest_load(j) PROVE ReaderInv'
<1>1. /\ rpc = "latest" /\ load_acquire(LatestLoc, j) /\ UNCHANGED writerVars
      /\ IF Val(LatestLoc, j) = NONE THEN NoValue(FALSE)
         ELSE /\ latest' = Val(LatestLoc, j) /\ rpc' = "seq"
              /\ UNCHANGED <<op, tries, n, q1, info, data, got, busy>>
  BY Zenon DEF read_latest_load, LatestLoc, Val
<1>2. /\ ReaderTypes /\ Bounded(view) /\ Bounded(acq) /\ ReadOK /\ WaitOK
      /\ MemTypes /\ Contents /\ WriterInv
  BY Zenon DEF Inv, ReaderInv, WriterInv
<1>3. Loads(LatestLoc, j) /\ \A k \in Locs : view'[k] >= Seen(LatestLoc, j, k)
  BY <1>1, <1>2, AcquireLoads, LocsAre, Zenon
<1>4. Moves /\ view'[LatestLoc] = j
  BY <1>3, Zenon DEF Loads, Moves
<1>5. /\ LatestId(view[LatestLoc])' = LatestId(j) /\ noted' = noted
      /\ LatestId(view[LatestLoc]) <= LatestId(j) /\ got.info <= LatestId(j)
      /\ LatestId(view[LatestLoc]) \in Nat /\ LatestId(j) \in Nat
  BY <1>1, <1>4, ViewMoves, SameBefore, Zenon
<1>6. op = "wait" => ToldAtMost(LatestId(j))
  BY <1>1, <1>2, <1>5, NoteOfN, GeqTrans, Zenon DEF WaitOK, ToldAtMost
<1>7. CASE Val(LatestLoc, j) = NONE
  <2>1. /\ rpc' = (IF op = "wait" THEN "futex" ELSE "idle") /\ busy' = FALSE
        /\ latest' = NONE /\ q1' = 0 /\ info' = 0 /\ data' = 0 /\ tries' = 0
        /\ UNCHANGED <<op, n, got>>
    BY <1>1, <1>7, Zenon DEF NoValue, Reset
  <2>2. ReaderTypes'
    <3>1. NONE \in Words
      BY OrderAssumption DEF NONE, Words, Slots
    <3> QED BY <1>2, <1>4, <2>1, <3>1, Zenon DEF ReaderTypes, Moves
  <2>3. ReadOK'
    BY <1>2, <1>5, <2>1, Zenon DEF ReadOK
  <2>4. op = "wait" => ToldAtMost(got.info)
    <3>1. LatestId(j) = 0
      BY <1>7, Zenon DEF LatestId
    <3> QED BY <1>6, <3>1, NoteOfN DEF ToldAtMost
  <2>5. WaitOK'
    BY <1>2, <1>5, <2>1, <2>4, Zenon DEF WaitOK, ToldAtMost
  <2> QED BY <1>1, <1>4, <2>2, <2>3, <2>5, ViewMoves, Zenon DEF ReaderInv
<1>8. CASE Val(LatestLoc, j) # NONE
  <2>1. /\ latest' = Val(LatestLoc, j) /\ rpc' = "seq" /\ latest' \in Words
        /\ UNCHANGED <<op, tries, n, q1, info, data, got, busy>>
    BY <1>1, <1>2, <1>8, Zenon DEF Contents
  <2>2. ReaderTypes'
    BY <1>2, <1>4, <2>1, Zenon DEF ReaderTypes, Moves
  <2>3. Attempt(j)'
    <3>1. latest'.slot \in Slots
      BY <2>1, Zenon DEF Words
    <3> PICK s \in Slots : s = latest'.slot
      BY <3>1, Zenon
    <3>2. view'[SeqLoc(s)] >= Seen(LatestLoc, j, SeqLoc(s))
      BY <1>3, LocsAre, Zenon
    <3>3. op = "wait" => ToldAtMost(LatestId(j))'
      BY <1>1, <1>6, <2>1, SameBefore, Zenon DEF ToldAtMost
    <3> QED BY <1>1, <1>5, <1>8, <2>1, <3>2, <3>3, SameBefore, Zenon DEF Attempt, NONE
  <2>4. j \in 1 .. view'[LatestLoc]
    BY <1>4
  <2>5. ReadOK'
    BY <1>2, <1>5, <2>1, <2>3, <2>4, Zenon DEF ReadOK, LatestLoc
  <2>6. WaitOK'
    BY <1>2, <1>5, <2>1, Zenon DEF WaitOK
  <2> QED BY <1>1, <1>4, <2>2, <2>5, <2>6, ViewMoves, Zenon DEF ReaderInv
<1> QED BY <1>7, <1>8, Zenon

\* An attempt that fails: there is a newer publish.
LEMMA RetryKeeps ==
  ASSUME Inv, UNCHANGED writerVars, Moves, Retry,
         NEW m \in 1 .. view[LatestLoc], op = "wait" => ToldAtMost(LatestId(m)),
         LatestId(m) < LatestId(Size(LatestLoc))
  PROVE  ReaderInv'
<1>1. ReaderTypes /\ ReadOK /\ WaitOK /\ WriterInv
  BY Zenon DEF Inv, ReaderInv
<1>2. /\ rpc' \in {"latest", "futex", "idle"}
      /\ rpc' = "futex" => op = "wait" /\ busy' = TRUE
      /\ latest' = NONE /\ q1' = 0 /\ info' = 0 /\ data' = 0 /\ tries' \in Nat
      /\ busy' \in BOOLEAN
      /\ UNCHANGED <<op, n, got>>
  <2>1. tries \in Nat /\ tries + 1 \in Nat /\ busy \in BOOLEAN
    BY <1>1 DEF ReaderTypes
  <2>2. CASE tries + 1 = READ_RETRIES
    <3>1. /\ rpc' = (IF op = "wait" THEN "futex" ELSE "idle") /\ busy' = TRUE /\ tries' = 0
          /\ latest' = NONE /\ q1' = 0 /\ info' = 0 /\ data' = 0 /\ UNCHANGED <<op, n, got>>
      BY <2>2, Zenon DEF Retry, NoValue, Reset
    <3> QED BY <3>1, Zenon
  <2>3. CASE tries + 1 # READ_RETRIES
    BY <2>1, <2>3, Zenon DEF Retry
  <2> QED BY <2>2, <2>3, Zenon
<1>3. ReaderTypes'
  <2>1. NONE \in Words
    BY OrderAssumption DEF NONE, Words, Slots
  <2> QED BY <1>1, <1>2, <2>1, Zenon DEF ReaderTypes, Moves
<1>4. /\ LatestId(view[LatestLoc])' = LatestId(view'[LatestLoc]) /\ noted' = noted
      /\ LatestId(Size(LatestLoc))' = LatestId(Size(LatestLoc))
      /\ view[LatestLoc] \in 1 .. Size(LatestLoc) /\ view'[LatestLoc] \in 1 .. Size(LatestLoc)
      /\ view'[LatestLoc] >= view[LatestLoc]
      /\ got.info <= LatestId(view'[LatestLoc])
  BY ViewMoves, SameBefore, Zenon
<1>5. ReadOK'
  BY <1>1, <1>2, <1>4, Zenon DEF ReadOK
<1>6. /\ LatestId(m) \in Nat /\ LatestId(view'[LatestLoc]) \in Nat /\ LatestId(m) <= LatestId(view'[LatestLoc])
      /\ LatestId(Size(LatestLoc)) \in Nat
  <2>1. Size(LatestLoc) \in Nat \ {0}
    BY <1>1, LocsAre, Zenon DEF WriterInv, Contents
  <2>2. m \in 1 .. Size(LatestLoc) /\ m <= view'[LatestLoc] /\ Size(LatestLoc) \in 1 .. Size(LatestLoc)
    BY <1>4, <2>1
  <2> QED BY <1>1, <1>4, <2>2, LatestGrows
<1>7. op = "wait" => ToldAtMost(LatestId(view'[LatestLoc])) /\ ToldBelow(LatestId(Size(LatestLoc)))
  BY <1>6, NoteOfN DEF ToldAtMost, ToldBelow
<1>8. WaitOK'
  BY <1>1, <1>2, <1>4, <1>7, Zenon DEF WaitOK, ToldAtMost, ToldBelow
<1> QED BY <1>3, <1>5, <1>8, ViewMoves, Zenon DEF ReaderInv

\* read_latest loads the counter of the slot.
LEMMA SeqLoadKeeps ==
  ASSUME Inv, NEW k \in 1 .. Len(mem[<<"seq", latest.slot>>]), read_latest_seq(k) PROVE ReaderInv'
<1>1. /\ ReaderTypes /\ Bounded(view) /\ Bounded(acq) /\ ReadOK /\ WaitOK
      /\ MemTypes /\ Contents /\ WriterInv
  BY Zenon DEF Inv, ReaderInv, WriterInv
<1>2. latest.slot \in Slots
  BY <1>1, Zenon DEF ReaderTypes, Words
<1> PICK s \in Slots : s = latest.slot
  BY <1>2, Zenon
<1>3. /\ rpc = "seq" /\ load_acquire(SeqLoc(s), k) /\ UNCHANGED writerVars
      /\ k \in 1 .. Size(SeqLoc(s))
      /\ Val(SeqLoc(s), k) = latest.seq =>
           q1' = latest.seq /\ rpc' = "info" /\ UNCHANGED <<op, tries, n, latest, info, data, got, busy>>
      /\ Val(SeqLoc(s), k) # latest.seq => Retry
  BY Zenon DEF read_latest_seq, names_version, SeqLoc, Val, Size
<1>4. Loads(SeqLoc(s), k) /\ \A l \in Locs : view'[l] >= Seen(SeqLoc(s), k, l)
  BY <1>1, <1>3, AcquireLoads, LocsAre, Zenon
<1>5. Moves
  BY <1>4, Zenon DEF Loads, Moves
<1>6. PICK m \in 1 .. view[LatestLoc] : Attempt(m)
  BY <1>1, <1>3, Zenon DEF ReadOK
<1>7. /\ m \in 1 .. Size(LatestLoc) /\ m \in 1 .. view'[LatestLoc]
      /\ Val(LatestLoc, m) = latest /\ latest # NONE
      /\ op = "wait" => ToldAtMost(LatestId(m))
      /\ view[SeqLoc(s)] >= Seen(LatestLoc, m, SeqLoc(s))
  <2>1. view[LatestLoc] \in 1 .. Size(LatestLoc) /\ view'[LatestLoc] \in 1 .. Size(LatestLoc)
        /\ view'[LatestLoc] >= view[LatestLoc]
    BY <1>3, <1>5, ViewMoves, Zenon
  <2>2. m \in 1 .. Size(LatestLoc) /\ m \in 1 .. view'[LatestLoc]
    <3>1. Size(LatestLoc) \in Nat
      BY <1>1, LocsAre, Zenon DEF Contents
    <3> QED BY <1>6, <2>1, <3>1, Positions, Zenon
  <2> QED BY <1>6, <2>2, Zenon DEF Attempt
<1>8. k >= Seen(LatestLoc, m, SeqLoc(s))
  <2>1. k >= view[SeqLoc(s)] /\ view[SeqLoc(s)] \in Nat
    BY <1>1, <1>4, LocsAre, Zenon DEF Loads, ReaderTypes, Views
  <2>2. Seen(LatestLoc, m, SeqLoc(s)) \in 1 .. Size(SeqLoc(s))
    BY <1>1, <1>7, LocsAre, Zenon DEF Contents, Carries
  <2> QED BY <1>7, <2>1, <2>2, GeqTrans, Positions, Zenon
<1>9. CASE Val(SeqLoc(s), k) # latest.seq
  <2>1. LatestId(m) < LatestId(Size(LatestLoc))
    BY <1>1, <1>3, <1>7, <1>8, <1>9, NewerCommit, Zenon
  <2> QED BY <1>3, <1>5, <1>7, <1>9, <2>1, RetryKeeps, Zenon
<1>10. CASE Val(SeqLoc(s), k) = latest.seq
  <2>1. /\ q1' = latest.seq /\ rpc' = "info" /\ UNCHANGED <<op, tries, n, latest, info, data, got, busy>>
    BY <1>3, <1>10, Zenon
  <2>2. k = Seen(LatestLoc, m, SeqLoc(s))
    BY <1>1, <1>3, <1>7, <1>8, <1>10, SameCommit, Zenon
  <2>3. ReaderTypes'
    BY <1>1, <1>5, <2>1, Zenon DEF ReaderTypes, Moves, Words
  <2>4. Attempt(m)'
    <3>1. op = "wait" => ToldAtMost(LatestId(m))'
      BY <1>3, <1>7, <2>1, SameBefore, Zenon DEF ToldAtMost
    <3>2. got.info <= LatestId(m)
      BY <1>6, Zenon DEF Attempt
    <3>3. /\ view'[SeqLoc(s)] >= k
          /\ view'[InfoLoc(s)] >= Seen(SeqLoc(s), k, InfoLoc(s))
          /\ view'[DataLoc(s)] >= Seen(SeqLoc(s), k, DataLoc(s))
      BY <1>4, LocsAre DEF Loads
    <3> QED BY <1>3, <1>7, <2>1, <2>2, <3>1, <3>2, <3>3, SameBefore, LocsAre DEF Attempt
  <2>5. ReadOK'
    BY <1>1, <1>3, <1>5, <1>7, <2>1, <2>4, ViewMoves, Zenon DEF ReadOK, LatestLoc
  <2>6. WaitOK'
    BY <1>1, <1>3, <2>1, SameBefore, Zenon DEF WaitOK
  <2> QED BY <1>3, <1>5, <2>3, <2>5, <2>6, ViewMoves, Zenon DEF ReaderInv
<1> QED BY <1>9, <1>10, Zenon

\* A copy of the header or of the payload goes on with the attempt.
LEMMA CopyKeeps ==
  ASSUME Inv, rpc \in {"info", "data"}, NEW s \in Slots, s = latest.slot,
         NEW l \in {InfoLoc(s), DataLoc(s)}, l = IF rpc = "info" THEN InfoLoc(s) ELSE DataLoc(s),
         NEW k \in 1 .. Size(l), load_copy(l, k), UNCHANGED writerVars,
         UNCHANGED <<op, tries, n, latest, q1, got, busy>>,
         IF rpc = "info" THEN info' = Val(l, k) /\ data' = data /\ rpc' = IF op = "read" THEN "data" ELSE "recheck"
         ELSE data' = Val(l, k) /\ info' = info /\ rpc' = "recheck"
  PROVE  ReaderInv'
<1>1. /\ ReaderTypes /\ Bounded(view) /\ Bounded(acq) /\ ReadOK /\ WaitOK
      /\ MemTypes /\ Contents /\ WriterInv
  BY Zenon DEF Inv, ReaderInv, WriterInv
<1>2. Loads(l, k)
  BY <1>1, CopyLoads, LocsAre, Zenon
<1>3. Moves
  BY <1>2, Zenon DEF Loads, Moves
<1>4. PICK m \in 1 .. view[LatestLoc] : Attempt(m)
  BY <1>1, Zenon DEF ReadOK
<1> PICK j : j = Seen(LatestLoc, m, SeqLoc(s))
  BY Zenon
<1>5. /\ m \in 1 .. Size(LatestLoc) /\ m \in 1 .. view'[LatestLoc]
  <2>1. view[LatestLoc] \in 1 .. Size(LatestLoc) /\ view'[LatestLoc] \in 1 .. Size(LatestLoc)
        /\ view'[LatestLoc] >= view[LatestLoc]
    BY <1>3, ViewMoves, Zenon
  <2>2. Size(LatestLoc) \in Nat
    BY <1>1, LocsAre, Zenon DEF Contents
  <2> QED BY <1>4, <2>1, <2>2, Positions, Zenon
<1>6. /\ Val(LatestLoc, m) = latest /\ latest # NONE
      /\ got.info <= LatestId(m)
      /\ op = "wait" => ToldAtMost(LatestId(m))
      /\ view[SeqLoc(s)] >= j
      /\ q1 = latest.seq
      /\ view[InfoLoc(s)] >= Seen(SeqLoc(s), j, InfoLoc(s))
      /\ view[DataLoc(s)] >= Seen(SeqLoc(s), j, DataLoc(s))
      /\ rpc = "data" => info = LatestId(m) \/ acq[SeqLoc(s)] > j
  BY <1>4, Zenon DEF Attempt
<1>7. /\ j \in Nat /\ Seen(SeqLoc(s), j, InfoLoc(s)) \in Nat /\ Seen(SeqLoc(s), j, DataLoc(s)) \in Nat
      /\ Seen(l, k, SeqLoc(s)) \in Nat
      /\ \A i \in Locs : view[i] \in Nat /\ view'[i] \in Nat /\ acq[i] \in Nat /\ acq'[i] \in Nat
  <2>1. j \in 1 .. Size(SeqLoc(s))
    BY <1>1, <1>5, <1>6, LocsAre, Zenon DEF Contents, Carries
  <2>2. Carries(SeqLoc(s), j) /\ Carries(l, k)
    BY <1>1, <2>1, LocsAre, Zenon DEF Contents
  <2>3. /\ \A i \in Locs : Seen(SeqLoc(s), j, i) \in Nat
        /\ \A i \in Locs : Seen(l, k, i) \in Nat
    BY <2>2, Positions, Zenon DEF Carries
  <2>4. \A i \in Locs : view[i] \in Nat /\ view'[i] \in Nat /\ acq[i] \in Nat /\ acq'[i] \in Nat
    BY <1>1, <1>3, Positions, Zenon DEF Bounded, Moves
  <2> QED BY <2>1, <2>3, <2>4, LocsAre, Positions, Zenon
<1>8. k >= Seen(SeqLoc(s), j, l)
  <2>1. k >= view[l] /\ view[l] >= Seen(SeqLoc(s), j, l)
    BY <1>2, <1>6, Zenon DEF Loads
  <2>2. k \in Nat /\ view[l] \in Nat /\ Seen(SeqLoc(s), j, l) \in Nat
    BY <1>7, LocsAre, Positions, Zenon
  <2> QED BY <2>1, <2>2, GeqTrans, Zenon
<1>9. Val(l, k) \in Nat /\ (Val(l, k) = LatestId(m) \/ Seen(l, k, SeqLoc(s)) > j)
  BY <1>1, <1>5, <1>6, <1>8, CopyIs, Zenon
<1>10. Val(l, k) = LatestId(m) \/ acq'[SeqLoc(s)] > j
  <2>1. acq'[SeqLoc(s)] >= Seen(l, k, SeqLoc(s))
    BY <1>2, LocsAre, Zenon DEF Loads
  <2> QED BY <1>7, <1>9, <2>1, GeqTrans, LocsAre, Zenon
<1>11. acq[SeqLoc(s)] > j => acq'[SeqLoc(s)] > j
  BY <1>3, <1>7, GeqTrans, LocsAre, Zenon DEF Moves
<1>12. ReaderTypes'
  BY <1>1, <1>3, <1>9, Zenon DEF ReaderTypes, Moves, Words
<1>13. Attempt(m)'
  <2>1. op = "wait" => ToldAtMost(LatestId(m))'
    BY <1>6, SameBefore, Zenon DEF ToldAtMost
  <2>2. /\ view'[SeqLoc(s)] >= j
        /\ view'[InfoLoc(s)] >= Seen(SeqLoc(s), j, InfoLoc(s))
        /\ view'[DataLoc(s)] >= Seen(SeqLoc(s), j, DataLoc(s))
    <3>1. /\ view'[SeqLoc(s)] >= view[SeqLoc(s)] /\ view'[InfoLoc(s)] >= view[InfoLoc(s)]
          /\ view'[DataLoc(s)] >= view[DataLoc(s)]
      BY <1>3, LocsAre, Zenon DEF Moves
    <3>2. /\ SeqLoc(s) \in Locs /\ InfoLoc(s) \in Locs /\ DataLoc(s) \in Locs
      BY LocsAre, Zenon
    <3>3. view'[SeqLoc(s)] >= j
      BY <1>6, <1>7, <3>1, <3>2, GeqTrans, Zenon
    <3>4. view'[InfoLoc(s)] >= Seen(SeqLoc(s), j, InfoLoc(s))
      BY <1>6, <1>7, <3>1, <3>2, GeqTrans, Zenon
    <3>5. view'[DataLoc(s)] >= Seen(SeqLoc(s), j, DataLoc(s))
      BY <1>6, <1>7, <3>1, <3>2, GeqTrans, Zenon
    <3> QED BY <3>3, <3>4, <3>5, Zenon
  <2>3. /\ rpc' \in {"data", "recheck"} => info' = LatestId(m) \/ acq'[SeqLoc(s)] > j
        /\ rpc' = "recheck" /\ op = "read" => data' = LatestId(m) \/ acq'[SeqLoc(s)] > j
    BY <1>6, <1>10, <1>11, Zenon
  <2>4. /\ Val(LatestLoc, m)' = latest' /\ latest' # NONE /\ got'.info <= LatestId(m)'
        /\ Seen(LatestLoc, m, SeqLoc(s))' = j /\ q1' = latest'.seq
        /\ view'[InfoLoc(s)] >= Seen(SeqLoc(s), j, InfoLoc(s))'
        /\ view'[DataLoc(s)] >= Seen(SeqLoc(s), j, DataLoc(s))'
        /\ LatestId(m)' = LatestId(m)
    <3>1. Val(LatestLoc, m)' = latest' /\ latest' # NONE /\ q1' = latest'.seq
      BY <1>6, SameBefore, Zenon
    <3>2. got'.info <= LatestId(m)' /\ LatestId(m)' = LatestId(m)
      BY <1>6, SameBefore, Zenon
    <3>3. \A a, b, c : Seen(a, b, c)' = Seen(a, b, c)
      BY SameBefore, Zenon
    <3> QED BY <2>2, <3>1, <3>2, <3>3, Zenon
  <2> QED BY <2>1, <2>2, <2>3, <2>4, SameBefore, Zenon DEF Attempt
<1>14. ReadOK'
  BY <1>1, <1>3, <1>5, <1>13, ViewMoves, Zenon DEF ReadOK, LatestLoc
<1>15. WaitOK'
  BY <1>1, SameBefore, Zenon DEF WaitOK
<1> QED BY <1>3, <1>12, <1>14, <1>15, ViewMoves, Zenon DEF ReaderInv

\* The second load of the counter.  It says what the first one said only if the
\* copies brought no later message, and then they are of one publish.
LEMMA RecheckKeeps ==
  ASSUME Inv, NEW k \in 1 .. Len(mem[<<"seq", latest.slot>>]), read_latest_recheck(k)
  PROVE  ReaderInv' /\ got'.info >= got.info
<1>1. /\ ReaderTypes /\ Bounded(view) /\ Bounded(acq) /\ ReadOK /\ WaitOK
      /\ MemTypes /\ Contents /\ WriterInv
  BY Zenon DEF Inv, ReaderInv, WriterInv
<1>2. latest.slot \in Slots
  BY <1>1, Zenon DEF ReaderTypes, Words
<1> PICK s \in Slots : s = latest.slot
  BY <1>2, Zenon
<1>3. /\ rpc = "recheck" /\ UNCHANGED writerVars
      /\ k \in 1 .. Size(SeqLoc(s))
      /\ k \in Readable(SeqLoc(s), Join(view, acq))
      /\ view' = [Join(view, acq) EXCEPT ![SeqLoc(s)] = k]
      /\ acq' = Join(acq, mem[SeqLoc(s)][k].view)
      /\ Val(SeqLoc(s), k) # q1 => Retry
      /\ Val(SeqLoc(s), k) = q1 =>
           /\ rpc' = IF op = "wait" /\ info = got.info THEN "futex" ELSE "idle"
           /\ got' = IF op = "wait" /\ info = got.info THEN got
                     ELSE [info |-> info, data |-> IF op = "read" THEN data ELSE info]
           /\ busy' = FALSE
           /\ latest' = NONE /\ q1' = 0 /\ info' = 0 /\ data' = 0 /\ tries' = 0
           /\ UNCHANGED <<op, n>>
  BY Zenon DEF read_latest_recheck, seq_fence_acquire, SeqLoc, Val, Size, Reset
<1>4. Loads(SeqLoc(s), k) /\ k >= acq[SeqLoc(s)]
  BY <1>1, <1>3, FenceLoads, LocsAre, Zenon
<1>5. Moves
  BY <1>4, Zenon DEF Loads, Moves
<1>6. PICK m \in 1 .. view[LatestLoc] : Attempt(m)
  BY <1>1, <1>3, Zenon DEF ReadOK
<1> PICK j : j = Seen(LatestLoc, m, SeqLoc(s))
  BY Zenon
<1>7. /\ view[LatestLoc] \in 1 .. Size(LatestLoc) /\ view'[LatestLoc] \in 1 .. Size(LatestLoc)
      /\ view'[LatestLoc] >= view[LatestLoc]
      /\ m \in 1 .. Size(LatestLoc) /\ m \in 1 .. view'[LatestLoc]
  <2>1. view[LatestLoc] \in 1 .. Size(LatestLoc) /\ view'[LatestLoc] \in 1 .. Size(LatestLoc)
        /\ view'[LatestLoc] >= view[LatestLoc]
    BY <1>3, <1>5, ViewMoves, Zenon
  <2>2. Size(LatestLoc) \in Nat
    BY <1>1, LocsAre, Zenon DEF Contents
  <2> QED BY <1>6, <2>1, <2>2, Positions, Zenon
<1>8. /\ Val(LatestLoc, m) = latest /\ latest # NONE
      /\ got.info <= LatestId(m)
      /\ op = "wait" => ToldAtMost(LatestId(m))
      /\ view[SeqLoc(s)] >= j
      /\ q1 = latest.seq
      /\ info = LatestId(m) \/ acq[SeqLoc(s)] > j
      /\ op = "read" => data = LatestId(m) \/ acq[SeqLoc(s)] > j
  BY <1>3, <1>6, Zenon DEF Attempt
<1>9. j \in 1 .. Size(SeqLoc(s)) /\ view[SeqLoc(s)] \in Nat /\ acq[SeqLoc(s)] \in Nat
  BY <1>1, <1>7, LocsAre, Zenon DEF Contents, Carries, ReaderTypes, Views
<1>10. k >= j
  <2>1. k >= view[SeqLoc(s)]
    BY <1>4, Zenon DEF Loads
  <2> QED BY <1>8, <1>9, <2>1, GeqTrans, Positions, Zenon
<1>11. CASE Val(SeqLoc(s), k) # q1
  <2>1. LatestId(m) < LatestId(Size(LatestLoc))
    BY <1>1, <1>3, <1>7, <1>8, <1>10, <1>11, NewerCommit, Zenon
  <2>2. ReaderInv'
    BY <1>3, <1>5, <1>6, <1>8, <1>11, <2>1, RetryKeeps, Zenon
  <2>3. got' = got
    BY <1>3, <1>11, Zenon DEF Retry, NoValue
  <2>4. got.info \in Nat
    BY <1>1, Zenon DEF ReaderTypes
  <2> QED BY <2>2, <2>3, <2>4, GeqNotLess, Zenon
<1>12. CASE Val(SeqLoc(s), k) = q1
  <2>1. k = j
    <3>1. /\ k >= Seen(LatestLoc, m, SeqLoc(s)) /\ Val(SeqLoc(s), k) = Val(LatestLoc, m).seq
          /\ s = Val(LatestLoc, m).slot /\ Val(LatestLoc, m) # NONE
      BY <1>8, <1>10, <1>12, Zenon
    <3>2. k = Seen(LatestLoc, m, SeqLoc(s))
      BY <1>1, <1>3, <1>7, <3>1, SameCommit, Zenon
    <3> QED BY <3>2, Zenon
  <2>2. info = LatestId(m) /\ (op = "read" => data = LatestId(m))
    BY <1>4, <1>8, <1>9, <2>1, GeqNotLess, Positions, Zenon
  <2>3. /\ rpc' = (IF op = "wait" /\ info = got.info THEN "futex" ELSE "idle")
        /\ got' = (IF op = "wait" /\ info = got.info THEN got
                   ELSE [info |-> info, data |-> IF op = "read" THEN data ELSE info])
        /\ busy' = FALSE
        /\ latest' = NONE /\ q1' = 0 /\ info' = 0 /\ data' = 0 /\ tries' = 0
        /\ op' = op /\ n' = n
    BY <1>3, <1>12, Zenon
  <2>4. /\ got'.info = LatestId(m) \/ got' = got
        /\ got' \in [info : Nat, data : Nat] /\ got'.data = got'.info
        /\ rpc' = "futex" => op = "wait" /\ got'.info = LatestId(m)
    <3>1. /\ got \in [info : Nat, data : Nat] /\ got.data = got.info
          /\ info \in Nat /\ data \in Nat /\ op \in {"read", "wait"}
      BY <1>1, Zenon DEF ReaderTypes, ReadOK
    <3> QED BY <2>2, <2>3, <3>1, Zenon
  <2>5. /\ LatestId(m) \in Nat /\ LatestId(view'[LatestLoc]) \in Nat
        /\ LatestId(m) <= LatestId(view'[LatestLoc]) /\ got.info <= LatestId(view'[LatestLoc])
        /\ LatestId(view[LatestLoc])' = LatestId(view'[LatestLoc]) /\ noted' = noted
    <3>1. LatestId(m) \in Nat /\ LatestId(m) <= LatestId(view'[LatestLoc])
      BY <1>1, <1>7, LatestGrows
    <3> QED BY <1>3, <1>5, <3>1, ViewMoves, SameBefore, Zenon
  <2>6. ReaderTypes'
    <3>1. NONE \in Words
      BY OrderAssumption DEF NONE, Words, Slots
    <3> QED BY <1>1, <1>5, <2>3, <2>4, <3>1, Zenon DEF ReaderTypes, Moves
  <2>7. ReadOK'
    <3>1. got'.info <= LatestId(view'[LatestLoc])
      BY <2>4, <2>5, Zenon
    <3> QED BY <2>3, <2>4, <2>5, <3>1, Zenon DEF ReadOK
  <2>8. rpc' = "futex" => ToldAtMost(got.info)'
    BY <1>8, <2>3, <2>4, <2>5, Zenon DEF ToldAtMost
  <2>9. WaitOK'
    <3>1. n <= Len(noted)
      BY <1>1, Zenon DEF WaitOK
    <3> QED BY <2>3, <2>4, <2>5, <2>8, <3>1, Zenon DEF WaitOK
  <2>10. got'.info >= got.info
    <3>1. got.info \in Nat
      BY <1>1, Zenon DEF ReaderTypes
    <3> QED BY <1>8, <2>4, <2>5, <3>1
  <2> QED BY <1>3, <1>5, <2>6, <2>7, <2>9, <2>10, ViewMoves, Zenon DEF ReaderInv
<1> QED BY <1>11, <1>12, Zenon

\* The futex, and the end of the sleep.
LEMMA SleepKeeps == ASSUME Inv, futex_wait \/ wake PROVE ReaderInv'
<1>1. /\ rpc \in {"futex", "asleep"} /\ rpc' \in {"asleep", "idle"}
      /\ UNCHANGED writerVars
      /\ UNCHANGED <<view, acq, op, tries, n, latest, q1, info, data, got, busy>>
  BY Zenon DEF futex_wait, wake, At, localVars
<1>2. ReaderTypes /\ Bounded(view) /\ Bounded(acq) /\ ReadOK /\ WaitOK
  BY Zenon DEF Inv, ReaderInv
<1>3. Moves
  BY <1>1, <1>2 DEF Moves, ReaderTypes, Views
<1>4. ReaderTypes'
  BY <1>1, <1>2, Zenon DEF ReaderTypes
<1>5. ReadOK'
  BY <1>1, <1>2, <1>3, ViewMoves, Zenon DEF ReadOK
<1>6. WaitOK'
  <2>1. ToldAtMost(got.info) => ToldAtMost(got.info)'
    BY <1>1, SameBefore, Zenon DEF ToldAtMost
  <2>2. ToldBelow(LatestId(Size(LatestLoc))) => ToldBelow(LatestId(Size(LatestLoc)))'
    BY <1>1, SameBefore, Zenon DEF ToldBelow
  <2> QED BY <1>1, <1>2, <2>1, <2>2, SameBefore, Zenon DEF WaitOK
<1> QED BY <1>1, <1>3, <1>4, <1>5, <1>6, ViewMoves, Zenon DEF ReaderInv

\* Every step of the reader keeps the invariant, and does not go back.
LEMMA ReaderKeeps == ASSUME Inv, Reader PROVE Inv' /\ got'.info >= got.info
<1>1. UNCHANGED writerVars
  BY Zenon DEF Reader, call, wait_notify, wait_state, read_latest_load,
     read_latest_seq, read_latest_info,
     read_latest_data, read_latest_recheck, futex_wait, wake
<1>2. WriterInv'
  BY <1>1, WriterStutters, Zenon DEF Inv
<1>3. got.info \in Nat
  BY Zenon DEF Inv, ReaderInv, ReaderTypes
<1>4. ASSUME NEW o \in {"read", "wait"}, call(o) PROVE ReaderInv' /\ got' = got
  BY <1>4, CallKeeps, Zenon DEF call
<1>5. ASSUME NEW j \in 1 .. Len(mem[<<"notify">>]), wait_notify(j) PROVE ReaderInv' /\ got' = got
  BY <1>5, NotifyLoadKeeps, Zenon DEF wait_notify, Size, NotifyLoc
<1>6. ASSUME NEW j \in 1 .. Len(mem[<<"state">>]), wait_state(j) PROVE ReaderInv' /\ got' = got
  BY <1>6, StateLoadKeeps, Zenon DEF wait_state, Size, StateLoc
<1>7. ASSUME NEW j \in 1 .. Len(mem[<<"latest">>]), read_latest_load(j) PROVE ReaderInv' /\ got' = got
  <2>1. ReaderInv'
    BY <1>7, LatestLoadKeeps, Zenon DEF Size, LatestLoc
  <2>2. got' = got
    BY <1>7, Zenon DEF read_latest_load, NoValue
  <2> QED BY <2>1, <2>2, Zenon
<1>8. ASSUME NEW j \in 1 .. Len(mem[<<"seq", latest.slot>>]), read_latest_seq(j)
      PROVE  ReaderInv' /\ got' = got
  <2>1. ReaderInv'
    BY <1>8, SeqLoadKeeps, Zenon
  <2>2. got' = got
    BY <1>8, Zenon DEF read_latest_seq, Retry, NoValue
  <2> QED BY <2>1, <2>2, Zenon
<1>9. latest.slot \in Slots
  BY Zenon DEF Inv, ReaderInv, ReaderTypes, Words
<1>10. ASSUME NEW j \in 1 .. Len(mem[<<"info", latest.slot>>]), read_latest_info(j)
       PROVE  ReaderInv' /\ got' = got
  <2> PICK s \in Slots : s = latest.slot
    BY <1>9, Zenon
  <2>1. /\ rpc = "info" /\ load_copy(InfoLoc(s), j) /\ j \in 1 .. Size(InfoLoc(s))
        /\ info' = Val(InfoLoc(s), j) /\ data' = data
        /\ rpc' = IF op = "read" THEN "data" ELSE "recheck"
        /\ UNCHANGED <<op, tries, n, latest, q1, got, busy>>
    BY <1>10, Zenon DEF read_latest_info, At, InfoLoc, Size, Val
  <2> QED BY <1>1, <2>1, CopyKeeps, Zenon
<1>11. ASSUME NEW j \in 1 .. Len(mem[<<"data", latest.slot>>]), read_latest_data(j)
       PROVE  ReaderInv' /\ got' = got
  <2> PICK s \in Slots : s = latest.slot
    BY <1>9, Zenon
  <2>1. /\ rpc = "data" /\ load_copy(DataLoc(s), j) /\ j \in 1 .. Size(DataLoc(s))
        /\ data' = Val(DataLoc(s), j) /\ info' = info
        /\ rpc' = "recheck"
        /\ UNCHANGED <<op, tries, n, latest, q1, got, busy>>
    BY <1>11, Zenon DEF read_latest_data, At, DataLoc, Size, Val
  <2> QED BY <1>1, <2>1, CopyKeeps, Zenon
<1>12. ASSUME NEW j \in 1 .. Len(mem[<<"seq", latest.slot>>]), read_latest_recheck(j)
       PROVE  ReaderInv' /\ got'.info >= got.info
  BY <1>12, RecheckKeeps, Zenon
<1>13. ASSUME futex_wait \/ wake PROVE ReaderInv' /\ got' = got
  <2>1. got' = got
    BY <1>13, Zenon DEF futex_wait, wake
  <2> QED BY <1>13, <2>1, SleepKeeps, Zenon
<1>14. ReaderInv' /\ (got' = got \/ got'.info >= got.info)
  BY <1>4, <1>5, <1>6, <1>7, <1>8, <1>10, <1>11, <1>12, <1>13, Zenon DEF Reader
<1> QED BY <1>2, <1>3, <1>14 DEF Inv

-----------------------------------------------------------------------------
(* The theorems. *)

\* A file as create_file leaves it.
LEMMA InitInv == Init => Inv
<1> SUFFICES ASSUME Init PROVE Inv
  BY Zenon
<1> DEFINE start == [l \in Locs |-> 1]
           first(l) == IF l = <<"latest">> THEN NONE ELSE IF l = <<"state">> THEN "in use" ELSE 0
<1>1. start \in Views /\ \A l \in Locs : start[l] = 1
  BY Zenon DEF Views
<1>2. 0 \in Slots /\ NONE \in Words
  BY OrderAssumption DEF Slots, Words, NONE
<1>3. /\ mem = [l \in Locs |-> <<[val |-> first(l), view |-> start]>>]
      /\ rel = start /\ view = start /\ acq = start
      /\ wpc = "idle" /\ wlatest = NONE /\ open_slot = 0 /\ open_seq = 0 /\ begins = 0
      /\ noted = <<>> /\ rpc = "idle" /\ op = "read" /\ tries = 0 /\ n = 0
      /\ latest = NONE /\ q1 = 0 /\ info = 0 /\ data = 0
      /\ got = [info |-> 0, data |-> 0] /\ busy = FALSE
  BY Zenon DEF Init
<1>4. \A l \in Locs : first(l) \in Values
  BY <1>2, Zenon DEF Values
<1>5. /\ \A s \in Slots : first(SeqLoc(s)) = 0 /\ first(InfoLoc(s)) = 0 /\ first(DataLoc(s)) = 0
      /\ first(LatestLoc) = NONE /\ first(NotifyLoc) = 0
  BY LocsAre, LocsDiffer, Zenon DEF LatestLoc, StateLoc, NotifyLoc
<1> HIDE DEF start, first
<1>6. MemTypes
  <2>1. \A l \in Locs : [val |-> first(l), view |-> start] \in Messages
    BY <1>1, <1>4, Zenon DEF Messages
  <2>2. \A l \in Locs : <<[val |-> first(l), view |-> start]>> \in Seq(Messages)
    BY <2>1
  <2> QED BY <1>3, <2>2, Zenon DEF MemTypes
<1>7. \A l \in Locs : mem[l] = <<[val |-> first(l), view |-> start]>>
  BY <1>3, Zenon
<1>8. \A l \in Locs : Size(l) = 1 /\ Val(l, 1) = first(l) /\ \A k \in Locs : Seen(l, 1, k) = 1
  <2> SUFFICES ASSUME NEW l \in Locs
               PROVE  Size(l) = 1 /\ Val(l, 1) = first(l) /\ \A k \in Locs : Seen(l, 1, k) = 1
    BY Zenon
  <2>1. mem[l] = <<[val |-> first(l), view |-> start]>>
    BY <1>7, Zenon
  <2>2. Len(mem[l]) = 1 /\ mem[l][1] = [val |-> first(l), view |-> start]
    BY <2>1
  <2> QED BY <1>1, <2>2 DEF Size, Val, Seen
<1>9. WriterTypes
  <2>1. noted \in Seq(Notes)
    BY <1>3
  <2> QED BY <1>1, <1>2, <1>3, <2>1, Zenon DEF WriterTypes
<1>10. Bounded(rel) /\ Bounded(view) /\ Bounded(acq)
  BY <1>1, <1>3, <1>8 DEF Bounded
<1>11. Contents
  <2>1. \A l \in Locs : Size(l) \in Nat \ {0} /\ \A j \in 1 .. Size(l) : Carries(l, j)
    BY <1>8 DEF Carries
  <2>2. \A l \in Locs : \A j \in 1 .. Size(l) : j = 1
    BY <1>8
  <2> QED BY <1>2, <1>5, <1>8, <2>1, <2>2, LocsAre DEF Contents
<1>12. \A s \in Slots : SlotOK(s)
  <2> SUFFICES ASSUME NEW s \in Slots PROVE SlotOK(s)
    BY Zenon
  <2>1. Size(SeqLoc(s)) = 1 /\ Size(InfoLoc(s)) = 1 /\ Size(DataLoc(s)) = 1
    BY <1>8, LocsAre, Zenon
  <2>2. /\ Seen(SeqLoc(s), 1, InfoLoc(s)) = 1 /\ Seen(SeqLoc(s), 1, DataLoc(s)) = 1
        /\ Val(InfoLoc(s), 1) = 0 /\ Val(DataLoc(s), 1) = 0
    BY <1>5, <1>8, LocsAre, Zenon
  <2>3. Rising(s)
    BY <2>1 DEF Rising
  <2>4. Whole(s, 1) /\ Guarded(s, 1)
    BY <2>1, <2>2 DEF Whole, Guarded, SeqId
  <2> QED BY <2>1, <2>3, <2>4 DEF SlotOK
<1>13. OpenOK
  BY <1>3, Zenon DEF OpenOK
<1>14. Size(LatestLoc) = 1 /\ Val(LatestLoc, 1) = NONE /\ LatestId(1) = 0
  BY <1>5, <1>8, LocsAre, Zenon DEF LatestId
<1>15. LatestOK
  <2>1. Names(1)
    BY <1>14, Zenon DEF Names
  <2> QED BY <1>3, <1>14, <2>1 DEF LatestOK, Top, Untouched
<1>16. NotifyOK
  BY <1>3, <1>8, LocsAre DEF NotifyOK
<1>17. ReaderTypes
  BY <1>1, <1>2, <1>3, Zenon DEF ReaderTypes
<1>18. view[LatestLoc] = 1
  BY <1>1, <1>3, LocsAre, Zenon
<1>19. ReadOK
  BY <1>3, <1>14, <1>18 DEF ReadOK
<1>20. WaitOK
  BY <1>3 DEF WaitOK
<1> QED BY <1>6, <1>9, <1>10, <1>11, <1>12, <1>13, <1>15, <1>16, <1>17, <1>19, <1>20, Zenon
        DEF Inv, WriterInv, ReaderInv

\* A step of either keeps the invariant, and what the reader got does not age.
LEMMA StepInv == ASSUME Inv, [Next]_vars PROVE Inv' /\ got'.info >= got.info
<1>1. got.info \in Nat
  BY Zenon DEF Inv, ReaderInv, ReaderTypes
<1>2. CASE Writer
  <2>1. UNCHANGED readerVars
    BY <1>2, Zenon DEF Writer, begin_slot, store_data, state_abort, commit_info,
       commit_seq, commit_latest,
       commit_notify, retire_state, retire_notify
  <2>2. Keeps
    BY <1>2, WriterKeeps, Zenon DEF Inv
  <2>3. ReaderInv'
    BY <2>1, <2>2, ReaderStutters, Zenon
  <2> QED BY <1>1, <2>1, <2>2, <2>3 DEF Inv, Keeps, readerVars
<1>3. CASE Reader
  BY <1>3, ReaderKeeps, Zenon
<1>4. CASE UNCHANGED vars
  <2>1. UNCHANGED writerVars /\ UNCHANGED readerVars
    BY <1>4, Zenon DEF vars
  <2>2. WriterInv'
    BY <2>1, WriterStutters, Zenon DEF Inv
  <2>3. Grows /\ NotedGrows
    <3>1. MemTypes /\ Contents /\ mem' = mem /\ noted' = noted /\ Len(noted) \in Nat
      BY <2>1 DEF writerVars, Inv, WriterInv, WriterTypes
    <3> QED BY <3>1, SameContents DEF NotedGrows
  <2>4. ReaderInv'
    BY <2>1, <2>2, <2>3, ReaderStutters, Zenon DEF Keeps
  <2> QED BY <1>1, <2>1, <2>2, <2>4 DEF Inv, readerVars
<1> QED BY <1>2, <1>3, <1>4, Zenon DEF Next

\* The invariant holds always.
THEOREM OrderInvariant == Spec => []Inv
<1>1. Inv /\ [Next]_vars => Inv'
  BY StepInv, Zenon
<1> QED BY <1>1, InitInv, PTL DEF Spec

\* read_latest returns the header and the payload of one publish, although the
\* machine reorders all accesses that the acquire and release orders and the
\* two fences of the code leave free.
THEOREM ReadIsAtomicOrdered == Spec => []OrderedReadIsAtomic
<1>1. Inv => OrderedReadIsAtomic
  BY Zenon DEF Inv, ReaderInv, ReadOK, OrderedReadIsAtomic
<1> QED BY <1>1, OrderInvariant, PTL

\* Successive reads and waits of a handle return publishes in their order.
THEOREM NeverOlderOrdered == Spec => OrderedNeverOlder
<1>1. Inv /\ [Next]_vars => [got'.info >= got.info]_vars
  BY StepInv, Zenon
<1> QED BY <1>1, OrderInvariant, PTL DEF Spec, OrderedNeverOlder

\* A waiter that FUTEX_WAIT puts to sleep has seen the publish or the
\* retirement that the value of notify it sleeps on stands for, or will be told
\* of a later one.
THEOREM SleepIsInformed == Spec => []SleepKnows
<1>1. ASSUME Inv PROVE SleepKnows
  <2> SUFFICES ASSUME rpc = "asleep", n > 0
               PROVE  ~noted[n].retired /\ (got.info >= noted[n].id \/ (busy /\ Newest > noted[n].id))
    BY Zenon DEF SleepKnows
  <2>1. ToldAtMost(got.info) \/ (busy /\ ToldBelow(LatestId(Size(LatestLoc))))
    BY <1>1, Zenon DEF Inv, ReaderInv, WaitOK
  <2>2. /\ ~noted[n].retired /\ noted[n].id > 0
        /\ noted[n].id <= got.info \/ (busy /\ noted[n].id < LatestId(Size(LatestLoc)))
    BY <2>1, Zenon DEF ToldAtMost, ToldBelow
  <2>3. noted[n].id \in Nat /\ got.info \in Nat
    BY <1>1, NoteOfN, Zenon DEF Inv, ReaderInv, ReaderTypes
  <2>4. LatestId(Size(LatestLoc)) = Newest
    <3>1. /\ Val(LatestLoc, Size(LatestLoc)) = wlatest /\ Untouched
          /\ wlatest.slot \in Slots
      BY <1>1, Zenon DEF Inv, WriterInv, LatestOK, Top, WriterTypes, Words
    <3>2. CASE wlatest = NONE
      BY <3>1, <3>2, Zenon DEF LatestId, Newest
    <3>3. CASE wlatest # NONE
      <4>1. LatestId(Size(LatestLoc)) = Val(InfoLoc(wlatest.slot), Size(InfoLoc(wlatest.slot)))
        BY <3>1, <3>3, Zenon DEF LatestId, SeqId, Untouched
      <4>2. Newest = Val(InfoLoc(wlatest.slot), Size(InfoLoc(wlatest.slot)))
        BY <3>3, Zenon DEF Newest, Last, Val, Size, InfoLoc
      <4> QED BY <4>1, <4>2, Zenon
    <3> QED BY <3>2, <3>3, Zenon
  <2> QED BY <2>2, <2>3, <2>4, Zenon
<1> QED BY <1>1, OrderInvariant, PTL
=============================================================================
