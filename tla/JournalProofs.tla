--------------------------- MODULE JournalProofs ---------------------------
(***************************************************************************)
(* Proofs about Journal, for any messages, ids, parents and bounds: its    *)
(* types, that it keeps the promise of Record, and that an outcome carries *)
(* the tags of its decision.                                               *)
(*                                                                         *)
(* What a batch leaves in the store is a recursive function of the rows    *)
(* already taken, so its properties are proved by induction over the batch *)
(* (Least, from the well-foundedness of strict inclusion of finite sets).  *)
(* The promise is not inductive: that a batch written leaves exactly its   *)
(* own messages needs that no message is in two places (InOnePlace).       *)
(***************************************************************************)
EXTENDS Journal, FiniteSetTheorems, SequenceTheorems, TLAPS

---------------------------------------------------------------------------
(* Induction over the naturals.                                            *)

(* A set of naturals that is not empty has a least member.                  *)
LEMMA Least ==
    ASSUME NEW T, T \subseteq Nat, T # {}
    PROVE  \E n \in T : \A m \in T : n <= m
<1> DEFINE Below == {0 .. n : n \in T}
<1>1. Below \subseteq FiniteSubsetsOf(Nat) /\ Below # {}
  <2>1. \A n \in T : IsFiniteSet(0 .. n)
    BY FS_Interval
  <2>2. \A n \in T : 0 .. n \in SUBSET Nat
    OBVIOUS
  <2>3. Below \subseteq FiniteSubsetsOf(Nat)
    BY <2>1, <2>2 DEF FiniteSubsetsOf
  <2> QED BY <2>3
<1>2. PICK n \in T : \A m \in T : <<0 .. m, 0 .. n>> \notin StrictSubsetOrdering(Nat)
  <2> HIDE DEF Below
  <2>1. IsWellFoundedOn(StrictSubsetOrdering(Nat), FiniteSubsetsOf(Nat))
    BY FS_StrictSubsetOrderingWellFounded
  <2>2. \E s \in Below : \A t \in Below : <<t, s>> \notin StrictSubsetOrdering(Nat)
    BY <1>1, <2>1, WFMin
  <2> QED BY <2>2 DEF Below
<1>3. ASSUME NEW m \in T, m < n PROVE <<0 .. m, 0 .. n>> \in StrictSubsetOrdering(Nat)
  <2>1. 0 .. m \subseteq 0 .. n /\ 0 .. m # 0 .. n /\ 0 .. n \subseteq Nat
    BY <1>3
  <2> QED BY <2>1 DEF StrictSubsetOrdering
<1>4. ASSUME NEW m \in T PROVE n <= m
  <2>1. ~ (m < n)
    BY <1>2, <1>3
  <2> QED BY <2>1
<1> QED BY <1>4

(* A set that holds zero and the successor of what it holds has them all.   *)
LEMMA Induction ==
    ASSUME NEW T, 0 \in T, \A n \in Nat : n \in T => n + 1 \in T
    PROVE  Nat \subseteq T
<1> DEFINE Left == {n \in Nat : n \notin T}
<1> SUFFICES ASSUME Left # {} PROVE FALSE
  OBVIOUS
<1>1. PICK n \in Left : \A m \in Left : n <= m
  BY Least
<1>2. n - 1 \in Nat /\ n - 1 \in T
  BY <1>1
<1> QED BY <1>1, <1>2

---------------------------------------------------------------------------
(* The rows a batch leaves.                                                *)

(* The rows are inserted one at a time, each into what the one before left. *)
LEMMA InsertedInTurn ==
    ASSUME NEW rows, NEW new, Len(new) \in Nat
    PROVE  \E after :
             /\ after[0] = rows /\ after[Len(new)] = InsertAll(rows, new)
             /\ \A n \in 1 .. Len(new) : after[n] = Insert(after[n - 1], new[n])
<1> DEFINE Made(f, k) ==
             f = [n \in 0 .. k |-> IF n = 0 THEN rows ELSE Insert(f[n - 1], new[n])]
           T == {k \in Nat : \E f : Made(f, k)}
<1>1. 0 \in T
  <2>1. Made([n \in 0 .. 0 |-> rows], 0)
    OBVIOUS
  <2> QED BY <2>1
<1>2. ASSUME NEW k \in Nat, k \in T PROVE k + 1 \in T
  <2>1. PICK f : Made(f, k)
    BY <1>2
  <2> DEFINE g == [n \in 0 .. k + 1 |-> IF n = k + 1 THEN Insert(f[k], new[k + 1]) ELSE f[n]]
  <2>2. \A n \in 0 .. k : g[n] = f[n]
    OBVIOUS
  <2>3. ASSUME NEW n \in 0 .. k + 1
        PROVE  g[n] = IF n = 0 THEN rows ELSE Insert(g[n - 1], new[n])
    <3>1. CASE n = k + 1
      BY <3>1, <2>2
    <3>2. CASE n \in 1 .. k
      BY <3>2, <2>2, <2>1
    <3>3. CASE n = 0
      BY <3>3, <2>1
    <3> QED BY <3>1, <3>2, <3>3
  <2>4. Made(g, k + 1)
    BY <2>3
  <2> HIDE DEF g, Made
  <2>5. \E h : Made(h, k + 1)
    BY <2>4
  <2> QED BY <2>5
<1>3. Nat \subseteq T
  <2> HIDE DEF T
  <2> QED BY <1>1, <1>2, Induction
<1>4. \E f : Made(f, Len(new))
  BY <1>3
<1> DEFINE after == CHOOSE f : Made(f, Len(new))
<1>5. Made(after, Len(new))
  BY <1>4
<1>6. InsertAll(rows, new) = after[Len(new)]
  BY DEF InsertAll
<1> HIDE DEF after
<1>7. after[0] = rows /\ \A n \in 1 .. Len(new) : after[n] = Insert(after[n - 1], new[n])
  BY <1>5
<1> QED BY <1>6, <1>7

IdOnce(rows) == \A i, j \in DOMAIN rows : Id[rows[i].msg] = Id[rows[j].msg] => i = j

\* What the first n of new leave of rows: what was there stays, what is added
\* is of them, each of them is there, and no id twice if none was.
Leaves(rows, new, n, got) ==
    /\ got \in Seq(Row) /\ Len(rows) <= Len(got)
    /\ \A i \in 1 .. Len(rows) : got[i] = rows[i]
    /\ \A i \in Len(rows) + 1 .. Len(got) : \E k \in 1 .. n : got[i] = new[k]
    /\ \A k \in 1 .. n : Has(got, Id[new[k].msg])
    /\ IdOnce(rows) => IdOnce(got)

(* One row more, new or met before (_INSERT).                               *)
LEMMA InsertLeaves ==
    ASSUME NEW rows \in Seq(Row), NEW new \in Seq(Row), NEW n \in Nat, n + 1 <= Len(new),
           NEW got, Leaves(rows, new, n, got)
    PROVE  Leaves(rows, new, n + 1, Insert(got, new[n + 1]))
<1> DEFINE row == new[n + 1]
<1>0. row \in Row /\ got \in Seq(Row) /\ n + 1 \in 1 .. Len(new)
  BY DEF Leaves
<1>1. CASE Has(got, Id[row.msg])
  <2>1. Insert(got, row) = got
    BY <1>1 DEF Insert
  <2>2. \A k \in 1 .. n + 1 : Has(got, Id[new[k].msg])
    BY <1>1 DEF Leaves
  <2> QED BY <2>1, <2>2, <1>0 DEF Leaves
<1>2. CASE ~ Has(got, Id[row.msg])
  <2> DEFINE all == Append(got, row)
  <2>1. Insert(got, row) = all
    BY <1>2 DEF Insert
  <2>2. /\ all \in Seq(Row) /\ Len(all) = Len(got) + 1 /\ Len(got) \in Nat
        /\ \A i \in 1 .. Len(got) : all[i] = got[i]
        /\ all[Len(got) + 1] = row
        /\ DOMAIN all = 1 .. Len(got) + 1 /\ DOMAIN got = 1 .. Len(got)
    BY <1>0, AppendProperties, LenProperties
  <2> HIDE DEF all, row
  <2>3. Len(rows) \in Nat /\ Len(rows) <= Len(got)
    BY LenProperties DEF Leaves
  <2>4. \A i \in 1 .. Len(rows) : all[i] = rows[i]
    BY <2>2, <2>3 DEF Leaves
  <2>5. \A i \in Len(rows) + 1 .. Len(all) : \E k \in 1 .. n + 1 : all[i] = new[k]
    <3> TAKE i \in Len(rows) + 1 .. Len(all)
    <3>1. CASE i = Len(got) + 1
      BY <3>1, <2>2 DEF row
    <3>2. CASE i \in Len(rows) + 1 .. Len(got)
      <4>1. all[i] = got[i]
        BY <3>2, <2>2, <2>3
      <4>2. PICK k \in 1 .. n : got[i] = new[k]
        BY <3>2 DEF Leaves
      <4> QED BY <4>1, <4>2
    <3> QED BY <3>1, <3>2, <2>2, <2>3
  <2>6. \A k \in 1 .. n + 1 : Has(all, Id[new[k].msg])
    <3>1. Has(all, Id[row.msg])
      BY <2>2 DEF Has
    <3>2. \A k \in 1 .. n : Has(all, Id[new[k].msg])
      <4> TAKE k \in 1 .. n
      <4>1. PICK i \in DOMAIN got : Id[got[i].msg] = Id[new[k].msg]
        BY DEF Leaves, Has
      <4>2. i \in DOMAIN all /\ all[i] = got[i]
        BY <4>1, <2>2
      <4> QED BY <4>1, <4>2 DEF Has
    <3> QED BY <3>1, <3>2 DEF row
  <2>7. IdOnce(rows) => IdOnce(all)
    <3>1. SUFFICES ASSUME IdOnce(got), NEW i \in DOMAIN all, NEW j \in DOMAIN all,
                          Id[all[i].msg] = Id[all[j].msg]
                   PROVE  i = j
      BY DEF IdOnce, Leaves
    <3>2. CASE i \in DOMAIN got /\ j \in DOMAIN got
      BY <3>1, <3>2, <2>2 DEF IdOnce
    <3>3. CASE i = Len(got) + 1 /\ j \in DOMAIN got
      BY <3>1, <3>3, <2>2, <1>2 DEF Has, row
    <3>4. CASE j = Len(got) + 1 /\ i \in DOMAIN got
      BY <3>1, <3>4, <2>2, <1>2 DEF Has, row
    <3> QED BY <3>2, <3>3, <3>4, <2>2
  <2> QED BY <2>1, <2>2, <2>3, <2>4, <2>5, <2>6, <2>7 DEF Leaves, row
<1> QED BY <1>1, <1>2

(* What all of new leave.                                                   *)
LEMMA InsertAllLeaves ==
    ASSUME NEW rows \in Seq(Row), NEW new \in Seq(Row)
    PROVE  Leaves(rows, new, Len(new), InsertAll(rows, new))
<1>0. Len(new) \in Nat
  BY LenProperties
<1>1. PICK after :
        /\ after[0] = rows /\ after[Len(new)] = InsertAll(rows, new)
        /\ \A n \in 1 .. Len(new) : after[n] = Insert(after[n - 1], new[n])
  BY <1>0, InsertedInTurn
<1> DEFINE T == {n \in Nat : n <= Len(new) => Leaves(rows, new, n, after[n])}
<1>2. 0 \in T
  <2>1. Leaves(rows, new, 0, rows)
    BY LenProperties DEF Leaves
  <2> QED BY <1>1, <2>1
<1>3. ASSUME NEW n \in Nat, n \in T PROVE n + 1 \in T
  <2> SUFFICES ASSUME n + 1 <= Len(new) PROVE Leaves(rows, new, n + 1, after[n + 1])
    OBVIOUS
  <2>1. Leaves(rows, new, n, after[n])
    BY <1>3, <1>0
  <2>2. after[n + 1] = Insert(after[n], new[n + 1])
    BY <1>1, <1>0
  <2> QED BY <2>1, <2>2, InsertLeaves
<1>4. Nat \subseteq T
  <2> HIDE DEF T
  <2> QED BY <1>2, <1>3, Induction
<1> QED BY <1>0, <1>1, <1>4

(* _inherit changes tags only.                                              *)
LEMMA InheritKeepsMessages ==
    ASSUME NEW rows \in Seq(Row), NEW batch \in Seq(Messages), NEW unread
    PROVE  /\ Inherit(batch, rows, unread) \in Seq(Row)
           /\ Len(Inherit(batch, rows, unread)) = Len(batch) /\ Len(batch) \in Nat
           /\ \A i \in 1 .. Len(batch) : Inherit(batch, rows, unread)[i].msg = batch[i]
<1>1. DOMAIN batch = 1 .. Len(batch) /\ Len(batch) \in Nat
  BY LenProperties
<1>2. \A i \in 1 .. Len(batch) : Inherit(batch, rows, unread)[i] \in Row
  <2>1. \A i \in 1 .. Len(batch) : batch[i] \in Messages
    BY <1>1, ElementOfSeq
  <2> QED BY <1>1, <2>1 DEF Inherit, Row
<1>3. Inherit(batch, rows, unread) \in [1 .. Len(batch) -> Row]
  BY <1>1, <1>2 DEF Inherit
<1> QED BY <1>1, <1>2, <1>3 DEF Inherit

(* What the append of a batch leaves.                                       *)
LEMMA AppendedLeaves ==
    ASSUME NEW rows \in Seq(Row), NEW batch \in Seq(Messages), NEW unread,
           NEW got, got = Appended(rows, batch, unread)
    PROVE  /\ got \in Seq(Row) /\ Len(rows) <= Len(got)
           /\ \A i \in 1 .. Len(rows) : got[i] = rows[i]
           /\ \A i \in Len(rows) + 1 .. Len(got) :
                \E k \in 1 .. Len(batch) : got[i] = Inherit(batch, rows, unread)[k]
           /\ \A k \in 1 .. Len(batch) : Has(got, Id[batch[k]])
           /\ IdOnce(rows) => IdOnce(got)
<1> DEFINE new == Inherit(batch, rows, unread)
<1>1. /\ new \in Seq(Row) /\ Len(new) = Len(batch)
      /\ \A k \in 1 .. Len(batch) : new[k].msg = batch[k]
  BY InheritKeepsMessages
<1>2. got = InsertAll(rows, new)
  BY DEF Appended
<1> HIDE DEF new
<1>3. Leaves(rows, new, Len(new), got)
  BY <1>1, <1>2, InsertAllLeaves
<1> QED BY <1>1, <1>3 DEF Leaves, new

---------------------------------------------------------------------------
(* The tags of an outcome.                                                 *)

FoundIn(rows, seen) ==
    \A i, j \in DOMAIN rows :
        /\ Parent[rows[i].msg] = Id[rows[j].msg] /\ j < i /\ rows[j].tags
        /\ ~ rows[i].missed
        /\ \A m \in seen : Id[m] = Parent[rows[i].msg] => m \in Tagged
        => rows[i].tags

(* The last entry of a batch with an id: its tags are the ones taken.       *)
LEMMA LastOfAnId ==
    ASSUME NEW batch \in Seq(Messages), NEW l \in DOMAIN batch,
           \A m \in DOMAIN batch : Id[batch[m]] = Id[batch[l]] => batch[m] \in Tagged
    PROVE  TaggedHere(batch, Id[batch[l]])
<1>1. DOMAIN batch = 1 .. Len(batch) /\ Len(batch) \in Nat
  BY LenProperties
<1> DEFINE Left == {Len(batch) - m : m \in {k \in DOMAIN batch : Id[batch[k]] = Id[batch[l]]}}
<1>2. Left \subseteq Nat /\ Left # {}
  BY <1>1
<1>3. PICK n \in Left : \A m \in Left : n <= m
  BY <1>2, Least
<1>4. PICK j \in DOMAIN batch : Id[batch[j]] = Id[batch[l]] /\ n = Len(batch) - j
  BY <1>3
<1>5. ASSUME NEW k \in DOMAIN batch, k > j PROVE Id[batch[k]] # Id[batch[l]]
  <2> SUFFICES ASSUME Id[batch[k]] = Id[batch[l]] PROVE FALSE
    OBVIOUS
  <2>1. Len(batch) - k \in Left
    OBVIOUS
  <2> HIDE DEF Left
  <2> QED BY <1>1, <1>3, <1>4, <1>5, <2>1
<1> QED BY <1>4, <1>5 DEF TaggedHere

(* A row of a batch has its decision's tags: the batch is asked first, where *)
(* a decision has tags of its own, and then the store, when it can be read. *)
LEMMA AppendedFinds ==
    ASSUME NEW rows \in Seq(Row), NEW batch \in Seq(Messages), NEW unread, NEW seen,
           Range(batch) \subseteq seen, FoundIn(rows, seen)
    PROVE  FoundIn(Appended(rows, batch, unread), seen)
<1> DEFINE got == Appended(rows, batch, unread)
           new == Inherit(batch, rows, unread)
<1>0. /\ got \in Seq(Row) /\ Len(rows) <= Len(got)
      /\ \A i \in 1 .. Len(rows) : got[i] = rows[i]
      /\ \A i \in Len(rows) + 1 .. Len(got) : \E k \in 1 .. Len(batch) : got[i] = new[k]
  BY AppendedLeaves
<1>1. /\ DOMAIN batch = 1 .. Len(batch) /\ DOMAIN rows = 1 .. Len(rows)
      /\ DOMAIN got = 1 .. Len(got)
      /\ Len(rows) \in Nat /\ Len(got) \in Nat /\ Len(batch) \in Nat
  BY <1>0, LenProperties
<1>2. ASSUME NEW k \in 1 .. Len(batch)
      PROVE  /\ new[k].msg = batch[k] /\ batch[k] \in Messages /\ batch[k] \in seen
             /\ new[k].missed <=> k \in unread
             /\ new[k].tags <=> \/ batch[k] \in Tagged
                               \/ /\ Parent[batch[k]] # None
                                  /\ TaggedHere(batch, Parent[batch[k]])
                               \/ /\ k \in Asking(batch) \ unread
                                  /\ TagsIn(rows, Parent[batch[k]])
  BY <1>1, ElementOfSeq DEF Inherit, Range
<1> HIDE DEF got, new
<1> SUFFICES ASSUME NEW i \in DOMAIN got, NEW j \in DOMAIN got, j < i,
                    Parent[got[i].msg] = Id[got[j].msg], got[j].tags, ~ got[i].missed,
                    \A m \in seen : Id[m] = Parent[got[i].msg] => m \in Tagged
             PROVE  got[i].tags
  BY DEF FoundIn, got
<1>4. CASE i \in DOMAIN rows
  <2>1. j \in DOMAIN rows /\ got[i] = rows[i] /\ got[j] = rows[j]
    BY <1>0, <1>1, <1>4
  <2> QED BY <1>4, <2>1 DEF FoundIn
<1>5. CASE i \notin DOMAIN rows
  <2>1. PICK k \in 1 .. Len(batch) : got[i] = new[k]
    BY <1>0, <1>1, <1>5
  <2>2. got[i].msg = batch[k] /\ k \notin unread /\ Parent[batch[k]] # None
    <3>1. got[j] \in Row
      BY <1>0, <1>1, ElementOfSeq
    <3>2. Id[got[j].msg] # None
      BY <3>1, ConstantsAssumption DEF Row
    <3> QED BY <1>2, <2>1, <3>2
  <2>3. CASE j \in DOMAIN rows
    <3>1. TagsIn(rows, Parent[batch[k]])
      BY <1>0, <1>1, <2>2, <2>3 DEF TagsIn
    <3>2. CASE k \in Asking(batch)
      BY <1>2, <2>1, <2>2, <3>1, <3>2
    <3>3. CASE k \notin Asking(batch)
      BY <1>1, <1>2, <2>1, <2>2, <3>3 DEF Asking
    <3> QED BY <3>2, <3>3
  <2>4. CASE j \notin DOMAIN rows
    <3>1. PICK l \in 1 .. Len(batch) : got[j] = new[l]
      BY <1>0, <1>1, <2>4
    <3>2. got[j].msg = batch[l]
      BY <1>2, <3>1
    <3>3. \A m \in DOMAIN batch : Id[batch[m]] = Id[batch[l]] => batch[m] \in Tagged
      BY <1>1, <1>2, <2>2, <3>2
    <3>4. TaggedHere(batch, Parent[batch[k]])
      BY <1>1, <2>2, <3>2, <3>3, LastOfAnId
    <3> QED BY <1>2, <2>1, <2>2, <3>4
  <2> QED BY <2>3, <2>4
<1> QED BY <1>4, <1>5

---------------------------------------------------------------------------
(* The invariant.                                                          *)

\* A message that has arrived is in the buffer or in one batch, not in two.
InOnePlace ==
    /\ Range(pending) \subseteq arrived
    /\ \A i \in DOMAIN queue : Range(queue[i]) \subseteq arrived /\ Range(queue[i]) \cap Range(pending) = {}
    /\ \A i, j \in DOMAIN queue : i # j => Range(queue[i]) \cap Range(queue[j]) = {}

IInv == TypeOK /\ InOnePlace /\ IdOnce(record) /\ OutcomeFound

RecordSound(rows, seen) == rows \in Seq(Row) /\ IdOnce(rows) /\ FoundIn(rows, seen)

(* A batch added to the record keeps its rows, its ids and its tags right.  *)
LEMMA RecordStaysSound ==
    ASSUME IInv, NEW batch \in Seq(Messages), Range(batch) \subseteq arrived, Takes(batch)
    PROVE  RecordSound(record', arrived)
<1>1. PICK unread : record' = Appended(record, batch, unread)
  BY DEF Takes
<1>2. FoundIn(record, arrived) /\ IdOnce(record) /\ record \in Seq(Row)
  BY DEF IInv, TypeOK, OutcomeFound, FoundIn
<1> QED BY <1>1, <1>2, AppendedLeaves, AppendedFinds DEF RecordSound

(* What more has arrived leaves a record as sound as it was.                *)
LEMMA StillSound ==
    ASSUME IInv, UNCHANGED record, arrived \subseteq arrived'
    PROVE  RecordSound(record', arrived')
<1>1. FoundIn(record, arrived')
  BY DEF IInv, OutcomeFound, FoundIn
<1> QED BY <1>1 DEF IInv, TypeOK, RecordSound

(* Nothing is anywhere at the start.                                        *)
LEMMA InvInit == Init => IInv
<1> SUFFICES ASSUME Init PROVE IInv
  OBVIOUS
<1>1. \A S : <<>> \in Seq(S) /\ Len(<<>>) = 0
  BY EmptySeq
<1>2. DOMAIN <<>> = {}
  OBVIOUS
<1>3. TypeOK
  <2>1. pending \in Seq(Messages) /\ queue \in Seq(Seq(Messages)) /\ record \in Seq(Row)
    BY <1>1 DEF Init
  <2>2. Len(pending) <= MaxPending /\ fails \in 0 .. DegradeAfter
    BY <1>1, ConstantsAssumption DEF Init
  <2>3. state \in States /\ worker \in {"idle", "ok", "failed"} /\ arrived \subseteq Messages
    BY DEF Init, States
  <2>4. writing \in BOOLEAN /\ opened \in BOOLEAN /\ attached \in BOOLEAN
    BY DEF Init
  <2> QED BY <2>1, <2>2, <2>3, <2>4 DEF TypeOK
<1>4. Range(pending) = {} /\ DOMAIN queue = {} /\ DOMAIN record = {}
  BY <1>2 DEF Init, Range
<1> QED BY <1>3, <1>4 DEF IInv, InOnePlace, IdOnce, OutcomeFound

(* What moves no message, and leaves the record or adds a batch to it.      *)
Placement == <<pending, queue, arrived>>

LEMMA SamePlaces == ASSUME InOnePlace, UNCHANGED Placement PROVE InOnePlace'
BY DEF InOnePlace, Placement

(* A buffer that is given up leaves every batch in its place.               *)
LEMMA Emptied ==
    ASSUME InOnePlace, pending' = <<>>, UNCHANGED <<queue, arrived>>
    PROVE  InOnePlace'
BY DEF InOnePlace, Range

(* Range of a sequence with one more.                                       *)
LEMMA RangeAppend ==
    ASSUME NEW S, NEW s \in Seq(S), NEW e \in S
    PROVE  Range(Append(s, e)) = Range(s) \cup {e}
<1>1. /\ DOMAIN Append(s, e) = 1 .. Len(s) + 1 /\ DOMAIN s = 1 .. Len(s) /\ Len(s) \in Nat
      /\ \A i \in 1 .. Len(s) : Append(s, e)[i] = s[i]
      /\ Append(s, e)[Len(s) + 1] = e
  BY AppendProperties, LenProperties
<1>2. ASSUME NEW x \in Range(Append(s, e)) PROVE x \in Range(s) \cup {e}
  BY <1>1, <1>2 DEF Range
<1>3. ASSUME NEW x \in Range(s) \cup {e} PROVE x \in Range(Append(s, e))
  <2>1. CASE x = e
    BY <1>1, <2>1 DEF Range
  <2>2. CASE x \in Range(s)
    <3>1. PICK i \in DOMAIN s : x = s[i]
      BY <2>2 DEF Range
    <3> QED BY <3>1, <1>1 DEF Range
  <2> QED BY <1>3, <2>1, <2>2
<1> QED BY <1>2, <1>3

(* An entry is new to the journal (on_entry).                               *)
LEMMA InvOnEntry == ASSUME IInv, NEW m \in Messages, OnEntry(m) PROVE IInv'
<1> USE DEF IInv, TypeOK
<1>1. pending' \in Seq(Messages) /\ Len(pending') <= MaxPending
  BY ConstantsAssumption DEF OnEntry
<1>2. TypeOK'
  BY <1>1 DEF OnEntry
<1>3. Range(pending') \subseteq Range(pending) \cup {m}
  BY RangeAppend DEF OnEntry
<1>4. InOnePlace'
  BY <1>3 DEF InOnePlace, OnEntry
<1>5. RecordSound(record', arrived')
  BY StillSound DEF OnEntry
<1> QED BY <1>2, <1>4, <1>5 DEF RecordSound, OutcomeFound, FoundIn

(* The flush hands the buffer over whole (_on_timer, _flush).               *)
LEMMA InvOnTimer == ASSUME IInv, OnTimer PROVE IInv'
<1> USE DEF IInv, TypeOK
<1>0. state' \in States /\ UNCHANGED <<record, arrived>>
  BY DEF OnTimer, Reconciled, States
<1>1. CASE pending = <<>> \/ writing
  <2>1. UNCHANGED <<pending, queue, writing>>
    BY <1>1 DEF OnTimer, Flush
  <2> QED BY <1>0, <2>1, SamePlaces DEF OnTimer, Placement, IdOnce, OutcomeFound
<1>2. CASE ~ (pending = <<>> \/ writing)
  <2>1. queue' = Append(queue, pending) /\ pending' = <<>> /\ writing' = TRUE
    BY <1>2 DEF OnTimer, Flush
  <2>2. /\ queue' \in Seq(Seq(Messages)) /\ DOMAIN queue' = 1 .. Len(queue) + 1
        /\ DOMAIN queue = 1 .. Len(queue) /\ Len(queue) \in Nat
        /\ \A i \in DOMAIN queue : queue'[i] = queue[i]
        /\ queue'[Len(queue) + 1] = pending
    BY <2>1, AppendProperties, LenProperties
  <2>3. TypeOK'
    BY <1>0, <2>1, <2>2, ConstantsAssumption DEF OnTimer
  <2>4. Range(pending') = {}
    BY <2>1 DEF Range
  <2>5. \A i \in DOMAIN queue' : i \in DOMAIN queue \/ i = Len(queue) + 1
    BY <2>2
  <2>6. InOnePlace'
    BY <1>0, <2>2, <2>4, <2>5 DEF InOnePlace
  <2> QED BY <1>0, <2>3, <2>6 DEF IdOnce, OutcomeFound
<1> QED BY <1>1, <1>2

(* The count of failures stops at the bound it is looked at for.            *)
LEMMA Counting == ASSUME TypeOK PROVE Failure \in 0 .. DegradeAfter /\ 0 \in 0 .. DegradeAfter
BY ConstantsAssumption DEF TypeOK, Failure

(* The first batch is written or lost (_write).                             *)
LEMMA InvWorkerWrites == ASSUME IInv, WorkerWrites PROVE IInv'
<1> USE DEF IInv, TypeOK
<1>1. /\ queue' \in Seq(Seq(Messages)) /\ queue[1] \in Seq(Messages)
      /\ DOMAIN queue' = 1 .. Len(queue) - 1 /\ DOMAIN queue = 1 .. Len(queue) /\ Len(queue) \in Nat
      /\ \A i \in DOMAIN queue' : queue'[i] = queue[i + 1]
  BY HeadTailProperties, LenProperties, ElementOfSeq, EmptySeq DEF WorkerWrites
<1>2. RecordSound(record', arrived')
  <2>0. UNCHANGED arrived /\ Range(queue[1]) \subseteq arrived
    BY EmptySeq, LenProperties DEF WorkerWrites, InOnePlace
  <2>1. CASE Takes(queue[1])
    BY <1>1, <2>0, <2>1, RecordStaysSound
  <2>2. CASE UNCHANGED record
    BY <2>0, <2>2, StillSound
  <2> QED BY <2>1, <2>2 DEF WorkerWrites, Stored, Lost, Takes
<1>3. TypeOK'
  <2>1. fails' \in 0 .. DegradeAfter
    BY Counting DEF WorkerWrites, Stored, Lost
  <2>2. opened' \in BOOLEAN /\ worker' \in {"idle", "ok", "failed"}
    BY Zenon DEF WorkerWrites, Stored, Lost
  <2> QED BY <1>1, <1>2, <2>1, <2>2 DEF WorkerWrites, RecordSound
<1>4. InOnePlace'
  <2>1. \A i \in DOMAIN queue' : i + 1 \in DOMAIN queue
    BY <1>1
  <2>2. \A i, j \in DOMAIN queue' : i # j => i + 1 # j + 1
    BY <1>1
  <2> QED BY <1>1, <2>1, <2>2 DEF InOnePlace, WorkerWrites
<1> QED BY <1>2, <1>3, <1>4 DEF RecordSound, OutcomeFound, FoundIn

(* The lifecycle gives the buffer up or writes it, and leaves the batches   *)
(* where they are.                                                          *)
LEMMA InvLifecycle ==
    ASSUME IInv, WorkerReturns \/ OnStart \/ OnStop \/ OnResume \/ OnSave \/ OnReset \/ OnDispose
    PROVE  IInv'
<1> USE DEF IInv, TypeOK
<1>1. UNCHANGED <<queue, arrived>> /\ pending' \in {pending, <<>>}
  BY DEF WorkerReturns, OnStart, OnStop, OnResume, OnSave, OnReset, OnDispose, FlushDirect
<1>2. RecordSound(record', arrived')
  <2>1. CASE Takes(pending)
    BY <1>1, <2>1, RecordStaysSound DEF InOnePlace
  <2>2. CASE UNCHANGED record
    BY <1>1, <2>2, StillSound
  <2> QED BY <2>1, <2>2 DEF WorkerReturns, OnStart, OnStop, OnResume, OnSave, OnReset, OnDispose,
                            FlushDirect, Stored, Lost, Takes
<1>3. fails' \in 0 .. DegradeAfter
  BY Counting DEF WorkerReturns, Returns, OnStart, OnStop, OnResume, OnSave, OnReset, OnDispose,
                  FlushDirect, Stored, Lost
<1>4. state' \in States
  BY DEF WorkerReturns, OnStart, OnStop, OnResume, OnSave, OnReset, OnDispose, States
<1>5. /\ writing' \in BOOLEAN /\ opened' \in BOOLEAN /\ attached' \in BOOLEAN
      /\ worker' \in {"idle", "ok", "failed"}
  BY Zenon DEF WorkerReturns, Returns, OnStart, OnStop, OnResume, OnSave, OnReset, OnDispose,
               FlushDirect, Stored, Lost
<1>6. pending' \in Seq(Messages) /\ Len(pending') <= MaxPending
  <2>1. CASE pending' = pending
    BY <2>1
  <2>2. CASE pending' = <<>>
    BY <2>2, ConstantsAssumption, EmptySeq
  <2> QED BY <1>1, <2>1, <2>2
<1>7. TypeOK'
  BY <1>1, <1>2, <1>3, <1>4, <1>5, <1>6 DEF RecordSound
<1>8. InOnePlace'
  BY <1>1, Emptied, SamePlaces DEF Placement
<1> QED BY <1>2, <1>7, <1>8 DEF RecordSound, OutcomeFound, FoundIn

(* The invariant is kept by every step of either thread.                    *)
LEMMA InvNext == IInv /\ [Next]_vars => IInv'
<1> SUFFICES ASSUME IInv, [Next]_vars PROVE IInv'
  OBVIOUS
<1>1. CASE UNCHANGED vars
  BY <1>1 DEF vars, IInv, TypeOK, InOnePlace, IdOnce, OutcomeFound
<1>2. CASE Next
  BY <1>2, InvOnEntry, InvOnTimer, InvWorkerWrites, InvLifecycle DEF Next
<1> QED BY <1>1, <1>2

(* In every state a message that has arrived and is not yet given up is in  *)
(* one place only, no id is in the record twice, and all is of its type.    *)
THEOREM Inductive == Spec => []IInv
BY InvInit, InvNext, PTL DEF Spec

(* The buffer stays under its cap, and the rest is of its type.             *)
THEOREM TypeCorrect == Spec => []TypeOK
<1>1. IInv => TypeOK
  BY DEF IInv
<1> QED BY <1>1, Inductive, PTL

(* An outcome carries the tags of a decision written before it or with it   *)
(* (_inherit), whatever writes fail and whoever flushes.                    *)
THEOREM TagsFollow == Spec => []OutcomeFound
<1>1. IInv => OutcomeFound
  BY DEF IInv
<1> QED BY <1>1, Inductive, PTL

---------------------------------------------------------------------------
(* The promise.                                                            *)

Waiting == Range(pending) \cup InFlight
Kept(rows) == [i \in DOMAIN rows |-> rows[i].msg]

(* A batch that is written whole, out of what waits, is kept as Record      *)
(* says: the record has only grown, and holds each of its messages once.    *)
LEMMA WrittenIsKept ==
    ASSUME IInv, IInv', NEW batch \in Seq(Messages), Takes(batch), UNCHANGED arrived,
           Range(batch) \subseteq Waiting, Waiting' = Waiting \ Range(batch)
    PROVE  Promise!Keep
<1> PICK unread : record' = Appended(record, batch, unread)
  BY DEF Takes
<1>0. record \in Seq(Row) /\ record' \in Seq(Row) /\ IdOnce(record')
  BY DEF IInv, TypeOK
<1>1. /\ Len(record) <= Len(record') /\ \A i \in 1 .. Len(record) : record'[i] = record[i]
      /\ \A i \in Len(record) + 1 .. Len(record') :
            \E k \in 1 .. Len(batch) : record'[i] = Inherit(batch, record, unread)[k]
      /\ \A k \in 1 .. Len(batch) : Has(record', Id[batch[k]])
  BY <1>0, AppendedLeaves
<1>2. /\ DOMAIN record = 1 .. Len(record) /\ DOMAIN record' = 1 .. Len(record')
      /\ DOMAIN batch = 1 .. Len(batch)
      /\ Len(record) \in Nat /\ Len(record') \in Nat
  BY <1>0, LenProperties
<1>3. \A k \in 1 .. Len(batch) : Inherit(batch, record, unread)[k].msg = batch[k]
  BY <1>0, InheritKeepsMessages
<1>4. \A i \in DOMAIN record' : record'[i].msg \in Messages
  <2> TAKE i \in DOMAIN record'
  <2>1. record'[i] \in Row
    BY <1>0, <1>2, ElementOfSeq
  <2> QED BY <2>1 DEF Row
<1>5. IsPrefix(Kept(record), Kept(record'))
  <2>1. /\ Kept(record) \in Seq(Messages) /\ Len(Kept(record)) = Len(record)
        /\ \A i \in 1 .. Len(record) : Kept(record)[i] = record[i].msg
    <3>1. \A i \in DOMAIN record : record[i].msg \in Messages
      BY <1>1, <1>2, <1>4
    <3> QED BY <1>2, <3>1 DEF Kept
  <2>2. /\ Kept(record') \in Seq(Messages) /\ Len(Kept(record')) = Len(record')
        /\ \A i \in 1 .. Len(record') : Kept(record')[i] = record'[i].msg
    BY <1>2, <1>4 DEF Kept
  <2>3. SubSeq(Kept(record), 1, Len(record)) = SubSeq(Kept(record'), 1, Len(record))
    <3> DEFINE s == SubSeq(Kept(record), 1, Len(record))
               t == SubSeq(Kept(record'), 1, Len(record))
    <3>1. /\ s \in Seq(Messages) /\ Len(s) = Len(record)
          /\ \A i \in 1 .. Len(record) : s[i] = record[i].msg
      BY <1>2, <2>1
    <3>2. /\ t \in Seq(Messages) /\ Len(t) = Len(record)
          /\ \A i \in 1 .. Len(record) : t[i] = record'[i].msg
      BY <1>1, <1>2, <2>2
    <3>3. \A i \in 1 .. Len(s) : s[i] = t[i]
      BY <1>1, <3>1, <3>2
    <3> HIDE DEF s, t
    <3>4. s = t
      BY <3>1, <3>2, <3>3, SeqEqual
    <3> QED BY <3>4 DEF s, t
  <2> QED BY <1>1, <2>1, <2>2, <2>3 DEF IsPrefix
<1>6. Promise!Distinct(Kept(record'))
  BY <1>0 DEF Promise!Distinct, Kept, IdOnce
<1>7. \A i \in DOMAIN Kept(record') \ DOMAIN Kept(record) : Kept(record')[i] \in Range(batch)
  <2> TAKE i \in DOMAIN Kept(record') \ DOMAIN Kept(record)
  <2>1. i \in Len(record) + 1 .. Len(record')
    BY <1>1, <1>2 DEF Kept
  <2>2. PICK k \in 1 .. Len(batch) : record'[i] = Inherit(batch, record, unread)[k]
    BY <1>1, <2>1
  <2> QED BY <1>2, <1>3, <2>1, <2>2 DEF Kept, Range
<1>8. \A m \in Range(batch) : Promise!Held(Kept(record'), m)
  <2> TAKE m \in Range(batch)
  <2>1. PICK k \in 1 .. Len(batch) : m = batch[k]
    BY <1>2 DEF Range
  <2>2. PICK i \in DOMAIN record' : Id[record'[i].msg] = Id[m]
    BY <1>1, <2>1 DEF Has
  <2> QED BY <2>2 DEF Promise!Held, Kept
<1>9. Promise!IsPrefix(Kept(record), Kept(record'))
  BY <1>5 DEF IsPrefix, Promise!IsPrefix
<1>10. Range(batch) \in SUBSET Waiting
  OBVIOUS
<1> QED BY <1>6, <1>7, <1>8, <1>9, <1>10 DEF Promise!Keep, Waiting, Kept

Same == UNCHANGED <<arrived, Waiting, Kept(record)>>

(* What waits is in the buffer or in a batch.                               *)
LEMMA WhoWaits ==
    \A m : m \in Waiting <=> m \in Range(pending) \/ \E i \in DOMAIN queue : m \in Range(queue[i])
BY DEF Waiting, InFlight

(* An entry is taken; whether it waits is up to the buffer (on_entry).      *)
LEMMA EntryIsTaken == ASSUME IInv, NEW m \in Messages, OnEntry(m) PROVE Promise!Take
<1>1. Range(pending') \in {Range(pending), Range(pending) \cup {m}}
  BY RangeAppend DEF OnEntry, IInv, TypeOK
<1>2. UNCHANGED InFlight
  BY DEF OnEntry, InFlight
<1> QED BY <1>1, <1>2 DEF OnEntry, Promise!Take

(* Handing a batch to the executor changes nothing that was promised.       *)
LEMMA HandedOverWaits == ASSUME IInv, OnTimer PROVE Same
<1>0. UNCHANGED <<record, arrived>>
  BY DEF OnTimer
<1>1. CASE pending = <<>> \/ writing
  BY <1>0, <1>1 DEF OnTimer, Flush, Same, Waiting, InFlight, Kept
<1>2. CASE ~ (pending = <<>> \/ writing)
  <2>1. queue' = Append(queue, pending) /\ pending' = <<>>
    BY <1>2 DEF OnTimer, Flush
  <2>2. /\ DOMAIN queue' = 1 .. Len(queue) + 1
        /\ DOMAIN queue = 1 .. Len(queue) /\ Len(queue) \in Nat
        /\ \A i \in DOMAIN queue : queue'[i] = queue[i]
        /\ queue'[Len(queue) + 1] = pending
    BY <2>1, AppendProperties, LenProperties DEF IInv, TypeOK
  <2>3. Range(pending') = {}
    BY <2>1 DEF Range
  <2>4. InFlight' = InFlight \cup Range(pending)
    <3>1. ASSUME NEW m \in InFlight' PROVE m \in InFlight \cup Range(pending)
      <4>1. PICK i \in DOMAIN queue' : m \in Range(queue'[i])
        BY <3>1 DEF InFlight
      <4>2. i \in DOMAIN queue \/ i = Len(queue) + 1
        BY <2>2
      <4> QED BY <2>2, <4>1, <4>2 DEF InFlight
    <3>2. ASSUME NEW m \in InFlight \cup Range(pending) PROVE m \in InFlight'
      <4>1. CASE m \in Range(pending)
        <5>1. Len(queue) + 1 \in DOMAIN queue'
          BY <2>2
        <5> QED BY <2>2, <4>1, <5>1 DEF InFlight
      <4>2. CASE m \in InFlight
        <5>1. PICK i \in DOMAIN queue : m \in Range(queue[i])
          BY <4>2 DEF InFlight
        <5>2. i \in DOMAIN queue'
          BY <2>2
        <5> QED BY <2>2, <5>1, <5>2 DEF InFlight
      <4> QED BY <3>2, <4>1, <4>2
    <3> QED BY <3>1, <3>2
  <2> QED BY <1>0, <2>3, <2>4 DEF Same, Waiting, Kept
<1> QED BY <1>1, <1>2

(* The batch in front leaves the queue, to be kept or given up (_write).    *)
LEMMA WriteKeepsOrGivesUp ==
    ASSUME IInv, IInv', WorkerWrites PROVE Promise!Keep \/ Promise!GiveUp
<1>1. /\ queue[1] \in Seq(Messages) /\ 1 \in DOMAIN queue
      /\ DOMAIN queue' = 1 .. Len(queue) - 1 /\ DOMAIN queue = 1 .. Len(queue) /\ Len(queue) \in Nat
      /\ \A i \in DOMAIN queue' : queue'[i] = queue[i + 1]
  BY HeadTailProperties, LenProperties, ElementOfSeq, EmptySeq DEF WorkerWrites, IInv, TypeOK
<1>2. UNCHANGED <<pending, arrived>>
  BY DEF WorkerWrites
<1>3. Waiting' = Waiting \ Range(queue[1])
  <2>1. ASSUME NEW m \in Waiting' PROVE m \in Waiting \ Range(queue[1])
    <3>1. CASE m \in Range(pending)
      BY <1>1, <3>1 DEF IInv, InOnePlace, Waiting
    <3>2. CASE \E i \in DOMAIN queue' : m \in Range(queue'[i])
      <4>1. PICK i \in DOMAIN queue' : m \in Range(queue'[i])
        BY <3>2
      <4>2. i + 1 \in DOMAIN queue /\ i + 1 # 1 /\ m \in Range(queue[i + 1])
        BY <1>1, <4>1
      <4> QED BY <1>1, <4>2, WhoWaits DEF IInv, InOnePlace
    <3> QED BY <1>2, <2>1, <3>1, <3>2 DEF Waiting, InFlight
  <2>2. ASSUME NEW m \in Waiting \ Range(queue[1]) PROVE m \in Waiting'
    <3>1. CASE m \in Range(pending)
      BY <1>2, <3>1 DEF Waiting
    <3>2. CASE \E i \in DOMAIN queue : m \in Range(queue[i])
      <4>1. PICK i \in DOMAIN queue : m \in Range(queue[i])
        BY <3>2
      <4>2. i - 1 \in DOMAIN queue' /\ queue'[i - 1] = queue[i]
        <5>1. i # 1
          BY <2>2, <4>1
        <5> QED BY <1>1, <5>1
      <4> QED BY <4>1, <4>2 DEF Waiting, InFlight
    <3> QED BY <2>2, <3>1, <3>2, WhoWaits
  <2> QED BY <2>1, <2>2
<1>4. CASE Takes(queue[1])
  <2>1. Range(queue[1]) \subseteq Waiting
    BY <1>1, WhoWaits
  <2> QED BY <1>1, <1>2, <1>3, <1>4, <2>1, WrittenIsKept
<1>5. CASE UNCHANGED record
  BY <1>2, <1>3, <1>5 DEF Promise!GiveUp, Waiting
<1> QED BY <1>4, <1>5 DEF WorkerWrites, Stored, Lost, Takes

(* The buffer is written, given up or left as it is, and the batches stay.  *)
LEMMA LifecycleKeepsOrGivesUp ==
    ASSUME IInv, IInv',
           WorkerReturns \/ OnStart \/ OnStop \/ OnResume \/ OnSave \/ OnReset \/ OnDispose
    PROVE  Promise!Keep \/ Promise!GiveUp \/ Same
<1>1. UNCHANGED <<queue, arrived>>
  BY DEF WorkerReturns, OnStart, OnStop, OnResume, OnSave, OnReset, OnDispose
<1>2. UNCHANGED InFlight
  BY <1>1 DEF InFlight
<1>3. CASE pending' = <<>>
  <2>1. Range(pending') = {}
    BY <1>3 DEF Range
  <2>2. Waiting' = Waiting \ Range(pending) /\ Range(pending) \subseteq Waiting
    <3>1. Range(pending) \cap InFlight = {}
      BY DEF IInv, InOnePlace, InFlight
    <3> QED BY <1>2, <2>1, <3>1 DEF Waiting
  <2>3. CASE Takes(pending)
    BY <1>1, <2>2, <2>3, WrittenIsKept DEF IInv, TypeOK
  <2>4. CASE UNCHANGED record
    BY <1>1, <2>2, <2>4 DEF Promise!GiveUp, Waiting
  <2> QED BY <2>3, <2>4 DEF WorkerReturns, OnStart, OnStop, OnResume, OnSave, OnReset, OnDispose,
                            FlushDirect, Stored, Lost, Takes
<1>4. CASE pending' # <<>>
  <2>1. UNCHANGED <<pending, record>>
    BY <1>4 DEF WorkerReturns, OnStart, OnStop, OnResume, OnSave, OnReset, OnDispose, FlushDirect
  <2> QED BY <1>1, <1>2, <2>1 DEF Same, Waiting, Kept
<1> QED BY <1>3, <1>4

(* Every step of the journal is a step of the promise, or none.             *)
LEMMA StepRefines == IInv /\ IInv' /\ [Next]_vars => Promise!Next \/ Same
<1> SUFFICES ASSUME IInv, IInv', [Next]_vars PROVE Promise!Next \/ Same
  OBVIOUS
<1>1. CASE UNCHANGED vars
  BY <1>1 DEF vars, Same, Waiting, InFlight, Kept
<1>2. CASE Next
  BY <1>2, EntryIsTaken, HandedOverWaits, WriteKeepsOrGivesUp, LifecycleKeepsOrGivesUp
     DEF Next, Promise!Next
<1> QED BY <1>1, <1>2

(* Whatever the executor, the timer, the store and the lifecycle do, in any *)
(* order, the journal does what Record says: each message is taken once,    *)
(* and ends in the record with its whole batch or is given up with it.      *)
THEOREM PromiseIsKept == Spec => KeepsPromise
<1>1. Init => Promise!Init
  BY DEF Init, Promise!Init, Range, InFlight
<1>2. IInv /\ IInv' /\ [Next]_vars
      => [Promise!Next]_<<arrived, Range(pending) \cup InFlight, [i \in DOMAIN record |-> record[i].msg]>>
  BY StepRefines DEF Same, Waiting, Kept
<1> QED BY <1>1, <1>2, Inductive, PTL DEF Spec, KeepsPromise, Promise!Spec
=============================================================================
