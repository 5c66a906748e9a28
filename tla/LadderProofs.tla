--------------------------- MODULE LadderProofs ---------------------------
(***************************************************************************)
(* Proofs about Ladder, for any candidates, shares, ceiling and samples.   *)
(*                                                                         *)
(* That the ceiling holds is a sum over the candidates: it moves by what   *)
(* one row moves, and what the file and the copy of another process hold   *)
(* was once the ladder of the node, or less of it, or amends it without a  *)
(* share.  That a candidate is promoted on its own trades needs that what  *)
(* was counted and what is still to be counted are together no more than   *)
(* it closed.  That a cap was granted needs that a share only grows while  *)
(* the node runs, until its strategy is stopped.                           *)
(***************************************************************************)
EXTENDS Ladder, FiniteSetTheorems, TLAPS

\* A share goes with its rung, and so does the sample of a rung with capital
\* that the candidate entered.
RowOK(r) == /\ r \in Row
            /\ r.alloc = Of(r.rung)
            /\ r.rung \in Live /\ r.whole => r.after = LiveEpisodes

LadderOK(l) == /\ l \in Ladders
               /\ \A c \in Candidates : RowOK(l[c])
               /\ Allocated(l) <= Ceiling

\* Closed positions the node has not counted yet.
Uncounted(c) == IF c \in Strategies THEN closed[c] - counted[c] ELSE 0

\* What was counted at this rung was closed at it.
Sampled(l) == \A c \in Candidates : l[c].seen + l[c].base <= total[c]

Phases ==
    /\ ~up => /\ ladder = Empty /\ pass = "idle" /\ closed = counted
              /\ cap = [i \in Instruments |-> 0]
    /\ pass = "idle" => todo = {}
    /\ \A c \in todo : Uncounted(c) = 0

Counts ==
    /\ \A c \in Strategies : counted[c] <= closed[c]
    /\ \A c \in Candidates : up => ladder[c].seen + ladder[c].base + Uncounted(c) <= total[c]
    /\ Sampled(file) /\ Sampled(edit.copy)

Shares == LadderOK(ladder) /\ LadderOK(file) /\ LadderOK(edit.copy)

IInv == TypeOK /\ Phases /\ Shares /\ Counts /\ CapWasGranted

---------------------------------------------------------------------------
(* Rows and ladders.                                                       *)

(* Shares are numbers, and so is the ceiling.                               *)
LEMMA ShareTypes ==
    /\ Small \in Nat /\ Full \in Nat /\ Ceiling \in Nat
    /\ 0 < Small /\ Small < Full
BY ConstantsAssumption

(* One more, or one less, of a share.                                       *)
LEMMA Shift ==
    ASSUME NEW k \in Nat, NEW n \in Nat
    PROVE  k * (n + 1) = k * n + k
BY SMT

(* More of a share gives out no less.                                       *)
LEMMA Grows ==
    ASSUME NEW k \in Nat, NEW n \in Nat, NEW m \in Nat, n <= m
    PROVE  k * n <= k * m /\ k * n \in Nat /\ k * m \in Nat
BY SMT

\* A row counts once among those with its share.
Has(row, share) == IF row.alloc = share THEN 1 ELSE 0

(* The candidates with a share, once one row may have changed.              *)
LEMMA HoldingChanges ==
    ASSUME NEW l \in Ladders, NEW m \in Ladders, NEW c \in Candidates, NEW share \in Nat,
           \A d \in Candidates \ {c} : m[d].alloc = l[d].alloc
    PROVE  \E n \in Nat :
               /\ Cardinality(Holding(l, share)) = n + Has(l[c], share)
               /\ Cardinality(Holding(m, share)) = n + Has(m[c], share)
<1> DEFINE rest == Holding(l, share) \ {c}
<1>1. IsFiniteSet(rest)
  <2>1. rest \subseteq Candidates
    BY DEF Holding
  <2> QED BY <2>1, ConstantsAssumption, FS_Subset
<1>2. Cardinality(rest) \in Nat
  BY <1>1, FS_CardinalityType
<1>3. c \notin rest
  OBVIOUS
<1>4. Cardinality(rest \cup {c}) = Cardinality(rest) + 1
  BY <1>1, <1>3, FS_AddElement
<1>5. Holding(l, share) = IF l[c].alloc = share THEN rest \cup {c} ELSE rest
  BY DEF Holding
<1>6. Holding(m, share) = IF m[c].alloc = share THEN rest \cup {c} ELSE rest
  BY DEF Holding
<1> HIDE DEF rest
<1>7. /\ Cardinality(Holding(l, share)) = Cardinality(rest) + (IF l[c].alloc = share THEN 1 ELSE 0)
      /\ Cardinality(Holding(m, share)) = Cardinality(rest) + (IF m[c].alloc = share THEN 1 ELSE 0)
  <2>1. Cardinality(Holding(l, share)) = Cardinality(rest) + (IF l[c].alloc = share THEN 1 ELSE 0)
    <3>1. CASE l[c].alloc = share
      BY <1>4, <1>5, <3>1
    <3>2. CASE l[c].alloc # share
      BY <1>2, <1>5, <3>2
    <3> QED BY <3>1, <3>2
  <2>2. Cardinality(Holding(m, share)) = Cardinality(rest) + (IF m[c].alloc = share THEN 1 ELSE 0)
    <3>1. CASE m[c].alloc = share
      BY <1>4, <1>6, <3>1
    <3>2. CASE m[c].alloc # share
      BY <1>2, <1>6, <3>2
    <3> QED BY <3>1, <3>2
  <2> QED BY <2>1, <2>2
<1> DEFINE n == Cardinality(rest)
<1>8. /\ n \in Nat
      /\ Cardinality(Holding(l, share)) = n + Has(l[c], share)
      /\ Cardinality(Holding(m, share)) = n + Has(m[c], share)
  BY <1>2, <1>7 DEF Has
<1> HIDE DEF n
<1> QED BY <1>8

(* What the ladder gives out is a number, and moves by what one row moves.  *)
LEMMA AllocatedChanges ==
    ASSUME NEW l \in Ladders, NEW m \in Ladders, NEW c \in Candidates,
           \A d \in Candidates \ {c} : m[d].alloc = l[d].alloc
    PROVE  /\ Allocated(l) \in Nat /\ Allocated(m) \in Nat
           /\ Allocated(m) = Allocated(l) - l[c].alloc + m[c].alloc
<1>1. PICK n \in Nat :
        /\ Cardinality(Holding(l, Small)) = n + Has(l[c], Small)
        /\ Cardinality(Holding(m, Small)) = n + Has(m[c], Small)
  BY ShareTypes, HoldingChanges
<1>2. PICK k \in Nat :
        /\ Cardinality(Holding(l, Full)) = k + Has(l[c], Full)
        /\ Cardinality(Holding(m, Full)) = k + Has(m[c], Full)
  BY ShareTypes, HoldingChanges
<1>3. l[c].alloc \in {0, Small, Full} /\ m[c].alloc \in {0, Small, Full}
  BY DEF Ladders, Row
<1>4. /\ Small * (n + 1) = Small * n + Small /\ Full * (k + 1) = Full * k + Full
      /\ Small * n \in Nat /\ Full * k \in Nat
  BY ConstantsAssumption, Shift
<1>5. /\ Small * Cardinality(Holding(l, Small)) = Small * n + (IF l[c].alloc = Small THEN Small ELSE 0)
      /\ Small * Cardinality(Holding(m, Small)) = Small * n + (IF m[c].alloc = Small THEN Small ELSE 0)
  BY <1>1, <1>4 DEF Has
<1>6. /\ Full * Cardinality(Holding(l, Full)) = Full * k + (IF l[c].alloc = Full THEN Full ELSE 0)
      /\ Full * Cardinality(Holding(m, Full)) = Full * k + (IF m[c].alloc = Full THEN Full ELSE 0)
  BY <1>2, <1>4 DEF Has
<1>7. /\ Allocated(l) = (Small * n + (IF l[c].alloc = Small THEN Small ELSE 0))
                         + (Full * k + (IF l[c].alloc = Full THEN Full ELSE 0))
      /\ Allocated(m) = (Small * n + (IF m[c].alloc = Small THEN Small ELSE 0))
                         + (Full * k + (IF m[c].alloc = Full THEN Full ELSE 0))
  BY <1>5, <1>6 DEF Allocated
<1> HIDE DEF Allocated
<1> QED BY <1>3, <1>4, <1>7, ConstantsAssumption

(* The sum is of the shares alone.                                          *)
LEMMA AllocatedSame ==
    ASSUME NEW l, NEW m, \A c \in Candidates : m[c].alloc = l[c].alloc
    PROVE  Allocated(m) = Allocated(l)
<1>1. Holding(m, Small) = Holding(l, Small) /\ Holding(m, Full) = Holding(l, Full)
  BY DEF Holding
<1> QED BY <1>1 DEF Allocated

(* A ladder stays sound when one row takes a share that fits, or no more    *)
(* than it had.                                                             *)
LEMMA OneRow ==
    ASSUME NEW l, LadderOK(l), NEW c \in Candidates, NEW r, RowOK(r),
           r.alloc <= l[c].alloc \/ r.alloc - l[c].alloc <= Ceiling - Allocated(l)
    PROVE  LadderOK([l EXCEPT ![c] = r])
<1> DEFINE m == [l EXCEPT ![c] = r]
<1>1. l \in Ladders /\ Allocated(l) <= Ceiling /\ m \in Ladders
  BY DEF LadderOK, RowOK, Ladders
<1>2. m[c] = r /\ \A d \in Candidates \ {c} : m[d] = l[d]
  BY <1>1 DEF Ladders
<1>3. /\ Allocated(l) \in Nat /\ Allocated(m) \in Nat
      /\ Allocated(m) = Allocated(l) - l[c].alloc + m[c].alloc
  <2>1. \A d \in Candidates \ {c} : m[d].alloc = l[d].alloc
    BY <1>2
  <2> QED BY <1>1, <2>1, AllocatedChanges
<1>4. l[c].alloc \in Nat /\ r.alloc \in Nat /\ Ceiling \in Nat
  BY <1>1, ConstantsAssumption DEF RowOK, Row, Ladders
<1>5. Allocated(m) <= Ceiling
  <2> HIDE DEF m
  <2> QED BY <1>1, <1>2, <1>3, <1>4
<1>6. \A d \in Candidates : RowOK(m[d])
  BY <1>2 DEF LadderOK
<1> QED BY <1>1, <1>5, <1>6 DEF LadderOK

(* The rows the operations make.                                            *)
LEMMA Rows ==
    ASSUME TypeOK, NEW c \in Candidates, NEW r, RowOK(r)
    PROVE  /\ RowOK(Enter(r, c)) /\ Enter(r, c).alloc = r.alloc
           /\ Enter(r, c).seen + Enter(r, c).base = total[c]
           /\ \A v \in Verdicts : RowOK([r EXCEPT !.gate = v]) /\ [r EXCEPT !.gate = v].alloc = r.alloc
<1>1. total[c] \in Nat
  BY DEF TypeOK
<1>2. [r EXCEPT !.seen = 0, !.base = total[c]] \in Row
  BY <1>1 DEF RowOK, Row
<1>3. RowOK(Enter(r, c)) /\ Enter(r, c).alloc = r.alloc /\ Enter(r, c).seen + Enter(r, c).base = total[c]
  BY <1>1, <1>2 DEF RowOK, Row, Enter
<1>4. \A v \in Verdicts : RowOK([r EXCEPT !.gate = v]) /\ [r EXCEPT !.gate = v].alloc = r.alloc
  BY <1>1 DEF RowOK, Row
<1> QED BY <1>3, <1>4

(* A new row is at the bottom, without a share.                             *)
LEMMA NewRow ==
    ASSUME TypeOK, NEW c \in Candidates
    PROVE  RowOK(New(c)) /\ New(c).alloc = 0 /\ New(c).seen + New(c).base = total[c]
<1> DEFINE r == [Absent EXCEPT !.rung = "discovered"]
<1>1. RowOK(r) /\ r.alloc = 0
  BY ConstantsAssumption DEF RowOK, Row, Absent, Rungs, BeforeCapital, Live, Of
<1> HIDE DEF r
<1>2. New(c) = Enter(r, c)
  BY DEF New, r
<1> QED BY <1>1, <1>2, Rows

(* Nothing is given out by an empty ladder.                                 *)
LEMMA EmptyOK == LadderOK(Empty) /\ \A c \in Candidates : Empty[c].seen = 0 /\ Empty[c].base = 0
<1>1. RowOK(Absent) /\ Absent.alloc = 0
  BY ConstantsAssumption DEF RowOK, Row, Absent, Rungs, BeforeCapital, Live, Of
<1>2. \A c \in Candidates : Empty[c] = Absent
  BY DEF Empty
<1>3. Empty \in Ladders
  BY <1>1 DEF Empty, Ladders, RowOK
<1>4. Holding(Empty, Small) = {} /\ Holding(Empty, Full) = {}
  BY <1>1, <1>2, ConstantsAssumption DEF Holding
<1>5. Allocated(Empty) = Small * 0 + Full * 0
  BY <1>4, FS_EmptySet DEF Allocated
<1>6. Allocated(Empty) = 0
  BY <1>5, ShareTypes
<1>7. \A c \in Candidates : RowOK(Empty[c]) /\ Empty[c].seen = 0 /\ Empty[c].base = 0
  <2>1. Absent.seen = 0 /\ Absent.base = 0
    BY DEF Absent
  <2> QED BY <1>1, <1>2, <2>1
<1>8. Allocated(Empty) <= Ceiling
  BY <1>6, ShareTypes
<1> QED BY <1>3, <1>7, <1>8 DEF LadderOK

(* The rungs a live share goes with, and those it does not.                 *)
LEMMA OffCapital ==
    ASSUME NEW r, RowOK(r), r.rung \notin Live
    PROVE  r.alloc = 0
BY DEF RowOK, Of, Live

(* A start adds rows without a share.                                       *)
LEMMA SeededOK ==
    ASSUME TypeOK, NEW l, LadderOK(l), NEW known \in SUBSET Strategies
    PROVE  LadderOK(Seeded(l, known))
<1>1. \A c \in Candidates : /\ RowOK(Seeded(l, known)[c])
                            /\ Seeded(l, known)[c].alloc = l[c].alloc
  <2> SUFFICES ASSUME NEW c \in Candidates
               PROVE  RowOK(Seeded(l, known)[c]) /\ Seeded(l, known)[c].alloc = l[c].alloc
    OBVIOUS
  <2>1. RowOK(l[c])
    BY DEF LadderOK
  <2>2. CASE c \in known \ OnLadder(l)
    <3>1. Seeded(l, known)[c] = New(c)
      BY <2>2 DEF Seeded
    <3>2. l[c].rung = "absent"
      BY <2>2 DEF OnLadder
    <3>3. l[c].alloc = 0
      BY <2>1, <3>2, OffCapital DEF Live
    <3> QED BY <3>1, <3>3, NewRow
  <2>3. CASE c \notin known \ OnLadder(l)
    BY <2>1, <2>3 DEF Seeded
  <2> QED BY <2>2, <2>3
<1>2. Seeded(l, known) \in Ladders
  <2>1. \A c \in Candidates : Seeded(l, known)[c] \in Row
    BY <1>1 DEF RowOK
  <2> QED BY <2>1 DEF Seeded, Ladders
<1>3. Allocated(Seeded(l, known)) = Allocated(l)
  BY <1>1, AllocatedSame
<1> QED BY <1>1, <1>2, <1>3 DEF LadderOK

(* What is rebuilt of a damaged ladder gives out no more than it did.       *)
LEMMA RebuiltOK ==
    ASSUME NEW l, LadderOK(l), NEW m \in Rebuilt(l)
    PROVE  LadderOK(m)
<1>1. RowOK(Absent) /\ Absent.alloc = 0
  BY ConstantsAssumption DEF RowOK, Row, Absent, Rungs, BeforeCapital, Live, Of
<1>2. \A c \in Candidates : m[c] \in Readings(l[c])
  BY DEF Rebuilt
<1>3. \A c \in Candidates : RowOK(m[c]) /\ (m[c].alloc = l[c].alloc \/ m[c].alloc = 0)
  <2> SUFFICES ASSUME NEW c \in Candidates
               PROVE  RowOK(m[c]) /\ (m[c].alloc = l[c].alloc \/ m[c].alloc = 0)
    OBVIOUS
  <2>1. RowOK(l[c])
    BY DEF LadderOK
  <2> DEFINE r == [l[c] EXCEPT !.gate = "none"]
  <2>2. RowOK(r) /\ r.alloc = l[c].alloc
    BY <2>1 DEF RowOK, Row
  <2> HIDE DEF r
  <2>3. m[c] = l[c] \/ m[c] = Absent \/ m[c] = r
    BY <1>2 DEF Readings, r
  <2> QED BY <1>1, <2>1, <2>2, <2>3
<1>4. m \in Ladders
  <2>1. \A c \in Candidates : m[c] \in Row
    BY <1>3 DEF RowOK
  <2>2. m = [c \in Candidates |-> m[c]]
    BY DEF Rebuilt
  <2> QED BY <2>1, <2>2 DEF Ladders
<1>5. ASSUME NEW share \in Nat \ {0}
      PROVE  /\ Cardinality(Holding(m, share)) <= Cardinality(Holding(l, share))
             /\ Cardinality(Holding(m, share)) \in Nat /\ Cardinality(Holding(l, share)) \in Nat
  <2>1. Holding(m, share) \subseteq Holding(l, share)
    BY <1>3 DEF Holding
  <2>2. IsFiniteSet(Holding(l, share))
    BY ConstantsAssumption, FS_Subset DEF Holding
  <2>3. IsFiniteSet(Holding(m, share))
    BY ConstantsAssumption, FS_Subset DEF Holding
  <2> QED BY <2>1, <2>2, <2>3, FS_Subset, FS_CardinalityType
<1>6. /\ Small * Cardinality(Holding(m, Small)) <= Small * Cardinality(Holding(l, Small))
      /\ Full * Cardinality(Holding(m, Full)) <= Full * Cardinality(Holding(l, Full))
      /\ Small * Cardinality(Holding(m, Small)) \in Nat /\ Small * Cardinality(Holding(l, Small)) \in Nat
      /\ Full * Cardinality(Holding(m, Full)) \in Nat /\ Full * Cardinality(Holding(l, Full)) \in Nat
  <2>1. Small \in Nat \ {0} /\ Full \in Nat \ {0}
    BY ConstantsAssumption
  <2> QED BY <1>5, <2>1, Grows
<1>7. Allocated(m) <= Allocated(l) /\ Allocated(m) \in Nat /\ Allocated(l) \in Nat
  BY <1>6 DEF Allocated
<1>8. Allocated(l) <= Ceiling /\ Ceiling \in Nat
  BY ConstantsAssumption DEF LadderOK
<1>9. Allocated(m) <= Ceiling
  BY <1>7, <1>8
<1> QED BY <1>3, <1>4, <1>9 DEF LadderOK

(* What another process amends takes no share.                              *)
LEMMA AmendedOK ==
    ASSUME TypeOK, NEW l, LadderOK(l), NEW c \in Candidates
    PROVE  /\ \A v \in Verdicts : LadderOK(Delivered(l, c, v))
           /\ LadderOK(PutBack(l, c))
<1>1. RowOK(l[c])
  BY DEF LadderOK
<1>2. ASSUME NEW v \in Verdicts
      PROVE  LadderOK(Delivered(l, c, v))
  <2> DEFINE r == IF c \in OnLadder(l) THEN l[c] ELSE New(c)
  <2>1. RowOK(r) /\ r.alloc = l[c].alloc
    <3>1. CASE c \in OnLadder(l)
      BY <1>1, <3>1
    <3>2. CASE c \notin OnLadder(l)
      <4>1. l[c].alloc = 0
        BY <1>1, <3>2, OffCapital DEF OnLadder, Live
      <4> QED BY <3>2, <4>1, NewRow
    <3> QED BY <3>1, <3>2
  <2>2. Delivered(l, c, v) = [l EXCEPT ![c] = [r EXCEPT !.gate = v]]
    BY DEF Delivered
  <2> HIDE DEF r
  <2>3. l[c].alloc \in Nat
    BY <1>1, ConstantsAssumption DEF RowOK, Row
  <2> DEFINE e == [r EXCEPT !.gate = v]
  <2>4. RowOK(e) /\ e.alloc <= l[c].alloc /\ Delivered(l, c, v) = [l EXCEPT ![c] = e]
    BY <2>1, <2>2, <2>3, Rows
  <2> HIDE DEF e
  <2>5. LadderOK([l EXCEPT ![c] = e])
    BY <2>4, OneRow
  <2> QED BY <2>4, <2>5
<1>3. LadderOK(PutBack(l, c))
  <2> DEFINE back == [l[c] EXCEPT !.rung = "backtested", !.alloc = 0, !.gate = "none"]
             r == IF l[c].rung = "retired" THEN back ELSE l[c]
  <2>1. RowOK(r) /\ r.alloc <= l[c].alloc
    <3>1. CASE l[c].rung = "retired"
      <4>1. RowOK(back) /\ back.alloc = 0
        BY <1>1, ConstantsAssumption DEF RowOK, Row, Rungs, BeforeCapital, Live, Of
      <4>2. l[c].alloc = 0
        BY <1>1, <3>1, OffCapital DEF Live
      <4> QED BY <3>1, <4>1, <4>2
    <3>2. CASE l[c].rung # "retired"
      BY <1>1, <3>2, ConstantsAssumption DEF RowOK, Row
    <3> QED BY <3>1, <3>2
  <2>2. PutBack(l, c) = [l EXCEPT ![c] = Enter(r, c)]
    BY DEF PutBack
  <2> HIDE DEF r, back
  <2> DEFINE e == Enter(r, c)
  <2>3. RowOK(e) /\ e.alloc <= l[c].alloc /\ PutBack(l, c) = [l EXCEPT ![c] = e]
    BY <2>1, <2>2, Rows
  <2> HIDE DEF e
  <2>4. LadderOK([l EXCEPT ![c] = e])
    BY <2>3, OneRow
  <2> QED BY <2>3, <2>4
<1> QED BY <1>2, <1>3

(* A promotion that fits keeps the ceiling, and so does half of one.        *)
LEMMA PromotedOK ==
    ASSUME TypeOK, NEW l, LadderOK(l), NEW c \in Candidates, Climbs(l[c]), Fits(l, c)
    PROVE  LadderOK(Promoted(l, c)) /\ (NextRung(l[c].rung) \in Live => LadderOK(HalfPromoted(l, c)))
<1> DEFINE rung == NextRung(l[c].rung)
           r == [l[c] EXCEPT !.rung = rung, !.alloc = Of(rung), !.after = SampleFor(rung), !.whole = TRUE]
           h == [l[c] EXCEPT !.rung = rung, !.alloc = Of(rung), !.whole = FALSE]
<1>1. RowOK(l[c]) /\ l[c] \in Row
  BY DEF LadderOK, RowOK
<1>2. rung \in {"backtested", "small", "full"}
  BY DEF NextRung
<1>3. RowOK(r) /\ r.alloc = Of(rung) /\ RowOK(h) /\ h.alloc = Of(rung)
  <2> HIDE DEF rung
  <2>1. Of(rung) \in {0, Small, Full} /\ rung \in Rungs
    BY <1>2 DEF Of, Rungs, BeforeCapital, Live
  <2>2. SampleFor(rung) \in {MinEpisodes, LiveEpisodes} /\ (rung \in Live => SampleFor(rung) = LiveEpisodes)
    BY DEF SampleFor
  <2>3. /\ r \in Row /\ r.rung = rung /\ r.alloc = Of(rung) /\ r.after = SampleFor(rung)
    BY <1>1, <2>1, <2>2 DEF Row
  <2>4. /\ h \in Row /\ h.rung = rung /\ h.alloc = Of(rung) /\ h.whole = FALSE
    BY <1>1, <2>1 DEF Row
  <2> HIDE DEF r, h
  <2> QED BY <2>2, <2>3, <2>4 DEF RowOK
<1>4. Promoted(l, c) = [l EXCEPT ![c] = Enter(r, c)] /\ HalfPromoted(l, c) = [l EXCEPT ![c] = h]
  BY DEF Promoted, HalfPromoted
<1>5. Of(rung) - l[c].alloc <= 0 \/ Of(rung) - l[c].alloc <= Ceiling - Allocated(l)
  BY DEF Fits
<1>6. l[c].alloc \in Nat /\ Of(rung) \in Nat
  BY <1>1, ConstantsAssumption DEF Row, Of
<1> HIDE DEF r, rung, h
<1>7. RowOK(Enter(r, c)) /\ Enter(r, c).alloc = Of(rung)
  BY <1>3, Rows
<1> DEFINE e == Enter(r, c)
<1>8. RowOK(e) /\ (e.alloc <= l[c].alloc \/ e.alloc - l[c].alloc <= Ceiling - Allocated(l))
  BY <1>5, <1>6, <1>7
<1>9. Promoted(l, c) = [l EXCEPT ![c] = e]
  BY <1>4
<1> HIDE DEF e
<1>10. LadderOK([l EXCEPT ![c] = e])
  BY <1>8, OneRow
<1>11. h.alloc <= l[c].alloc \/ h.alloc - l[c].alloc <= Ceiling - Allocated(l)
  BY <1>3, <1>5, <1>6
<1>12. LadderOK([l EXCEPT ![c] = h])
  BY <1>3, <1>11, OneRow
<1> QED BY <1>4, <1>9, <1>10, <1>12

(* A climb takes no share away.                                             *)
LEMMA ClimbGrows ==
    ASSUME NEW r, RowOK(r), Climbs(r)
    PROVE  Of(NextRung(r.rung)) >= r.alloc /\ Of(NextRung(r.rung)) \in Nat /\ r.alloc \in Nat
BY ConstantsAssumption DEF RowOK, Climbs, Of, NextRung, BeforeCapital

(* A candidate dropped or retired gives its share back.                     *)
LEMMA LeavesOK ==
    ASSUME NEW l, LadderOK(l), NEW c \in Candidates
    PROVE  /\ l[c].rung \in BeforeCapital => LadderOK([l EXCEPT ![c].rung = "rejected"])
           /\ l[c].rung \in Live => LadderOK([l EXCEPT ![c].rung = "retired", ![c].alloc = 0])
<1>1. RowOK(l[c]) /\ l \in Ladders
  BY DEF LadderOK
<1>2. ASSUME l[c].rung \in BeforeCapital
      PROVE  LadderOK([l EXCEPT ![c].rung = "rejected"])
  <2> DEFINE r == [l[c] EXCEPT !.rung = "rejected"]
  <2>1. l[c].alloc = 0
    BY <1>1, <1>2, OffCapital DEF BeforeCapital, Live
  <2>2. RowOK(r) /\ r.alloc = 0
    BY <1>1, <2>1 DEF RowOK, Row, Rungs, BeforeCapital, Live, Of
  <2>3. [l EXCEPT ![c].rung = "rejected"] = [l EXCEPT ![c] = r]
    BY <1>1 DEF Ladders
  <2> HIDE DEF r
  <2> QED BY <2>1, <2>2, <2>3, OneRow
<1>3. ASSUME l[c].rung \in Live
      PROVE  LadderOK([l EXCEPT ![c].rung = "retired", ![c].alloc = 0])
  <2> DEFINE r == [l[c] EXCEPT !.rung = "retired", !.alloc = 0]
  <2>1. l[c].alloc \in Nat
    BY <1>1, ConstantsAssumption DEF RowOK, Row
  <2>2. RowOK(r) /\ r.alloc = 0
    BY <1>1 DEF RowOK, Row, Rungs, BeforeCapital, Live, Of
  <2>3. [l EXCEPT ![c].rung = "retired", ![c].alloc = 0] = [l EXCEPT ![c] = r]
    BY <1>1 DEF Ladders
  <2> HIDE DEF r
  <2> QED BY <2>1, <2>2, <2>3, OneRow
<1> QED BY <1>2, <1>3

---------------------------------------------------------------------------
(* The invariant.                                                          *)

(* A node that never ran, and an empty file, are sound.                     *)
LEMMA InitInv == Init => IInv
<1> SUFFICES ASSUME Init
             PROVE  IInv
  OBVIOUS
<1> USE DEF Init, InitFrom
<1>1. Shares
  BY EmptyOK DEF Shares, NoEdit
<1>2. TypeOK
  <2>1. Empty \in Ladders
    BY EmptyOK DEF LadderOK
  <2> QED BY <2>1 DEF TypeOK, NoEdit
<1>3. Phases
  BY DEF Phases
<1>4. Counts
  <2>1. \A c \in Strategies : counted[c] <= closed[c]
    OBVIOUS
  <2>2. Sampled(file) /\ Sampled(edit.copy)
    BY EmptyOK DEF Sampled, NoEdit
  <2> QED BY <2>1, <2>2 DEF Counts
<1>5. CapWasGranted
  BY DEF CapWasGranted
<1> QED BY <1>1, <1>2, <1>3, <1>4, <1>5 DEF IInv

(* A pass that counts changes no share.                                     *)
LEMMA WalkOK ==
    ASSUME TypeOK, LadderOK(ladder), \A c \in Strategies : counted[c] <= closed[c], Walk
    PROVE  LadderOK(ladder')
<1>1. \A c \in Strategies : Since(c) \in Nat
  BY DEF TypeOK, Since
<1>2. \A c \in Candidates : /\ RowOK(ladder'[c]) /\ ladder'[c].alloc = ladder[c].alloc
  <2> SUFFICES ASSUME NEW c \in Candidates
               PROVE  RowOK(ladder'[c]) /\ ladder'[c].alloc = ladder[c].alloc
    OBVIOUS
  <2>1. RowOK(ladder[c])
    BY DEF LadderOK
  <2>2. CASE c \in Strategies \cap OnLadder(ladder)
    <3>1. ladder'[c] = [ladder[c] EXCEPT !.seen = @ + Since(c)]
      BY <2>2 DEF Walk
    <3> QED BY <1>1, <2>1, <2>2, <3>1 DEF RowOK, Row
  <2>3. CASE c \notin Strategies \cap OnLadder(ladder)
    BY <2>1, <2>3 DEF Walk
  <2> QED BY <2>2, <2>3
<1>3. ladder' \in Ladders
  <2>1. \A c \in Candidates : ladder'[c] \in Row
    BY <1>2 DEF RowOK
  <2> QED BY <2>1 DEF Walk, Ladders
<1>4. Allocated(ladder') = Allocated(ladder)
  BY <1>2, AllocatedSame
<1> QED BY <1>2, <1>3, <1>4 DEF LadderOK

(* What the node holds, what is on disk and what is being amended stay      *)
(* sound, whoever moves.                                                    *)
LEMMA SharesKept ==
    ASSUME IInv, [Next]_vars
    PROVE  Shares'
<1> USE DEF IInv, Shares
<1>1. CASE Start
  BY <1>1, EmptyOK, SeededOK DEF Start, Loads
<1>2. CASE Stop
  BY <1>2, EmptyOK DEF Stop, Gone, Saves
<1>3. CASE Crash
  BY <1>3, EmptyOK DEF Crash, Gone
<1>4. CASE Read \/ Damaged
  BY <1>4, EmptyOK, RebuiltOK DEF Read, Damaged, Loads, memory
<1>5. CASE Walk
  BY <1>5, WalkOK DEF Walk, Counts, disk
<1>6. CASE Save
  BY <1>6 DEF Save, Saves
<1>7. ASSUME NEW c \in Candidates, Judge(c) \/ Raised(c) \/ Halved(c)
      PROVE  Shares'
  <2>1. CASE ladder' = [ladder EXCEPT ![c].rung = "rejected"] /\ ladder[c].rung \in BeforeCapital
    BY <1>7, <2>1, LeavesOK DEF Judge, Raised, Halved, Abandoned, disk
  <2>2. CASE /\ Fits(ladder, c) /\ Climbs(ladder[c])
             /\ \/ ladder' = Promoted(ladder, c)
                \/ ladder' = HalfPromoted(ladder, c) /\ NextRung(ladder[c].rung) \in Live
    BY <1>7, <2>2, PromotedOK DEF Judge, Raised, Halved, Abandoned, disk
  <2>3. CASE UNCHANGED ladder
    BY <1>7, <2>3 DEF Judge, Raised, Halved, Abandoned, disk
  <2> QED BY <1>7, <2>1, <2>2, <2>3 DEF Judge, Raised, Halved
<1>8. ASSUME NEW c \in Strategies, PositionClosed(c)
      PROVE  Shares'
  BY <1>8 DEF PositionClosed, disk
<1>9. ASSUME NEW c \in Candidates, Retire(c)
      PROVE  Shares'
  <2>1. CASE ladder' = [ladder EXCEPT ![c].rung = "retired", ![c].alloc = 0] /\ ladder[c].rung \in Live
    BY <1>9, <2>1, LeavesOK DEF Retire, disk
  <2>2. CASE UNCHANGED ladder
    BY <1>9, <2>2 DEF Retire, disk
  <2> QED BY <1>9, <2>1, <2>2 DEF Retire
<1>10. ASSUME NEW c \in Candidates, Write(c)
       PROVE  Shares'
  <2>1. LadderOK(file')
    <3>1. CASE \E verdict \in Verdicts : file' = Delivered(edit.copy, c, verdict)
      BY <3>1, AmendedOK
    <3>2. CASE file' = PutBack(edit.copy, c)
      BY <3>2, AmendedOK
    <3> QED BY <1>10, <3>1, <3>2 DEF Write
  <2> QED BY <1>10, <2>1, EmptyOK DEF Write, memory, NoEdit
<1>11. CASE UNCHANGED vars
  BY <1>11 DEF vars, memory, disk
<1> QED BY <1>1, <1>2, <1>3, <1>4, <1>5, <1>6, <1>7, <1>8, <1>9, <1>10, <1>11 DEF Next, Pass

(* What a pass publishes are shares.                                        *)
LEMMA PublishedTypes ==
    ASSUME Publishes
    PROVE  cap' \in [Instruments -> {0, Small, Full}]
BY DEF Publishes

(* The types of the ladders are part of their soundness; the others by the  *)
(* action that sets them.                                                   *)
LEMMA TypesKept ==
    ASSUME IInv, [Next]_vars, Shares'
    PROVE  TypeOK'
<1> USE DEF IInv
<1>1. ladder' \in Ladders /\ file' \in Ladders /\ edit'.copy \in Ladders
  BY DEF Shares, LadderOK
<1>2. edit' \in [on : BOOLEAN, copy : Ladders]
  <2>1. Empty \in Ladders
    BY EmptyOK DEF LadderOK
  <2>2. CASE Read
    BY <2>1, <2>2 DEF Read, Loads, TypeOK
  <2>3. CASE \E c \in Candidates : Write(c)
    BY <2>1, <2>3 DEF Write, NoEdit
  <2>4. CASE UNCHANGED edit
    BY <2>4 DEF TypeOK
  <2> QED BY <2>2, <2>3, <2>4 DEF Next, Pass, Start, Stop, Crash, Gone, Damaged, Walk, Save, Judge,
                 Raised, Halved, Abandoned, PositionClosed, Retire, vars, disk
<1>3. up' \in BOOLEAN /\ halted' \in BOOLEAN /\ legible' \in BOOLEAN /\ pass' \in {"idle", "walking"}
  <2>1. CASE Start \/ Stop \/ Crash
    BY <2>1 DEF TypeOK, Start, Stop, Crash, Gone, engine
  <2>2. CASE Read \/ Damaged \/ (\E c \in Candidates : Write(c)) \/ UNCHANGED vars
    BY <2>2 DEF TypeOK, Read, Damaged, Write, vars, memory, engine
  <2>3. CASE Walk \/ Save \/ \E c \in Strategies : PositionClosed(c)
    BY <2>3 DEF TypeOK, Walk, Save, PositionClosed, engine
  <2>4. CASE \E c \in Candidates : Judge(c) \/ Raised(c) \/ Halved(c)
    BY <2>4 DEF TypeOK, Judge, Raised, Halved, Abandoned, engine
  <2>5. CASE \E c \in Candidates : Retire(c)
    BY <2>5 DEF TypeOK, Retire
  <2> QED BY <2>1, <2>2, <2>3, <2>4, <2>5 DEF Next, Pass
<1>4. edits' \in Nat
  <2>1. CASE Read \/ Damaged \/ Start
    BY <2>1 DEF Read, Damaged, Start, TypeOK
  <2>2. CASE UNCHANGED edits
    BY <2>2 DEF TypeOK
  <2> QED BY <2>1, <2>2
          DEF Next, Pass, Stop, Crash, Gone, Walk, Save, Judge, Raised, Halved, Abandoned,
              PositionClosed, Retire, Write, vars, disk
<1>5. todo' \subseteq Candidates /\ promoted' \subseteq Candidates /\ stopped' \subseteq Strategies
  <2>1. CASE \E c \in Candidates : Retire(c)
    BY <2>1 DEF Retire, TypeOK
  <2>2. CASE \E c \in Candidates : Judge(c)
    BY <2>2 DEF Judge, engine, TypeOK
  <2>3. CASE Stop \/ Crash
    BY <2>3 DEF Stop, Crash, Gone
  <2>4. CASE Walk \/ Save
    BY <2>4 DEF Walk, Save, engine, OnLadder, TypeOK
  <2>5. CASE \E c \in Candidates : Raised(c) \/ Halved(c)
    BY <2>5 DEF Raised, Halved, Abandoned, engine, TypeOK
  <2>6. CASE UNCHANGED <<todo, promoted, stopped>>
    BY <2>6 DEF TypeOK
  <2> QED BY <2>1, <2>2, <2>3, <2>4, <2>5, <2>6
          DEF Next, Pass, Start, Read, Damaged, PositionClosed, Write, vars, memory, engine
<1>6. /\ counted' \in [Strategies -> Nat] /\ closed' \in [Strategies -> Nat]
      /\ total' \in [Candidates -> Nat]
  <2>1. CASE \E c \in Strategies : PositionClosed(c)
    <3>1. PICK c \in Strategies : PositionClosed(c)
      BY <2>1
    <3>2. c \in Candidates /\ closed[c] + 1 \in Nat /\ total[c] + 1 \in Nat
      BY ConstantsAssumption DEF TypeOK
    <3> QED BY <3>1, <3>2 DEF PositionClosed, TypeOK
  <2>2. CASE Walk
    BY <2>2 DEF Walk, TypeOK
  <2>3. CASE Stop \/ Crash
    BY <2>3 DEF Stop, Crash, Gone, TypeOK
  <2>4. CASE UNCHANGED <<counted, closed, total>>
    BY <2>4 DEF TypeOK
  <2> QED BY <2>1, <2>2, <2>3, <2>4
          DEF Next, Pass, Start, Read, Damaged, Save, Judge, Raised, Halved, Abandoned, Retire, Write,
              vars, memory
<1>7. cap' \in [Instruments -> {0, Small, Full}]
  <2>1. CASE Save
    BY <2>1, PublishedTypes DEF Save
  <2>2. CASE UNCHANGED cap \/ cap' = [i \in Instruments |-> 0]
    BY <2>2 DEF TypeOK
  <2> QED BY <2>1, <2>2
          DEF Next, Pass, Start, Stop, Crash, Gone, Read, Damaged, Walk, Judge, Raised, Halved,
              Abandoned, PositionClosed, Retire, Write, vars, engine
<1> QED BY <1>1, <1>2, <1>3, <1>4, <1>5, <1>6, <1>7 DEF TypeOK

(* A node that is down holds nothing, an idle one has judged everybody, and *)
(* whom a pass has yet to judge it has counted.                             *)
LEMMA PhasesKept ==
    ASSUME IInv, [Next]_vars
    PROVE  Phases'
<1> USE DEF IInv, Phases
<1>1. CASE Start
  BY <1>1 DEF Start, engine, Uncounted
<1>2. CASE Stop \/ Crash
  BY <1>2 DEF Stop, Crash, Gone
<1>3. CASE Read \/ Damaged \/ \E c \in Candidates : Write(c)
  BY <1>3 DEF Read, Damaged, Write, memory, engine, Uncounted
<1>4. CASE Walk
  <2>1. \A c \in todo' : Uncounted(c)' = 0
    <3>1. \A c \in Strategies : closed[c] - closed[c] = 0
      BY DEF TypeOK
    <3>2. \A c \in Strategies \cap OnLadder(ladder) : counted'[c] = closed'[c] /\ closed'[c] = closed[c]
      BY <1>4 DEF Walk
    <3> QED BY <1>4, <3>1, <3>2 DEF Walk, Uncounted
  <2> QED BY <1>4, <2>1 DEF Walk
<1>5. CASE Save
  BY <1>5 DEF Save
<1>6. ASSUME NEW c \in Candidates, Judge(c)
      PROVE  Phases'
  BY <1>6 DEF Judge, engine, Uncounted
<1>7. ASSUME NEW c \in Candidates, Raised(c) \/ Halved(c)
      PROVE  Phases'
  BY <1>7 DEF Raised, Halved, Abandoned
<1>8. ASSUME NEW c \in Candidates, Retire(c)
      PROVE  Phases'
  BY <1>8 DEF Retire
<1>9. CASE \E c \in Strategies : PositionClosed(c)
  BY <1>9 DEF PositionClosed
<1>10. CASE UNCHANGED vars
  BY <1>10 DEF vars, memory, engine, Uncounted
<1> QED BY <1>1, <1>2, <1>3, <1>4, <1>5, <1>6, <1>7, <1>8, <1>9, <1>10 DEF Next, Pass

(* Whatever ends a pass, no share of the node's own ladder shrinks but that *)
(* of a candidate it retires.                                               *)
LEMMA SharesGrow ==
    ASSUME IInv, up, [Next]_vars, up', NEW c \in Strategies
    PROVE  ladder'[c].alloc >= ladder[c].alloc \/ c \in stopped'
<1>1. /\ ladder \in Ladders /\ c \in Candidates /\ ladder[c] \in Row
      /\ RowOK(ladder[c]) /\ ladder[c].alloc \in Nat
  BY ConstantsAssumption DEF IInv, TypeOK, Ladders, Row, Shares, LadderOK
<1>2. CASE ladder'[c].alloc = ladder[c].alloc
  BY <1>1, <1>2
<1>3. CASE Walk
  BY <1>1, <1>2, <1>3 DEF Walk, Row
<1>4. ASSUME NEW d \in Candidates, Judge(d) \/ Raised(d) \/ Halved(d)
      PROVE  ladder'[c].alloc >= ladder[c].alloc
  <2>1. CASE UNCHANGED ladder
    BY <1>1, <2>1
  <2>2. CASE ladder' = [ladder EXCEPT ![d].rung = "rejected"]
    BY <1>1, <2>2 DEF Ladders, Row
  <2>3. CASE /\ Climbs(ladder[d])
             /\ ladder' = Promoted(ladder, d) \/ ladder' = HalfPromoted(ladder, d)
    <3>1. CASE d # c
      <4>1. ladder'[c] = ladder[c]
        BY <1>1, <2>3, <3>1 DEF Promoted, HalfPromoted, Ladders
      <4> QED BY <1>1, <4>1
    <3>2. CASE d = c
      <4> DEFINE rung == NextRung(ladder[c].rung)
                 r == [ladder[c] EXCEPT !.rung = rung, !.alloc = Of(rung), !.after = SampleFor(rung),
                                        !.whole = TRUE]
      <4>1. Of(rung) >= ladder[c].alloc
        BY <1>1, <2>3, <3>2, ClimbGrows
      <4>2. \/ ladder'[c] = [r EXCEPT !.seen = 0, !.base = total[c]]
            \/ ladder'[c] = [ladder[c] EXCEPT !.rung = rung, !.alloc = Of(rung), !.whole = FALSE]
        BY <1>1, <2>3, <3>2 DEF Promoted, HalfPromoted, Enter, Ladders
      <4> HIDE DEF rung
      <4>3. ladder'[c].alloc = Of(rung)
        BY <1>1, <4>2 DEF Row
      <4> QED BY <4>1, <4>3
    <3> QED BY <3>1, <3>2
  <2> QED BY <1>4, <2>1, <2>2, <2>3 DEF Judge, Raised, Halved
<1>5. ASSUME NEW d \in Candidates, Retire(d)
      PROVE  ladder'[c].alloc >= ladder[c].alloc \/ c \in stopped'
  <2>1. CASE d = c /\ stopped' = stopped \cup ({d} \cap Strategies)
    BY <2>1
  <2>2. CASE d # c \/ UNCHANGED ladder
    <3>1. ladder'[c] = ladder[c]
      BY <1>1, <1>5, <2>2 DEF Retire, Ladders
    <3> QED BY <1>1, <3>1
  <2> QED BY <1>5, <2>1, <2>2 DEF Retire
<1>6. CASE UNCHANGED ladder
  BY <1>2, <1>6
<1> QED BY <1>3, <1>4, <1>5, <1>6
        DEF Next, Pass, Start, Stop, Crash, Gone, Read, Damaged, Save, PositionClosed, Write, vars, memory

(* A strategy that was stopped stays so while the node runs.                *)
LEMMA StoppedStays ==
    ASSUME [Next]_vars, up'
    PROVE  stopped \subseteq stopped'
BY DEF Next, Pass, Start, Stop, Crash, Gone, Read, Damaged, Walk, Save, Judge, Raised, Halved, Abandoned,
       PositionClosed, Retire, Write, vars, engine

(* A cap is published as granted, and a grant is not taken back from a      *)
(* strategy that runs.                                                      *)
LEMMA GrantsKept ==
    ASSUME IInv, [Next]_vars, TypeOK'
    PROVE  CapWasGranted'
<1>1. \A c \in Strategies : ladder[c].alloc \in Nat /\ ladder'[c].alloc \in Nat
  <2>1. Strategies \subseteq Candidates
    BY ConstantsAssumption
  <2>2. \A c \in Candidates : ladder[c] \in Row /\ ladder'[c] \in Row
    BY DEF IInv, TypeOK, Ladders
  <2> QED BY <2>1, <2>2, ShareTypes DEF Row
<1>2. \A i \in Instruments : cap[i] \in Nat
  BY ShareTypes DEF IInv, TypeOK
<1>3. CASE cap' = [i \in Instruments |-> 0]
  BY <1>3 DEF CapWasGranted
<1>4. CASE ~up /\ UNCHANGED cap
  BY <1>3, <1>4 DEF IInv, Phases
<1>5. ASSUME NEW i \in Instruments, cap[i] # 0, cap'[i] = cap[i], up, up'
      PROVE  \E c \in Strategies : Trades[c] = i /\ (c \in stopped' \/ ladder'[c].alloc >= cap'[i])
  <2>1. PICK c \in Strategies : Trades[c] = i /\ (c \in stopped \/ ladder[c].alloc >= cap[i])
    BY <1>5 DEF IInv, CapWasGranted
  <2>2. CASE c \in stopped
    BY <1>5, <2>1, <2>2, StoppedStays
  <2>3. CASE c \notin stopped
    <3>1. c \in stopped' \/ ladder'[c].alloc >= ladder[c].alloc
      BY <1>5, SharesGrow
    <3>2. ladder[c].alloc \in Nat /\ ladder'[c].alloc \in Nat /\ cap[i] \in Nat
      BY <1>1, <1>2
    <3> QED BY <1>5, <2>1, <2>3, <3>1, <3>2
  <2> QED BY <2>2, <2>3
<1>6. CASE Save
  <2> SUFFICES ASSUME NEW i \in Instruments, cap'[i] # 0
               PROVE  \E c \in Strategies : Trades[c] = i /\ (c \in stopped' \/ ladder'[c].alloc >= cap'[i])
    BY DEF CapWasGranted, Instruments
  <2>1. CASE cap'[i] = cap[i]
    BY <1>5, <1>6, <2>1 DEF Save
  <2>2. CASE \E c \in promoted \cap Strategies : Trades[c] = i /\ cap'[i] = Share(ladder[c])
    <3>1. PICK c \in Strategies : Trades[c] = i /\ cap'[i] = ladder[c].alloc
      BY <2>2 DEF Share
    <3>2. ladder' = ladder
      BY <1>6 DEF Save
    <3>3. ladder[c].alloc \in Nat
      BY <1>1
    <3> QED BY <3>1, <3>2, <3>3
  <2> QED BY <1>6, <2>1, <2>2 DEF Save, Publishes
<1>7. CASE up /\ up' /\ UNCHANGED cap
  <2>1. \A i \in Instruments : cap'[i] = cap[i]
    BY <1>7
  <2>2. \A i \in Instruments : cap'[i] # 0 =>
          \E c \in Strategies : Trades[c] = i /\ (c \in stopped' \/ ladder'[c].alloc >= cap'[i])
    BY <1>5, <1>7, <2>1
  <2>3. Instruments' = Instruments
    BY DEF Instruments
  <2> QED BY <2>2, <2>3 DEF CapWasGranted
<1>8. CASE UNCHANGED cap /\ (up => up')
  BY <1>4, <1>7, <1>8
<1>9. CASE Stop \/ Crash
  BY <1>3, <1>9 DEF Stop, Crash, Gone
<1>10. CASE Walk \/ Start \/ \E c \in Strategies : PositionClosed(c)
  BY <1>8, <1>10 DEF Walk, Start, PositionClosed, engine
<1>11. CASE Read \/ Damaged \/ UNCHANGED vars
  BY <1>8, <1>11 DEF Read, Damaged, vars, engine
<1>12. CASE \E c \in Candidates : Judge(c) \/ Raised(c) \/ Halved(c)
  BY <1>8, <1>12 DEF Judge, Raised, Halved, Abandoned, engine
<1>13. CASE \E c \in Candidates : Retire(c) \/ Write(c)
  BY <1>8, <1>13 DEF Retire, Write, engine
<1> QED BY <1>6, <1>9, <1>10, <1>11, <1>12, <1>13 DEF Next, Pass

---------------------------------------------------------------------------
(* Counting.                                                               *)

(* Numbers of the counting.                                                 *)
LEMMA CountTypes ==
    ASSUME IInv
    PROVE  /\ \A l \in {ladder, file, edit.copy}, c \in Candidates :
                l[c] \in Row /\ l[c].seen \in Nat /\ l[c].base \in Nat
           /\ \A c \in Candidates : total[c] \in Nat /\ Uncounted(c) \in Nat
           /\ \A c \in Strategies : counted[c] \in Nat /\ closed[c] \in Nat /\ c \in Candidates
<1>1. \A l \in {ladder, file, edit.copy}, c \in Candidates :
        l[c] \in Row /\ l[c].seen \in Nat /\ l[c].base \in Nat
  BY DEF IInv, TypeOK, Ladders, Row
<1>2. /\ \A c \in Candidates : total[c] \in Nat
      /\ \A c \in Strategies : counted[c] \in Nat /\ closed[c] \in Nat /\ c \in Candidates
  BY ConstantsAssumption DEF IInv, TypeOK
<1>3. \A c \in Candidates : Uncounted(c) \in Nat
  BY <1>2 DEF IInv, Counts, Uncounted
<1> QED BY <1>1, <1>2, <1>3

(* Amending a ladder leaves a row as it was sampled, or starts its sample.  *)
LEMMA AmendedSampled ==
    ASSUME IInv, NEW c \in Candidates, NEW d \in Candidates, NEW l \in {file, edit.copy}
    PROVE  /\ \A v \in Verdicts : Delivered(l, c, v)[d].seen + Delivered(l, c, v)[d].base <= total[d]
           /\ PutBack(l, c)[d].seen + PutBack(l, c)[d].base <= total[d]
<1>1. l \in Ladders /\ l[d].seen + l[d].base <= total[d]
  BY DEF IInv, Counts, Sampled, TypeOK
<1>2. TypeOK /\ total[c] \in Nat
  BY CountTypes DEF IInv
<1>3. New(c).seen + New(c).base = total[c]
  BY <1>2, NewRow
<1>4. CASE d # c
  BY <1>1, <1>4 DEF Delivered, PutBack, Ladders
<1>5. CASE d = c
  <2>1. ASSUME NEW v \in Verdicts
        PROVE  Delivered(l, c, v)[c].seen + Delivered(l, c, v)[c].base <= total[c]
    <3>1. CASE c \in OnLadder(l)
      <4>1. Delivered(l, c, v)[c] = [l[c] EXCEPT !.gate = v]
        BY <1>1, <3>1 DEF Delivered, Ladders
      <4> QED BY <1>1, <1>5, <4>1 DEF Ladders, Row
    <3>2. CASE c \notin OnLadder(l)
      <4>1. Delivered(l, c, v)[c] = [New(c) EXCEPT !.gate = v]
        BY <1>1, <3>2 DEF Delivered, Ladders
      <4>2. New(c) \in Row
        BY <1>2, NewRow DEF RowOK
      <4> DEFINE e == Delivered(l, c, v)[c]
                 n == New(c)
      <4>3. e.seen = n.seen /\ e.base = n.base /\ n.seen + n.base = total[c]
        BY <1>3, <4>1, <4>2 DEF Row
      <4> HIDE DEF e, n
      <4>4. e.seen + e.base <= total[c]
        BY <1>2, <4>3
      <4> QED BY <4>4 DEF e
    <3> QED BY <3>1, <3>2
  <2>2. PutBack(l, c)[c].seen + PutBack(l, c)[c].base <= total[c]
    <3>1. l[c] \in Row
      BY <1>1 DEF Ladders
    <3> DEFINE r == IF l[c].rung = "retired"
                    THEN [l[c] EXCEPT !.rung = "backtested", !.alloc = 0, !.gate = "none"] ELSE l[c]
    <3>2. PutBack(l, c)[c] = [r EXCEPT !.seen = 0, !.base = total[c]]
      BY <1>1 DEF PutBack, Enter, Ladders
    <3>3. r \in Row
      BY <3>1, ConstantsAssumption DEF Row, Rungs, BeforeCapital
    <3> HIDE DEF r
    <3>4. PutBack(l, c)[c].seen = 0 /\ PutBack(l, c)[c].base = total[c]
      BY <3>2, <3>3 DEF Row
    <3> QED BY <1>2, <3>4
  <2> QED BY <1>5, <2>1, <2>2
<1> QED BY <1>4, <1>5

(* A closed position is counted once, whatever happens between two counts.  *)
LEMMA CountsKept ==
    ASSUME IInv, [Next]_vars
    PROVE  Counts'
<1> DEFINE Within(c) == up => ladder[c].seen + ladder[c].base + Uncounted(c) <= total[c]
<1>1. /\ \A c \in Strategies : counted[c] <= closed[c]
      /\ \A c \in Candidates : Within(c)
      /\ Sampled(file) /\ Sampled(edit.copy)
  BY DEF IInv, Counts
<1>2. up => Sampled(ladder)
  BY <1>1, CountTypes DEF Sampled
<1>3. CASE Start
  <2>1. closed = counted
    BY <1>3 DEF Start, IInv, Phases
  <2>2. \A c \in Candidates : Uncounted(c)' = 0
    <3>1. \A c \in Strategies : closed[c] - counted[c] = 0
      BY <2>1, CountTypes
    <3> QED BY <1>3, <3>1 DEF Start, Uncounted
  <2>3. PICK l \in Loads, known \in SUBSET Strategies : ladder' = Seeded(l, known)
    BY <1>3 DEF Start
  <2>4. LadderOK(l) /\ \A c \in Candidates : l[c].seen + l[c].base <= total[c]
    <3>1. \A c \in Candidates : Empty[c].seen + Empty[c].base <= total[c]
      BY EmptyOK, CountTypes
    <3> QED BY <1>1, <3>1, EmptyOK DEF Loads, Sampled, IInv, Shares
  <2>5. \A c \in Candidates : ladder'[c].seen + ladder'[c].base <= total[c]
    <3>1. \A c \in Candidates : New(c).seen + New(c).base = total[c] /\ total[c] \in Nat
      BY NewRow, CountTypes DEF IInv
    <3> QED BY <2>3, <2>4, <3>1 DEF Seeded
  <2>6. \A c \in Candidates : Within(c)'
    <3> SUFFICES ASSUME NEW c \in Candidates
                 PROVE  ladder'[c].seen + ladder'[c].base + Uncounted(c)' <= total'[c]
      OBVIOUS
    <3>1. ladder'[c] \in Row
      BY <2>3, <2>4, SeededOK DEF IInv, LadderOK, RowOK
    <3>2. ladder'[c].seen \in Nat /\ ladder'[c].base \in Nat
      BY <3>1 DEF Row
    <3> QED BY <1>3, <2>2, <2>5, <3>2 DEF Start
  <2> QED BY <1>1, <1>3, <2>6 DEF Start, Counts, Sampled
<1>4. CASE Stop \/ Crash
  <2>1. up' = FALSE /\ total' = total /\ edit' = edit /\ (file' = file \/ file' = ladder) /\ up
    BY <1>4 DEF Stop, Crash, Gone, Saves
  <2>2. \A c \in Strategies : counted'[c] <= closed'[c]
    BY <1>4 DEF Stop, Crash, Gone
  <2> QED BY <1>1, <1>2, <2>1, <2>2 DEF Counts, Sampled
<1>5. CASE Read \/ Damaged
  <2>1. Sampled(file)' /\ Sampled(edit.copy)'
    <3>1. CASE Read
      BY <1>1, <3>1, EmptyOK, CountTypes DEF Read, Loads, Sampled
    <3>2. CASE Damaged
      <4>1. \A c \in Candidates : file'[c] \in Readings(file[c])
        BY <3>2 DEF Damaged, Rebuilt
      <4>2. \A c \in Candidates : file'[c].seen + file'[c].base <= total[c]
        <5> SUFFICES ASSUME NEW c \in Candidates
                     PROVE  file'[c].seen + file'[c].base <= total[c]
          OBVIOUS
        <5>1. file[c] \in Row /\ total[c] \in Nat
          BY CountTypes
        <5> DEFINE g == [file[c] EXCEPT !.gate = "none"]
        <5>2. g.seen = file[c].seen /\ g.base = file[c].base
          BY <5>1 DEF Row
        <5> HIDE DEF g
        <5>3. file'[c] = file[c] \/ file'[c] = Absent \/ file'[c] = g
          BY <4>1 DEF Readings, g
        <5> QED BY <1>1, <5>1, <5>2, <5>3 DEF Sampled, Absent
      <4> QED BY <1>1, <3>2, <4>2 DEF Damaged, Sampled
    <3> QED BY <1>5, <3>1, <3>2
  <2> QED BY <1>1, <1>5, <2>1 DEF Read, Damaged, memory, Counts, Uncounted
<1>6. ASSUME NEW c \in Candidates, Write(c)
      PROVE  Counts'
  <2>1. \A d \in Candidates : file'[d].seen + file'[d].base <= total[d]
    BY <1>6, AmendedSampled DEF Write
  <2>2. \A d \in Candidates : edit'.copy[d].seen + edit'.copy[d].base <= total[d]
    BY <1>6, EmptyOK, CountTypes DEF Write, NoEdit
  <2> QED BY <1>1, <1>6, <2>1, <2>2 DEF Write, memory, Counts, Sampled, Uncounted
<1>7. CASE Walk
  <2> DEFINE mine == Strategies \cap OnLadder(ladder)
  <2>1. \A c \in mine : Uncounted(c)' = 0
    <3>1. \A c \in Strategies : closed[c] - closed[c] = 0
      BY CountTypes
    <3> QED BY <1>7, <3>1 DEF Walk, Uncounted
  <2>2. \A c \in Candidates : Within(c)'
    <3> SUFFICES ASSUME NEW c \in Candidates
                 PROVE  ladder'[c].seen + ladder'[c].base + Uncounted(c)' <= total'[c]
      OBVIOUS
    <3>1. ladder[c] \in Row /\ ladder[c].seen \in Nat /\ ladder[c].base \in Nat /\ total[c] \in Nat
      BY CountTypes
    <3>2. ladder[c].seen + ladder[c].base + Uncounted(c) <= total[c]
      BY <1>1, <1>7 DEF Walk
    <3>3. CASE c \in mine
      <4>1. Since(c) = closed[c] - counted[c] /\ Since(c) \in Nat
        BY <1>1, <3>3, CountTypes DEF Since
      <4>2. Uncounted(c) = Since(c)
        BY <3>3, <4>1 DEF Uncounted
      <4>3. ladder'[c] = [ladder[c] EXCEPT !.seen = ladder[c].seen + Since(c)]
        BY <1>7, <3>3 DEF Walk
      <4>4. ladder'[c].seen = ladder[c].seen + Since(c) /\ ladder'[c].base = ladder[c].base
        BY <3>1, <4>3 DEF Row
      <4>5. total'[c] = total[c]
        BY <1>7 DEF Walk
      <4> QED BY <2>1, <3>1, <3>2, <3>3, <4>1, <4>2, <4>4, <4>5
    <3>4. CASE c \notin mine
      <4>1. ladder'[c] = ladder[c] /\ total'[c] = total[c]
        BY <1>7, <3>4 DEF Walk
      <4>2. Uncounted(c)' = Uncounted(c)
        BY <1>7, <3>4 DEF Walk, Uncounted
      <4> QED BY <3>2, <4>1, <4>2
    <3> QED BY <3>3, <3>4
  <2>3. \A c \in Strategies : counted'[c] <= closed'[c]
    BY <1>1, <1>7, CountTypes DEF Walk
  <2> QED BY <1>1, <1>7, <2>2, <2>3 DEF Walk, disk, Counts, Sampled
<1>8. ASSUME NEW c \in Candidates, Judge(c) \/ Raised(c) \/ Halved(c)
      PROVE  Counts'
  <2>1. /\ up /\ c \in todo /\ total' = total /\ closed' = closed /\ counted' = counted
        /\ file' = file /\ edit' = edit
    BY <1>8 DEF Judge, Raised, Halved, Abandoned, disk
  <2>2. Uncounted(c) = 0 /\ \A d \in Candidates : Uncounted(d)' = Uncounted(d)
    BY <2>1 DEF IInv, Phases, Uncounted
  <2>3. \A d \in Candidates : Within(d)'
    <3> SUFFICES ASSUME NEW d \in Candidates
                 PROVE  ladder'[d].seen + ladder'[d].base + Uncounted(d)' <= total'[d]
      OBVIOUS
    <3>1. ladder[d] \in Row /\ ladder[d].seen \in Nat /\ ladder[d].base \in Nat /\ total[d] \in Nat
      BY CountTypes
    <3>2. ladder[d].seen + ladder[d].base + Uncounted(d) <= total[d] /\ total' = total
      BY <1>1, <2>1
    <3>3. CASE ladder'[d].seen = ladder[d].seen /\ ladder'[d].base = ladder[d].base
      BY <2>2, <3>1, <3>2, <3>3
    <3>4. CASE ladder'[d].seen = 0 /\ ladder'[d].base = total[d] /\ d = c
      BY <2>2, <3>1, <3>2, <3>4
    <3>5. ladder \in Ladders /\ ladder[c] \in Row
      BY DEF IInv, TypeOK, Ladders
    <3>6. CASE ladder' = [ladder EXCEPT ![c].rung = "rejected"]
      BY <3>1, <3>3, <3>5, <3>6 DEF Ladders, Row
    <3>7. CASE ladder' = Promoted(ladder, c)
      <4>1. CASE d # c
        BY <3>3, <3>5, <3>7, <4>1 DEF Promoted, Ladders
      <4>2. CASE d = c
        <5> DEFINE rung == NextRung(ladder[c].rung)
                   r == [ladder[c] EXCEPT !.rung = rung, !.alloc = Of(rung), !.after = SampleFor(rung),
                                          !.whole = TRUE]
        <5>1. ladder'[c] = [r EXCEPT !.seen = 0, !.base = total[c]]
          BY <3>5, <3>7 DEF Promoted, Enter, Ladders
        <5>2. ladder'[c].seen = 0 /\ ladder'[c].base = total[c]
          BY <3>5, <5>1 DEF Row
        <5> QED BY <3>4, <4>2, <5>2
      <4> QED BY <4>1, <4>2
    <3>8. CASE ladder' = HalfPromoted(ladder, c)
      BY <3>1, <3>3, <3>5, <3>8 DEF HalfPromoted, Ladders, Row
    <3>9. CASE UNCHANGED ladder
      BY <3>3, <3>9
    <3> QED BY <1>8, <3>6, <3>7, <3>8, <3>9 DEF Judge, Raised, Halved
  <2>4. up' = up
    BY <1>8 DEF Judge, Raised, Halved, Abandoned
  <2> QED BY <1>1, <2>1, <2>3, <2>4 DEF Counts, Sampled
<1>9. CASE Save
  BY <1>1, <1>2, <1>9 DEF Save, Saves, Counts, Sampled, Uncounted
<1>10. ASSUME NEW c \in Candidates, Retire(c)
       PROVE  Counts'
  <2>1. \A d \in Candidates : ladder'[d].seen = ladder[d].seen /\ ladder'[d].base = ladder[d].base
    <3>1. \A d \in Candidates : ladder[d] \in Row
      BY CountTypes
    <3>2. ladder \in Ladders
      BY DEF IInv, TypeOK
    <3> QED BY <1>10, <3>1, <3>2 DEF Retire, Ladders, Row
  <2> QED BY <1>1, <1>10, <2>1 DEF Retire, disk, Counts, Sampled, Uncounted
<1>11. ASSUME NEW c \in Strategies, PositionClosed(c)
       PROVE  Counts'
  <2>1. /\ closed \in [Strategies -> Nat] /\ total \in [Candidates -> Nat] /\ c \in Candidates
        /\ counted \in [Strategies -> Nat]
    BY ConstantsAssumption DEF IInv, TypeOK
  <2>2. \A d \in Strategies : counted'[d] <= closed'[d]
    BY <1>1, <1>11, <2>1 DEF PositionClosed
  <2>3. \A d \in Candidates : total[d] <= total'[d] /\ total[d] \in Nat /\ total'[d] \in Nat
    BY <1>11, <2>1 DEF PositionClosed
  <2>4. \A d \in Candidates : Within(d)'
    <3> SUFFICES ASSUME NEW d \in Candidates
                 PROVE  ladder'[d].seen + ladder'[d].base + Uncounted(d)' <= total'[d]
      OBVIOUS
    <3>1. ladder[d].seen \in Nat /\ ladder[d].base \in Nat /\ Uncounted(d) \in Nat
      BY CountTypes
    <3>2. ladder[d].seen + ladder[d].base + Uncounted(d) <= total[d] /\ ladder' = ladder
      BY <1>1, <1>11 DEF PositionClosed
    <3>3. CASE d = c
      <4>1. Uncounted(d)' = Uncounted(d) + 1 /\ total'[d] = total[d] + 1
        BY <1>11, <2>1, <3>3 DEF PositionClosed, Uncounted
      <4> QED BY <2>3, <3>1, <3>2, <4>1
    <3>4. CASE d # c
      <4>1. Uncounted(d)' = Uncounted(d) /\ total'[d] = total[d]
        BY <1>11, <2>1, <3>4 DEF PositionClosed, Uncounted
      <4> QED BY <3>2, <4>1
    <3> QED BY <3>3, <3>4
  <2>5. Sampled(file)' /\ Sampled(edit.copy)'
    <3>1. file' = file /\ edit' = edit
      BY <1>11 DEF PositionClosed, disk
    <3> QED BY <1>1, <2>3, <3>1, CountTypes DEF Sampled
  <2> QED BY <2>2, <2>4, <2>5 DEF Counts
<1>12. CASE UNCHANGED vars
  BY <1>1, <1>12 DEF vars, memory, disk, Counts, Sampled, Uncounted
<1> QED BY <1>3, <1>4, <1>5, <1>6, <1>7, <1>8, <1>9, <1>10, <1>11, <1>12 DEF Next, Pass

---------------------------------------------------------------------------
(* The results.                                                            *)

(* Every step keeps the invariant.                                          *)
LEMMA Inductive == IInv /\ [Next]_vars => IInv'
<1> SUFFICES ASSUME IInv, [Next]_vars
             PROVE  IInv'
  OBVIOUS
<1>1. Shares'
  BY SharesKept
<1>2. TypeOK'
  BY <1>1, TypesKept
<1>3. Phases' /\ Counts' /\ CapWasGranted'
  BY <1>2, PhasesKept, CountsKept, GrantsKept
<1> QED BY <1>1, <1>2, <1>3 DEF IInv

(* The invariant holds of every reachable state.                            *)
LEMMA Invariance == Spec => []IInv
<1>1. Init => IInv
  BY InitInv
<1>2. IInv /\ [Next]_vars => IInv'
  BY Inductive
<1> QED BY <1>1, <1>2, PTL DEF Spec

(* Type correctness: the node's ladder, the file and the copy of another    *)
(* process stay ladders (node/ladder.py, pipeline.py).                      *)
THEOREM TypeCorrect == Spec => []TypeOK
<1>1. IInv => TypeOK
  BY DEF IInv
<1> QED BY <1>1, Invariance, PTL

(* No pass, no order of the candidates, no restart and no other writer ever *)
(* brings the ladder over CEILING (Ladder.headroom and step).               *)
THEOREM CeilingHolds == Spec => []AllocatedUnderCeiling
<1>1. IInv => AllocatedUnderCeiling
  BY DEF IInv, Shares, LadderOK, AllocatedUnderCeiling
<1> QED BY <1>1, Invariance, PTL

(* What passes raise, saves fail or files are lost, the engine caps an      *)
(* instrument only as the ladder granted and, where the strategy runs,      *)
(* still grants (LadderActor._publish, the handler of live.py).             *)
THEOREM CapsGranted == Spec => []CapWasGranted
<1>1. IInv => CapWasGranted
  BY DEF IInv
<1> QED BY <1>1, Invariance, PTL

(* FULL is decided on positions closed at SMALL (Episodes.since, enter,     *)
(* sample_for, may_promote).                                                *)
THEOREM OwnTrades == Spec => PromotedOnItsOwnTrades
<1> DEFINE Step == \A c \in Candidates :
        ladder[c].rung = "small" /\ ladder[c].whole /\ ladder'[c].rung = "full"
            => total[c] - ladder[c].base >= LiveEpisodes
<1>1. IInv /\ [Next]_vars => Step
  <2> SUFFICES ASSUME IInv, [Next]_vars, NEW c \in Candidates,
                      ladder[c].rung = "small", ladder[c].whole, ladder'[c].rung = "full"
               PROVE  total[c] - ladder[c].base >= LiveEpisodes
    OBVIOUS
  <2>1. ladder \in Ladders /\ RowOK(ladder[c])
    BY DEF IInv, Shares, LadderOK
  <2>2. up
    BY DEF IInv, Phases, Empty, Absent
  <2>3. MayPromote(ladder[c])
    <3>1. ASSUME NEW d \in Candidates, Judge(d) \/ Raised(d) \/ Halved(d)
          PROVE  MayPromote(ladder[c])
      <4>1. CASE d # c
        <5>1. ladder'[c] = ladder[c]
          BY <2>1, <3>1, <4>1 DEF Judge, Raised, Halved, Promoted, HalfPromoted, Ladders
        <5> QED BY <5>1
      <4>2. CASE d = c
        <5>1. ladder[c].rung \notin BeforeCapital
          BY DEF BeforeCapital
        <5>2. ladder' # ladder
          OBVIOUS
        <5> QED BY <3>1, <4>2, <5>1, <5>2 DEF Judge, Raised, Halved
      <4> QED BY <4>1, <4>2
    <3>2. ASSUME NEW d \in Candidates, Retire(d)
          PROVE  FALSE
      BY <2>1, <3>2 DEF Retire, Ladders, RowOK, Row
    <3>3. ASSUME Walk
          PROVE  FALSE
      <4>1. ladder'[c].rung = ladder[c].rung
        BY <2>1, <3>3 DEF Walk, RowOK, Row
      <4> QED BY <4>1
    <3>4. ASSUME Stop \/ Crash
          PROVE  FALSE
      BY <3>4 DEF Stop, Crash, Gone, Empty, Absent
    <3>5. ladder' # ladder
      OBVIOUS
    <3> QED BY <2>2, <3>1, <3>2, <3>3, <3>4, <3>5
            DEF Next, Pass, Start, Read, Damaged, Save, PositionClosed, Write, vars, memory
  <2>4. ladder[c].seen >= LiveEpisodes
    BY <2>1, <2>3 DEF MayPromote, SampleSeen, RowOK, Live, BeforeCapital
  <2>5. ladder[c].seen + ladder[c].base + Uncounted(c) <= total[c]
    BY <2>2 DEF IInv, Counts
  <2>6. /\ ladder[c].seen \in Nat /\ ladder[c].base \in Nat /\ total[c] \in Nat
        /\ Uncounted(c) \in Nat /\ LiveEpisodes \in Nat
    BY CountTypes, ConstantsAssumption
  <2> QED BY <2>4, <2>5, <2>6
<1>2. Spec => [][Step]_vars
  BY <1>1, Invariance, PTL DEF Spec
<1> QED BY <1>2 DEF PromotedOnItsOwnTrades
=============================================================================
