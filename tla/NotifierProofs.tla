--------------------------- MODULE NotifierProofs ---------------------------
(***************************************************************************)
(* Proofs about Notifier, for any alerts, findings, windows and limits:    *)
(* its types, that a finding is not repeated inside its cooling-off        *)
(* window, and that the hour's ceiling is kept.                            *)
(*                                                                         *)
(* Both are statements about the history of what was accepted, and the     *)
(* filter decides from two lists.  The invariants say what each list still *)
(* knows of that history: of every finding accepted, the window has it at  *)
(* its last age, after nothing but what came later, or Memory others came  *)
(* after it (Recalls), and so does what was saved, of what was accepted    *)
(* until then; and the hour's list ends with the ages of what this process *)
(* accepted in the hour (Counts).                                          *)
(***************************************************************************)
EXTENDS Notifier, FiniteSetTheorems, SequenceTheorems, TLAPS

---------------------------------------------------------------------------
(* The constants, and the lists.                                           *)

(* No window looks beyond Old.                                              *)
LEMMA Windowed ==
    /\ Old \in Nat \ {0} /\ Cooldown \in Nat \ {0} /\ Hour \in Nat \ {0}
    /\ Memory \in Nat \ {0} /\ DegradeAfter \in Nat \ {0} /\ MaxQueue \in Nat \ {0}
    /\ MaxPerHour \in Nat /\ MaxRestarts \in Nat
    /\ Cooldown <= Old /\ Hour <= Old
BY NotifierAssumption DEF Old

(* The positions of a list are finitely many.                               *)
LEMMA PositionsFinite ==
    ASSUME NEW n \in Nat, NEW T, T \subseteq 1 .. n
    PROVE  IsFiniteSet(T) /\ Cardinality(T) \in 0 .. n
<1>1. IsFiniteSet(1 .. n) /\ Cardinality(1 .. n) = n
  BY FS_Interval
<1>2. IsFiniteSet(T) /\ Cardinality(T) <= n
  BY <1>1, FS_Subset
<1>3. Cardinality(T) \in Nat
  BY <1>2, FS_CardinalityType
<1> QED BY <1>2, <1>3

(* The end of a list (Since).                                               *)
LEMMA SinceIsAList ==
    ASSUME NEW S, NEW s \in Seq(S), NEW old, old \subseteq 1 .. Len(s)
    PROVE  /\ Since(s, old) \in Seq(S)
           /\ Len(Since(s, old)) = Len(s) - Cardinality(old)
           /\ \A k \in 1 .. Len(s) - Cardinality(old) :
                  Since(s, old)[k] = s[k + Cardinality(old)]
<1> DEFINE d == Cardinality(old)
<1>1. Len(s) \in Nat /\ d \in 0 .. Len(s)
  BY LenProperties, PositionsFinite
<1>2. \A i \in d + 1 .. Len(s) : s[i] \in S
  BY <1>1, ElementOfSeq
<1> HIDE DEF d
<1>3. /\ SubSeq(s, d + 1, Len(s)) \in Seq(S)
      /\ Len(SubSeq(s, d + 1, Len(s))) = Len(s) - d
      /\ \A k \in 1 .. Len(s) - d : SubSeq(s, d + 1, Len(s))[k] = s[k + d]
  BY <1>1, <1>2, SubSeqProperties
<1> QED BY <1>3 DEF Since, d

(* What has run out of a list in order of time is its beginning.            *)
LEMMA OldIsFirst ==
    ASSUME NEW n \in Nat, NEW old, old \subseteq 1 .. n,
           \A i, j \in 1 .. n : i <= j /\ j \in old => i \in old
    PROVE  old = 1 .. Cardinality(old) /\ Cardinality(old) \in 0 .. n
<1> DEFINE d == Cardinality(old)
<1>1. IsFiniteSet(old) /\ d \in 0 .. n
  BY PositionsFinite
<1>2. ASSUME NEW j \in old PROVE j <= d
  <2>1. 1 .. j \subseteq old
    OBVIOUS
  <2>2. IsFiniteSet(1 .. j) /\ Cardinality(1 .. j) = j
    BY FS_Interval
  <2> QED BY <1>1, <2>1, <2>2, FS_Subset
<1> HIDE DEF d
<1>3. old \subseteq 1 .. d
  BY <1>1, <1>2
<1>4. IsFiniteSet(1 .. d) /\ Cardinality(1 .. d) = d
  BY <1>1, FS_Interval
<1> QED BY <1>1, <1>3, <1>4, FS_Subset DEF d

(* Time passes for a list of findings.                                      *)
LEMMA AgedIsAList ==
    ASSUME NEW es \in Seq(Finding)
    PROVE  /\ Aged(es) \in Seq(Finding) /\ Len(Aged(es)) = Len(es)
           /\ \A i \in 1 .. Len(es) : /\ Aged(es)[i].key = es[i].key
                                      /\ Aged(es)[i].age = Older(es[i].age)
<1>1. Len(es) \in Nat /\ DOMAIN es = 1 .. Len(es)
  BY LenProperties
<1>2. ASSUME NEW i \in 1 .. Len(es)
      PROVE  [es[i] EXCEPT !.age = Older(@)] \in Finding
  <2>1. es[i] \in Finding
    BY ElementOfSeq
  <2>2. Older(es[i].age) \in 0 .. Old
    BY <2>1, Windowed DEF Finding, Older
  <2> QED BY <2>1, <2>2 DEF Finding
<1> DEFINE e(i) == [es[i] EXCEPT !.age = Older(@)]
<1>3. [i \in 1 .. Len(es) |-> e(i)] \in Seq(Finding)
  <2>1. \A i \in 1 .. Len(es) : e(i) \in Finding
    BY <1>2
  <2> HIDE DEF e
  <2> QED BY <1>1, <2>1, IsASeq
<1>4. Aged(es) = [i \in 1 .. Len(es) |-> e(i)]
  BY <1>1 DEF Aged
<1>5. DOMAIN Aged(es) = 1 .. Len(es)
  BY <1>4
<1>6. Len(Aged(es)) = Len(es)
  BY <1>1, <1>3, <1>4, <1>5, LenProperties
<1>7. ASSUME NEW i \in 1 .. Len(es)
      PROVE  Aged(es)[i].key = es[i].key /\ Aged(es)[i].age = Older(es[i].age)
  <2>1. es[i] \in Finding
    BY ElementOfSeq
  <2> QED BY <1>4, <2>1 DEF Finding
<1> QED BY <1>3, <1>4, <1>6, <1>7

(* And for the history.                                                     *)
LEMMA LogAged ==
    ASSUME NEW es \in Seq(Accepted)
    PROVE  /\ Aged(es) \in Seq(Accepted) /\ Len(Aged(es)) = Len(es)
           /\ \A i \in 1 .. Len(es) : Aged(es)[i] = [es[i] EXCEPT !.age = Older(@)]
<1>1. Len(es) \in Nat /\ DOMAIN es = 1 .. Len(es)
  BY LenProperties
<1> DEFINE e(i) == [es[i] EXCEPT !.age = Older(@)]
<1>2. ASSUME NEW i \in 1 .. Len(es) PROVE e(i) \in Accepted
  <2>1. es[i] \in Accepted
    BY ElementOfSeq
  <2>2. Older(es[i].age) \in 0 .. Old
    BY <2>1, Windowed DEF Accepted, Older
  <2> QED BY <2>1, <2>2 DEF Accepted
<1>3. Aged(es) = [i \in 1 .. Len(es) |-> e(i)]
  BY <1>1 DEF Aged
<1>4. [i \in 1 .. Len(es) |-> e(i)] \in Seq(Accepted)
  <2> HIDE DEF e
  <2> QED BY <1>1, <1>2, IsASeq
<1>5. DOMAIN Aged(es) = 1 .. Len(es)
  BY <1>3
<1>6. Len(Aged(es)) = Len(es)
  BY <1>1, <1>3, <1>4, <1>5, LenProperties
<1> QED BY <1>3, <1>4, <1>6

(* A list without the entry at c (SequencesExt).                             *)
LEMMA Without ==
    ASSUME NEW S, NEW s \in Seq(S), NEW c \in 1 .. Len(s)
    PROVE  /\ RemoveAt(s, c) \in Seq(S) /\ Len(RemoveAt(s, c)) = Len(s) - 1
           /\ \A i \in 1 .. Len(s) - 1 : RemoveAt(s, c)[i] = IF i < c THEN s[i] ELSE s[i + 1]
<1>1. PICK n \in Nat : n = Len(s)
  BY LenProperties
<1>2. c \in 1 .. n /\ \A i \in 1 .. n : s[i] \in S
  BY <1>1, ElementOfSeq
<1>3. PICK before : before = SubSeq(s, 1, c - 1)
  OBVIOUS
<1>4. PICK after : after = SubSeq(s, c + 1, n)
  OBVIOUS
<1>5. /\ before \in Seq(S) /\ Len(before) = c - 1
      /\ \A i \in 1 .. c - 1 : before[i] = s[i]
  <2>1. /\ before \in Seq(S) /\ Len(before) = IF 1 <= c - 1 THEN c - 1 - 1 + 1 ELSE 0
        /\ \A i \in 1 .. c - 1 - 1 + 1 : before[i] = s[1 + i - 1]
    BY <1>2, <1>3, SubSeqProperties
  <2> QED BY <1>2, <2>1
<1>6. /\ after \in Seq(S) /\ Len(after) = n - c
      /\ \A i \in 1 .. n - c : after[i] = s[c + i]
  <2>1. /\ after \in Seq(S) /\ Len(after) = IF c + 1 <= n THEN n - (c + 1) + 1 ELSE 0
        /\ \A i \in 1 .. n - (c + 1) + 1 : after[i] = s[c + 1 + i - 1]
    BY <1>2, <1>4, SubSeqProperties
  <2>2. Len(after) = n - c
    BY <1>2, <2>1
  <2>3. \A i \in 1 .. n - c : i \in 1 .. n - (c + 1) + 1 /\ c + 1 + i - 1 = c + i
    BY <1>2
  <2> QED BY <2>1, <2>2, <2>3
<1>7. PICK rest : rest = before \o after
  OBVIOUS
<1>8. /\ rest \in Seq(S) /\ Len(rest) = n - 1
      /\ \A i \in 1 .. n - 1 : rest[i] = IF i <= c - 1 THEN before[i] ELSE after[i - (c - 1)]
  <2>1. /\ rest \in Seq(S) /\ Len(rest) = Len(before) + Len(after)
        /\ \A i \in 1 .. Len(before) + Len(after) :
               rest[i] = IF i <= Len(before) THEN before[i] ELSE after[i - Len(before)]
    BY <1>5, <1>6, <1>7, ConcatProperties
  <2>2. Len(before) + Len(after) = n - 1
    BY <1>2, <1>5, <1>6
  <2> QED BY <1>5, <2>1, <2>2
<1>9. ASSUME NEW i \in 1 .. n - 1 PROVE rest[i] = IF i < c THEN s[i] ELSE s[i + 1]
  <2>1. CASE i < c
    BY <1>2, <1>5, <1>8, <2>1
  <2>2. CASE ~ (i < c)
    <3>1. i - (c - 1) \in 1 .. n - c /\ c + (i - (c - 1)) = i + 1 /\ ~ (i <= c - 1)
      BY <1>2, <2>2
    <3> QED BY <1>6, <1>8, <2>2, <3>1
  <2> QED BY <2>1, <2>2
<1>10. RemoveAt(s, c) = rest
  BY <1>1, <1>3, <1>4, <1>7 DEF RemoveAt
<1> QED BY <1>1, <1>8, <1>9, <1>10

(* The window with a finding at its end: AtTheEnd takes it from c, if it    *)
(* was there.                                                               *)
LEMMA PutAtTheEnd ==
    ASSUME sent \in Seq(Finding), NEW a \in Alerts
    PROVE  \E c \in 1 .. Len(sent) + 1 :
             /\ AtTheEnd(a) \in Seq(Finding)
             /\ Len(AtTheEnd(a)) = IF c <= Len(sent) THEN Len(sent) ELSE Len(sent) + 1
             /\ AtTheEnd(a)[Len(AtTheEnd(a))] = [key |-> Key[a], age |-> 0]
             /\ \A i \in 1 .. Len(AtTheEnd(a)) - 1 :
                    AtTheEnd(a)[i] = IF i < c THEN sent[i] ELSE sent[i + 1]
             /\ c <= Len(sent) => sent[c].key = Key[a]
             /\ c = Len(sent) + 1 => \A i \in 1 .. Len(sent) : sent[i].key # Key[a]
<1> DEFINE e == [key |-> Key[a], age |-> 0]
           known == \E i \in DOMAIN sent : sent[i].key = Key[a]
<1>1. Len(sent) \in Nat /\ DOMAIN sent = 1 .. Len(sent)
  BY LenProperties
<1>2. e \in Finding
  BY Windowed DEF Finding, Keys
<1>3. CASE ~ known
  <2>1. AtTheEnd(a) = Append(sent, e)
    BY <1>3 DEF AtTheEnd
  <2>2. /\ Append(sent, e) \in Seq(Finding) /\ Len(Append(sent, e)) = Len(sent) + 1
        /\ \A i \in 1 .. Len(sent) : Append(sent, e)[i] = sent[i]
        /\ Append(sent, e)[Len(sent) + 1] = e
    BY <1>2, AppendProperties
  <2>3. Len(sent) + 1 \in 1 .. Len(sent) + 1
    BY <1>1
  <2> QED BY <1>1, <1>3, <2>1, <2>2, <2>3
<1>4. CASE known
  <2>1. PICK c \in 1 .. Len(sent) :
          sent[c].key = Key[a] /\ c = CHOOSE i \in DOMAIN sent : sent[i].key = Key[a]
    BY <1>1, <1>4
  <2>2. PICK others : others = RemoveAt(sent, c)
    OBVIOUS
  <2>3. AtTheEnd(a) = Append(others, e)
    BY <1>4, <2>1, <2>2 DEF AtTheEnd
  <2>4. /\ others \in Seq(Finding) /\ Len(others) = Len(sent) - 1
        /\ \A i \in 1 .. Len(sent) - 1 : others[i] = IF i < c THEN sent[i] ELSE sent[i + 1]
    BY <2>2, Without
  <2>5. /\ Append(others, e) \in Seq(Finding) /\ Len(Append(others, e)) = Len(others) + 1
        /\ \A i \in 1 .. Len(others) : Append(others, e)[i] = others[i]
        /\ Append(others, e)[Len(others) + 1] = e
    BY <1>2, <2>4, AppendProperties
  <2>6. Len(others) + 1 = Len(sent)
    BY <1>1, <2>4
  <2>7. c \in 1 .. Len(sent) + 1 /\ c <= Len(sent) /\ c # Len(sent) + 1
    BY <1>1
  <2>8. sent[c].key = Key[a]
    BY <2>1
  <2> QED BY <2>3, <2>4, <2>5, <2>6, <2>7, <2>8
<1> QED BY <1>3, <1>4

(* The window after a finding was accepted: at most one, the first, is gone.*)
LEMMA RememberedIsAList ==
    ASSUME sent \in Seq(Finding), Len(sent) <= Memory, NEW a \in Alerts
    PROVE  /\ Remembered(a) \in Seq(Finding) /\ Len(Remembered(a)) <= Memory
           /\ \E t \in 0 .. 1 :
                /\ t = 1 => Len(AtTheEnd(a)) = Memory + 1
                /\ Len(Remembered(a)) = Len(AtTheEnd(a)) - t
                /\ \A i \in 1 .. Len(AtTheEnd(a)) - t : Remembered(a)[i] = AtTheEnd(a)[i + t]
<1> DEFINE all == AtTheEnd(a)
<1>1. all \in Seq(Finding) /\ Len(all) \in Nat /\ Len(all) <= Len(sent) + 1 /\ Len(sent) \in Nat
  <2>1. all \in Seq(Finding) /\ (Len(all) = Len(sent) \/ Len(all) = Len(sent) + 1)
    BY PutAtTheEnd
  <2>2. Len(sent) \in Nat
    BY LenProperties
  <2> QED BY <2>1, <2>2
<1>2. Remembered(a) = IF Len(all) > Memory THEN Tail(all) ELSE all
  BY DEF Remembered
<1> HIDE DEF all
<1>3. CASE Len(all) > Memory
  <2>1. all # <<>>
    BY <1>1, <1>3, Windowed, EmptySeq
  <2>2. /\ Tail(all) \in Seq(Finding) /\ Len(Tail(all)) = Len(all) - 1
        /\ \A i \in 1 .. Len(all) - 1 : Tail(all)[i] = all[i + 1]
    BY <1>1, <2>1, HeadTailProperties
  <2>3. Len(all) = Memory + 1
    BY <1>1, <1>3, Windowed
  <2> QED BY <1>2, <1>3, <2>2, <2>3, Windowed DEF all
<1>4. CASE ~ (Len(all) > Memory)
  <2>1. Remembered(a) = all /\ Len(all) <= Memory
    BY <1>1, <1>2, <1>4, Windowed
  <2>2. Len(all) - 0 = Len(all) /\ \A i \in 1 .. Len(all) : all[i + 0] = all[i]
    BY <1>1
  <2> QED BY <1>1, <2>1, <2>2 DEF all
<1> QED BY <1>3, <1>4

---------------------------------------------------------------------------
(* Types.                                                                  *)

(* The hour's list.                                                         *)
LEMMA ThisHourIsAList ==
    ASSUME recent \in Seq(0 .. Old)
    PROVE  ThisHour \in Seq(0 .. Old)
<1> DEFINE old == {i \in DOMAIN recent : recent[i] >= Hour}
<1>1. old \subseteq 1 .. Len(recent)
  BY LenProperties
<1> QED BY <1>1, SinceIsAList DEF ThisHour

(* What is accepted is remembered, and counted, with its types (accept).    *)
LEMMA AcceptTyped ==
    ASSUME TypeOK, NEW a \in Alerts, Len(queue) < MaxQueue, Accept(a)
    PROVE  /\ sent' \in Seq(Finding) /\ Len(sent') <= Memory /\ recent' \in Seq(0 .. Old)
           /\ queue' \in Seq(Alerts) /\ Len(queue') <= MaxQueue /\ log' \in Seq(Accepted)
<1>1. sent' \in Seq(Finding) /\ Len(sent') <= Memory
  BY RememberedIsAList DEF TypeOK, Accept
<1>2. recent' \in Seq(0 .. Old)
  <2>1. ThisHour \in Seq(0 .. Old) /\ 0 \in 0 .. Old
    BY ThisHourIsAList, Windowed DEF TypeOK
  <2> QED BY <2>1, AppendProperties DEF Accept, Counted
<1>3. queue' \in Seq(Alerts) /\ Len(queue') = Len(queue) + 1 /\ Len(queue) \in Nat
  BY AppendProperties, LenProperties DEF TypeOK, Accept
<1>4. log' \in Seq(Accepted)
  <2>1. Capped(a) \in BOOLEAN
    BY DEF Capped
  <2>2. [key |-> Key[a], age |-> 0, capped |-> Capped(a), mine |-> TRUE, saved |-> FALSE]
            \in Accepted
    BY <2>1, Windowed DEF Accepted, Keys
  <2> QED BY <2>2, AppendProperties DEF TypeOK, Accept
<1> QED BY <1>1, <1>2, <1>3, <1>4, Windowed

(* An entry of the history with a mark changed.                             *)
LEMMA Marked ==
    ASSUME NEW e \in Accepted
    PROVE  [e EXCEPT !.saved = TRUE] \in Accepted /\ [e EXCEPT !.mine = FALSE] \in Accepted
<1>1. \A A, B : \A r \in [key : Keys, age : A, capped : B, mine : B, saved : B], b \in B :
          /\ [r EXCEPT !.saved = b] \in [key : Keys, age : A, capped : B, mine : B, saved : B]
          /\ [r EXCEPT !.mine = b] \in [key : Keys, age : A, capped : B, mine : B, saved : B]
  OBVIOUS
<1>2. TRUE \in BOOLEAN /\ FALSE \in BOOLEAN
  OBVIOUS
<1> QED BY <1>1, <1>2, Zenon DEF Accepted

(* The history, marked as saved (on_save).                                  *)
LEMMA SavedIsAList ==
    ASSUME log \in Seq(Accepted), OnSave
    PROVE  /\ log' \in Seq(Accepted) /\ Len(log') = Len(log)
           /\ \A i \in 1 .. Len(log) : log'[i] = [log[i] EXCEPT !.saved = TRUE]
<1>1. Len(log) \in Nat /\ DOMAIN log = 1 .. Len(log)
  BY LenProperties
<1> DEFINE e(i) == [log[i] EXCEPT !.saved = TRUE]
<1>2. ASSUME NEW i \in 1 .. Len(log) PROVE e(i) \in Accepted
  BY ElementOfSeq, Marked
<1>3. PICK got : got = [i \in 1 .. Len(log) |-> e(i)]
  OBVIOUS
<1>4. got \in Seq(Accepted)
  <2> HIDE DEF e
  <2> QED BY <1>1, <1>2, <1>3, IsASeq
<1>5. Len(got) = Len(log)
  BY <1>1, <1>3, <1>4, LenProperties
<1>6. log' = got
  BY <1>1, <1>3 DEF OnSave
<1> QED BY <1>3, <1>4, <1>5, <1>6

(* The history of another process: what was saved (on_load).                *)
LEMMA LoadedIsAList ==
    ASSUME log \in Seq(Accepted), Restart
    PROVE  LET m == Cardinality({n \in DOMAIN log : log[n].saved})
           IN  /\ m \in 0 .. Len(log) /\ log' \in Seq(Accepted) /\ Len(log') = m
               /\ \A i \in 1 .. m : log'[i] = [log[i] EXCEPT !.mine = FALSE]
<1>1. Len(log) \in Nat /\ DOMAIN log = 1 .. Len(log)
  BY LenProperties
<1> DEFINE T == {n \in DOMAIN log : log[n].saved}
<1>2. PICK m \in 0 .. Len(log) : m = Cardinality(T)
  <2>1. T \subseteq 1 .. Len(log)
    BY <1>1
  <2> HIDE DEF T
  <2> QED BY <1>1, <2>1, PositionsFinite
<1> DEFINE e(i) == [log[i] EXCEPT !.mine = FALSE]
<1>3. ASSUME NEW i \in 1 .. m PROVE e(i) \in Accepted
  <2>1. i \in 1 .. Len(log)
    BY <1>1
  <2> QED BY <2>1, ElementOfSeq, Marked
<1>4. PICK got : got = [i \in 1 .. m |-> e(i)]
  OBVIOUS
<1>5. got \in Seq(Accepted)
  <2>1. m \in Nat
    BY <1>1
  <2> HIDE DEF e
  <2> QED BY <2>1, <1>3, <1>4, IsASeq
<1>6. Len(got) = m
  BY <1>1, <1>4, <1>5, LenProperties
<1>7. log' = got
  BY <1>2, <1>4 DEF Restart
<1>8. \A i \in 1 .. m : got[i] = [log[i] EXCEPT !.mine = FALSE]
  BY <1>4
<1> HIDE DEF T
<1>9. log' \in Seq(Accepted) /\ Len(log') = m
      /\ \A i \in 1 .. m : log'[i] = [log[i] EXCEPT !.mine = FALSE]
  BY <1>5, <1>6, <1>7, <1>8
<1> QED BY <1>2, <1>9 DEF T

(* The history once time has passed: d of it, the first, has run out.       *)
LEMMA TickTyped ==
    ASSUME TypeOK, Tick
    PROVE  /\ sent' \in Seq(Finding) /\ Len(sent') <= Memory /\ file' \in Seq(Finding)
           /\ Len(file') <= Memory
           /\ recent' \in Seq(0 .. Old) /\ Len(recent') = Len(recent)
           /\ \A i \in 1 .. Len(recent) : recent'[i] = Older(recent[i])
           /\ log' \in Seq(Accepted)
<1>1. /\ sent' \in Seq(Finding) /\ Len(sent') <= Memory
      /\ file' \in Seq(Finding) /\ Len(file') <= Memory
  BY AgedIsAList DEF TypeOK, Tick
<1>2. /\ recent' \in Seq(0 .. Old) /\ Len(recent') = Len(recent)
      /\ \A i \in 1 .. Len(recent) : recent'[i] = Older(recent[i])
  <2>1. Len(recent) \in Nat /\ DOMAIN recent = 1 .. Len(recent) /\ recent \in Seq(0 .. Old)
    BY LenProperties DEF TypeOK
  <2> DEFINE e(i) == Older(recent[i])
  <2>2. ASSUME NEW i \in 1 .. Len(recent) PROVE e(i) \in 0 .. Old
    <3>1. recent[i] \in 0 .. Old
      BY <2>1, ElementOfSeq
    <3> QED BY <3>1, Windowed DEF Older
  <2>3. PICK got : got = [i \in 1 .. Len(recent) |-> e(i)]
    OBVIOUS
  <2>4. got \in Seq(0 .. Old)
    <3> HIDE DEF e
    <3> QED BY <2>1, <2>2, <2>3, IsASeq
  <2>5. Len(got) = Len(recent)
    BY <2>1, <2>3, <2>4, LenProperties
  <2>6. recent' = got
    BY <2>1, <2>3 DEF Tick
  <2> QED BY <2>3, <2>4, <2>5, <2>6
<1>3. log' \in Seq(Accepted)
  <2> DEFINE gone == {i \in DOMAIN log : Older(log[i].age) = Old}
  <2>1. Aged(log) \in Seq(Accepted) /\ Len(Aged(log)) = Len(log)
    BY LogAged DEF TypeOK
  <2>2. gone \subseteq 1 .. Len(log)
    BY LenProperties DEF TypeOK
  <2>3. log' = Since(Aged(log), gone)
    BY DEF Tick
  <2> HIDE DEF gone
  <2> QED BY <2>1, <2>2, <2>3, SinceIsAList
<1> QED BY <1>1, <1>2, <1>3

(* The types of every variable: what the filter remembers stays within      *)
(* Memory, the executor's queue and the count of failures within theirs.    *)
THEOREM TypeCorrect == Spec => []TypeOK
<1>1. Init => TypeOK
  BY Windowed, EmptySeq DEF Init, TypeOK
<1>2. TypeOK /\ [Next]_vars => TypeOK'
  <2> SUFFICES ASSUME TypeOK, [Next]_vars PROVE TypeOK'
    OBVIOUS
  <2>1. ASSUME NEW a \in Alerts, OnAlert(a) PROVE TypeOK'
    <3>1. state' \in {"ready", "running", "degraded", "stopped", "disposed"}
      BY <2>1 DEF OnAlert, Reconciled, TypeOK
    <3>2. undelivered' \in 0 .. DegradeAfter /\ file' \in Seq(Finding) /\ Len(file') <= Memory
          /\ up' \in BOOLEAN /\ restarts' \in 0 .. MaxRestarts
      BY <2>1 DEF OnAlert, TypeOK
    <3>3. /\ sent' \in Seq(Finding) /\ Len(sent') <= Memory /\ recent' \in Seq(0 .. Old)
          /\ queue' \in Seq(Alerts) /\ Len(queue') <= MaxQueue /\ log' \in Seq(Accepted)
      <4>1. CASE UNCHANGED <<sent, recent, queue, log>>
        BY <4>1 DEF TypeOK
      <4>2. CASE recent' = ThisHour /\ UNCHANGED <<sent, queue, log>>
        BY <4>2, ThisHourIsAList DEF TypeOK
      <4>3. CASE Accept(a)
        BY <2>1, <4>3, AcceptTyped DEF OnAlert
      <4> QED BY <2>1, <4>1, <4>2, <4>3 DEF OnAlert
    <3> QED BY <3>1, <3>2, <3>3 DEF TypeOK
  <2>2. CASE Deliver
    <3>1. queue' \in Seq(Alerts) /\ Len(queue') = Len(queue) - 1 /\ Len(queue) \in Nat
      BY <2>2, HeadTailProperties, LenProperties DEF Deliver, TypeOK
    <3>2. Len(queue') <= MaxQueue
      BY <3>1, Windowed DEF TypeOK
    <3>3. undelivered' \in 0 .. DegradeAfter
      BY <2>2, Windowed DEF Deliver, Failures, TypeOK
    <3> QED BY <2>2, <3>1, <3>2, <3>3 DEF Deliver, TypeOK
  <2>3. CASE Tick
    BY <2>3, TickTyped DEF Tick, TypeOK
  <2>4. CASE Channels
    BY <2>4 DEF Channels, TypeOK
  <2>5. CASE OnStart \/ OnStop \/ OnResume \/ OnDispose
    BY <2>5 DEF OnStart, OnStop, OnResume, OnDispose, TypeOK
  <2>6. CASE OnReset
    BY <2>6, Windowed, EmptySeq DEF OnReset, TypeOK
  <2>7. CASE OnSave
    <3>1. log' \in Seq(Accepted)
      BY <2>7, SavedIsAList DEF TypeOK
    <3> QED BY <2>7, <3>1 DEF OnSave, TypeOK
  <2>8. CASE Restart
    <3>1. log' \in Seq(Accepted)
      BY <2>8, LoadedIsAList DEF TypeOK
    <3>2. restarts' \in 0 .. MaxRestarts
      BY <2>8, Windowed DEF Restart, TypeOK
    <3>3. /\ sent' \in Seq(Finding) /\ Len(sent') <= Memory
          /\ file' \in Seq(Finding) /\ Len(file') <= Memory
      BY <2>8 DEF Restart, TypeOK
    <3> QED BY <2>8, <3>1, <3>2, <3>3, Windowed, EmptySeq DEF Restart, TypeOK
  <2>9. CASE UNCHANGED vars
    BY <2>9 DEF vars, TypeOK
  <2> QED BY <2>1, <2>2, <2>3, <2>4, <2>5, <2>6, <2>7, <2>8, <2>9 DEF Next
<1> QED BY <1>1, <1>2, PTL DEF Spec

---------------------------------------------------------------------------
(* What the two lists know of the history.                                 *)

\* The findings among the first m accepted that came after the i-th.
Later(l, i, m) == {l[n].key : n \in i + 1 .. m}

\* The window has the i-th at p, at its age or less, and after nothing else.
Holds(w, p, l, i, m) ==
    /\ w[p].key = l[i].key /\ w[p].age <= l[i].age
    /\ \A q \in DOMAIN w : p < q => w[q].key \in Later(l, i, m)

\* It has every finding of the first m, but for those pushed out.
Recalls(w, l, m) ==
    \A i \in 1 .. m : \/ Cardinality(Later(l, i, m)) >= Memory
                      \/ \E p \in DOMAIN w : Holds(w, p, l, i, m)

Once(w) == \A p, q \in DOMAIN w : w[p].key = w[q].key => p = q
SavedUpTo(l, m) == \A i \in DOMAIN l : l[i].saved <=> i <= m

Ordered ==
    /\ \A i, j \in 1 .. Len(log) : i <= j => log[i].age >= log[j].age
    /\ \A i \in 1 .. Len(log) : log[i].age < Old
    /\ \A i, j \in 1 .. Len(recent) : i <= j => recent[i] >= recent[j]

Windows ==
    /\ Once(sent) /\ Once(file) /\ Recalls(sent, log, Len(log))
    /\ \E m \in 0 .. Len(log) : SavedUpTo(log, m) /\ Recalls(file, log, m)

Counts ==
    \A n \in 1 .. Len(log) : log[n].mine /\ log[n].age < Hour =>
        /\ Len(log) - n < Len(recent)
        /\ recent[Len(recent) - (Len(log) - n)] = log[n].age

Known == TypeOK /\ Ordered /\ Windows /\ Counts

(* What accept adds to the history.                                         *)
LEMMA LogAfterAccept ==
    ASSUME TypeOK, NEW a \in Alerts, Accept(a)
    PROVE  /\ Len(log) \in Nat /\ Len(log') = Len(log) + 1
           /\ \A i \in 1 .. Len(log) : log'[i] = log[i]
           /\ log'[Len(log) + 1] = [key |-> Key[a], age |-> 0, capped |-> Capped(a),
                                    mine |-> TRUE, saved |-> FALSE]
<1>1. Capped(a) \in BOOLEAN
  BY DEF Capped
<1>2. [key |-> Key[a], age |-> 0, capped |-> Capped(a), mine |-> TRUE, saved |-> FALSE]
          \in Accepted
  BY <1>1, Windowed DEF Accepted, Keys
<1> QED BY <1>2, AppendProperties, LenProperties DEF TypeOK, Accept

(* The hour's list is the end of recent that is younger than the hour.      *)
LEMMA HourOfRecent ==
    ASSUME TypeOK, Ordered
    PROVE  \E d \in 0 .. Len(recent) :
             /\ ThisHour \in Seq(0 .. Old) /\ Len(ThisHour) = Len(recent) - d
             /\ \A k \in 1 .. Len(recent) - d : ThisHour[k] = recent[k + d]
             /\ \A i \in 1 .. Len(recent) : i <= d <=> recent[i] >= Hour
<1>1. /\ recent \in Seq(0 .. Old) /\ Len(recent) \in Nat /\ DOMAIN recent = 1 .. Len(recent)
      /\ \A i \in 1 .. Len(recent) : recent[i] \in 0 .. Old
  BY LenProperties, ElementOfSeq DEF TypeOK
<1>2. PICK old : old = {i \in DOMAIN recent : recent[i] >= Hour}
  OBVIOUS
<1>3. old \subseteq 1 .. Len(recent)
  BY <1>1, <1>2
<1>4. \A i, j \in 1 .. Len(recent) : i <= j /\ j \in old => i \in old
  BY <1>1, <1>2, Windowed DEF Ordered
<1>5. PICK d \in 0 .. Len(recent) : d = Cardinality(old) /\ old = 1 .. d
  BY <1>1, <1>3, <1>4, OldIsFirst
<1>6. /\ ThisHour \in Seq(0 .. Old) /\ Len(ThisHour) = Len(recent) - d
      /\ \A k \in 1 .. Len(recent) - d : ThisHour[k] = recent[k + d]
  BY <1>1, <1>2, <1>3, <1>5, SinceIsAList DEF ThisHour
<1>7. \A i \in 1 .. Len(recent) : i <= d <=> recent[i] >= Hour
  BY <1>1, <1>2, <1>5
<1> QED BY <1>6, <1>7

(* After a tick the first d of the history have run out, and the others are *)
(* a tick older.                                                            *)
LEMMA LogAfterTick ==
    ASSUME TypeOK, Ordered, Tick
    PROVE  \E d \in 0 .. Len(log) :
             /\ Len(log') = Len(log) - d
             /\ \A k \in 1 .. Len(log) - d :
                  /\ log'[k] = [log[k + d] EXCEPT !.age = log[k + d].age + 1]
                  /\ log[k + d].age + 1 < Old
<1>1. /\ log \in Seq(Accepted) /\ Len(log) \in Nat /\ DOMAIN log = 1 .. Len(log)
      /\ \A i \in 1 .. Len(log) : log[i] \in Accepted /\ log[i].age \in Nat
  <2>1. log \in Seq(Accepted)
    BY DEF TypeOK
  <2>2. \A i \in 1 .. Len(log) : log[i] \in Accepted
    BY <2>1, ElementOfSeq
  <2>3. \A e \in Accepted : e.age \in 0 .. Old
    BY DEF Accepted
  <2> QED BY <2>1, <2>2, <2>3, LenProperties
<1>2. PICK old : old = {i \in DOMAIN log : Older(log[i].age) = Old}
  OBVIOUS
<1>3. old \subseteq 1 .. Len(log)
  BY <1>1, <1>2
<1>4. \A i \in 1 .. Len(log) : i \in old <=> log[i].age + 1 = Old
  BY <1>1, <1>2, Windowed DEF Ordered, Older
<1>5. \A i, j \in 1 .. Len(log) : i <= j /\ j \in old => i \in old
  BY <1>1, <1>4, Windowed DEF Ordered
<1>6. PICK d \in 0 .. Len(log) : d = Cardinality(old) /\ old = 1 .. d
  BY <1>1, <1>3, <1>5, OldIsFirst
<1>7. PICK aged : aged = Aged(log)
  OBVIOUS
<1>8. /\ aged \in Seq(Accepted) /\ Len(aged) = Len(log)
      /\ \A i \in 1 .. Len(log) : aged[i] = [log[i] EXCEPT !.age = Older(@)]
  BY <1>1, <1>7, LogAged
<1>9. log' = Since(aged, old)
  BY <1>2, <1>7 DEF Tick
<1>10. /\ Len(log') = Len(log) - d
       /\ \A k \in 1 .. Len(log) - d : log'[k] = aged[k + d]
  <2>1. old \subseteq 1 .. Len(aged)
    BY <1>3, <1>8
  <2>2. /\ Len(Since(aged, old)) = Len(aged) - Cardinality(old)
        /\ \A k \in 1 .. Len(aged) - Cardinality(old) :
               Since(aged, old)[k] = aged[k + Cardinality(old)]
    BY <1>8, <2>1, SinceIsAList
  <2>3. Len(aged) - Cardinality(old) = Len(log) - d /\ Cardinality(old) = d
    BY <1>6, <1>8
  <2> QED BY <1>9, <2>2, <2>3
<1>11. ASSUME NEW k \in 1 .. Len(log) - d
       PROVE  /\ log'[k] = [log[k + d] EXCEPT !.age = log[k + d].age + 1]
              /\ log[k + d].age + 1 < Old
  <2>0. k \in Nat /\ k >= 1 /\ k <= Len(log) - d /\ d \in Nat /\ Len(log) \in Nat
    BY <1>1
  <2>1. k + d \in 1 .. Len(log) /\ k + d \notin old
    <3>1. k + d \in Nat /\ 1 <= k + d /\ k + d <= Len(log) /\ ~ (k + d <= d)
      BY <2>0
    <3>2. old = 1 .. d
      BY <1>6
    <3>3. k + d \notin 1 .. d
      BY <3>1
    <3>4. k + d \in 1 .. Len(log)
      BY <2>0, <3>1
    <3> QED BY <3>2, <3>3, <3>4
  <2>2. log[k + d].age + 1 < Old
    <3>1. log[k + d].age \in Nat /\ log[k + d].age < Old
      BY <1>1, <2>1 DEF Ordered
    <3>2. log[k + d].age + 1 # Old
      BY <1>4, <2>1
    <3> QED BY <3>1, <3>2, Windowed
  <2>3. Older(log[k + d].age) = log[k + d].age + 1
    BY <1>1, <2>1, <2>2, Windowed DEF Older
  <2>4. log'[k] = [log[k + d] EXCEPT !.age = Older(@)]
    BY <1>8, <1>10, <2>1
  <2> QED BY <2>2, <2>3, <2>4
<1> QED BY <1>10, <1>11

(* A restart keeps of the history what was saved of it.                     *)
LEMMA LogAfterRestart ==
    ASSUME TypeOK, Restart, NEW m \in 0 .. Len(log), SavedUpTo(log, m)
    PROVE  /\ Len(log') = m
           /\ \A i \in 1 .. m : log'[i] = [log[i] EXCEPT !.mine = FALSE]
<1>1. log \in Seq(Accepted) /\ Len(log) \in Nat /\ DOMAIN log = 1 .. Len(log)
  BY LenProperties DEF TypeOK
<1>2. {n \in DOMAIN log : log[n].saved} = 1 .. m
  BY <1>1 DEF SavedUpTo
<1>3. Cardinality(1 .. m) = m
  BY <1>1, FS_Interval
<1> QED BY <1>1, <1>2, <1>3, LoadedIsAList

(* What comes later is finitely many findings, and no fewer of more.        *)
LEMMA LaterGrows ==
    ASSUME NEW l, NEW i \in Nat, NEW m \in Nat, NEW k, NEW j \in Nat, NEW n \in Nat,
           Later(l, i, m) \subseteq Later(k, j, n)
    PROVE  /\ IsFiniteSet(Later(l, i, m)) /\ IsFiniteSet(Later(k, j, n))
           /\ Cardinality(Later(l, i, m)) >= Memory => Cardinality(Later(k, j, n)) >= Memory
<1>1. ASSUME NEW h, NEW a \in Nat, NEW b \in Nat
      PROVE  IsFiniteSet(Later(h, a, b)) /\ Cardinality(Later(h, a, b)) \in Nat
  <2>1. IsFiniteSet(a + 1 .. b)
    BY FS_Interval
  <2>2. PICK f : f = [x \in a + 1 .. b |-> h[x].key]
    OBVIOUS
  <2>3. f \in Surjection(a + 1 .. b, Later(h, a, b))
    BY <2>2 DEF Surjection, Later
  <2>4. IsFiniteSet(Later(h, a, b))
    BY <2>1, <2>3, FS_Surjection
  <2> QED BY <2>4, FS_CardinalityType
<1>2. Cardinality(Later(l, i, m)) <= Cardinality(Later(k, j, n))
  BY <1>1, FS_Subset
<1> QED BY <1>1, <1>2, Windowed

(* A window recalls a history as it does another with the same findings.    *)
LEMMA RecallsSame ==
    ASSUME NEW w, NEW l, NEW k, NEW m \in Nat, Recalls(w, l, m),
           \A n \in 1 .. m : k[n].key = l[n].key /\ k[n].age = l[n].age
    PROVE  Recalls(w, k, m)
<1>1. ASSUME NEW i \in 1 .. m PROVE Later(k, i, m) = Later(l, i, m)
  <2>1. \A n \in i + 1 .. m : n \in 1 .. m
    OBVIOUS
  <2> QED BY <2>1 DEF Later
<1>2. ASSUME NEW i \in 1 .. m, NEW p, Holds(w, p, l, i, m) PROVE Holds(w, p, k, i, m)
  BY <1>1, <1>2 DEF Holds
<1> QED BY <1>1, <1>2 DEF Recalls

(* And as time passes for both, those that run out of the history are gone. *)
LEMMA RecallsAged ==
    ASSUME NEW w \in Seq(Finding), NEW l \in Seq(Accepted), NEW k, NEW d \in 0 .. Len(l),
           NEW m \in 0 .. Len(l), Recalls(w, l, m),
           \A n \in 1 .. Len(l) - d : k[n].key = l[n + d].key
                                      /\ k[n].age = l[n + d].age + 1 /\ k[n].age < Old
    PROVE  Recalls(Aged(w), k, IF m > d THEN m - d ELSE 0)
<1>0. Len(l) \in Nat /\ Len(w) \in Nat /\ DOMAIN w = 1 .. Len(w)
  BY LenProperties
<1>1. CASE ~ (m > d)
  BY <1>0, <1>1 DEF Recalls
<1>2. CASE m > d
  <2>1. PICK v : v = Aged(w)
    OBVIOUS
  <2>2. /\ v \in Seq(Finding) /\ Len(v) = Len(w) /\ DOMAIN v = 1 .. Len(w)
        /\ \A i \in 1 .. Len(w) : v[i].key = w[i].key /\ v[i].age = Older(w[i].age)
    BY <2>1, AgedIsAList, LenProperties
  <2>3. ASSUME NEW i \in 1 .. m - d
        PROVE  \/ Cardinality(Later(k, i, m - d)) >= Memory
               \/ \E p \in DOMAIN v : Holds(v, p, k, i, m - d)
    <3>1. i + d \in 1 .. m /\ i \in 1 .. Len(l) - d /\ i \in Nat /\ m - d \in Nat
      BY <1>0, <1>2
    <3>2. Later(k, i, m - d) = Later(l, i + d, m)
      <4>1. ASSUME NEW n \in i + 1 .. m - d
            PROVE  n + d \in i + d + 1 .. m /\ k[n].key = l[n + d].key
        BY <1>0, <1>2
      <4>2. ASSUME NEW n \in i + d + 1 .. m
            PROVE  n - d \in i + 1 .. m - d /\ k[n - d].key = l[n].key
        <5>1. n - d \in 1 .. Len(l) - d /\ (n - d) + d = n /\ n - d \in i + 1 .. m - d
          BY <1>0, <1>2
        <5> QED BY <5>1
      <4>3. Later(k, i, m - d) \subseteq Later(l, i + d, m)
        BY <4>1 DEF Later
      <4>4. Later(l, i + d, m) \subseteq Later(k, i, m - d)
        BY <4>2 DEF Later
      <4> QED BY <4>3, <4>4
    <3>3. CASE Cardinality(Later(l, i + d, m)) >= Memory
      BY <3>2, <3>3
    <3>4. ASSUME NEW p \in DOMAIN w, Holds(w, p, l, i + d, m)
          PROVE  Holds(v, p, k, i, m - d)
      <4>1. v[p].key = k[i].key
        BY <1>0, <2>2, <3>1, <3>4 DEF Holds
      <4>2. v[p].age <= k[i].age
        <5>1. w[p].age <= l[i + d].age /\ w[p].age \in 0 .. Old /\ l[i + d].age \in 0 .. Old
          <6>1. w[p] \in Finding /\ l[i + d] \in Accepted
            BY <1>0, <3>1, ElementOfSeq
          <6>2. \A e \in Accepted : e.age \in 0 .. Old
            BY DEF Accepted
          <6>3. \A e \in Finding : e.age \in 0 .. Old
            BY DEF Finding
          <6> QED BY <3>4, <6>1, <6>2, <6>3 DEF Holds
        <5>2. k[i].age = l[i + d].age + 1 /\ k[i].age < Old
          BY <3>1
        <5>3. v[p].age = Older(w[p].age)
          BY <1>0, <2>2
        <5> QED BY <5>1, <5>2, <5>3, Windowed DEF Older
      <4>3. \A q \in DOMAIN v : p < q => v[q].key \in Later(k, i, m - d)
        BY <1>0, <2>2, <3>2, <3>4 DEF Holds
      <4> QED BY <4>1, <4>2, <4>3 DEF Holds
    <3> QED BY <1>0, <2>2, <3>1, <3>3, <3>4 DEF Recalls
  <2> QED BY <1>2, <2>1, <2>3 DEF Recalls
<1> QED BY <1>1, <1>2

(* A window is of findings once, however old.                               *)
LEMMA OnceAged ==
    ASSUME NEW w \in Seq(Finding), Once(w)
    PROVE  Once(Aged(w))
<1>1. Len(w) \in Nat /\ DOMAIN w = 1 .. Len(w) /\ DOMAIN Aged(w) = 1 .. Len(w)
  BY AgedIsAList, LenProperties
<1> QED BY <1>1, AgedIsAList DEF Once

(* As many different findings as a list has entries.                        *)
LEMMA AsManyLater ==
    ASSUME NEW w, NEW n \in Nat, NEW l, NEW i \in Nat, NEW m \in Nat,
           \A p, q \in 2 .. n + 1 : w[p].key = w[q].key => p = q,
           \A p \in 2 .. n + 1 : w[p].key \in Later(l, i, m)
    PROVE  Cardinality(Later(l, i, m)) >= n
<1>1. PICK f : f = [p \in 2 .. n + 1 |-> w[p].key]
  OBVIOUS
<1>2. f \in Injection(2 .. n + 1, Later(l, i, m))
  <2>1. f \in [2 .. n + 1 -> Later(l, i, m)]
    BY <1>1
  <2>2. IsInjective(f)
    BY <1>1 DEF IsInjective
  <2> QED BY <2>1, <2>2 DEF Injection
<1>3. IsFiniteSet(Later(l, i, m))
  BY LaterGrows
<1>4. Cardinality(2 .. n + 1) = n
  BY FS_Interval
<1> QED BY <1>2, <1>3, <1>4, FS_Injection

(* What was accepted is at the end of the window; what was not pushed out   *)
(* keeps its place among the others; and the one that was, was pushed out   *)
(* by Memory findings accepted after it (accept).                           *)
LEMMA WindowAfterAccept ==
    ASSUME TypeOK, Once(sent), Recalls(sent, log, Len(log)), NEW a \in Alerts, Accept(a)
    PROVE  Once(sent') /\ Recalls(sent', log', Len(log'))
<1>0. PICK S \in Nat : /\ S = Len(sent) /\ sent \in Seq(Finding) /\ S <= Memory
                       /\ DOMAIN sent = 1 .. S
  BY LenProperties DEF TypeOK
<1>1. PICK L \in Nat : L = Len(log)
  BY LogAfterAccept
<1>2. PICK l : l = log'
  OBVIOUS
<1>3. /\ Len(l) = L + 1 /\ \A i \in 1 .. L : l[i] = log[i]
      /\ l[L + 1].key = Key[a] /\ l[L + 1].age = 0
  <2>1. /\ Len(l) = L + 1 /\ \A i \in 1 .. L : l[i] = log[i]
        /\ l[L + 1] = [key |-> Key[a], age |-> 0, capped |-> Capped(a),
                        mine |-> TRUE, saved |-> FALSE]
    BY <1>1, <1>2, LogAfterAccept
  <2> QED BY <2>1
<1>4. PICK all : all = AtTheEnd(a)
  OBVIOUS
<1>5. PICK A \in Nat : A = Len(all)
  <2>1. AtTheEnd(a) \in Seq(Finding)
    BY <1>0, PutAtTheEnd
  <2> QED BY <2>1, <1>4, LenProperties
<1>6. PICK c \in 1 .. S + 1 :
        /\ A = IF c <= S THEN S ELSE S + 1
        /\ all[A].key = Key[a] /\ all[A].age = 0
        /\ \A i \in 1 .. A - 1 : all[i] = IF i < c THEN sent[i] ELSE sent[i + 1]
        /\ c <= S => sent[c].key = Key[a]
        /\ c = S + 1 => \A i \in 1 .. S : sent[i].key # Key[a]
  <2>1. [key |-> Key[a], age |-> 0].key = Key[a] /\ [key |-> Key[a], age |-> 0].age = 0
    OBVIOUS
  <2> QED BY <1>0, <1>4, <1>5, <2>1, PutAtTheEnd
<1>7. PICK w : w = sent'
  OBVIOUS
<1>8. PICK t \in 0 .. 1 :
        /\ t = 1 => A = Memory + 1
        /\ w \in Seq(Finding) /\ Len(w) = A - t /\ DOMAIN w = 1 .. A - t
        /\ \A i \in 1 .. A - t : w[i] = all[i + t]
  <2>1. w = Remembered(a)
    BY <1>7 DEF Accept
  <2>2. PICK t \in 0 .. 1 :
          /\ t = 1 => A = Memory + 1
          /\ w \in Seq(Finding) /\ Len(w) = A - t
          /\ \A i \in 1 .. A - t : w[i] = all[i + t]
    BY <1>0, <1>4, <1>5, <2>1, RememberedIsAList
  <2>3. DOMAIN w = 1 .. A - t
    BY <2>2, LenProperties
  <2> QED BY <2>2, <2>3
<1>9. /\ A \in Nat /\ A = IF c <= S THEN S ELSE S + 1
      /\ A \in 1 .. S + 1 /\ A - t \in 1 .. A /\ (A - t) + t = A
  <2>1. A = IF c <= S THEN S ELSE S + 1
    BY <1>6
  <2>2. (t = 1 => A = Memory + 1) /\ Memory \in Nat \ {0}
    BY <1>8, Windowed
  <2>3. A \in 1 .. S + 1
    BY <2>1
  <2> QED BY <2>1, <2>2, <2>3
\* Where each entry of the others comes from.
<1> DEFINE from(i) == IF i < c THEN i ELSE i + 1
<1>10. ASSUME NEW i \in 1 .. A - 1
       PROVE  from(i) \in 1 .. S /\ from(i) # c /\ all[i] = sent[from(i)]
  <2>1. from(i) \in 1 .. S /\ from(i) # c
    BY <1>9
  <2>2. all[i] = sent[from(i)]
    BY <1>6
  <2> QED BY <2>1, <2>2
<1>11. ASSUME NEW i \in 1 .. A - 1 PROVE all[i].key # Key[a]
  <2>1. CASE c <= S
    <3>1. c \in DOMAIN sent /\ from(i) \in DOMAIN sent /\ sent[c].key = Key[a]
      BY <1>0, <1>6, <1>10, <2>1
    <3> HIDE DEF from
    <3> QED BY <1>10, <3>1 DEF Once
  <2>2. CASE c = S + 1
    BY <1>6, <1>10, <2>2
  <2> QED BY <2>1, <2>2
<1>12. ASSUME NEW i \in 1 .. A, NEW j \in 1 .. A, all[i].key = all[j].key PROVE i = j
  <2>1. CASE i = A \/ j = A
    BY <1>5, <1>6, <1>11, <1>12, <2>1
  <2>2. CASE i \in 1 .. A - 1 /\ j \in 1 .. A - 1
    <3>1. from(i) = from(j)
      <4>1. from(i) \in DOMAIN sent /\ from(j) \in DOMAIN sent
        BY <1>0, <1>10, <2>2
      <4> HIDE DEF from
      <4>2. sent[from(i)].key = sent[from(j)].key
        BY <1>10, <1>12, <2>2
      <4> QED BY <4>1, <4>2 DEF Once
    <3> QED BY <3>1, <2>2
  <2> QED BY <1>5, <2>1, <2>2
<1>13. Once(w)
  <2> SUFFICES ASSUME NEW p \in 1 .. A - t, NEW q \in 1 .. A - t, w[p].key = w[q].key
               PROVE  p = q
    BY <1>8 DEF Once
  <2>1. p + t \in 1 .. A /\ q + t \in 1 .. A
    BY <1>5
  <2>2. p + t = q + t
    BY <1>8, <1>12, <2>1
  <2> QED BY <1>5, <2>2
<1>14. ASSUME NEW i \in 1 .. L
       PROVE  /\ Later(log, i, L) \subseteq Later(l, i, L + 1)
              /\ Key[a] \in Later(l, i, L + 1)
  <2>1. \A n \in i + 1 .. L : n \in i + 1 .. L + 1 /\ l[n] = log[n]
    BY <1>3
  <2>2. L + 1 \in i + 1 .. L + 1
    BY <1>1
  <2>3. Later(log, i, L) \subseteq Later(l, i, L + 1)
    BY <2>1 DEF Later
  <2> QED BY <1>3, <2>2, <2>3 DEF Later
\* The finding itself.
<1>15. ASSUME NEW i \in 1 .. L + 1, l[i].key = Key[a], l[i].age >= 0
       PROVE  A - t \in DOMAIN w /\ Holds(w, A - t, l, i, L + 1)
  <2>1. A - t \in 1 .. A - t /\ w[A - t] = all[A]
    BY <1>8, <1>9
  <2>2. w[A - t].key = l[i].key /\ w[A - t].age <= l[i].age
    BY <1>6, <1>15, <2>1
  <2>3. \A q \in DOMAIN w : ~ (A - t < q)
    BY <1>8, <1>9
  <2> QED BY <1>8, <2>1, <2>2, <2>3 DEF Holds
\* Another that the window had at p.
<1>16. ASSUME NEW i \in 1 .. L, NEW p \in 1 .. S, Holds(sent, p, log, i, L),
              sent[p].key # Key[a]
       PROVE  \/ Cardinality(Later(l, i, L + 1)) >= Memory
              \/ \E r \in DOMAIN w : Holds(w, r, l, i, L + 1)
  <2>1. PICK r \in 1 .. A - 1 : from(r) = p
    <3>1. p # c
      BY <1>6, <1>16
    <3>2. CASE p < c
      <4>1. p \in 1 .. A - 1 /\ from(p) = p
        BY <1>9, <3>2
      <4> QED BY <4>1
    <3>3. CASE p > c
      <4>1. p - 1 \in 1 .. A - 1 /\ from(p - 1) = p
        BY <1>9, <3>3
      <4> QED BY <4>1
    <3> QED BY <3>1, <3>2, <3>3
  <2>2. all[r].key = l[i].key /\ all[r].age <= l[i].age
    BY <1>3, <1>10, <1>16, <2>1 DEF Holds
  <2>3. ASSUME NEW q \in 1 .. A, r < q PROVE all[q].key \in Later(l, i, L + 1)
    <3>1. CASE q = A
      BY <1>6, <1>14, <3>1
    <3>2. CASE q \in 1 .. A - 1
      <4>1. from(q) \in 1 .. S /\ p < from(q)
        BY <1>5, <1>10, <2>1, <2>3, <3>2
      <4>2. sent[from(q)].key \in Later(log, i, L)
        BY <1>0, <1>16, <4>1 DEF Holds
      <4> QED BY <1>10, <1>14, <3>2, <4>2
    <3> QED BY <1>5, <3>1, <3>2
  <2>4. CASE r > t
    <3>1. r - t \in 1 .. A - t /\ (r - t) + t = r
      BY <1>5, <2>4
    <3>2. w[r - t] = all[r]
      BY <1>8, <3>1
    <3>3. ASSUME NEW q \in 1 .. A - t, r - t < q PROVE w[q].key \in Later(l, i, L + 1)
      <4>1. q + t \in 1 .. A /\ r < q + t
        BY <1>5, <3>3
      <4> QED BY <1>8, <2>3, <4>1
    <3>4. Holds(w, r - t, l, i, L + 1)
      BY <1>8, <2>2, <3>2, <3>3 DEF Holds
    <3> QED BY <1>8, <3>1, <3>4
  <2>5. CASE ~ (r > t)
    <3>1. r = 1 /\ A = Memory + 1
      BY <1>5, <1>8, <2>5
    <3>2. \A x, y \in 2 .. Memory + 1 : all[x].key = all[y].key => x = y
      BY <1>12, <3>1, Windowed
    <3>3. \A x \in 2 .. Memory + 1 : all[x].key \in Later(l, i, L + 1)
      BY <2>3, <3>1, Windowed
    <3>4. Memory \in Nat /\ i \in Nat /\ L + 1 \in Nat
      BY Windowed
    <3>5. Cardinality(Later(l, i, L + 1)) >= Memory
      BY <3>2, <3>3, <3>4, AsManyLater
    <3> QED BY <3>5
  <2> QED BY <2>4, <2>5
<1>17. ASSUME NEW i \in 1 .. L + 1
       PROVE  \/ Cardinality(Later(l, i, L + 1)) >= Memory
              \/ \E r \in DOMAIN w : Holds(w, r, l, i, L + 1)
  <2>1. CASE i = L + 1
    BY <1>3, <1>15, <2>1
  <2>2. CASE i \in 1 .. L
    <3>1. log[i].age \in 0 .. Old
      <4>1. log[i] \in Accepted
        BY <1>1, <2>2, ElementOfSeq DEF TypeOK
      <4> QED BY <4>1 DEF Accepted
    <3>2. CASE Cardinality(Later(log, i, L)) >= Memory
      <4>1. Later(log, i, L) \subseteq Later(l, i, L + 1) /\ i \in Nat /\ L + 1 \in Nat
        BY <1>14, <2>2
      <4> QED BY <3>2, <4>1, LaterGrows
    <3>3. ASSUME NEW p \in 1 .. S, Holds(sent, p, log, i, L)
          PROVE  \/ Cardinality(Later(l, i, L + 1)) >= Memory
                 \/ \E r \in DOMAIN w : Holds(w, r, l, i, L + 1)
      <4>1. CASE sent[p].key = Key[a]
        <5>1. l[i].key = Key[a] /\ l[i].age >= 0
          <6>1. l[i] = log[i] /\ sent[p].key = log[i].key
            BY <1>3, <2>2, <3>3 DEF Holds
          <6>2. log[i].age >= 0
            BY <3>1
          <6> QED BY <4>1, <6>1, <6>2
        <5> QED BY <1>15, <5>1
      <4>2. CASE sent[p].key # Key[a]
        BY <1>16, <2>2, <3>3, <4>2
      <4> QED BY <4>1, <4>2
    <3> QED BY <1>0, <1>1, <2>2, <3>2, <3>3 DEF Recalls
  <2> QED BY <1>1, <2>1, <2>2
<1>18. Recalls(w, l, L + 1)
  BY <1>17 DEF Recalls
<1> QED BY <1>2, <1>3, <1>7, <1>13, <1>18

---------------------------------------------------------------------------
(* Every step keeps what is known.                                         *)

(* What an alert can change: nothing but the state, the hour's list pruned, *)
(* or the lists and the history as accept leaves them.                      *)
LEMMA AlertSteps ==
    ASSUME NEW a \in Alerts, OnAlert(a)
    PROVE  /\ file' = file
           /\ \/ UNCHANGED <<sent, recent, log>>
              \/ recent' = ThisHour /\ UNCHANGED <<sent, log>>
              \/ Accept(a) /\ ~ Repeat(a) /\ ~ OverCap(a)
BY DEF OnAlert

(* The others change neither the lists nor the history, but for four.       *)
LEMMA OtherSteps ==
    ASSUME [Next]_vars, ~ \E a \in Alerts : OnAlert(a)
    PROVE  Tick \/ OnReset \/ OnSave \/ Restart \/ UNCHANGED <<sent, file, recent, log>>
BY DEF Next, vars, Deliver, Channels, OnStart, OnStop, OnResume, OnDispose

(* Both lists of times stay in order: time passes alike for all of them.    *)
LEMMA OrderedKept ==
    ASSUME TypeOK, Ordered, Windows, [Next]_vars
    PROVE  Ordered'
<1>0. /\ Len(log) \in Nat /\ Len(recent) \in Nat
      /\ \A i \in 1 .. Len(recent) : recent[i] \in 0 .. Old
      /\ \A i \in 1 .. Len(log) : log[i].age \in 0 .. Old
  <2>1. log \in Seq(Accepted) /\ recent \in Seq(0 .. Old)
    BY DEF TypeOK
  <2>2. \A e \in Accepted : e.age \in 0 .. Old
    BY DEF Accepted
  <2> QED BY <2>1, <2>2, ElementOfSeq, LenProperties
<1>1. ASSUME UNCHANGED <<recent, log>> PROVE Ordered'
  BY <1>1 DEF Ordered
<1>2. PICK d \in 0 .. Len(recent) :
        /\ ThisHour \in Seq(0 .. Old) /\ Len(ThisHour) = Len(recent) - d
        /\ \A k \in 1 .. Len(recent) - d : ThisHour[k] = recent[k + d]
  BY HourOfRecent
<1>3. ASSUME NEW i \in 1 .. Len(ThisHour), NEW j \in 1 .. Len(ThisHour), i <= j
      PROVE  ThisHour[i] >= ThisHour[j] /\ ThisHour[i] >= 0
  <2>1. i \in 1 .. Len(recent) - d /\ j \in 1 .. Len(recent) - d
    BY <1>2
  <2>2. i + d \in 1 .. Len(recent) /\ j + d \in 1 .. Len(recent) /\ i + d <= j + d
    BY <1>0, <1>3, <2>1
  <2>3. recent[i + d] >= recent[j + d] /\ recent[i + d] >= 0
    BY <1>0, <2>2, Windowed DEF Ordered
  <2> QED BY <1>2, <2>1, <2>3
<1>4. ASSUME recent' = ThisHour, log' = log PROVE Ordered'
  BY <1>3, <1>4 DEF Ordered
<1>5. ASSUME NEW a \in Alerts, Accept(a) PROVE Ordered'
  <2>1. PICK l : l = log'
    OBVIOUS
  <2>2. /\ Len(l) = Len(log) + 1 /\ \A i \in 1 .. Len(log) : l[i] = log[i]
        /\ l[Len(log) + 1].age = 0
    <3>1. /\ Len(l) = Len(log) + 1 /\ \A i \in 1 .. Len(log) : l[i] = log[i]
          /\ l[Len(log) + 1] = [key |-> Key[a], age |-> 0, capped |-> Capped(a),
                                mine |-> TRUE, saved |-> FALSE]
      BY <1>5, <2>1, LogAfterAccept
    <3> QED BY <3>1
  <2>3. ASSUME NEW i \in 1 .. Len(l) PROVE l[i].age < Old /\ l[i].age \in Nat
    <3>1. CASE i = Len(log) + 1
      BY <2>2, <3>1, Windowed
    <3>2. CASE i \in 1 .. Len(log)
      BY <1>0, <2>2, <3>2, Windowed DEF Ordered
    <3> QED BY <1>0, <2>2, <3>1, <3>2
  <2>4. ASSUME NEW i \in 1 .. Len(l), NEW j \in 1 .. Len(l), i <= j
        PROVE  l[i].age >= l[j].age
    <3>1. CASE j = Len(log) + 1
      BY <2>2, <2>3, <3>1
    <3>2. CASE j \in 1 .. Len(log)
      <4>1. i \in 1 .. Len(log)
        BY <1>0, <2>4, <3>2
      <4> QED BY <2>2, <2>4, <3>2, <4>1 DEF Ordered
    <3> QED BY <1>0, <2>2, <3>1, <3>2
  <2>5. PICK r : r = recent'
    OBVIOUS
  <2>6. /\ Len(r) = Len(ThisHour) + 1 /\ \A i \in 1 .. Len(ThisHour) : r[i] = ThisHour[i]
        /\ r[Len(ThisHour) + 1] = 0 /\ Len(ThisHour) \in Nat
    <3>1. r = Append(ThisHour, 0) /\ 0 \in 0 .. Old
      BY <1>5, <2>5, Windowed DEF Accept, Counted
    <3> QED BY <1>2, <3>1, AppendProperties, LenProperties
  <2>7. ASSUME NEW i \in 1 .. Len(r), NEW j \in 1 .. Len(r), i <= j PROVE r[i] >= r[j]
    <3>1. CASE j \in 1 .. Len(ThisHour)
      <4>1. i \in 1 .. Len(ThisHour)
        BY <2>6, <2>7, <3>1
      <4> QED BY <1>3, <2>6, <2>7, <3>1, <4>1
    <3>2. CASE j = Len(ThisHour) + 1 /\ i \in 1 .. Len(ThisHour)
      <4>1. ThisHour[i] >= 0
        BY <1>3, <3>2
      <4> QED BY <2>6, <3>2, <4>1
    <3>3. CASE j = Len(ThisHour) + 1 /\ i = Len(ThisHour) + 1
      BY <2>6, <3>3
    <3> QED BY <2>6, <3>1, <3>2, <3>3
  <2> QED BY <2>1, <2>3, <2>4, <2>5, <2>7 DEF Ordered
<1>6. CASE Tick
  <2>1. PICK e \in 0 .. Len(log) :
          /\ Len(log') = Len(log) - e
          /\ \A k \in 1 .. Len(log) - e :
               /\ log'[k] = [log[k + e] EXCEPT !.age = log[k + e].age + 1]
               /\ log[k + e].age + 1 < Old
    BY <1>6, LogAfterTick
  <2>2. PICK l : l = log'
    OBVIOUS
  <2>3. ASSUME NEW k \in 1 .. Len(log) - e
        PROVE  /\ k + e \in 1 .. Len(log) /\ l[k].age = log[k + e].age + 1
               /\ log[k + e].age + 1 < Old
    <3>1. k + e \in 1 .. Len(log)
      BY <1>0
    <3>2. log[k + e] \in Accepted
      BY <3>1, ElementOfSeq DEF TypeOK
    <3>3. l[k] = [log[k + e] EXCEPT !.age = log[k + e].age + 1]
      BY <2>1, <2>2
    <3>4. l[k].age = log[k + e].age + 1
      BY <3>2, <3>3 DEF Accepted
    <3> QED BY <2>1, <3>1, <3>4
  <2>4. ASSUME NEW i \in 1 .. Len(log) - e, NEW j \in 1 .. Len(log) - e, i <= j
        PROVE  l[i].age >= l[j].age
    <3>1. i + e <= j + e
      BY <1>0, <2>4
    <3>2. log[i + e].age >= log[j + e].age
      BY <2>3, <3>1 DEF Ordered
    <3>3. log[i + e].age \in Nat /\ log[j + e].age \in Nat
      BY <1>0, <2>3, Windowed
    <3> QED BY <2>3, <3>2, <3>3
  <2>5. PICK r : r = recent'
    OBVIOUS
  <2>6. Len(r) = Len(recent) /\ \A i \in 1 .. Len(recent) : r[i] = Older(recent[i])
    BY <1>6, <2>5, TickTyped
  <2>7. ASSUME NEW i \in 1 .. Len(r), NEW j \in 1 .. Len(r), i <= j PROVE r[i] >= r[j]
    BY <1>0, <2>6, <2>7, Windowed DEF Ordered, Older
  <2>8. \A i \in 1 .. Len(l) : l[i].age < Old
    BY <2>1, <2>2, <2>3
  <2> QED BY <2>1, <2>2, <2>4, <2>5, <2>7, <2>8 DEF Ordered
<1>7. CASE OnReset
  <2>1. Len(log') = 0 /\ Len(recent') = 0
    BY <1>7, EmptySeq DEF OnReset
  <2> QED BY <2>1 DEF Ordered
<1>8. CASE OnSave
  <2>1. /\ Len(log') = Len(log)
        /\ \A i \in 1 .. Len(log) : log'[i] = [log[i] EXCEPT !.saved = TRUE]
    BY <1>8, SavedIsAList DEF TypeOK
  <2>2. \A i \in 1 .. Len(log) : log'[i].age = log[i].age
    <3> TAKE i \in 1 .. Len(log)
    <3>1. log[i] \in Accepted
      BY ElementOfSeq DEF TypeOK
    <3> QED BY <2>1, <3>1 DEF Accepted
  <2>3. recent' = recent
    BY <1>8 DEF OnSave
  <2> QED BY <2>1, <2>2, <2>3 DEF Ordered
<1>9. CASE Restart
  <2>1. PICK m \in 0 .. Len(log) : SavedUpTo(log, m)
    BY DEF Windows
  <2>2. Len(log') = m /\ \A i \in 1 .. m : log'[i] = [log[i] EXCEPT !.mine = FALSE]
    BY <1>9, <2>1, LogAfterRestart
  <2>3. \A i \in 1 .. m : i \in 1 .. Len(log) /\ log'[i].age = log[i].age
    <3> TAKE i \in 1 .. m
    <3>1. i \in 1 .. Len(log)
      BY <1>0
    <3>2. log[i] \in Accepted
      BY <3>1, ElementOfSeq DEF TypeOK
    <3> QED BY <2>2, <3>1, <3>2 DEF Accepted
  <2>4. Len(recent') = 0
    BY <1>9, EmptySeq DEF Restart
  <2> QED BY <2>2, <2>3, <2>4 DEF Ordered
<1> QED BY <1>1, <1>4, <1>5, <1>6, <1>7, <1>8, <1>9, AlertSteps, OtherSteps

(* What changes of an entry of the history, and what does not.              *)
LEMMA Unmarked ==
    ASSUME NEW e \in Accepted
    PROVE  /\ \A f, n : f = [e EXCEPT !.age = n] =>
                /\ f.key = e.key /\ f.age = n /\ f.mine = e.mine
                /\ f.saved = e.saved /\ f.capped = e.capped
           /\ \A f : f = [e EXCEPT !.saved = TRUE] =>
                /\ f.key = e.key /\ f.age = e.age /\ f.mine = e.mine
                /\ f.saved /\ f.capped = e.capped
           /\ \A f : f = [e EXCEPT !.mine = FALSE] =>
                /\ f.key = e.key /\ f.age = e.age /\ ~ f.mine
                /\ f.saved = e.saved /\ f.capped = e.capped
BY DEF Accepted

(* Both windows, the one in use and the one saved, keep recalling their     *)
(* part of the history.                                                     *)
LEMMA WindowsKept ==
    ASSUME TypeOK, Ordered, Windows, [Next]_vars
    PROVE  Windows'
<1>0. PICK L \in Nat :
        /\ L = Len(log) /\ DOMAIN log = 1 .. L /\ log \in Seq(Accepted)
        /\ \A i \in 1 .. L : log[i] \in Accepted
  BY LenProperties, ElementOfSeq DEF TypeOK
<1>1. PICK m \in 0 .. L : SavedUpTo(log, m) /\ Recalls(file, log, m)
  BY <1>0 DEF Windows
<1>2. Once(sent) /\ Once(file) /\ Recalls(sent, log, L)
  BY <1>0 DEF Windows
<1>3. ASSUME UNCHANGED <<sent, file, log>> PROVE Windows'
  BY <1>3 DEF Windows
<1>4. ASSUME NEW a \in Alerts, Accept(a), file' = file PROVE Windows'
  <2>1. Once(sent') /\ Recalls(sent', log', Len(log'))
    BY <1>4, WindowAfterAccept DEF Windows
  <2>2. PICK l : l = log'
    OBVIOUS
  <2>3. /\ Len(l) = L + 1 /\ DOMAIN l = 1 .. L + 1 /\ \A i \in 1 .. L : l[i] = log[i]
        /\ ~ l[L + 1].saved
    <3>1. /\ Len(l) = L + 1 /\ \A i \in 1 .. L : l[i] = log[i]
          /\ l[L + 1] = [key |-> Key[a], age |-> 0, capped |-> Capped(a),
                         mine |-> TRUE, saved |-> FALSE]
      BY <1>0, <1>4, <2>2, LogAfterAccept
    <3>2. l \in Seq(Accepted)
      <4>1. [key |-> Key[a], age |-> 0, capped |-> Capped(a), mine |-> TRUE,
             saved |-> FALSE] \in Accepted
        <5>1. Capped(a) \in BOOLEAN
          BY DEF Capped
        <5> QED BY <5>1, Windowed DEF Accepted, Keys
      <4> QED BY <1>0, <1>4, <2>2, <4>1, AppendProperties DEF Accept
    <3>3. DOMAIN l = 1 .. L + 1
      BY <3>1, <3>2, LenProperties
    <3>4. ~ l[L + 1].saved
      BY <3>1
    <3> QED BY <3>1, <3>3, <3>4
  <2>4. SavedUpTo(l, m)
    <3>1. ASSUME NEW i \in 1 .. L PROVE l[i].saved <=> i <= m
      BY <1>0, <1>1, <2>3 DEF SavedUpTo
    <3>2. ~ (L + 1 <= m)
      OBVIOUS
    <3>3. \A i \in 1 .. L + 1 : i \in 1 .. L \/ i = L + 1
      OBVIOUS
    <3> QED BY <2>3, <3>1, <3>2, <3>3 DEF SavedUpTo
  <2>5. Recalls(file, l, m)
    <3>1. \A n \in 1 .. m : l[n] = log[n]
      BY <2>3
    <3> QED BY <1>1, <3>1, RecallsSame
  <2>6. m \in 0 .. Len(l)
    BY <2>3
  <2> QED BY <1>2, <1>4, <2>1, <2>2, <2>4, <2>5, <2>6 DEF Windows
<1>5. CASE Tick
  <2>1. PICK l : l = log'
    OBVIOUS
  <2>2. PICK d \in 0 .. L :
          /\ Len(l) = L - d
          /\ \A k \in 1 .. L - d :
               /\ l[k] = [log[k + d] EXCEPT !.age = log[k + d].age + 1]
               /\ log[k + d].age + 1 < Old
    BY <1>0, <1>5, <2>1, LogAfterTick
  <2>3. ASSUME NEW k \in 1 .. L - d
        PROVE  /\ k + d \in 1 .. L /\ l[k].key = log[k + d].key
               /\ l[k].age = log[k + d].age + 1 /\ l[k].age < Old
               /\ l[k].saved = log[k + d].saved
    <3>1. k + d \in 1 .. L
      OBVIOUS
    <3>2. log[k + d] \in Accepted
      BY <1>0, <3>1
    <3>3. l[k] = [log[k + d] EXCEPT !.age = log[k + d].age + 1] /\ log[k + d].age + 1 < Old
      BY <2>2
    <3>4. /\ l[k].key = log[k + d].key /\ l[k].age = log[k + d].age + 1
          /\ l[k].saved = log[k + d].saved
      <4>1. PICK e, n : e = log[k + d] /\ n = e.age + 1 /\ e \in Accepted
        BY <3>2
      <4>2. l[k] = [e EXCEPT !.age = n]
        BY <3>3, <4>1
      <4>3. l[k].key = e.key /\ l[k].age = n /\ l[k].saved = e.saved
        BY <4>2, Unmarked
      <4> QED BY <4>1, <4>3, Zenon
    <3> QED BY <3>1, <3>3, <3>4
  <2>4. ASSUME NEW w \in Seq(Finding), NEW n \in 0 .. L, Recalls(w, log, n)
        PROVE  Recalls(Aged(w), l, IF n > d THEN n - d ELSE 0)
    BY <1>0, <2>3, <2>4, RecallsAged
  <2>5. sent' = Aged(sent) /\ file' = Aged(file)
    BY <1>5 DEF Tick
  <2>6. Once(sent') /\ Once(file')
    BY <1>2, <2>5, OnceAged DEF TypeOK
  <2>7. Recalls(sent', l, Len(l))
    <3>1. Recalls(Aged(sent), l, IF L > d THEN L - d ELSE 0)
      BY <1>2, <2>4 DEF TypeOK
    <3>2. Len(l) = IF L > d THEN L - d ELSE 0
      BY <2>2
    <3> QED BY <2>5, <3>1, <3>2
  <2>8. PICK n \in 0 .. Len(l) : n = IF m > d THEN m - d ELSE 0
    <3>1. (IF m > d THEN m - d ELSE 0) \in 0 .. Len(l)
      BY <2>2
    <3> QED BY <3>1
  <2>9. Recalls(file', l, n)
    BY <1>1, <2>4, <2>5, <2>8 DEF TypeOK
  <2>10. SavedUpTo(l, n)
    <3>1. DOMAIN l = 1 .. L - d
      <4>1. l \in Seq(Accepted)
        BY <1>5, <2>1, TickTyped
      <4> QED BY <2>2, <4>1, LenProperties
    <3>2. ASSUME NEW k \in 1 .. L - d PROVE l[k].saved <=> k <= n
      <4>1. log[k + d].saved <=> k + d <= m
        BY <1>0, <1>1, <2>3 DEF SavedUpTo
      <4>2. k + d <= m <=> k <= n
        BY <2>8
      <4> QED BY <2>3, <4>1, <4>2
    <3> QED BY <3>1, <3>2 DEF SavedUpTo
  <2> QED BY <2>1, <2>6, <2>7, <2>9, <2>10 DEF Windows
<1>6. CASE OnReset
  <2>1. /\ sent' = <<>> /\ log' = <<>> /\ file' = file
        /\ Len(<<>>) = 0 /\ DOMAIN <<>> = {}
    BY <1>6, EmptySeq DEF OnReset
  <2>2. Recalls(<<>>, <<>>, 0) /\ Recalls(file, <<>>, 0)
    BY DEF Recalls
  <2>3. Once(<<>>) /\ SavedUpTo(<<>>, 0) /\ 0 \in 0 .. 0
    BY <2>1 DEF Once, SavedUpTo
  <2> QED BY <1>2, <2>1, <2>2, <2>3 DEF Windows
<1>7. CASE OnSave
  <2>1. PICK l : l = log'
    OBVIOUS
  <2>2. /\ l \in Seq(Accepted) /\ Len(l) = L /\ DOMAIN l = 1 .. L
        /\ \A i \in 1 .. L : l[i] = [log[i] EXCEPT !.saved = TRUE]
    BY <1>0, <1>7, <2>1, SavedIsAList, LenProperties
  <2>3. \A i \in 1 .. L : l[i].key = log[i].key /\ l[i].age = log[i].age /\ l[i].saved
    <3> TAKE i \in 1 .. L
    <3>1. log[i] \in Accepted /\ l[i] = [log[i] EXCEPT !.saved = TRUE]
      BY <1>0, <2>2
    <3> QED BY <3>1, Unmarked, Zenon
  <2>4. sent' = sent /\ file' = sent
    BY <1>7 DEF OnSave
  <2>5. Recalls(sent, l, L)
    BY <1>2, <2>3, RecallsSame
  <2>6. SavedUpTo(l, L) /\ L \in 0 .. L
    BY <2>2, <2>3 DEF SavedUpTo
  <2> QED BY <1>2, <2>1, <2>2, <2>4, <2>5, <2>6 DEF Windows
<1>8. CASE Restart
  <2>1. PICK l : l = log'
    OBVIOUS
  <2>2. /\ l \in Seq(Accepted) /\ Len(l) = m /\ DOMAIN l = 1 .. m
        /\ \A i \in 1 .. m : l[i] = [log[i] EXCEPT !.mine = FALSE]
    <3>1. l \in Seq(Accepted)
      BY <1>0, <1>8, <2>1, LoadedIsAList
    <3>2. Len(l) = m /\ \A i \in 1 .. m : l[i] = [log[i] EXCEPT !.mine = FALSE]
      BY <1>0, <1>1, <1>8, <2>1, LogAfterRestart
    <3> QED BY <3>1, <3>2, LenProperties
  <2>3. ASSUME NEW i \in 1 .. m
        PROVE  l[i].key = log[i].key /\ l[i].age = log[i].age /\ l[i].saved
    <3>1. i \in 1 .. L /\ i <= m
      OBVIOUS
    <3>2. log[i].saved
      BY <1>0, <1>1, <3>1 DEF SavedUpTo
    <3>3. log[i] \in Accepted /\ l[i] = [log[i] EXCEPT !.mine = FALSE]
      BY <1>0, <2>2, <3>1
    <3>4. l[i].key = log[i].key /\ l[i].age = log[i].age /\ l[i].saved = log[i].saved
      BY <3>3, Unmarked
    <3> QED BY <3>2, <3>4, Zenon
  <2>4. sent' = file /\ file' = file
    BY <1>8 DEF Restart
  <2>5. Recalls(file, l, m)
    BY <1>1, <2>3, RecallsSame
  <2>6. SavedUpTo(l, m) /\ m \in 0 .. m
    BY <2>2, <2>3 DEF SavedUpTo
  <2> QED BY <1>2, <2>1, <2>2, <2>4, <2>5, <2>6 DEF Windows
<1> QED BY <1>3, <1>4, <1>5, <1>6, <1>7, <1>8, AlertSteps, OtherSteps

(* What this process accepted in the hour is in the hour's list, pruned,    *)
(* counted from its end.                                                    *)
LEMMA HourCounts ==
    ASSUME TypeOK, Ordered, Counts, NEW n \in 1 .. Len(log), log[n].mine, log[n].age < Hour
    PROVE  /\ Len(log) - n < Len(ThisHour)
           /\ ThisHour[Len(ThisHour) - (Len(log) - n)] = log[n].age
<1>1. PICK L \in Nat, R \in Nat :
        /\ L = Len(log) /\ R = Len(recent) /\ log[n].age \in 0 .. Old
  <2>1. log \in Seq(Accepted) /\ recent \in Seq(0 .. Old)
    BY DEF TypeOK
  <2>2. log[n] \in Accepted
    BY <2>1, ElementOfSeq
  <2>3. log[n].age \in 0 .. Old
    BY <2>2 DEF Accepted
  <2> QED BY <2>1, <2>3, LenProperties
<1>2. PICK d \in 0 .. R :
        /\ Len(ThisHour) = R - d
        /\ \A k \in 1 .. R - d : ThisHour[k] = recent[k + d]
        /\ \A i \in 1 .. R : i <= d <=> recent[i] >= Hour
  BY <1>1, HourOfRecent
<1>3. L - n < R /\ recent[R - (L - n)] = log[n].age
  BY <1>1 DEF Counts
<1>4. R - (L - n) \in 1 .. R
  BY <1>1, <1>3
<1>5. ~ (R - (L - n) <= d)
  BY <1>1, <1>2, <1>3, <1>4, Windowed
<1>6. L - n < R - d /\ (R - d) - (L - n) \in 1 .. R - d
      /\ ((R - d) - (L - n)) + d = R - (L - n)
  BY <1>1, <1>3, <1>4, <1>5
<1>7. ThisHour[(R - d) - (L - n)] = log[n].age
  BY <1>2, <1>3, <1>6
<1> QED BY <1>1, <1>2, <1>6, <1>7

(* The hour's list keeps counting what this process accepts.                *)
LEMMA CountsKept ==
    ASSUME TypeOK, Ordered, Windows, Counts, [Next]_vars
    PROVE  Counts'
<1>0. PICK L \in Nat :
        /\ L = Len(log) /\ log \in Seq(Accepted)
        /\ \A i \in 1 .. L : log[i] \in Accepted /\ log[i].age \in 0 .. Old
  <2>1. log \in Seq(Accepted)
    BY DEF TypeOK
  <2>2. \A e \in Accepted : e.age \in 0 .. Old
    BY DEF Accepted
  <2> QED BY <2>1, <2>2, LenProperties, ElementOfSeq
<1>1. ASSUME UNCHANGED <<recent, log>> PROVE Counts'
  BY <1>1 DEF Counts
<1>2. ASSUME recent' = ThisHour, log' = log PROVE Counts'
  BY <1>2, HourCounts DEF Counts
<1>3. ASSUME NEW a \in Alerts, Accept(a) PROVE Counts'
  <2>0. PICK T \in Nat : T = Len(ThisHour)
    BY HourOfRecent, LenProperties
  <2>1. PICK l, r : l = log' /\ r = recent' /\ T = Len(ThisHour)
    BY <2>0
  <2>2. /\ Len(l) = L + 1 /\ \A i \in 1 .. L : l[i] = log[i]
        /\ l[L + 1].age = 0
    <3>1. /\ Len(l) = L + 1 /\ \A i \in 1 .. L : l[i] = log[i]
          /\ l[L + 1] = [key |-> Key[a], age |-> 0, capped |-> Capped(a),
                         mine |-> TRUE, saved |-> FALSE]
      BY <1>0, <1>3, <2>1, LogAfterAccept
    <3> QED BY <3>1
  <2>3. /\ Len(r) = T + 1 /\ \A i \in 1 .. T : r[i] = ThisHour[i]
        /\ r[T + 1] = 0
    <3>1. r = Append(ThisHour, 0) /\ 0 \in 0 .. Old
      BY <1>3, <2>1, Windowed DEF Accept, Counted
    <3>2. ThisHour \in Seq(0 .. Old)
      BY ThisHourIsAList DEF TypeOK
    <3> QED BY <2>1, <3>1, <3>2, AppendProperties
  <2>4. ASSUME NEW n \in 1 .. L + 1, l[n].mine, l[n].age < Hour
        PROVE  L + 1 - n < T + 1 /\ r[T + 1 - (L + 1 - n)] = l[n].age
    <3>1. CASE n = L + 1
      <4>1. L + 1 - n = 0 /\ T + 1 - (L + 1 - n) = T + 1
        BY <3>1
      <4> QED BY <2>2, <2>3, <3>1, <4>1
    <3>2. CASE n \in 1 .. L
      <4>1. log[n].mine /\ log[n].age < Hour
        BY <2>2, <2>4, <3>2
      <4>2. L - n < T /\ ThisHour[T - (L - n)] = log[n].age
        BY <1>0, <2>1, <3>2, <4>1, HourCounts
      <4>3. T - (L - n) \in 1 .. T /\ T + 1 - (L + 1 - n) = T - (L - n) /\ L + 1 - n < T + 1
        BY <3>2, <4>2
      <4> QED BY <2>2, <2>3, <3>2, <4>2, <4>3
    <3> QED BY <3>1, <3>2
  <2> QED BY <2>1, <2>2, <2>3, <2>4 DEF Counts
<1>4. CASE Tick
  <2>0. PICK R \in Nat : R = Len(recent)
    BY LenProperties DEF TypeOK
  <2>1. PICK l, r : l = log' /\ r = recent' /\ R = Len(recent)
    BY <2>0
  <2>2. PICK d \in 0 .. L :
          /\ Len(l) = L - d
          /\ \A k \in 1 .. L - d :
               /\ l[k] = [log[k + d] EXCEPT !.age = log[k + d].age + 1]
               /\ log[k + d].age + 1 < Old
    BY <1>0, <1>4, <2>1, LogAfterTick
  <2>3. Len(r) = R /\ \A i \in 1 .. R : r[i] = Older(recent[i])
    BY <1>4, <2>1, TickTyped
  <2>4. ASSUME NEW n \in 1 .. L - d, l[n].mine, l[n].age < Hour
        PROVE  (L - d) - n < R /\ r[R - ((L - d) - n)] = l[n].age
    <3>1. n + d \in 1 .. L /\ (L - d) - n = L - (n + d)
      OBVIOUS
    <3>2. log[n + d] \in Accepted
      BY <1>0, <3>1
    <3>3. l[n] = [log[n + d] EXCEPT !.age = log[n + d].age + 1]
      BY <2>2
    <3>4. l[n].mine = log[n + d].mine /\ l[n].age = log[n + d].age + 1
      BY <3>2, <3>3, Unmarked
    <3>5. log[n + d].mine
      BY <2>4, <3>4, Zenon
    <3>6. log[n + d].age \in 0 .. Old /\ log[n + d].age + 1 < Old
      BY <1>0, <2>2, <3>1
    <3>7. log[n + d].age < Hour
      BY <2>4, <3>4, <3>6, Windowed
    <3>8. L - (n + d) < R /\ recent[R - (L - (n + d))] = log[n + d].age
      BY <1>0, <2>1, <3>1, <3>5, <3>7 DEF Counts
    <3>9. R - (L - (n + d)) \in 1 .. R
      BY <3>1, <3>8
    <3>10. r[R - (L - (n + d))] = log[n + d].age + 1
      BY <2>3, <3>6, <3>8, <3>9, Windowed DEF Older
    <3> QED BY <3>1, <3>4, <3>8, <3>10
  <2> QED BY <2>1, <2>2, <2>3, <2>4 DEF Counts
<1>5. CASE OnReset
  <2>1. Len(log') = 0
    BY <1>5, EmptySeq DEF OnReset
  <2> QED BY <2>1 DEF Counts
<1>6. CASE OnSave
  <2>1. PICK l : l = log'
    OBVIOUS
  <2>2. Len(l) = L /\ \A i \in 1 .. L : l[i] = [log[i] EXCEPT !.saved = TRUE]
    BY <1>0, <1>6, <2>1, SavedIsAList
  <2>3. \A i \in 1 .. L : l[i].age = log[i].age /\ l[i].mine = log[i].mine
    <3> TAKE i \in 1 .. L
    <3>1. log[i] \in Accepted /\ l[i] = [log[i] EXCEPT !.saved = TRUE]
      BY <1>0, <2>2
    <3> QED BY <3>1, Unmarked, Zenon
  <2>4. recent' = recent
    BY <1>6 DEF OnSave
  <2>5. ASSUME NEW n \in 1 .. L, l[n].mine, l[n].age < Hour
        PROVE  L - n < Len(recent) /\ recent[Len(recent) - (L - n)] = l[n].age
    <3>1. log[n].mine
      BY <2>3, <2>5, Zenon
    <3>2. log[n].age < Hour
      BY <2>3, <2>5
    <3> QED BY <1>0, <2>3, <3>1, <3>2 DEF Counts
  <2> QED BY <2>1, <2>2, <2>4, <2>5 DEF Counts
<1>7. CASE Restart
  <2>1. PICK m \in 0 .. L : SavedUpTo(log, m)
    BY <1>0 DEF Windows
  <2>2. PICK l : l = log'
    OBVIOUS
  <2>3. Len(l) = m /\ \A i \in 1 .. m : l[i] = [log[i] EXCEPT !.mine = FALSE]
    BY <1>0, <1>7, <2>1, <2>2, LogAfterRestart
  <2>4. \A i \in 1 .. m : ~ l[i].mine
    <3> TAKE i \in 1 .. m
    <3>1. log[i] \in Accepted /\ l[i] = [log[i] EXCEPT !.mine = FALSE]
      BY <1>0, <2>3
    <3> QED BY <3>1, Unmarked, Zenon
  <2> QED BY <2>2, <2>3, <2>4 DEF Counts
<1> QED BY <1>1, <1>2, <1>3, <1>4, <1>5, <1>6, <1>7, AlertSteps, OtherSteps

(* The invariant holds in every state.                                      *)
THEOREM Inductive == Spec => []Known
<1>1. Init => Known
  <2> SUFFICES ASSUME Init PROVE Known
    OBVIOUS
  <2>1. TypeOK
    BY Windowed, EmptySeq DEF Init, TypeOK
  <2>2. /\ sent = <<>> /\ file = <<>> /\ recent = <<>> /\ log = <<>>
        /\ Len(<<>>) = 0 /\ DOMAIN <<>> = {}
    BY EmptySeq DEF Init
  <2>3. Ordered /\ Counts
    BY <2>2 DEF Ordered, Counts
  <2>4. /\ Recalls(<<>>, <<>>, 0) /\ Once(<<>>) /\ SavedUpTo(<<>>, 0) /\ 0 \in 0 .. 0
    BY <2>2 DEF Recalls, Once, SavedUpTo
  <2>5. Windows
    BY <2>2, <2>4 DEF Windows
  <2> QED BY <2>1, <2>3, <2>5 DEF Known
<1>2. Known /\ TypeOK' /\ [Next]_vars => Known'
  BY OrderedKept, WindowsKept, CountsKept DEF Known
<1> QED BY <1>1, <1>2, TypeCorrect, PTL DEF Spec

---------------------------------------------------------------------------
(* The promises of the filter.                                             *)

\* NotRepeated, of a history of m.
Apart(l, m) ==
    \A i, j \in 1 .. m :
        i < j /\ l[i].key = l[j].key /\ l[i].age - l[j].age < Cooldown
        => Cardinality(Later(l, i, j - 1)) >= Memory

LEMMA ApartIsNotRepeated ==
    ASSUME TypeOK
    PROVE  NotRepeated <=> Apart(log, Len(log))
<1>1. DOMAIN log = 1 .. Len(log)
  BY LenProperties DEF TypeOK
<1> QED BY <1>1 DEF NotRepeated, Apart, Later

(* A history with the same findings at the same ages is as far apart.       *)
LEMMA ApartSame ==
    ASSUME NEW l, NEW k, NEW L \in Nat, NEW m \in 0 .. L, Apart(l, L),
           \A n \in 1 .. m : k[n].key = l[n].key /\ k[n].age = l[n].age
    PROVE  Apart(k, m)
<1> SUFFICES ASSUME NEW i \in 1 .. m, NEW j \in 1 .. m, i < j, k[i].key = k[j].key,
                    k[i].age - k[j].age < Cooldown
             PROVE  Cardinality(Later(k, i, j - 1)) >= Memory
  BY DEF Apart
<1>1. Later(k, i, j - 1) = Later(l, i, j - 1)
  <2>1. \A n \in i + 1 .. j - 1 : n \in 1 .. m
    OBVIOUS
  <2> QED BY <2>1 DEF Later
<1>2. i \in 1 .. L /\ j \in 1 .. L
  OBVIOUS
<1> QED BY <1>1, <1>2 DEF Apart

(* A finding accepted again has run out of the window, or was pushed out.   *)
LEMMA NotRepeatedKept ==
    ASSUME Known, NotRepeated, TypeOK', [Next]_vars
    PROVE  NotRepeated'
<1>0. PICK L \in Nat :
        /\ L = Len(log) /\ log \in Seq(Accepted) /\ Apart(log, L)
        /\ \A i \in 1 .. L : log[i] \in Accepted /\ log[i].age \in 0 .. Old
  <2>1. log \in Seq(Accepted) /\ Apart(log, Len(log))
    BY ApartIsNotRepeated DEF Known, TypeOK
  <2>2. \A e \in Accepted : e.age \in 0 .. Old
    BY DEF Accepted
  <2> QED BY <2>1, <2>2, LenProperties, ElementOfSeq
<1>1. PICK l : l = log'
  OBVIOUS
<1>2. SUFFICES Apart(l, Len(l))
  <2>1. DOMAIN log' = 1 .. Len(log')
    BY LenProperties DEF TypeOK
  <2> QED BY <1>1, <2>1 DEF NotRepeated, Apart, Later
<1>3. ASSUME log' = log PROVE Apart(l, Len(l))
  BY <1>0, <1>1, <1>3
<1>4. ASSUME NEW a \in Alerts, Accept(a), ~ Repeat(a) PROVE Apart(l, Len(l))
  <2>1. /\ Len(l) = L + 1 /\ \A i \in 1 .. L : l[i] = log[i]
        /\ l[L + 1].key = Key[a] /\ l[L + 1].age = 0
    <3>1. /\ Len(l) = L + 1 /\ \A i \in 1 .. L : l[i] = log[i]
          /\ l[L + 1] = [key |-> Key[a], age |-> 0, capped |-> Capped(a),
                         mine |-> TRUE, saved |-> FALSE]
      BY <1>0, <1>1, <1>4, LogAfterAccept DEF Known
    <3> QED BY <3>1
  <2>2. Apart(l, L)
    BY <1>0, <2>1, ApartSame
  <2>3. ASSUME NEW i \in 1 .. L, l[i].key = Key[a], l[i].age - 0 < Cooldown
        PROVE  Cardinality(Later(l, i, L)) >= Memory
    <3>1. Later(l, i, L) = Later(log, i, L)
      <4>1. \A n \in i + 1 .. L : n \in 1 .. L
        OBVIOUS
      <4> QED BY <2>1, <4>1 DEF Later
    <3>2. ASSUME NEW p \in DOMAIN sent, Holds(sent, p, log, i, L) PROVE FALSE
      <4>1. sent[p].key = Key[a] /\ sent[p].age <= log[i].age
        BY <2>1, <2>3, <3>2 DEF Holds
      <4>2. sent[p].age \in Nat
        <5>1. sent \in Seq(Finding)
          BY DEF Known, TypeOK
        <5>2. sent[p] \in Finding
          BY <5>1, ElementOfSeq, LenProperties
        <5>3. \A e \in Finding : e.age \in 0 .. Old
          BY DEF Finding
        <5> QED BY <5>2, <5>3, Windowed
      <4>3. sent[p].age < Cooldown
        BY <1>0, <2>1, <2>3, <4>1, <4>2, Windowed
      <4> QED BY <1>4, <4>1, <4>3 DEF Repeat
    <3>3. Recalls(sent, log, L)
      BY <1>0 DEF Known, Windows
    <3> QED BY <3>1, <3>2, <3>3 DEF Recalls
  <2>4. ASSUME NEW i \in 1 .. L + 1, NEW j \in 1 .. L + 1, i < j, l[i].key = l[j].key,
               l[i].age - l[j].age < Cooldown
        PROVE  Cardinality(Later(l, i, j - 1)) >= Memory
    <3>1. CASE j = L + 1
      <4>1. i \in 1 .. L /\ j - 1 = L
        BY <2>4, <3>1
      <4>2. l[i].key = Key[a] /\ l[i].age - 0 < Cooldown
        BY <2>1, <2>4, <3>1
      <4> QED BY <2>3, <4>1, <4>2
    <3>2. CASE j \in 1 .. L
      <4>1. i \in 1 .. L
        BY <2>4, <3>2
      <4> QED BY <2>2, <2>4, <3>2, <4>1 DEF Apart
    <3> QED BY <3>1, <3>2
  <2> QED BY <2>1, <2>4 DEF Apart
<1>5. CASE Tick
  <2>1. PICK d \in 0 .. L :
          /\ Len(l) = L - d
          /\ \A k \in 1 .. L - d :
               /\ l[k] = [log[k + d] EXCEPT !.age = log[k + d].age + 1]
               /\ log[k + d].age + 1 < Old
    BY <1>0, <1>1, <1>5, LogAfterTick DEF Known
  <2>2. ASSUME NEW k \in 1 .. L - d
        PROVE  /\ k + d \in 1 .. L /\ l[k].key = log[k + d].key
               /\ l[k].age = log[k + d].age + 1
    <3>1. k + d \in 1 .. L
      OBVIOUS
    <3>2. log[k + d] \in Accepted /\ l[k] = [log[k + d] EXCEPT !.age = log[k + d].age + 1]
      BY <1>0, <2>1, <3>1
    <3>3. l[k].key = log[k + d].key /\ l[k].age = log[k + d].age + 1
      BY <3>2, Unmarked
    <3> QED BY <3>1, <3>3
  <2>3. ASSUME NEW i \in 1 .. L - d, NEW j \in 1 .. L - d, i < j, l[i].key = l[j].key,
               l[i].age - l[j].age < Cooldown
        PROVE  Cardinality(Later(l, i, j - 1)) >= Memory
    <3>1. log[i + d].age - log[j + d].age < Cooldown
      <4>1. log[i + d].age \in Nat /\ log[j + d].age \in Nat
        BY <1>0, <2>2, Windowed
      <4> QED BY <2>2, <2>3, <4>1, Windowed
    <3>2. i + d < j + d
      BY <2>3
    <3>3. Cardinality(Later(log, i + d, j + d - 1)) >= Memory
      BY <1>0, <2>2, <2>3, <3>1, <3>2 DEF Apart
    <3>4. Later(log, i + d, j + d - 1) \subseteq Later(l, i, j - 1)
      <4>1. ASSUME NEW n \in i + d + 1 .. j + d - 1
            PROVE  n - d \in i + 1 .. j - 1 /\ l[n - d].key = log[n].key
        <5>1. n - d \in 1 .. L - d /\ (n - d) + d = n /\ n - d \in i + 1 .. j - 1
          OBVIOUS
        <5> QED BY <2>2, <5>1
      <4> QED BY <4>1 DEF Later
    <3>5. i + d \in Nat /\ j + d - 1 \in Nat /\ i \in Nat /\ j - 1 \in Nat
      OBVIOUS
    <3> QED BY <3>3, <3>4, <3>5, LaterGrows
  <2> QED BY <2>1, <2>3 DEF Apart
<1>6. CASE OnReset
  <2>1. Len(l) = 0
    BY <1>1, <1>6, EmptySeq DEF OnReset
  <2> QED BY <2>1 DEF Apart
<1>7. CASE OnSave
  <2>1. Len(l) = L /\ \A i \in 1 .. L : l[i] = [log[i] EXCEPT !.saved = TRUE]
    BY <1>0, <1>1, <1>7, SavedIsAList
  <2>2. \A i \in 1 .. L : l[i].key = log[i].key /\ l[i].age = log[i].age
    <3> TAKE i \in 1 .. L
    <3>1. log[i] \in Accepted /\ l[i] = [log[i] EXCEPT !.saved = TRUE]
      BY <1>0, <2>1
    <3> QED BY <3>1, Unmarked
  <2> QED BY <1>0, <2>1, <2>2, ApartSame
<1>8. CASE Restart
  <2>1. PICK m \in 0 .. L : SavedUpTo(log, m)
    BY <1>0 DEF Known, Windows
  <2>2. Len(l) = m /\ \A i \in 1 .. m : l[i] = [log[i] EXCEPT !.mine = FALSE]
    BY <1>0, <1>1, <1>8, <2>1, LogAfterRestart DEF Known
  <2>3. \A i \in 1 .. m : l[i].key = log[i].key /\ l[i].age = log[i].age
    <3> TAKE i \in 1 .. m
    <3>1. i \in 1 .. L
      OBVIOUS
    <3>2. log[i] \in Accepted /\ l[i] = [log[i] EXCEPT !.mine = FALSE]
      BY <1>0, <2>2, <3>1
    <3> QED BY <3>2, Unmarked
  <2> QED BY <1>0, <2>2, <2>3, ApartSame
<1> QED BY <1>1, <1>3, <1>4, <1>5, <1>6, <1>7, <1>8, AlertSteps, OtherSteps

(* The same finding is accepted once in a cooling-off window, whatever is   *)
(* saved, stopped, resumed or restarted in between, unless Memory others    *)
(* have pushed it out.                                                      *)
THEOREM FindingIsNotRepeated == Spec => []NotRepeated
<1>1. Init => NotRepeated
  <2> SUFFICES ASSUME Init PROVE NotRepeated
    OBVIOUS
  <2>1. DOMAIN log = {}
    BY EmptySeq DEF Init
  <2> QED BY <2>1 DEF NotRepeated
<1>2. Known /\ NotRepeated /\ TypeOK' /\ [Next]_vars => NotRepeated'
  BY NotRepeatedKept
<1> QED BY <1>1, <1>2, Inductive, TypeCorrect, PTL DEF Spec

\* What this process accepted in the hour before the i-th.
Before(l, i) == {n \in 1 .. i - 1 : l[n].mine /\ l[n].age - l[i].age < Hour}

\* HourIsKept, of a history of m.
Spared(l, m) == \A i \in 1 .. m : l[i].mine /\ l[i].capped => Cardinality(Before(l, i)) < MaxPerHour

(* A history with the same entries, but for what was saved, is as spared.   *)
LEMMA SparedSame ==
    ASSUME NEW l, NEW k, NEW m \in Nat, Spared(l, m),
           \A n \in 1 .. m : /\ k[n].mine = l[n].mine /\ k[n].age = l[n].age
                             /\ k[n].capped = l[n].capped
    PROVE  Spared(k, m)
<1> SUFFICES ASSUME NEW i \in 1 .. m, k[i].mine, k[i].capped
             PROVE  Cardinality(Before(k, i)) < MaxPerHour
  BY DEF Spared
<1>1. l[i].mine /\ l[i].capped
  BY Zenon
<1>2. \A n \in 1 .. i - 1 : /\ n \in 1 .. m
                            /\ k[n].age - k[i].age < Hour <=> l[n].age - l[i].age < Hour
  OBVIOUS
<1>3. Before(k, i) = Before(l, i)
  BY <1>2, Zenon DEF Before
<1> QED BY <1>1, <1>3, Zenon DEF Spared

(* What the cap may drop is accepted only while the hour has room.          *)
LEMMA HourIsKeptKept ==
    ASSUME Known, HourIsKept, MaxPerHour > 0, TypeOK', [Next]_vars
    PROVE  HourIsKept'
<1>0. PICK L \in Nat :
        /\ L = Len(log) /\ DOMAIN log = 1 .. L /\ log \in Seq(Accepted)
        /\ \A i \in 1 .. L : log[i] \in Accepted /\ log[i].age \in 0 .. Old
  <2>1. log \in Seq(Accepted)
    BY DEF Known, TypeOK
  <2>2. \A e \in Accepted : e.age \in 0 .. Old
    BY DEF Accepted
  <2> QED BY <2>1, <2>2, LenProperties, ElementOfSeq
<1>1. Spared(log, L)
  BY <1>0, Zenon DEF HourIsKept, Spared, Before
<1>2. PICK l : l = log'
  OBVIOUS
<1>3. SUFFICES Spared(l, Len(l))
  <2>1. DOMAIN log' = 1 .. Len(log')
    BY LenProperties DEF TypeOK
  <2> QED BY <1>2, <2>1, Zenon DEF HourIsKept, Spared, Before
<1>4. ASSUME log' = log PROVE Spared(l, Len(l))
  BY <1>0, <1>1, <1>2, <1>4
<1>5. ASSUME NEW a \in Alerts, Accept(a), ~ OverCap(a) PROVE Spared(l, Len(l))
  <2>1. /\ Len(l) = L + 1 /\ \A i \in 1 .. L : l[i] = log[i]
        /\ l[L + 1].age = 0 /\ l[L + 1].capped = Capped(a)
    <3>1. /\ Len(l) = L + 1 /\ \A i \in 1 .. L : l[i] = log[i]
          /\ l[L + 1] = [key |-> Key[a], age |-> 0, capped |-> Capped(a),
                         mine |-> TRUE, saved |-> FALSE]
      BY <1>0, <1>2, <1>5, LogAfterAccept DEF Known
    <3> QED BY <3>1
  <2>2. Spared(l, L)
    BY <1>1, <2>1, SparedSame
  <2>3. ASSUME l[L + 1].capped PROVE Cardinality(Before(l, L + 1)) < MaxPerHour
    <3>1. PICK T \in Nat : T = Len(ThisHour)
      BY ThisHourIsAList, LenProperties DEF Known, TypeOK
    <3>2. T < MaxPerHour
      <4>1. Capped(a)
        BY <2>1, <2>3, Zenon
      <4>2. ~ (Len(ThisHour) >= MaxPerHour)
        BY <1>5, <4>1, Zenon DEF OverCap
      <4> QED BY <3>1, <4>2, Windowed
    <3>3. ASSUME NEW n \in Before(l, L + 1) PROVE n \in L - T + 1 .. L
      <4>1. n \in 1 .. L /\ l[n].mine /\ l[n].age - l[L + 1].age < Hour
        BY DEF Before
      <4>2. log[n].mine /\ log[n].age < Hour
        <5>1. log[n].age - 0 < Hour /\ log[n].age \in Nat
          BY <1>0, <2>1, <4>1, Windowed
        <5>2. log[n].mine
          BY <2>1, <4>1
        <5> QED BY <5>1, <5>2, Windowed
      <4>3. L - n < T
        BY <1>0, <3>1, <4>1, <4>2, HourCounts DEF Known
      <4> QED BY <4>1, <4>3
    <3>4. IsFiniteSet(L - T + 1 .. L) /\ Cardinality(L - T + 1 .. L) = T
      <4>1. L - T + 1 \in Int /\ L \in Int /\ (IF L - T + 1 > L THEN 0 ELSE L - (L - T + 1) + 1) = T
        OBVIOUS
      <4> QED BY <4>1, FS_Interval
    <3>5. Before(l, L + 1) \subseteq L - T + 1 .. L
      BY <3>3
    <3>6. Cardinality(Before(l, L + 1)) <= T /\ Cardinality(Before(l, L + 1)) \in Nat
      BY <3>4, <3>5, FS_Subset, FS_CardinalityType
    <3> QED BY <3>2, <3>6, Windowed
  <2>4. \A i \in 1 .. L + 1 : i \in 1 .. L \/ i = L + 1
    OBVIOUS
  <2> QED BY <2>1, <2>2, <2>3, <2>4, Zenon DEF Spared
<1>6. CASE Tick
  <2>1. PICK d \in 0 .. L :
          /\ Len(l) = L - d
          /\ \A k \in 1 .. L - d :
               /\ l[k] = [log[k + d] EXCEPT !.age = log[k + d].age + 1]
               /\ log[k + d].age + 1 < Old
    BY <1>0, <1>2, <1>6, LogAfterTick DEF Known
  <2>2. ASSUME NEW k \in 1 .. L - d
        PROVE  /\ k + d \in 1 .. L /\ l[k].mine = log[k + d].mine
               /\ l[k].age = log[k + d].age + 1 /\ l[k].capped = log[k + d].capped
    <3>1. k + d \in 1 .. L
      OBVIOUS
    <3>2. log[k + d] \in Accepted /\ l[k] = [log[k + d] EXCEPT !.age = log[k + d].age + 1]
      BY <1>0, <2>1, <3>1
    <3>3. /\ l[k].mine = log[k + d].mine /\ l[k].age = log[k + d].age + 1
          /\ l[k].capped = log[k + d].capped
      BY <3>2, Unmarked
    <3> QED BY <3>1, <3>3
  <2>3. ASSUME NEW i \in 1 .. L - d, l[i].mine, l[i].capped
        PROVE  Cardinality(Before(l, i)) < MaxPerHour
    <3>1. i + d \in 1 .. L /\ log[i + d].mine /\ log[i + d].capped
      BY <2>2, <2>3, Zenon
    <3>2. ASSUME NEW n \in Before(l, i) PROVE n \in Nat /\ n + d \in Before(log, i + d)
      <4>1. n \in 1 .. L - d /\ n \in 1 .. i - 1 /\ l[n].mine /\ l[n].age - l[i].age < Hour
        BY DEF Before
      <4>2. n + d \in 1 .. i + d - 1
        BY <4>1
      <4>3. log[n + d].age - log[i + d].age < Hour
        <5>1. log[n + d].age \in Nat /\ log[i + d].age \in Nat
          BY <1>0, <2>2, <4>1, Windowed
        <5> QED BY <2>2, <4>1, <5>1, Windowed
      <4>4. log[n + d].mine
        BY <2>2, <4>1, Zenon
      <4> QED BY <4>1, <4>2, <4>3, <4>4 DEF Before
    <3>3. PICK f : f = [n \in Before(l, i) |-> n + d]
      OBVIOUS
    <3>4. f \in Injection(Before(l, i), Before(log, i + d))
      <4>1. f \in [Before(l, i) -> Before(log, i + d)]
        BY <3>2, <3>3
      <4>2. IsInjective(f)
        BY <3>2, <3>3 DEF IsInjective
      <4> QED BY <4>1, <4>2 DEF Injection
    <3>5. IsFiniteSet(Before(log, i + d)) /\ Cardinality(Before(log, i + d)) \in Nat
      <4>1. Before(log, i + d) \subseteq 1 .. i + d - 1 /\ i + d - 1 \in Nat
        BY DEF Before
      <4> QED BY <4>1, PositionsFinite, FS_CardinalityType
    <3>6. /\ Cardinality(Before(l, i)) <= Cardinality(Before(log, i + d))
          /\ Cardinality(Before(l, i)) \in Nat
      BY <3>4, <3>5, FS_Injection, FS_CardinalityType
    <3>7. Cardinality(Before(log, i + d)) < MaxPerHour
      BY <1>1, <3>1, Zenon DEF Spared
    <3> QED BY <3>5, <3>6, <3>7, Windowed
  <2> QED BY <2>1, <2>3 DEF Spared
<1>7. CASE OnReset
  <2>1. Len(l) = 0
    BY <1>2, <1>7, EmptySeq DEF OnReset
  <2> QED BY <2>1 DEF Spared
<1>8. CASE OnSave
  <2>1. Len(l) = L /\ \A i \in 1 .. L : l[i] = [log[i] EXCEPT !.saved = TRUE]
    BY <1>0, <1>2, <1>8, SavedIsAList
  <2>2. \A i \in 1 .. L : /\ l[i].mine = log[i].mine /\ l[i].age = log[i].age
                          /\ l[i].capped = log[i].capped
    <3> TAKE i \in 1 .. L
    <3>1. log[i] \in Accepted /\ l[i] = [log[i] EXCEPT !.saved = TRUE]
      BY <1>0, <2>1
    <3> QED BY <3>1, Unmarked
  <2> QED BY <1>1, <2>1, <2>2, SparedSame
<1>9. CASE Restart
  <2>1. PICK m \in 0 .. L : SavedUpTo(log, m)
    BY <1>0 DEF Known, Windows
  <2>2. Len(l) = m /\ \A i \in 1 .. m : l[i] = [log[i] EXCEPT !.mine = FALSE]
    BY <1>0, <1>2, <1>9, <2>1, LogAfterRestart DEF Known
  <2>3. \A i \in 1 .. m : ~ l[i].mine
    <3> TAKE i \in 1 .. m
    <3>1. i \in 1 .. L
      OBVIOUS
    <3>2. log[i] \in Accepted /\ l[i] = [log[i] EXCEPT !.mine = FALSE]
      BY <1>0, <2>2, <3>1
    <3> QED BY <3>2, Unmarked
  <2> QED BY <2>2, <2>3, Zenon DEF Spared
<1> QED BY <1>2, <1>4, <1>5, <1>6, <1>7, <1>8, <1>9, AlertSteps, OtherSteps

(* Once the hour holds MaxPerHour alerts, alarms and trades among them, no  *)
(* other is accepted, as far as the running process remembers.              *)
THEOREM CeilingIsKept == Spec => []HourIsKept
<1>1. Init => HourIsKept
  <2> SUFFICES ASSUME Init PROVE HourIsKept
    OBVIOUS
  <2>1. DOMAIN log = {}
    BY EmptySeq DEF Init
  <2> QED BY <2>1, Zenon DEF HourIsKept
<1>2. Known /\ HourIsKept /\ TypeOK' /\ [Next]_vars => HourIsKept'
  <2>1. CASE MaxPerHour > 0
    BY <2>1, HourIsKeptKept
  <2>2. CASE ~ (MaxPerHour > 0)
    BY <2>2, Zenon DEF HourIsKept
  <2> QED BY <2>1, <2>2
<1> QED BY <1>1, <1>2, Inductive, TypeCorrect, PTL DEF Spec
=============================================================================
