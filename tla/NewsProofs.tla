----------------------------- MODULE NewsProofs -----------------------------
(***************************************************************************)
(* What a process is told of the calendar, for any entries, calendars,     *)
(* windows and clocks: each entry once, then its release once, and no      *)
(* release before its time.  The invariant follows a row from the provider *)
(* through the batch and the store to the bus.                             *)
(***************************************************************************)
EXTENDS News, TLAPS

\* A row with a figure is of a figure that is out, at its last time.
Sound(row, e) == row.out => feed[e].out /\ row.time = feed[e].time

\* Rows, stored and on their way, are sound, and no batch takes a figure back.
RowsSound ==
    \A e \in Entries :
        /\ Sound(store[e], e) /\ Sound(got[e], e)
        /\ store[e].out => store[e].kept
        /\ got[e].kept /\ store[e].out => got[e].out

\* What is told is what is remembered as published and was not dropped, and no
\* release is noted before its announcement.
Told(e, s) == <<e, s>> \in published \ dropped
InOrder(first, second) ==
    IF first THEN IF second THEN <<"scheduled", "released">> ELSE <<"scheduled">>
    ELSE IF second THEN <<"released">> ELSE <<>>

Remembered ==
    \A e \in Entries :
        /\ told[e] = InOrder(Told(e, "scheduled"), Told(e, "released"))
        /\ <<e, "released">> \in published => <<e, "scheduled">> \in published

\* A release that was told is stored, and its time has come.
ToldStored ==
    \A e \in Entries : <<e, "released">> \in published => store[e].out /\ store[e].time <= now

IInv == TypeOK /\ RowsSound /\ Remembered /\ ToldStored

---------------------------------------------------------------------------
LEMMA Initially == Init => IInv
<1> SUFFICES ASSUME Init PROVE IInv
  OBVIOUS
<1> USE NewsAssumption DEF Init
<1>1. TypeOK
  BY DEF TypeOK, Row, NoRow, Entry, Stage
<1>2. RowsSound /\ Remembered /\ ToldStored
  BY DEF RowsSound, Sound, Remembered, Told, InOrder, ToldStored, NoRow
<1> QED BY <1>1, <1>2 DEF IInv

(* What the comparisons of times need.                                     *)
LEMMA Moments ==
    /\ Lead \in Nat
    /\ TypeOK => now \in Int /\ \A e \in Entries : store[e].time \in Int
<1>1. {Lead, Slow} \subseteq Nat /\ Times \subseteq Nat /\ MaxTime \in Nat
  BY NewsAssumption
<1>2. TypeOK => \A e \in Entries : store[e].time \in Times \cup {0}
  BY DEF TypeOK, Row
<1>3. Times \cup {0} \subseteq Int
  BY <1>1
<1>4. TypeOK => now \in Int
  BY <1>1 DEF TypeOK
<1>5. Lead \in Nat
  BY <1>1
<1> QED BY <1>2, <1>3, <1>4, <1>5

(* An element on its own, and a second behind a first.                      *)
LEMMA Appended == ASSUME NEW a, NEW b PROVE Append(<<>>, b) = <<b>> /\ Append(<<a>>, b) = <<a, b>>
<1> DEFINE s == <<a>>
           t == <<a, b>>
<1>1. /\ s \in Seq({a, b}) /\ Len(s) = 1 /\ s[1] = a
      /\ t \in Seq({a, b}) /\ Len(t) = 2 /\ t[1] = a /\ t[2] = b
  OBVIOUS
<1>2. Append(s, b) \in Seq({a, b}) /\ Len(Append(s, b)) = 2
  BY <1>1
<1>3. Append(s, b)[1] = a /\ Append(s, b)[2] = b
  BY <1>1
<1> HIDE DEF s, t
<1>4. Append(s, b) = t
  BY <1>1, <1>2, <1>3
<1> QED BY <1>4 DEF s, t

(* The upsert of a batch keeps rows sound and takes no figure back.        *)
LEMMA UpsertSound ==
    ASSUME IInv, NEW s \in Sources
    PROVE  /\ Upserted(s) \in [Entries -> Row]
           /\ \A e \in Entries :
                 /\ Sound(Upserted(s)[e], e)
                 /\ Upserted(s)[e].out => Upserted(s)[e].kept
                 /\ store[e].out => Upserted(s)[e].out /\ Upserted(s)[e].time = store[e].time
BY DEF IInv, TypeOK, RowsSound, Sound, Upserted, Row

(* Types are kept by every step.                                           *)
LEMMA TypeStep == IInv /\ [Next]_vars => TypeOK'
<1> SUFFICES ASSUME IInv, [Next]_vars PROVE TypeOK'
  OBVIOUS
<1> USE NewsAssumption
<1>0. TypeOK
  BY DEF IInv
<1>1. ASSUME Cut PROVE /\ phase' = "off" /\ asking' = {} /\ pending' = {} /\ live' = {} /\ slowIn' = 0
                       /\ got' \in [Entries -> Row] /\ store' \in [Entries -> Row]
  BY <1>0, <1>1, UpsertSound DEF Cut, TypeOK, NoRow, Row
<1>2. CASE Connect \/ ConnectFails \/ Begin \/ SweepBlind
  BY <1>0, <1>2 DEF Connect, ConnectFails, Begin, NextSlow, SweepBlind, TypeOK
<1>3. CASE PassFails
  BY <1>0, <1>3 DEF PassFails, TypeOK, NoRow, Row
<1>4. CASE Sweep \/ SweepBreaks
  <2>2. Due \subseteq Entries \X Stage
    BY DEF Due
  <2>3. ASSUME NEW keys, Hands(keys) PROVE told' \in [Entries -> Seq(Stage)]
    <3> DEFINE all(e) == Said(e, "released", Said(e, "scheduled", told[e], keys), keys)
    <3>1. told' = [e \in Entries |-> all(e)]
      BY <2>3 DEF Hands
    <3>2. \A e \in Entries : all(e) \in Seq(Stage)
      BY <1>0 DEF TypeOK, Said, Stage
    <3> HIDE DEF all
    <3> QED BY <3>1, <3>2
  <2>4. CASE Sweep
    BY <1>0, <2>2, <2>3, <2>4 DEF Sweep, TypeOK
  <2>5. CASE SweepBreaks
    <3>1. PICK k \in Due, keys \in SUBSET Due :
             /\ Hands(keys) /\ published' = published \cup keys \cup {k}
             /\ dropped' = dropped \cup {k}
      <4>1. \A k, before : DoneBefore(k, before) \in SUBSET Due
        BY DEF DoneBefore
      <4> QED BY <2>5, <4>1 DEF SweepBreaks
    <3>2. told' \in [Entries -> Seq(Stage)]
      BY <2>3, <3>1
    <3>3. published' \subseteq Entries \X Stage /\ dropped' \subseteq published'
      BY <1>0, <2>2, <3>1 DEF TypeOK
    <3> QED BY <1>0, <2>5, <3>2, <3>3 DEF SweepBreaks, TypeOK
  <2> QED BY <1>4, <2>4, <2>5
<1>5. ASSUME NEW s \in Sources, Polled(s) PROVE TypeOK'
  <2>1. got' \in [Entries -> Row]
    BY <1>0, <1>5 DEF Polled, TypeOK, Row, Entry, Served
  <2> QED BY <1>0, <1>5, <2>1 DEF Polled, TypeOK
<1>6. ASSUME NEW s \in Sources, PollFails(s) PROVE TypeOK'
  BY <1>0, <1>6 DEF PollFails, TypeOK
<1>7. ASSUME NEW s \in Sources, Written(s) PROVE TypeOK'
  BY <1>0, <1>7, UpsertSound DEF Written, TypeOK, NoRow, Row
<1>8. CASE Disconnect
  BY <1>0, <1>1, <1>8 DEF Disconnect, TypeOK
<1>9. CASE Restart
  BY <1>0, <1>1, <1>9 DEF Restart, TypeOK
<1>10. ASSUME NEW e \in Entries, Moves(e) \/ Prints(e) PROVE TypeOK'
  <2>1. feed' \in [Entries -> Entry]
    <3>1. CASE Prints(e)
      BY <1>0, <3>1 DEF Prints, TypeOK, Entry
    <3>2. CASE Moves(e) /\ e \in Derived
      BY <1>0, <3>2 DEF Moves, TypeOK, Entry
    <3>3. CASE Moves(e) /\ e \notin Derived
      <4>1. PICK t \in Times : feed' = [feed EXCEPT ![e].time = t]
        BY <3>3 DEF Moves
      <4> QED BY <1>0, <4>1 DEF TypeOK, Entry
    <3> QED BY <1>10, <3>1, <3>2, <3>3
  <2>2. UNCHANGED <<now, store, published, told, dropped, phase, live, slowIn, asking, pending, got, restarts>>
    BY <1>10 DEF Moves, Prints, collector
  <2> QED BY <1>0, <2>1, <2>2 DEF TypeOK
<1>11. CASE Tick
  BY <1>0, <1>11 DEF Tick, collector, TypeOK
<1>12. CASE UNCHANGED vars
  BY <1>0, <1>12 DEF vars, TypeOK
<1> QED BY <1>2, <1>3, <1>4, <1>5, <1>6, <1>7, <1>8, <1>9, <1>10, <1>11, <1>12 DEF Next

(* Rows stay sound: a batch is read from the providers as they are, and     *)
(* what a provider has put out it does not move.                           *)
LEMMA RowsStep == IInv /\ [Next]_vars => RowsSound'
<1> SUFFICES ASSUME IInv, [Next]_vars PROVE RowsSound'
  OBVIOUS
<1>0. TypeOK /\ RowsSound
  BY DEF IInv
<1>1. ASSUME UNCHANGED <<feed, store>>, \A e \in Entries : got'[e] \in {got[e], NoRow}
      PROVE  RowsSound'
  BY <1>0, <1>1 DEF RowsSound, Sound, NoRow
<1>2. CASE \/ Connect \/ ConnectFails \/ Begin \/ Sweep \/ SweepBreaks \/ SweepBlind \/ Tick
           \/ UNCHANGED vars \/ \E s \in Sources : PollFails(s)
  BY <1>1, <1>2 DEF Connect, ConnectFails, Begin, Sweep, SweepBreaks, SweepBlind, Tick, collector, vars, PollFails
<1>3. CASE PassFails
  BY <1>1, <1>3 DEF PassFails
<1>4. ASSUME NEW s \in Sources, Polled(s) PROVE RowsSound'
  <2>1. \A e \in Entries :
           got'[e] = IF SourceOf[e] = s
                     THEN [time |-> feed[e].time, out |-> feed[e].out, kept |-> Served(e)]
                     ELSE got[e]
    BY <1>4 DEF Polled
  <2> QED BY <1>0, <1>4, <2>1 DEF Polled, RowsSound, Sound
<1>5. ASSUME NEW s \in Sources, Written(s) PROVE RowsSound'
  <2>1. feed' = feed /\ store' = Upserted(s)
        /\ \A e \in Entries : got'[e] = IF SourceOf[e] = s THEN NoRow ELSE got[e]
    BY <1>5 DEF Written
  <2>2. \A e \in Entries : SourceOf[e] # s => store'[e] = store[e]
    BY <2>1 DEF Upserted
  <2> QED BY <1>0, <2>1, <2>2, UpsertSound DEF RowsSound, Sound, NoRow
<1>6. ASSUME Cut, UNCHANGED feed PROVE RowsSound'
  <2>1. \A e \in Entries : got'[e] = NoRow
    BY <1>6 DEF Cut
  <2>2. CASE store' = store
    BY <1>1, <1>6, <2>1, <2>2
  <2>3. CASE \E s \in pending : store' = Upserted(s)
    <3>1. PICK s \in Sources : store' = Upserted(s)
      BY <1>0, <2>3 DEF TypeOK
    <3> QED BY <1>6, <2>1, <3>1, UpsertSound DEF RowsSound, Sound, NoRow
  <2> QED BY <1>6, <2>2, <2>3 DEF Cut
<1>7. CASE Disconnect \/ Restart
  BY <1>6, <1>7 DEF Disconnect, Restart
<1>8. ASSUME NEW e \in Entries, Moves(e) \/ Prints(e) PROVE RowsSound'
  <2>1. store' = store /\ got' = got
    BY <1>8 DEF Moves, Prints, collector
  <2>2. \A x \in Entries : feed[x].out => feed'[x].out /\ feed'[x].time = feed[x].time
    <3>1. CASE Prints(e)
      BY <1>0, <3>1 DEF Prints, TypeOK, Entry
    <3>2. CASE Moves(e) /\ e \in Derived
      BY <1>0, <3>2 DEF Moves, TypeOK, Entry
    <3>3. CASE Moves(e) /\ e \notin Derived
      <4>1. PICK t \in Times : feed' = [feed EXCEPT ![e].time = t]
        BY <3>3 DEF Moves
      <4> QED BY <1>0, <3>3, <4>1 DEF Moves, TypeOK, Entry
    <3> QED BY <1>8, <3>1, <3>2, <3>3
  <2> QED BY <1>0, <2>1, <2>2 DEF RowsSound, Sound
<1> QED BY <1>2, <1>3, <1>4, <1>5, <1>7, <1>8 DEF Next

(* A release is due only when the announcement, whose moment is Lead before *)
(* it, is due too or was published.                                        *)
LEMMA DueInOrder ==
    ASSUME IInv, NEW e \in Entries, <<e, "released">> \in Due
    PROVE  /\ store[e].out /\ store[e].time <= now
           /\ <<e, "scheduled">> \in Due \cup published
<1>1. Lead \in Nat /\ now \in Int /\ store[e].time \in Int
  BY Moments DEF IInv
<1>2. Fresh(e, "released")
  BY DEF Due
<1>3. store[e].out /\ store[e].time <= now /\ Knowable(e, "scheduled")
  BY <1>1, <1>2 DEF Fresh, Knowable, Has, At
<1> QED BY <1>3 DEF Fresh, Due, Stage

(* Stages are handed over and one may be lost: no release is noted before   *)
(* its announcement, and what was told is what was noted and not lost.     *)
LEMMA HandedOver ==
    ASSUME IInv, NEW keys \in SUBSET Due, NEW lost \in SUBSET Due, keys \cap lost = {},
           Hands(keys), published' = published \cup keys \cup lost,
           dropped' = dropped \cup lost, UNCHANGED <<store, now>>,
           \A e \in Entries : <<e, "released">> \in keys \cup lost
                              => <<e, "scheduled">> \in published \cup keys \cup lost
    PROVE  Remembered' /\ ToldStored'
<1>0. TypeOK /\ Remembered /\ ToldStored
  BY DEF IInv
<1>1. ToldStored'
  BY <1>0, DueInOrder DEF ToldStored
<1>2. \A e \in Entries, s \in Stage : <<e, s>> \in Due => <<e, s>> \notin published
  BY DEF Due, Fresh
<1>3. dropped \subseteq published /\ "scheduled" \in Stage /\ "released" \in Stage
  BY <1>0 DEF TypeOK, Stage
<1>4. ASSUME NEW e \in Entries, NEW s \in Stage
      PROVE  /\ Told(e, s)' <=> Told(e, s) \/ <<e, s>> \in keys
             /\ <<e, s>> \in keys => ~ Told(e, s)
  BY <1>2, <1>3 DEF Told
<1>5. ASSUME NEW e \in Entries
      PROVE  <<e, "released">> \in published => <<e, "scheduled">> \notin keys
  BY <1>0, <1>2, <1>3 DEF Remembered
<1>6. ASSUME NEW e \in Entries
      PROVE  told'[e] = InOrder(Told(e, "scheduled")', Told(e, "released")')
  <2>1. told'[e] = Said(e, "released", Said(e, "scheduled", told[e], keys), keys)
    BY DEF Hands
  <2>2. told[e] = InOrder(Told(e, "scheduled"), Told(e, "released"))
    BY <1>0 DEF Remembered
  <2>3. /\ Append(<<>>, "scheduled") = <<"scheduled">> /\ Append(<<>>, "released") = <<"released">>
        /\ Append(<<"scheduled">>, "released") = <<"scheduled", "released">>
    BY Appended
  <2>4. Told(e, "released") => <<e, "scheduled">> \notin keys
    BY <1>5 DEF Told
  <2>5. CASE <<e, "scheduled">> \in keys
    <3>1. Said(e, "scheduled", told[e], keys) = <<"scheduled">>
      BY <1>3, <1>4, <2>2, <2>3, <2>4, <2>5 DEF Said, InOrder
    <3> QED BY <1>3, <1>4, <2>1, <2>3, <2>4, <2>5, <3>1 DEF Said, InOrder
  <2>6. CASE <<e, "scheduled">> \notin keys
    <3>1. Said(e, "scheduled", told[e], keys) = told[e]
      BY <2>6 DEF Said
    <3> QED BY <1>3, <1>4, <2>1, <2>2, <2>3, <2>6, <3>1 DEF Said, InOrder
  <2> QED BY <2>5, <2>6
<1>7. ASSUME NEW e \in Entries
      PROVE  <<e, "released">> \in published' => <<e, "scheduled">> \in published'
  BY <1>0 DEF Remembered
<1> QED BY <1>1, <1>6, <1>7 DEF Remembered

(* The sweep, to its end or till handing over a stage raises.               *)
LEMMA SweepStep == IInv /\ (Sweep \/ SweepBreaks) => Remembered' /\ ToldStored'
<1> SUFFICES ASSUME IInv, Sweep \/ SweepBreaks PROVE Remembered' /\ ToldStored'
  OBVIOUS
<1>1. CASE Sweep
  BY <1>1, DueInOrder, HandedOver DEF Sweep
<1>2. CASE SweepBreaks
  <2>1. PICK k \in Due : \E before \in SUBSET (Entries \ {k[1]}) :
           /\ Hands(DoneBefore(k, before))
           /\ published' = published \cup DoneBefore(k, before) \cup {k}
           /\ dropped' = dropped \cup {k}
    BY <1>2 DEF SweepBreaks
  <2> PICK before \in SUBSET (Entries \ {k[1]}) :
           /\ Hands(DoneBefore(k, before))
           /\ published' = published \cup DoneBefore(k, before) \cup {k}
           /\ dropped' = dropped \cup {k}
    BY <2>1
  <2> DEFINE keys == DoneBefore(k, before)
  <2>2. ASSUME NEW e \in Entries, <<e, "released">> \in keys \cup {k}
        PROVE  <<e, "scheduled">> \in published \cup keys \cup {k}
    <3>1. <<e, "scheduled">> \in Due \cup published
      BY <2>2, DueInOrder DEF DoneBefore
    <3>2. e \in before \/ e = k[1]
      <4>1. CASE k = <<e, "released">>
        BY <4>1
      <4>2. CASE <<e, "released">> \in keys
        BY <4>2 DEF DoneBefore
      <4> QED BY <2>2, <4>1, <4>2
    <3>3. <<e, "scheduled">>[1] = e /\ <<e, "scheduled">>[2] = "scheduled"
      OBVIOUS
    <3>4. <<e, "scheduled">> \in Due => <<e, "scheduled">> \in keys \cup {k}
      BY <3>2, <3>3 DEF DoneBefore
    <3> QED BY <3>1, <3>4
  <2>3. Hands(keys) /\ published' = published \cup keys \cup {k} /\ dropped' = dropped \cup {k}
    OBVIOUS
  <2>4. keys \in SUBSET Due /\ {k} \in SUBSET Due /\ keys \cap {k} = {}
    BY DEF DoneBefore
  <2> HIDE DEF keys
  <2> QED BY <1>2, <2>2, <2>3, <2>4, HandedOver DEF SweepBreaks
<1> QED BY <1>1, <1>2

(* What was told stays stored, and nothing but a sweep tells.              *)
LEMMA ToldStep == IInv /\ [Next]_vars => Remembered' /\ ToldStored'
<1> SUFFICES ASSUME IInv, [Next]_vars PROVE Remembered' /\ ToldStored'
  OBVIOUS
<1>0. TypeOK /\ Remembered /\ ToldStored
  BY DEF IInv
<1>1. ASSUME UNCHANGED <<told, published, dropped>>, now' \in Int, now <= now',
             \A e \in Entries : store[e].out => store'[e].out /\ store'[e].time = store[e].time
      PROVE  Remembered' /\ ToldStored'
  <2>1. now \in Int /\ \A e \in Entries : store[e].time \in Int
    BY <1>0, Moments
  <2>2. Remembered'
    BY <1>0, <1>1 DEF Remembered, Told
  <2>3. ToldStored'
    BY <1>0, <1>1, <2>1 DEF ToldStored
  <2> QED BY <2>2, <2>3
<1>2. now \in Int /\ now <= now
  BY <1>0, Moments
<1>3. CASE \/ Connect \/ ConnectFails \/ Begin \/ SweepBlind \/ PassFails \/ UNCHANGED vars
           \/ \E s \in Sources : Polled(s) \/ PollFails(s)
           \/ \E e \in Entries : Moves(e) \/ Prints(e)
  BY <1>1, <1>2, <1>3 DEF Connect, ConnectFails, Begin, SweepBlind, PassFails, vars, Polled,
     PollFails, Moves, Prints, collector
<1>4. CASE Sweep \/ SweepBreaks
  BY <1>4, SweepStep
<1>5. ASSUME NEW s \in Sources, Written(s) PROVE Remembered' /\ ToldStored'
  BY <1>1, <1>2, <1>5, UpsertSound DEF Written
<1>6. CASE Disconnect
  <2>1. \A e \in Entries : store[e].out => store'[e].out /\ store'[e].time = store[e].time
    BY <1>0, <1>6, UpsertSound DEF Disconnect, Cut, TypeOK
  <2> QED BY <1>1, <1>2, <1>6, <2>1 DEF Disconnect
<1>7. CASE Restart
  BY <1>7 DEF Restart, Remembered, Told, InOrder, ToldStored
<1>8. CASE Tick
  BY <1>1, <1>2, <1>8 DEF Tick, collector
<1> QED BY <1>3, <1>4, <1>5, <1>6, <1>7, <1>8 DEF Next

(* Types, sound rows, and a memory of what was told that agrees with it:   *)
(* no step of the collector, of the providers or of the clock breaks them. *)
THEOREM Inductive == Spec => []IInv
<1>1. Init => IInv
  BY Initially
<1>2. IInv /\ [Next]_vars => IInv'
  BY TypeStep, RowsStep, ToldStep DEF IInv
<1> QED BY <1>1, <1>2, PTL DEF Spec

(* The collector, cut off anywhere and started again, never leaves the     *)
(* types of the model.                                                     *)
THEOREM TypeCorrect == Spec => []TypeOK
<1>1. IInv => TypeOK
  BY DEF IInv
<1> QED BY <1>1, Inductive, PTL

(* A process hears of an entry once and then once of its release, however   *)
(* the entry is moved and the collector cut off: _published and the sweep. *)
THEOREM OnceEach == Spec => []OnceAnnouncedFirst
<1>1. IInv => OnceAnnouncedFirst
  BY DEF IInv, Remembered, Told, InOrder, OnceAnnouncedFirst
<1> QED BY <1>1, Inductive, PTL

(* No lookahead, live or in the history: a release is told after its figure *)
(* is out and its time has come, and is replayed no later than now.        *)
THEOREM NoLookahead == Spec => []FiguresAreOut
<1>1. IInv => FiguresAreOut
  <2> SUFFICES ASSUME IInv, NEW e \in Entries,
                      "released" \in {told[e][i] : i \in DOMAIN told[e]}
               PROVE  /\ feed[e].out /\ feed[e].time <= now
                      /\ Has(store[e], "released") /\ At(store[e], "released") <= now
    BY DEF FiguresAreOut
  <2>1. PICK i \in DOMAIN told[e] : told[e][i] = "released"
    OBVIOUS
  <2>2. told[e] # <<>> /\ told[e] # <<"scheduled">>
    BY <2>1
  <2>3. <<e, "released">> \in published
    BY <2>2 DEF IInv, Remembered, Told, InOrder
  <2>4. store[e].out /\ store[e].time <= now /\ store[e].kept
    BY <2>3 DEF IInv, ToldStored, RowsSound
  <2> QED BY <2>4 DEF IInv, RowsSound, Sound, Has, At
<1> QED BY <1>1, Inductive, PTL
=============================================================================
