---------------------------- MODULE DeskProofs ----------------------------
(***************************************************************************)
(* Proofs about Desk and Basket, for any desks, signals, stops and guard.  *)
(*                                                                         *)
(* OneClose is not inductive: that no second close is sent while one is in *)
(* flight needs that the position it is for is latched for as long as it   *)
(* is open, and that the position cannot be opened again by an order that  *)
(* has already filled.                                                     *)
(***************************************************************************)
EXTENDS Basket, TLAPS

\* An open position was opened by an order that has filled.
Opened == \A d \in Desks : position[d] # None => entry[<<d, position[d]>>] = "filled"

\* A close in flight is for a position that is latched, or closed for good.
Latched == \A d \in Desks, s \in Signals :
    closes[<<d, s>>] # 0 =>
        /\ closes[<<d, s>>] = 1 /\ entry[<<d, s>>] = "filled"
        /\ position[d] = s => held[d].closing

IInv == TypeOK /\ Opened /\ Latched

(* A desk that has seen nothing is of its types.                            *)
LEMMA TypeInit == Init => TypeOK
BY ConstantsAssumption, SMTT(30) DEF Init, TypeOK, NotHeld, Held, NewStop, StopOrder, EntryState, Keys, Desks

(* A key is a desk and a signal.                                            *)
LEMMA KeyPairs ==
    /\ \A d \in Desks, s \in Signals : <<d, s>> \in Keys
    /\ \A k \in Keys : k[1] \in Desks /\ k[2] \in Signals /\ k = <<k[1], k[2]>>
BY DEF Keys

(* Setting a field of what a desk remembers, or of a stop order, keeps its type. *)
LEMMA Pieces ==
    /\ NewStop \in StopOrder /\ NotHeld \in Held
    /\ \A h \in Held : [h EXCEPT !.closing = TRUE] \in Held /\ [h EXCEPT !.scaled = TRUE] \in Held
    /\ \A h \in Held, at \in Stops : [h EXCEPT !.stop = at] \in Held
    /\ \A o \in StopOrder, st \in {"none", "sent", "working", "updating", "gone"} :
        [o EXCEPT !.st = st] \in StopOrder
    /\ \A o \in StopOrder, at \in Stops :
        [o EXCEPT !.at = at] \in StopOrder /\ [o EXCEPT !.ask = at] \in StopOrder
<1>1. NewStop \in StopOrder /\ NotHeld \in Held
  BY ConstantsAssumption DEF NewStop, StopOrder, NotHeld, Held
<1>2. /\ \A h \in Held : [h EXCEPT !.closing = TRUE] \in Held /\ [h EXCEPT !.scaled = TRUE] \in Held
      /\ \A h \in Held, at \in Stops : [h EXCEPT !.stop = at] \in Held
  BY DEF Held
<1>3. \A o \in StopOrder, st \in {"none", "sent", "working", "updating", "gone"} :
        [o EXCEPT !.st = st] \in StopOrder
  BY DEF StopOrder
<1>4. \A o \in StopOrder, at \in Stops :
        [o EXCEPT !.at = at] \in StopOrder /\ [o EXCEPT !.ask = at] \in StopOrder
  BY DEF StopOrder
<1> QED BY <1>1, <1>2, <1>3, <1>4

(* Whatever a handler does with its latch, it keeps the types.              *)
LEMMA CloseTypes ==
    ASSUME TypeOK, NEW ds \in SUBSET Desks, Close(ds)
    PROVE  held' \in [Desks -> Held] /\ closes' \in [Keys -> Nat]
<1>1. held' \in [Desks -> Held]
  <2>1. \A d \in Desks : [held[d] EXCEPT !.closing = TRUE] \in Held /\ held[d] \in Held
    BY Pieces DEF TypeOK
  <2> QED BY <2>1 DEF Close
<1>2. \A k \in Keys : closes[k] \in Nat /\ closes[k] + 1 \in Nat
  BY DEF TypeOK
<1> QED BY <1>1, <1>2 DEF Close

(* A proposal keeps the types.                                              *)
LEMMA ProposalTypes ==
    ASSUME TypeOK, NEW d \in Desks, NEW s \in Signals, Proposal(d, s)
    PROVE  TypeOK'
<1>1. entry' \in [Keys -> EntryState]
  BY KeyPairs DEF TypeOK, Proposal, Rest, Bracket, GiveUp, EntryState
<1>2. waiting' \in [Desks -> SUBSET Signals] /\ intended' \in [Desks -> Signals \cup {None}]
  <2>1. waiting[d] \cup {s} \in SUBSET Signals
    BY DEF TypeOK
  <2> QED BY <2>1 DEF TypeOK, Proposal, Rest, Bracket, GiveUp
<1>3. stop' \in [Keys -> StopOrder]
  BY KeyPairs, Pieces DEF TypeOK, Proposal, Rest, Bracket, GiveUp
<1> QED BY <1>1, <1>2, <1>3 DEF TypeOK, Proposal, Rest, Bracket, GiveUp

(* A quote, whatever it withdraws, closes, banks or moves, keeps the types. *)
LEMMA QuoteTypes ==
    ASSUME TypeOK, NEW d \in Desks, Quote(d)
    PROVE  TypeOK'
<1>1. entry' \in [Keys -> EntryState] /\ waiting' \in [Desks -> SUBSET Signals]
  BY DEF TypeOK, Quote, Withdraw, EntryState
<1>2. held' \in [Desks -> Held] /\ stop' \in [Keys -> StopOrder]
      /\ closes' \in [Keys -> Nat] /\ banks' \in [Keys -> Nat]
  <2>1. CASE Close({d}) /\ UNCHANGED <<stop, banks>>
    <3>1. {d} \in SUBSET Desks
      OBVIOUS
    <3> QED BY <2>1, <3>1, CloseTypes DEF TypeOK
  <2>2. CASE Tracked(d) /\ Bank(d) /\ UNCHANGED <<stop, closes>>
    <3>1. held' \in [Desks -> Held]
      BY <2>2, Pieces DEF TypeOK, Bank
    <3>2. \A k \in Keys : banks[k] + 1 \in Nat
      BY DEF TypeOK
    <3> QED BY <2>2, <3>1, <3>2 DEF TypeOK, Bank
  <2>3. CASE MoveStop(d) /\ UNCHANGED <<closes, banks>>
    <3>1. PICK at \in Stops, s \in Guards(d) :
            /\ stop' = [stop EXCEPT ![<<d, s>>].st = "updating", ![<<d, s>>].ask = at]
            /\ held' = [held EXCEPT ![d].stop = at]
      BY <2>3 DEF MoveStop
    <3>2. s \in Signals /\ <<d, s>> \in Keys /\ stop[<<d, s>>] \in StopOrder
      BY KeyPairs DEF Guards, TypeOK
    <3>3. [[stop[<<d, s>>] EXCEPT !.st = "updating"] EXCEPT !.ask = at] \in StopOrder
      BY <3>2, Pieces
    <3>4. stop' = [stop EXCEPT ![<<d, s>>] = [[stop[<<d, s>>] EXCEPT !.st = "updating"] EXCEPT !.ask = at]]
      BY <3>1, <3>2 DEF TypeOK
    <3>5. held' \in [Desks -> Held]
      BY <3>1, Pieces DEF TypeOK
    <3> QED BY <2>3, <3>2, <3>3, <3>4, <3>5 DEF TypeOK
  <2>4. CASE UNCHANGED <<held, stop, closes, banks>>
    BY <2>4 DEF TypeOK
  <2> QED BY <2>1, <2>2, <2>3, <2>4 DEF Quote, Manage
<1> QED BY <1>1, <1>2 DEF TypeOK, Quote

(* A position that is forgotten leaves the types as they were.              *)
LEMMA FlatTypes ==
    ASSUME TypeOK, NEW d \in Desks, Flat(d)
    PROVE  /\ position' \in [Desks -> Signals \cup {None}] /\ held' \in [Desks -> Held]
           /\ age' \in [Desks -> {"young", "stale", "expired"}]
BY Pieces DEF TypeOK, Flat

(* A fill of an entry keeps the types: the intent pinned is one of them.    *)
LEMMA EntryFillsTypes ==
    ASSUME TypeOK, NEW d \in Desks, NEW s \in Signals, EntryFills(d, s)
    PROVE  TypeOK'
<1>1. entry' \in [Keys -> EntryState]
  BY KeyPairs DEF TypeOK, EntryFills, EntryState
<1>2. waiting' \in [Desks -> SUBSET Signals]
  <2>1. waiting[d] \ {s} \in SUBSET Signals
    BY DEF TypeOK
  <2> QED BY <2>1 DEF TypeOK, EntryFills
<1>3. /\ position' \in [Desks -> Signals \cup {None}] /\ held' \in [Desks -> Held]
      /\ age' \in [Desks -> {"young", "stale", "expired"}] /\ stop' \in [Keys -> StopOrder]
  <2>1. CASE position[d] = None
    <3>1. Pinned(d, s) \in Signals \cup {None}
      BY DEF Pinned, TypeOK
    <3>2. [NotHeld EXCEPT !.intent = Pinned(d, s)] \in Held
      BY <3>1, Pieces DEF Held
    <3>3. stop' \in [Keys -> StopOrder]
      BY <2>1, KeyPairs, Pieces DEF TypeOK, EntryFills, Attach
    <3> QED BY <2>1, <3>2, <3>3 DEF TypeOK, EntryFills
  <2>2. CASE position[d] # None
    BY <2>2 DEF TypeOK, EntryFills
  <2> QED BY <2>1, <2>2
<1> QED BY <1>1, <1>2, <1>3 DEF TypeOK, EntryFills

(* So do the fills and answers of stops, closes and slices.                 *)
LEMMA EventTypes ==
    ASSUME TypeOK, NEW d \in Desks, NEW s \in Signals, Event(d, s)
    PROVE  TypeOK'
<1>k. <<d, s>> \in Keys
  BY KeyPairs
<1>1. CASE EntryFills(d, s)
  BY <1>1, EntryFillsTypes
<1>2. CASE StopFills(d, s)
  <2>1. stop' \in [Keys -> StopOrder]
    BY <1>2, <1>k, Pieces DEF TypeOK, StopFills
  <2> QED BY <1>2, <2>1, FlatTypes DEF TypeOK, StopFills
<1>3. CASE CloseFills(d, s)
  <2>1. closes' \in [Keys -> Nat]
    <3>1. closes[<<d, s>>] - 1 \in Nat
      BY <1>3, <1>k DEF TypeOK, CloseFills
    <3> QED BY <1>3, <3>1 DEF TypeOK, CloseFills
  <2>2. /\ position' \in [Desks -> Signals \cup {None}] /\ held' \in [Desks -> Held]
        /\ age' \in [Desks -> {"young", "stale", "expired"}]
    BY <1>3, FlatTypes DEF TypeOK, CloseFills
  <2> QED BY <1>3, <2>1, <2>2 DEF TypeOK, CloseFills
<1>4. CASE CloseRefused(d, s)
  <2>1. closes[<<d, s>>] - 1 \in Nat
    BY <1>4, <1>k DEF TypeOK, CloseRefused
  <2>2. refused' \subseteq Keys
    BY <1>4, <1>k DEF TypeOK, CloseRefused
  <2> QED BY <1>4, <2>1, <2>2 DEF TypeOK, CloseRefused
<1>5. CASE BankAnswered(d, s)
  <2>1. banks[<<d, s>>] - 1 \in Nat
    BY <1>5, <1>k DEF TypeOK, BankAnswered
  <2> QED BY <1>5, <2>1 DEF TypeOK, BankAnswered
<1>6. CASE EntryAnswered(d, s)
  <2>1. entry' \in [Keys -> EntryState]
    BY <1>6, <1>k DEF TypeOK, EntryAnswered, EntryState
  <2>2. stop' \in [Keys -> StopOrder]
    BY <1>6, <1>k, Pieces DEF TypeOK, EntryAnswered
  <2> QED BY <1>6, <2>1, <2>2 DEF TypeOK, EntryAnswered
<1>7. CASE StopAnswered(d, s)
  <2>1. stop[<<d, s>>] \in StopOrder /\ stop[<<d, s>>].ask \in Stops
    BY <1>k DEF TypeOK, StopOrder
  <2>2. [[stop[<<d, s>>] EXCEPT !.st = "working"] EXCEPT !.at = stop[<<d, s>>].ask] \in StopOrder
    BY <2>1, Pieces
  <2>3. stop' \in [Keys -> StopOrder]
    <3>1. CASE stop' = [stop EXCEPT ![<<d, s>>].st = "working", ![<<d, s>>].at = stop[<<d, s>>].ask]
      <4>1. stop' = [stop EXCEPT ![<<d, s>>] =
                       [[stop[<<d, s>>] EXCEPT !.st = "working"] EXCEPT !.at = stop[<<d, s>>].ask]]
        BY <3>1, <1>k DEF TypeOK
      <4> QED BY <4>1, <2>2 DEF TypeOK
    <3>2. CASE stop' = [stop EXCEPT ![<<d, s>>].st = "working"]
      BY <3>2, <2>1, Pieces DEF TypeOK
    <3>3. CASE stop' = [stop EXCEPT ![<<d, s>>].st = "gone"]
      BY <3>3, <2>1, Pieces DEF TypeOK
    <3> QED BY <1>7, <3>1, <3>2, <3>3 DEF StopAnswered
  <2> QED BY <1>7, <2>3 DEF TypeOK, StopAnswered
<1> QED BY <1>1, <1>2, <1>3, <1>4, <1>5, <1>6, <1>7 DEF Event

(* Every step keeps the types.                                              *)
LEMMA TypeStep == TypeOK /\ [Next]_vars => TypeOK'
<1> SUFFICES ASSUME TypeOK, [Next]_vars PROVE TypeOK'
  OBVIOUS
<1>1. CASE \E d \in Desks, s \in Signals : Proposal(d, s) \/ Event(d, s)
  BY <1>1, ProposalTypes, EventTypes
<1>2. CASE \E d \in Desks : Quote(d)
  BY <1>2, QuoteTypes
<1>3. CASE \E d \in Desks : Age(d)
  BY <1>3 DEF TypeOK, Age
<1>4. CASE BasketCloses
  <2>1. Desks \in SUBSET Desks
    OBVIOUS
  <2> QED BY <1>4, <2>1, CloseTypes DEF TypeOK, BasketCloses
<1>5. CASE UNCHANGED vars
  BY <1>5 DEF TypeOK, vars
<1> QED BY <1>1, <1>2, <1>3, <1>4, <1>5 DEF Next, DeskMoves

(* TypeOK, for any desks and signals and whatever the venue refuses.        *)
THEOREM TypeCorrect == Spec => []TypeOK
<1> QED BY TypeInit, TypeStep, PTL DEF Spec

---------------------------------------------------------------------------
(* One close.                                                              *)

(* Nothing is open and nothing is being closed at the start.                *)
LEMMA IInit == Init => IInv
<1> SUFFICES ASSUME Init PROVE IInv
  OBVIOUS
<1>1. TypeOK
  BY TypeInit
<1>2. \A d \in Desks : position[d] = None
  BY DEF Init
<1>3. \A d \in Desks, s \in Signals : closes[<<d, s>>] = 0
  BY KeyPairs DEF Init
<1> QED BY <1>1, <1>2, <1>3 DEF IInv, Opened, Latched

(* An order that has filled stays filled: no later answer touches it.       *)
LEMMA FilledStays ==
    ASSUME TypeOK, [Next]_vars, NEW k \in Keys, entry[k] = "filled"
    PROVE  entry'[k] = "filled"
<1>1. CASE \E d \in Desks, s \in Signals : Proposal(d, s)
  BY <1>1 DEF TypeOK, Proposal, GiveUp
<1>2. CASE \E d \in Desks, s \in Signals : Event(d, s)
  <2>1. PICK d \in Desks, s \in Signals : Event(d, s)
    BY <1>2
  <2>2. CASE EntryFills(d, s)
    BY <2>2 DEF TypeOK, EntryFills
  <2>3. CASE EntryAnswered(d, s)
    BY <2>3 DEF TypeOK, EntryAnswered
  <2> QED BY <2>1, <2>2, <2>3
          DEF Event, StopFills, CloseFills, CloseRefused, BankAnswered, StopAnswered
<1>3. CASE \E d \in Desks : Quote(d)
  BY <1>3 DEF TypeOK, Quote, Withdraw
<1>4. CASE (\E d \in Desks : Age(d)) \/ BasketCloses \/ UNCHANGED vars
  BY <1>4 DEF Age, BasketCloses, vars
<1> QED BY <1>1, <1>2, <1>3, <1>4 DEF Next, DeskMoves

(* A position is opened only by its own order's fill.                       *)
LEMMA OpenedByFill ==
    ASSUME TypeOK, [Next]_vars, NEW d \in Desks,
           position'[d] # None, position'[d] # position[d]
    PROVE  \E s \in Signals : EntryFills(d, s) /\ position'[d] = s
<1>1. \A e \in Desks : Flat(e) => position'[d] \in {None, position[d]}
  BY DEF TypeOK, Flat
<1>2. CASE \E e \in Desks, s \in Signals : EntryFills(e, s)
  <2>1. PICK e \in Desks, s \in Signals : EntryFills(e, s)
    BY <1>2
  <2>2. e = d /\ position' = [position EXCEPT ![e] = s]
    BY <2>1 DEF TypeOK, EntryFills
  <2> QED BY <2>1, <2>2 DEF TypeOK
<1>3. CASE \E e \in Desks, s \in Signals : StopFills(e, s) \/ CloseFills(e, s)
  BY <1>1, <1>3 DEF StopFills, CloseFills
<1>4. CASE UNCHANGED position
  BY <1>4
<1> QED
  BY <1>2, <1>3, <1>4
  DEF Next, DeskMoves, Event, Proposal, CloseRefused, BankAnswered, EntryAnswered, StopAnswered,
      Quote, Age, BasketCloses, vars

(* Every step keeps open positions to orders that have filled.              *)
LEMMA OpenedStep == TypeOK /\ Opened /\ [Next]_vars => Opened'
<1> SUFFICES ASSUME TypeOK, Opened, [Next]_vars, NEW d \in Desks, position'[d] # None
             PROVE  entry'[<<d, position'[d]>>] = "filled"
  BY DEF Opened
<1>1. CASE position'[d] = position[d]
  <2>1. <<d, position[d]>> \in Keys /\ entry[<<d, position[d]>>] = "filled"
    BY <1>1, KeyPairs DEF TypeOK, Opened
  <2> QED BY <1>1, <2>1, FilledStays
<1>2. CASE position'[d] # position[d]
  <2>1. PICK s \in Signals : EntryFills(d, s) /\ position'[d] = s
    BY <1>2, OpenedByFill
  <2> QED BY <2>1, KeyPairs DEF TypeOK, EntryFills
<1> QED BY <1>1, <1>2

(* What a latch set by Close leaves behind: one close for each position sent, *)
(* and only where none was latched.                                          *)
LEMMA CloseLatches ==
    ASSUME IInv, NEW ds \in SUBSET Desks, Close(ds), UNCHANGED position,
           \A k \in Keys : entry[k] = "filled" => entry'[k] = "filled"
    PROVE  Latched'
<1> SUFFICES ASSUME NEW d \in Desks, NEW s \in Signals, closes'[<<d, s>>] # 0
             PROVE  /\ closes'[<<d, s>>] = 1 /\ entry'[<<d, s>>] = "filled"
                    /\ position'[d] = s => held'[d].closing
  BY DEF Latched
<1>k. <<d, s>> \in Keys /\ <<d, s>>[1] = d /\ <<d, s>>[2] = s /\ held[d] \in Held
  BY KeyPairs DEF IInv, TypeOK
<1>1. CASE d \in ds /\ position[d] = s /\ ~held[d].closing
  <2>1. position[d] # None
    BY <1>1, ConstantsAssumption
  <2>2. closes[<<d, s>>] = 0
    BY <1>1, <1>k DEF IInv, Latched
  <2>3. closes'[<<d, s>>] = closes[<<d, s>>] + 1 /\ held'[d].closing
    BY <1>1, <1>k, <2>1 DEF Close, Held
  <2>4. entry[<<d, s>>] = "filled"
    BY <1>1, <2>1 DEF IInv, Opened
  <2> QED BY <1>1, <1>k, <2>2, <2>3, <2>4
<1>2. CASE ~(d \in ds /\ position[d] = s /\ ~held[d].closing)
  <2>1. closes'[<<d, s>>] = closes[<<d, s>>]
    BY <1>2, <1>k DEF Close
  <2>2. position[d] = s => held[d].closing /\ held'[d].closing
    BY <1>k, <2>1 DEF IInv, Latched, Close, Held
  <2> QED BY <2>1, <2>2, <1>k DEF IInv, Latched
<1> QED BY <1>1, <1>2

\* What every other step leaves: no close is sent, and a latch is let go only
\* with its position.
KeepsLatches ==
    /\ \A k \in Keys : closes'[k] \in {closes[k], closes[k] - 1}
    /\ \A d \in Desks : held[d].closing =>
        held'[d].closing \/ position'[d] = None \/ position'[d] # position[d]

(* A quote that does not close keeps the latches.                           *)
LEMMA QuoteKeeps ==
    ASSUME TypeOK, NEW d \in Desks, Quote(d), ~(Due(d) /\ Close({d}))
    PROVE  KeepsLatches
<1>1. closes' = closes
  BY DEF Quote, Manage, Bank, MoveStop
<1>2. \A e \in Desks : held'[e].closing = held[e].closing
  <2>1. CASE Bank(d)
    BY <2>1 DEF Bank, TypeOK, Held
  <2>2. CASE MoveStop(d)
    BY <2>2 DEF MoveStop, TypeOK, Held
  <2>3. CASE UNCHANGED held
    BY <2>3
  <2> QED BY <2>1, <2>2, <2>3 DEF Quote, Manage
<1> QED BY <1>1, <1>2 DEF KeepsLatches

(* So does every event: a position that is forgotten takes its latch with   *)
(* it, and one that is opened had none.                                     *)
LEMMA EventKeeps ==
    ASSUME TypeOK, NEW d \in Desks, NEW s \in Signals, Event(d, s)
    PROVE  KeepsLatches
<1>k. <<d, s>> \in Keys
  BY KeyPairs
<1>1. ASSUME Flat(d)
      PROVE  \A e \in Desks : held[e].closing => held'[e].closing \/ position'[e] = None
  BY <1>1 DEF Flat, TypeOK
<1>2. CASE EntryFills(d, s)
  <2>1. closes' = closes
    BY <1>2 DEF EntryFills
  <2>2. \A e \in Desks : held[e].closing =>
            held'[e].closing \/ position'[e] # position[e]
    BY <1>2, ConstantsAssumption DEF EntryFills, TypeOK
  <2> QED BY <2>1, <2>2 DEF KeepsLatches
<1>3. CASE StopFills(d, s)
  BY <1>1, <1>3 DEF StopFills, KeepsLatches
<1>4. CASE CloseFills(d, s)
  <2>1. \A k \in Keys : closes'[k] \in {closes[k], closes[k] - 1}
    BY <1>4, <1>k DEF CloseFills, TypeOK
  <2> QED BY <1>1, <1>4, <2>1 DEF CloseFills, KeepsLatches
<1>5. CASE CloseRefused(d, s)
  BY <1>5, <1>k DEF CloseRefused, TypeOK, KeepsLatches
<1>6. CASE BankAnswered(d, s) \/ EntryAnswered(d, s) \/ StopAnswered(d, s)
  BY <1>6 DEF BankAnswered, EntryAnswered, StopAnswered, KeepsLatches
<1> QED BY <1>2, <1>3, <1>4, <1>5, <1>6 DEF Event

(* Keeping the latches keeps the invariant: the position a close is for     *)
(* cannot be opened again, because its order has filled.                    *)
LEMMA KeepingIsEnough ==
    ASSUME IInv, [Next]_vars, KeepsLatches
    PROVE  Latched'
<1> SUFFICES ASSUME NEW d \in Desks, NEW s \in Signals, closes'[<<d, s>>] # 0
             PROVE  /\ closes'[<<d, s>>] = 1 /\ entry'[<<d, s>>] = "filled"
                    /\ position'[d] = s => held'[d].closing
  BY DEF Latched
<1>t. TypeOK /\ TypeOK' /\ <<d, s>> \in Keys /\ s # None
  BY TypeStep, KeyPairs, ConstantsAssumption DEF IInv
<1>1. closes[<<d, s>>] \in Nat /\ closes'[<<d, s>>] \in Nat
  BY <1>t DEF TypeOK
<1>2. closes[<<d, s>>] # 0 /\ closes'[<<d, s>>] = 1
  BY <1>1, <1>t DEF IInv, Latched, KeepsLatches
<1>3. entry[<<d, s>>] = "filled" /\ entry'[<<d, s>>] = "filled"
  BY <1>2, <1>t, FilledStays DEF IInv, Latched
<1>4. ASSUME position'[d] = s
      PROVE  held'[d].closing
  <2>1. position[d] = s
    <3>1. SUFFICES ASSUME position[d] # s PROVE FALSE
      OBVIOUS
    <3>2. PICK e \in Signals : EntryFills(d, e) /\ position'[d] = e
      BY <1>4, <1>t, <3>1, OpenedByFill
    <3>3. entry[<<d, s>>] \in {"working", "cancelling"}
      BY <1>4, <3>2 DEF EntryFills
    <3> QED BY <1>3, <3>3
  <2>2. held[d].closing
    BY <2>1, <1>2 DEF IInv, Latched
  <2> QED BY <1>4, <1>t, <2>1, <2>2 DEF KeepsLatches
<1> QED BY <1>2, <1>3, <1>4

(* Every step keeps each close in flight alone, and its position latched.   *)
LEMMA LatchedStep == IInv /\ [Next]_vars => Latched'
<1> SUFFICES ASSUME IInv, [Next]_vars PROVE Latched'
  OBVIOUS
<1>t. TypeOK /\ \A k \in Keys : entry[k] = "filled" => entry'[k] = "filled"
  BY FilledStays DEF IInv
<1>1. CASE \E d \in Desks, s \in Signals : Proposal(d, s)
  <2>1. KeepsLatches
    BY <1>1 DEF Proposal, KeepsLatches
  <2> QED BY <2>1, KeepingIsEnough
<1>2. CASE \E d \in Desks, s \in Signals : Event(d, s)
  BY <1>2, <1>t, EventKeeps, KeepingIsEnough
<1>3. CASE \E d \in Desks : Quote(d)
  <2>1. PICK d \in Desks : Quote(d)
    BY <1>3
  <2>2. CASE Due(d) /\ Close({d})
    <3>1. {d} \in SUBSET Desks /\ UNCHANGED position
      BY <2>1 DEF Quote
    <3> QED BY <2>2, <3>1, <1>t, CloseLatches
  <2>3. CASE ~(Due(d) /\ Close({d}))
    BY <2>1, <2>3, <1>t, QuoteKeeps, KeepingIsEnough
  <2> QED BY <2>2, <2>3
<1>4. CASE \E d \in Desks : Age(d)
  <2>1. KeepsLatches
    BY <1>4 DEF Age, KeepsLatches
  <2> QED BY <2>1, KeepingIsEnough
<1>5. CASE BasketCloses
  <2>1. Close(Desks) /\ UNCHANGED position /\ Desks \in SUBSET Desks
    BY <1>5 DEF BasketCloses
  <2> QED BY <2>1, <1>t, CloseLatches
<1>6. CASE UNCHANGED vars
  <2>1. KeepsLatches
    BY <1>6 DEF vars, KeepsLatches
  <2> QED BY <2>1, KeepingIsEnough
<1> QED BY <1>1, <1>2, <1>3, <1>4, <1>5, <1>6 DEF Next, DeskMoves

(* The invariant is inductive.                                              *)
THEOREM Inductive == Spec => []IInv
<1>1. IInv /\ [Next]_vars => IInv'
  BY TypeStep, OpenedStep, LatchedStep DEF IInv
<1> QED BY IInit, <1>1, PTL DEF Spec

(* At most one close of a position is ever in flight, for any number of     *)
(* desks and signals, however the clock, the basket and the venue interleave. *)
THEOREM ClosedOnce == Spec => []OneClose
<1>1. IInv => OneClose
  <2> SUFFICES ASSUME IInv, NEW k \in Keys PROVE closes[k] <= 1
    BY DEF OneClose
  <2>1. k = <<k[1], k[2]>> /\ k[1] \in Desks /\ k[2] \in Signals /\ closes[k] \in Nat
    BY KeyPairs DEF IInv, TypeOK
  <2>2. closes[k] # 0 => closes[k] = 1
    BY <2>1 DEF IInv, Latched
  <2> QED BY <2>1, <2>2
<1> QED BY Inductive, <1>1, PTL

---------------------------------------------------------------------------
(* The intent of a fill.                                                   *)

(* A fill that opens a position is managed with its own order's intent      *)
(* while the desk waits for that order, in whatever order the desk's limits *)
(* were sent and fill.                                                      *)
THEOREM OwnIntent == Spec => WaitedFillIsItsOwn
<1>1. ASSUME TypeOK, [Next]_vars, NEW d \in Desks, NEW s \in Signals,
             s \in waiting[d], position[d] = None, position'[d] = s
      PROVE  held'[d].intent = s
  <2>1. position'[d] # None
    BY <1>1, ConstantsAssumption
  <2>2. PICK e \in Signals : EntryFills(d, e) /\ position'[d] = e
    BY <1>1, <2>1, OpenedByFill
  <2>3. EntryFills(d, s) /\ Pinned(d, s) = s
    BY <1>1, <2>2 DEF Pinned
  <2>4. held' = [held EXCEPT ![d] = [NotHeld EXCEPT !.intent = s]]
    BY <1>1, <2>3 DEF EntryFills
  <2> QED BY <1>1, <2>4 DEF TypeOK, NotHeld
<1>2. TypeOK /\ [Next]_vars =>
        [\A d \in Desks, s \in Signals :
            s \in waiting[d] /\ position[d] = None /\ position'[d] = s => held'[d].intent = s]_vars
  BY <1>1
<1> QED BY TypeCorrect, <1>2, PTL DEF Spec, WaitedFillIsItsOwn

---------------------------------------------------------------------------
(* The exit of the book implements the BasketCloses of Desk: whatever its   *)
(* guard is set to and however the book is valued, what is proved of the    *)
(* desks holds of them under it.                                            *)

(* A look that does not close moves no desk, and one that does is the       *)
(* BasketCloses of Desk.                                                    *)
LEMMA LookRefines == Look => [Next]_vars
<1> SUFFICES ASSUME NEW priced \in SUBSET Book, NEW net \in Profits \cup {0},
                    Judge(priced, net)
             PROVE  [Next]_vars
    BY DEF Look
<1>1. CASE Verdict(net, Best(net)) # "" /\ Ask(priced)
    <2>1. AlreadyHeld
        BY DEF Judge, Book, AlreadyHeld
    <2>2. BasketCloses
        BY <1>1, <2>1 DEF Judge, Ask, BasketCloses
    <2> QED BY <2>2 DEF Next
<1>2. CASE UNCHANGED <<asked, held, closes>>
    BY <1>2 DEF Judge, vars
<1> QED BY <1>1, <1>2 DEF Judge

(* Every step of the exit is a step of the desks, or none.                  *)
LEMMA StepRefines == [BasketNext]_all => [Next]_vars
<1>1. DeskMoves /\ UNCHANGED guard => [Next]_vars
    BY DEF Next
<1>2. UNCHANGED all => [Next]_vars
    BY DEF all
<1> QED BY <1>1, <1>2, LookRefines DEF BasketNext

(* Whatever its guard says, the exit of the book does nothing to the desks  *)
(* that they could not do without it (judge and Guard.basket).              *)
THEOREM Refinement == BasketSpec => RefinesDesk
<1>1. BasketInit => Init
    BY DEF BasketInit
<1> QED BY <1>1, StepRefines, PTL DEF BasketSpec, RefinesDesk, Spec

(* A position has at most one closing order in flight, however often the    *)
(* book is judged.                                                          *)
THEOREM ClosedOnceByTheBook == BasketSpec => []OneClose
    BY Refinement, ClosedOnce, PTL DEF RefinesDesk
=============================================================================
