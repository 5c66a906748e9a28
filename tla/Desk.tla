------------------------------- MODULE Desk -------------------------------
(***************************************************************************)
(* The desks of one instrument: strategies/desk.py, entries.py, exits.py   *)
(* and the close request of basket.py.                                     *)
(*                                                                         *)
(* A desk is a leaf of leaves.py: a decision, ManagedExit and an entry.    *)
(* Its handlers (a proposal, a quote, an order or position event) run to   *)
(* the end one at a time, so each is one action.  What a handler sends is  *)
(* answered later, and the cache shows an order or a position only when    *)
(* its event comes: between the two any other handler may run.             *)
(*                                                                         *)
(* All intents are on one side; a higher stop is a better one.  Prices and *)
(* clocks are left open: a wait may be dropped on any quote, a position    *)
(* may go stale or out of time at any moment, a better stop may be due.    *)
(***************************************************************************)
EXTENDS Naturals

CONSTANTS
    Resting,    \* desks whose entry is RestingEntry
    Edges,      \* desks whose entry is EdgeEntry, with a bracket
    Signals,    \* the proposals published
    None,       \* no signal
    Stops,      \* the levels a stop may be at
    First,      \* the stop of every intent
    Refusals    \* what the venue may refuse

Desks == Resting \cup Edges
Keys == Desks \X Signals
Kinds == {"entry", "cancel", "stop", "modify", "close", "bank"}

ASSUME ConstantsAssumption ==
    /\ Resting \cap Edges = {} /\ Desks # {}
    /\ None \notin Signals
    /\ Stops \subseteq Nat /\ First \in Stops
    /\ Refusals \subseteq Kinds

VARIABLES
    entry,      \* the entry order of each desk for each signal
    waiting,    \* RestingEntry._waiting: the signals each desk waits for
    intended,   \* ExitMechanism._intended: the signal accepted last
    position,   \* the signal whose fill opened each desk's position
    held,       \* Exits._held: what the desk remembers of its position
    age,        \* how far the position is into the time its rule allows
    stop,       \* the stop order of each entry
    closes,     \* closing orders in flight, by the position they are for
    banks,      \* the same for a scale-out
    refused     \* history: positions whose close the venue refused

vars == <<entry, waiting, intended, position, held, age, stop, closes, banks, refused>>

EntryState == {"none", "sent", "working", "cancelling", "filled", "gone"}
StopOrder == [st : {"none", "sent", "working", "updating", "gone"},
              at : Stops, ask : Stops]
Held == [intent : Signals \cup {None}, stop : Stops, closing : BOOLEAN, scaled : BOOLEAN]
NotHeld == [intent |-> None, stop |-> First, closing |-> FALSE, scaled |-> FALSE]

Tracked(d) == held[d] # NotHeld
Guards(d) == {s \in Signals : stop[<<d, s>>].st \in {"sent", "working", "updating"}}
NewStop == [st |-> "sent", at |-> First, ask |-> First]

Init ==
    /\ entry = [k \in Keys |-> "none"]
    /\ waiting = [d \in Desks |-> {}]
    /\ intended = [d \in Desks |-> None]
    /\ position = [d \in Desks |-> None]
    /\ held = [d \in Desks |-> NotHeld]
    /\ age = [d \in Desks |-> "young"]
    /\ stop = [k \in Keys |-> [NewStop EXCEPT !.st = "none"]]
    /\ closes = [k \in Keys |-> 0]
    /\ banks = [k \in Keys |-> 0]
    /\ refused = {}

---------------------------------------------------------------------------
(* A proposal: Desk.on_data, consider and the place of the two entries.    *)

\* The gate: nothing holds the instrument, as far as the cache knows.
AlreadyHeld == \E d \in Desks : position[d] # None

\* RestingEntry.place: a limit is left with the venue, and waited for.
Rest(d, s) ==
    /\ d \in Resting
    /\ waiting' = [waiting EXCEPT ![d] = @ \cup {s}]
    /\ UNCHANGED stop

\* EdgeEntry.place: at market, with its stop on the same list.
Bracket(d, s) ==
    /\ d \in Edges
    /\ stop' = [stop EXCEPT ![<<d, s>>] = NewStop]
    /\ UNCHANGED waiting

\* A place with nothing to send: no instrument, a volume that rounds to zero,
\* or no price for a limit that clears the venue's minimum and its own stop.
GiveUp(d, s) ==
    /\ entry' = [entry EXCEPT ![<<d, s>>] = "gone"]
    /\ UNCHANGED <<waiting, stop>>

\* on_data: what is refused changes nothing; what is accepted is remembered,
\* and placed at once or given up.
Proposal(d, s) ==
    /\ entry[<<d, s>>] = "none"
    /\ ~AlreadyHeld
    /\ intended' = [intended EXCEPT ![d] = s]
    /\ \/ /\ entry' = [entry EXCEPT ![<<d, s>>] = "sent"]
          /\ Rest(d, s) \/ Bracket(d, s)
       \/ GiveUp(d, s)
    /\ UNCHANGED <<position, held, age, closes, banks, refused>>

---------------------------------------------------------------------------
(* A quote: the wait is judged first (RestingEntry.on_quote_tick), then    *)
(* every tracked position (ManagedExit._act).                              *)

\* Mutant: a state nothing knows.
WithdrawMisspelt(d) ==
    /\ waiting[d] # {}
    /\ entry' = [k \in Keys |-> IF k[1] = d /\ k[2] \in waiting[d] /\ entry[k] = "working"
                                THEN "canceling" ELSE entry[k]]
    /\ waiting' = [waiting EXCEPT ![d] = {}]

\* _withdraw: only an order that is open is cancelled, every wait is dropped.
Withdraw(d) ==
    /\ waiting[d] # {}
    /\ entry' = [k \in Keys |-> IF k[1] = d /\ k[2] \in waiting[d] /\ entry[k] = "working"
                                THEN "cancelling" ELSE entry[k]]
    /\ waiting' = [waiting EXCEPT ![d] = {}]

\* Mutant: every rule that asks sends a close of its own.
CloseUnlatched(ds) ==
    LET sent == {d \in ds : position[d] # None} IN
    /\ held' = [d \in Desks |-> IF d \in sent THEN [held[d] EXCEPT !.closing = TRUE] ELSE held[d]]
    /\ closes' = [k \in Keys |-> IF k[1] \in sent /\ position[k[1]] = k[2]
                                 THEN closes[k] + 1 ELSE closes[k]]

\* ExitMechanism._close, for the position of each of these desks: once.
Close(ds) ==
    LET sent == {d \in ds : position[d] # None /\ ~held[d].closing} IN
    /\ held' = [d \in Desks |-> IF d \in sent THEN [held[d] EXCEPT !.closing = TRUE] ELSE held[d]]
    /\ closes' = [k \in Keys |-> IF k[1] \in sent /\ position[k[1]] = k[2]
                                 THEN closes[k] + 1 ELSE closes[k]]

\* Mutant: a banked position is let run past its hard limit too.
DueUnscaled(d) == Tracked(d) /\ age[d] # "young" /\ ~held[d].scaled

\* Exits.apply: out of time, or stale and not scaled, comes before all else.
Due(d) == Tracked(d) /\ (age[d] = "expired" \/ (age[d] = "stale" /\ ~held[d].scaled))

\* _bank: the slice is marked taken when it is sent.
Bank(d) ==
    /\ ~held[d].scaled
    /\ held' = [held EXCEPT ![d].scaled = TRUE]
    /\ banks' = [banks EXCEPT ![<<d, position[d]>>] = @ + 1]

\* _move: the first guard the cache lists, in no order it promises; a modify
\* in flight is left to land.
MoveStop(d) ==
    \E at \in Stops, s \in Guards(d) :
        /\ at > held[d].stop /\ stop[<<d, s>>].st # "updating"
        /\ stop' = [stop EXCEPT ![<<d, s>>].st = "updating", ![<<d, s>>].ask = at]
        /\ held' = [held EXCEPT ![d].stop = at]

Manage(d) ==
    \/ Due(d) /\ Close({d}) /\ UNCHANGED <<stop, banks>>
    \/ /\ Tracked(d) /\ ~Due(d)
       /\ \/ Bank(d) /\ UNCHANGED <<stop, closes>>
          \/ MoveStop(d) /\ UNCHANGED <<closes, banks>>
    \/ ~Due(d) /\ UNCHANGED <<held, stop, closes, banks>>

Quote(d) ==
    /\ Withdraw(d) \/ UNCHANGED <<entry, waiting>>
    /\ Manage(d)
    /\ UNCHANGED <<intended, position, age, refused>>

\* The position's clock, between two quotes.
Age(d) ==
    /\ Tracked(d)
    /\ \/ age[d] = "young" /\ age' = [age EXCEPT ![d] = "stale"]
       \/ age[d] # "expired" /\ age' = [age EXCEPT ![d] = "expired"]
    /\ UNCHANGED <<entry, waiting, intended, position, held, stop, closes, banks, refused>>

\* BasketExit.judge over its limit: a command for every open position, which
\* its own desk takes in ExitMechanism.on_command before the next is sent.
BasketCloses ==
    /\ AlreadyHeld
    /\ Close(Desks)
    /\ UNCHANGED <<entry, waiting, intended, position, age, stop, banks, refused>>

---------------------------------------------------------------------------
(* Fills: ExitMechanism.on_order_filled, on_position_opened, _attach and   *)
(* on_position_closed.                                                     *)

\* Mutant: the entry comes before the exit in the bases and has already
\* dropped the wait when the exit looks for its intent.
PinnedAfterPop(d, s) == intended[d]

\* _filled: the intent the order was left for, else the one accepted last.
Pinned(d, s) == IF s \in waiting[d] THEN s ELSE intended[d]

\* _attach: a stop for what the fill opened, where none is live or on its way.
Attach(d, s) == stop' = IF Guards(d) = {} THEN [stop EXCEPT ![<<d, s>>] = NewStop] ELSE stop

\* The fill opens the desk's position, which is tracked and, where no stop is
\* live yet, given a stop; or it adds to an open one, which no handler looks at.
EntryFills(d, s) ==
    /\ entry[<<d, s>>] \in {"working", "cancelling"}
    /\ entry' = [entry EXCEPT ![<<d, s>>] = "filled"]
    /\ waiting' = [waiting EXCEPT ![d] = @ \ {s}]
    /\ IF position[d] = None
       THEN /\ position' = [position EXCEPT ![d] = s]
            /\ held' = [held EXCEPT ![d] = [NotHeld EXCEPT !.intent = Pinned(d, s)]]
            /\ age' = [age EXCEPT ![d] = "young"]
            /\ Attach(d, s)
       ELSE UNCHANGED <<position, held, age, stop>>
    /\ UNCHANGED <<intended, closes, banks, refused>>

\* PositionClosed: the book forgets it.
Flat(d) ==
    /\ position' = [position EXCEPT ![d] = None]
    /\ held' = [held EXCEPT ![d] = NotHeld]
    /\ age' = [age EXCEPT ![d] = "young"]

\* The stop is touched, and closes the position if there is one.
StopFills(d, s) ==
    /\ stop[<<d, s>>].st \in {"working", "updating"}
    /\ stop' = [stop EXCEPT ![<<d, s>>].st = "gone"]
    /\ Flat(d)
    /\ UNCHANGED <<entry, waiting, intended, closes, banks, refused>>

\* A close fills, or finds nothing left to reduce.
CloseFills(d, s) ==
    /\ closes[<<d, s>>] > 0
    /\ closes' = [closes EXCEPT ![<<d, s>>] = @ - 1]
    /\ IF position[d] = s THEN Flat(d) ELSE UNCHANGED <<position, held, age>>
    /\ UNCHANGED <<entry, waiting, intended, stop, banks, refused>>

\* Its rejection is announced and changes nothing.
CloseRefused(d, s) ==
    /\ "close" \in Refusals /\ closes[<<d, s>>] > 0
    /\ closes' = [closes EXCEPT ![<<d, s>>] = @ - 1]
    /\ refused' = refused \cup {<<d, s>>}
    /\ UNCHANGED <<entry, waiting, intended, position, held, age, stop, banks>>

\* A slice fills or is refused: part of the position, which stays open.
BankAnswered(d, s) ==
    /\ banks[<<d, s>>] > 0
    /\ banks' = [banks EXCEPT ![<<d, s>>] = @ - 1]
    /\ UNCHANGED <<entry, waiting, intended, position, held, age, stop, closes, refused>>

---------------------------------------------------------------------------
(* The other answers of the venue (external): no handler of a desk changes *)
(* anything on them.                                                       *)

EntryAnswered(d, s) ==
    /\ \/ entry[<<d, s>>] = "sent" /\ entry' = [entry EXCEPT ![<<d, s>>] = "working"]
       \/ /\ entry[<<d, s>>] = "sent" /\ "entry" \in Refusals
          /\ entry' = [entry EXCEPT ![<<d, s>>] = "gone"]
       \/ entry[<<d, s>>] = "cancelling" /\ entry' = [entry EXCEPT ![<<d, s>>] = "gone"]
       \/ /\ entry[<<d, s>>] = "cancelling" /\ "cancel" \in Refusals
          /\ entry' = [entry EXCEPT ![<<d, s>>] = "working"]
    \* the legs of a bracket share the fate of its entry
    /\ stop' = IF d \in Edges /\ entry'[<<d, s>>] = "gone"
               THEN [stop EXCEPT ![<<d, s>>].st = "gone"] ELSE stop
    /\ UNCHANGED <<waiting, intended, position, held, age, closes, banks, refused>>

StopAnswered(d, s) ==
    LET k == <<d, s>> IN
    /\ \/ /\ stop[k].st = "sent" /\ entry[k] = "filled"
          /\ stop' = [stop EXCEPT ![k].st = "working"]
       \/ /\ stop[k].st = "sent" /\ entry[k] = "filled" /\ "stop" \in Refusals
          /\ stop' = [stop EXCEPT ![k].st = "gone"]
       \/ /\ stop[k].st = "updating"
          /\ stop' = [stop EXCEPT ![k].st = "working", ![k].at = stop[k].ask]
       \/ /\ stop[k].st = "updating" /\ "modify" \in Refusals
          /\ stop' = [stop EXCEPT ![k].st = "working"]
       \* reduce-only, with nothing left to reduce
       \/ /\ stop[k].st \in {"working", "updating"} /\ position[d] = None
          /\ stop' = [stop EXCEPT ![k].st = "gone"]
    /\ UNCHANGED <<entry, waiting, intended, position, held, age, closes, banks, refused>>

---------------------------------------------------------------------------
Event(d, s) ==
    \/ EntryFills(d, s) \/ StopFills(d, s) \/ CloseFills(d, s) \/ CloseRefused(d, s)
    \/ BankAnswered(d, s) \/ EntryAnswered(d, s) \/ StopAnswered(d, s)

DeskMoves ==
    \/ \E d \in Desks, s \in Signals : Proposal(d, s) \/ Event(d, s)
    \/ \E d \in Desks : Quote(d) \/ Age(d)

Next == DeskMoves \/ BasketCloses

Spec == Init /\ [][Next]_vars

---------------------------------------------------------------------------
(* Type invariant of the model (no code behaviour of its own).             *)
TypeOK ==
    /\ entry \in [Keys -> EntryState]
    /\ waiting \in [Desks -> SUBSET Signals]
    /\ intended \in [Desks -> Signals \cup {None}]
    /\ position \in [Desks -> Signals \cup {None}]
    /\ held \in [Desks -> Held]
    /\ age \in [Desks -> {"young", "stale", "expired"}]
    /\ stop \in [Keys -> StopOrder]
    /\ closes \in [Keys -> Nat] /\ banks \in [Keys -> Nat]
    /\ refused \subseteq Keys

(* However many rules ask for it (the clock, staleness, every look of the   *)
(* basket), and whatever the venue refuses, a position has at most one      *)
(* closing order in flight: Held.closing.                                   *)
OneClose == \A k \in Keys : closes[k] <= 1

(* With several limits out at once, a fill that opens a position is managed *)
(* with the intent of its own order, as long as the desk still waits for    *)
(* it: the exit reads the wait before the entry drops it.                   *)
WaitedFillIsItsOwn ==
    [][\A d \in Desks, s \in Signals :
        s \in waiting[d] /\ position[d] = None /\ position'[d] = s => held'[d].intent = s]_vars

(* A position out of time is closed, unless the venue refused the close.    *)
DueIsClosed ==
    \A d \in Desks, s \in Signals :
        position[d] = s /\ age[d] = "expired" ~> position[d] # s \/ <<d, s>> \in refused

(* Every open position is managed with the intent its order was sent for:   *)
(* on_order_filled falls back to the intent accepted last, which is right   *)
(* because a desk refuses a proposal on an instrument anything holds.       *)
FilledAsIntended == \A d \in Desks : position[d] # None => held[d].intent = position[d]
=============================================================================
