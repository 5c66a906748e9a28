------------------------------ MODULE Basket ------------------------------
(***************************************************************************)
(* The exit of the whole book: strategies/basket.py and Guard.basket of    *)
(* risk/guard.py, over the desks it asks to close.                         *)
(*                                                                         *)
(* On a timer BasketExit adds up what the open positions are worth, as far *)
(* as they are priced, and asks its guard; the guard remembers the best it *)
(* was shown.  Every desk takes its close request before the next is sent, *)
(* so a look is one action.  It refines the BasketCloses of Desk, where    *)
(* the book may be closed at any moment.                                   *)
(*                                                                         *)
(* Profit is a whole number; the account's equity is what it is compared   *)
(* with, so the limits are numbers too.  The momentum rule is off: its     *)
(* caller passes nothing against it.                                       *)
(***************************************************************************)
EXTENDS Desk, Integers

CONSTANTS
    Profits,    \* what an open book may be worth
    LossLimit,  \* basket_stop_fraction of the equity; 0 is off
    TakeLimit,  \* basket_take_fraction of the equity; 0 is off
    GiveBack    \* basket_give_back, in hundredths; 0 is off

ASSUME BasketAssumption ==
    /\ Profits \subseteq Int
    /\ LossLimit \in Nat /\ TakeLimit \in Nat /\ GiveBack \in 0..100

VARIABLES
    peak,   \* Guard.basket_peak: nothing starts its day again, for nothing calls roll
    asked   \* history: the positions the book was closed with

guard == <<peak, asked>>
all == <<vars, guard>>

Book == {d \in Desks : position[d] # None}

BasketInit == Init /\ peak = 0 /\ asked = {}

Best(net) == IF net > peak THEN net ELSE peak

\* Guard.basket: the worst first, each off at zero.
Verdict(net, best) ==
    CASE LossLimit > 0 /\ net <= -LossLimit -> "stop"
      [] GiveBack > 0 /\ best > 0 /\ 100 * net <= best * (100 - GiveBack) -> "give back"
      [] TakeLimit > 0 /\ net >= TakeLimit -> "take"
      [] OTHER -> ""

\* Mutant: only what was priced is asked for.
AskPriced(priced) == Close(priced)

\* judge asks for every open position, the ones it could not price too.
Ask(priced) == Close(Desks)

\* judge, of a book that is not empty, by the guard where the equity is known.
\* With nothing priced the book is judged on nothing, which is zero.
Judge(priced, net) ==
    LET verdict == Verdict(net, Best(net)) IN
    /\ Book # {} /\ (priced = {} => net = 0)
    /\ peak' = Best(net)
    /\ \/ /\ verdict # ""
          /\ asked' = asked \cup {<<d, position[d]>> : d \in Book}
          /\ Ask(priced)
       \/ verdict = "" /\ UNCHANGED <<asked, held, closes>>
    /\ UNCHANGED <<entry, waiting, intended, position, age, stop, banks, refused>>

Look == \E priced \in SUBSET Book, net \in Profits \cup {0} : Judge(priced, net)

BasketNext == (DeskMoves /\ UNCHANGED guard) \/ Look

BasketSpec == BasketInit /\ [][BasketNext]_all

\* Quotes keep coming, and the venue answers a close.
BasketLive ==
    /\ BasketSpec
    /\ \A d \in Desks : WF_all(Quote(d) /\ UNCHANGED guard)
    /\ \A d \in Desks, s \in Signals :
          WF_all((CloseFills(d, s) \/ CloseRefused(d, s)) /\ UNCHANGED guard)

---------------------------------------------------------------------------
(* Whatever its guard says, the exit of the book does nothing to the desks  *)
(* that they could not do without it: what holds of them holds here.        *)
RefinesDesk == Spec

(* Every position of a book that is closed is closed, the ones that were    *)
(* not priced too, unless the venue refused.                                *)
AskedIsClosed ==
    \A d \in Desks, s \in Signals :
        <<d, s>> \in asked ~> position[d] # s \/ <<d, s>> \in refused
=============================================================================
