----------------------------- MODULE MCBasket -----------------------------
(* Basket for TLC: two desks with one signal each, or one desk with two    *)
(* whose book is never worth anything; and, before it starts, the          *)
(* arithmetic of the desks against its references on small numbers.        *)
EXTENDS Basket, Sizing, Manage

MCProfits == {-1, 0, 1}

Used(d) == {s \in Signals : entry[<<d, s>>] # "none"}
OneSignal == CHOOSE s \in Signals : TRUE
Scenario == \/ \A d \in Desks : Used(d) \subseteq {OneSignal}
            \/ peak = 0 /\ \A d \in Edges : Used(d) = {}

---------------------------------------------------------------------------
(* A size is the largest volume the broker takes whose loss at the stop is *)
(* inside the budget, and nothing where there is none (lots).              *)
SomeSpecs == [step_loss : {0, 1, 3}, volume_min : 1..2, volume_max : 2..4]
Fits(spec, equity, fraction, away, max_risk) ==
    {v \in spec.volume_min .. spec.volume_max :
        /\ v * One * away * spec.step_loss <= equity * fraction
        /\ max_risk > 0 => v * away * spec.step_loss <= max_risk}

ASSUME LotsIsTheLargest ==
    \A spec \in SomeSpecs, equity \in -1..9, fraction \in {0, 2500, 6000, 10000},
       away \in 0..2, max_risk \in 0..5 :
        LET fits == Fits(spec, equity, fraction, away, max_risk)
            sized == equity > 0 /\ away > 0 /\ spec.step_loss > 0 /\ fits # {}
        IN  Lots(spec, equity, fraction, away, max_risk)
                = IF sized THEN CHOOSE v \in fits : \A w \in fits : w <= v ELSE 0

---------------------------------------------------------------------------
(* crowding takes the new trade for a buy: beside a long of the euro, a    *)
(* sale of cable crowds like a purchase, and beside a short nothing does.  *)
EurUsd == [base |-> "eur", quote |-> "usd"]
GbpUsd == [base |-> "gbp", quote |-> "usd"]

ASSUME CrowdingForgetsTheSide ==
    /\ Crowded(GbpUsd, <<[legs |-> EurUsd, sign |-> 1]>>) = 1
    /\ Crowded(GbpUsd, <<[legs |-> EurUsd, sign |-> -1], [legs |-> EurUsd, sign |-> -1]>>) = 0

---------------------------------------------------------------------------
(* The quotes of a trade whose stop is moved as advance proposes: the stop *)
(* held never gets worse, and from break even on it never loses again.     *)
SomeTrades == [sign : {-1, 1}, open : {10}, entry : {10}, first : {8, 12}, stop : {8, 10, 12},
               volume : {3}, best : 8..13, even_at : {0, 50}, cushion : 0..1,
               width : {0, 1250}, room : {0}, scale_at : {50}, fraction : {50}, volume_min : 1..2]

Moved(t) == IF Advances(t) THEN Proposed(t) ELSE t.stop
Next_(t, best) == [t EXCEPT !.stop = Moved(t), !.best = best]

ASSUME StopsOnlyTighten ==
    \A t \in SomeTrades : \A best \in 8..13 :
        LET u == Next_(t, best)
            v == Next_(u, best)
        IN  /\ t.sign * u.stop >= t.sign * t.stop /\ t.sign * v.stop >= t.sign * u.stop
            /\ t.sign * u.stop >= t.sign * t.open => t.sign * v.stop >= t.sign * t.open

(* Half of three steps is banked where one may be traded, not where two must. *)
ASSUME Halves ==
    \A t \in SomeTrades : Banks(t) => Slice(t) = 1 /\ Stays(t) = 2 /\ t.volume_min = 1
=============================================================================
