------------------------------- MODULE Sizing -------------------------------
(***************************************************************************)
(* How much a trade may lose: risk/sizing.lots, SymbolSpec.round_volume,   *)
(* the reductions of risk/scaling.py and the step of strategies/sizes.py   *)
(* that puts a volume on an accepted intent.                               *)
(*                                                                         *)
(* Volumes are counted in the broker's steps and money in its smallest     *)
(* unit.  A fraction is so many parts of One, and a budget, which is a     *)
(* fraction of the equity, is counted in parts too, so that nothing is     *)
(* rounded but where the code rounds.  A spec is a record of what one step *)
(* loses per point of stop (0: the broker does not say), and the smallest  *)
(* and largest volume.                                                     *)
(***************************************************************************)
EXTENDS Integers, Sequences, FiniteSets

One == 10000

\* SymbolSpec, as far as a size depends on it.
Spec_ == [step_loss : Nat, volume_min : Nat, volume_max : Nat]

Least(a, b) == IF a <= b THEN a ELSE b
Most(a, b) == IF a >= b THEN a ELSE b

---------------------------------------------------------------------------
(* scaling.py                                                              *)

Floor == 500

\* combined, of the product of the reductions: bounded, and never nothing.
Combined(product) == Most(Floor, Least(One, product))

\* The currencies an instrument is long and short of; none where it has no leg.
SameWay(leg, mine, other, sign) ==
    \/ leg = other.base /\ mine = sign
    \/ leg = other.quote /\ leg # other.base /\ mine = -sign

\* crowding's count: the open trades, as pairs of an instrument's legs and a
\* sign, that share a leg the same way round, of a trade taken for a buy.
Crowded(legs, book) ==
    Cardinality({i \in DOMAIN book :
        SameWay(legs.base, 1, book[i].legs, book[i].sign)
            \/ SameWay(legs.quote, -1, book[i].legs, book[i].sign)})

---------------------------------------------------------------------------
(* sizing.py                                                               *)

\* lots: the fraction of the equity, under the absolute limit where there is one.
Budget(equity, fraction, max_risk) ==
    IF max_risk > 0 THEN Least(equity * fraction, One * max_risk) ELSE equity * fraction

\* What one step loses at the stop, in parts.
StepLoss(spec, stop) == One * stop * spec.step_loss

\* round_volume: down to the grid, then at most the largest the broker takes.
RoundVolume(spec, budget, loss) == Least(budget \div loss, spec.volume_max)

\* No equity, a stop at the entry and a broker that states no tick value are
\* refused, and so is what rounds below the smallest lot: never rounded up to it.
Lots(spec, equity, fraction, stop, max_risk) ==
    LET budget == Budget(equity, fraction, max_risk)
        loss == StepLoss(spec, stop)
        volume == RoundVolume(spec, budget, loss)
    IN  IF equity <= 0 \/ stop <= 0 \/ spec.step_loss = 0 THEN 0
        ELSE IF volume < spec.volume_min THEN 0 ELSE volume

---------------------------------------------------------------------------
(* sizes.py                                                                *)

\* size: the reductions make the fraction smaller, not the lots, so that the
\* grid is met once; a fraction of a fraction is counted in parts of a part.
Finer(spec) == [step_loss |-> One * spec.step_loss,
                volume_min |-> spec.volume_min, volume_max |-> spec.volume_max]

Size(spec, equity, fraction, product, stop, max_risk) ==
    Lots(Finer(spec), equity, fraction * Combined(product), stop, One * max_risk)
=============================================================================
