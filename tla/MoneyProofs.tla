---------------------------- MODULE MoneyProofs ----------------------------
(***************************************************************************)
(* What the arithmetic of Sizing and Manage promises, for every account,   *)
(* instrument, fraction and price.                                         *)
(***************************************************************************)
EXTENDS Sizing, Manage, TLAPS

---------------------------------------------------------------------------
(* Whole numbers.                                                          *)

(* A quotient rounded down, times its divisor, is the number or falls short *)
(* of it by less than one divisor.                                         *)
LEMMA DivBounds ==
    ASSUME NEW a \in Nat, NEW b \in Nat \ {0}
    PROVE  a \div b \in Nat /\ (a \div b) * b <= a /\ a < (a \div b + 1) * b
<1> DEFINE q == a \div b
           r == a % b
<1>1. q \in Int
    OBVIOUS
<1>2. r \in 0 .. b - 1
    OBVIOUS
<1>3. a = b * q + r
    OBVIOUS
<1> HIDE DEF q, r
<1>4. q >= 0
    <2> SUFFICES ASSUME q <= -1 PROVE FALSE
        BY <1>1
    <2>1. b * q <= -b
        BY <1>1
    <2> QED BY <2>1, <1>1, <1>2, <1>3
<1>5. (q + 1) * b = b * q + b
    BY <1>1
<1> QED BY <1>1, <1>2, <1>3, <1>4, <1>5 DEF q

(* Multiplying keeps an order.                                             *)
LEMMA TimesMonotone ==
    ASSUME NEW a \in Nat, NEW b \in Nat, NEW c \in Nat, a <= b
    PROVE  a * c <= b * c
OBVIOUS

(* So does rounding a quotient down.                                       *)
LEMMA DivMonotone ==
    ASSUME NEW a \in Nat, NEW b \in Nat, NEW c \in Nat \ {0}, a <= b
    PROVE  a \div c <= b \div c
<1> DEFINE p == a \div c
           q == b \div c
<1>1. p \in Nat /\ p * c <= a /\ q \in Nat /\ b < (q + 1) * c
    BY DivBounds
<1> HIDE DEF p, q
<1> SUFFICES ASSUME q + 1 <= p PROVE FALSE
    BY <1>1 DEF p, q
<1>2. (q + 1) * c <= p * c
    BY <1>1, TimesMonotone
<1> QED BY <1>1, <1>2

---------------------------------------------------------------------------
(* Sizing.                                                                 *)

\* What a size is asked for.
Asked(spec, equity, fraction, stop, max_risk) ==
    /\ spec \in Spec_ /\ equity \in Int /\ stop \in Int
    /\ fraction \in Nat /\ max_risk \in Nat

(* The budget is a number of parts, and no more than either limit.         *)
LEMMA BudgetType ==
    ASSUME NEW equity \in Nat, NEW fraction \in Nat, NEW max_risk \in Nat
    PROVE  LET budget == Budget(equity, fraction, max_risk) IN
           /\ budget \in Nat
           /\ budget <= equity * fraction
           /\ max_risk > 0 => budget <= One * max_risk
<1>1. equity * fraction \in Nat
    OBVIOUS
<1> QED BY <1>1 DEF Budget, Least, One

(* A smaller fraction has no larger budget.                                *)
LEMMA BudgetMonotone ==
    ASSUME NEW equity \in Nat, NEW f \in Nat, NEW g \in Nat, NEW max_risk \in Nat, f <= g
    PROVE  Budget(equity, f, max_risk) <= Budget(equity, g, max_risk)
<1>1. equity * f <= equity * g /\ equity * f \in Nat /\ equity * g \in Nat
    BY TimesMonotone
<1> QED BY <1>1 DEF Budget, Least, One

(* A step of an instrument that states a tick value loses something at a   *)
(* stop that is not at the entry.                                          *)
LEMMA LossType ==
    ASSUME NEW spec \in Spec_, NEW stop \in Nat \ {0}, spec.step_loss # 0
    PROVE  StepLoss(spec, stop) \in Nat \ {0}
<1>1. spec.step_loss \in Nat \ {0}
    BY DEF Spec_
<1>2. One * stop \in Nat \ {0}
    BY DEF One
<1> QED BY <1>1, <1>2 DEF StepLoss

(* What is sized is sized for a reason: an account, a stop and a tick      *)
(* value, and a volume the grid allows.                                    *)
LEMMA Sized ==
    ASSUME NEW spec, NEW equity, NEW fraction, NEW stop, NEW max_risk,
           Asked(spec, equity, fraction, stop, max_risk),
           Lots(spec, equity, fraction, stop, max_risk) # 0
    PROVE  LET budget == Budget(equity, fraction, max_risk)
               loss == StepLoss(spec, stop)
           IN  /\ equity \in Nat /\ budget \in Nat /\ loss \in Nat \ {0}
               /\ Lots(spec, equity, fraction, stop, max_risk) = RoundVolume(spec, budget, loss)
               /\ RoundVolume(spec, budget, loss) >= spec.volume_min
<1>1. equity \in Nat \ {0} /\ stop \in Nat \ {0} /\ spec.step_loss # 0
    BY DEF Asked, Lots
<1>2. StepLoss(spec, stop) \in Nat \ {0} /\ Budget(equity, fraction, max_risk) \in Nat
    BY <1>1, LossType, BudgetType DEF Asked
<1>3. RoundVolume(spec, Budget(equity, fraction, max_risk), StepLoss(spec, stop)) \in Int
    BY <1>2, DivBounds DEF RoundVolume, Least, Asked, Spec_
<1> QED BY <1>1, <1>2, <1>3 DEF Lots, Asked, Spec_

(* A trade that is stopped loses no more than the fraction of the equity it *)
(* was sized for, nor than the absolute limit, and its volume is one the   *)
(* broker takes (lots, round_volume).                                      *)
THEOREM BudgetKept ==
    ASSUME NEW spec, NEW equity, NEW fraction, NEW stop, NEW max_risk,
           Asked(spec, equity, fraction, stop, max_risk),
           Lots(spec, equity, fraction, stop, max_risk) # 0
    PROVE  LET volume == Lots(spec, equity, fraction, stop, max_risk) IN
           /\ volume \in spec.volume_min .. spec.volume_max
           /\ volume * StepLoss(spec, stop) <= equity * fraction
           /\ max_risk > 0 => volume * StepLoss(spec, stop) <= One * max_risk
<1> DEFINE budget == Budget(equity, fraction, max_risk)
           loss == StepLoss(spec, stop)
           volume == Lots(spec, equity, fraction, stop, max_risk)
           whole == budget \div loss
<1>1. /\ equity \in Nat /\ budget \in Nat /\ loss \in Nat \ {0}
      /\ volume = Least(whole, spec.volume_max) /\ volume >= spec.volume_min
    BY Sized DEF RoundVolume
<1>2. whole \in Nat /\ whole * loss <= budget
    BY <1>1, DivBounds
<1>3. budget <= equity * fraction /\ (max_risk > 0 => budget <= One * max_risk)
    BY <1>1, BudgetType DEF Asked
<1>4. spec.volume_min \in Nat /\ spec.volume_max \in Nat
    BY DEF Asked, Spec_
<1>5. equity * fraction \in Nat /\ One * max_risk \in Nat
    BY <1>1 DEF Asked, One
<1> HIDE DEF budget, loss, volume, whole
<1>6. volume \in Nat /\ volume <= whole /\ volume <= spec.volume_max
    BY <1>1, <1>2, <1>4 DEF Least
<1>7. volume * loss <= whole * loss
    BY <1>1, <1>2, <1>6, TimesMonotone
<1>8. volume * loss \in Nat /\ whole * loss \in Nat
    BY <1>1, <1>2, <1>6
<1>9. volume * loss <= equity * fraction /\ (max_risk > 0 => volume * loss <= One * max_risk)
    BY <1>1, <1>2, <1>3, <1>5, <1>7, <1>8
<1> QED BY <1>1, <1>4, <1>6, <1>9 DEF volume, loss

(* A trade is refused for want of a budget only where the smallest lot does *)
(* not fit it, or is larger than the largest: "too small to take" is never *)
(* said of a trade that could be taken (lots).                             *)
THEOREM RefusedForCause ==
    ASSUME NEW spec, NEW equity, NEW fraction, NEW stop, NEW max_risk,
           Asked(spec, equity, fraction, stop, max_risk),
           equity > 0, stop > 0, spec.step_loss > 0, spec.volume_min > 0,
           Lots(spec, equity, fraction, stop, max_risk) = 0
    PROVE  \/ Budget(equity, fraction, max_risk) < spec.volume_min * StepLoss(spec, stop)
           \/ spec.volume_max < spec.volume_min
<1> DEFINE budget == Budget(equity, fraction, max_risk)
           loss == StepLoss(spec, stop)
           whole == budget \div loss
<1>1. spec.volume_min \in Nat /\ spec.volume_max \in Nat /\ spec.step_loss \in Nat
    BY DEF Asked, Spec_
<1>2. equity \in Nat /\ budget \in Nat /\ loss \in Nat \ {0}
    <2>1. /\ equity \in Nat /\ stop \in Nat \ {0} /\ spec \in Spec_
          /\ fraction \in Nat /\ max_risk \in Nat /\ spec.step_loss # 0
        BY <1>1 DEF Asked
    <2>2. budget \in Nat
        BY <2>1, BudgetType
    <2>3. loss \in Nat \ {0}
        BY <2>1, LossType
    <2> QED BY <2>1, <2>2, <2>3
<1>3. whole \in Nat /\ budget < (whole + 1) * loss
    BY <1>2, DivBounds
<1>4. Least(whole, spec.volume_max) < spec.volume_min
    BY <1>1, <1>2 DEF Lots, RoundVolume, Asked, Least
<1> HIDE DEF budget, loss, whole
<1>5. CASE whole + 1 <= spec.volume_min
    <2>1. (whole + 1) * loss <= spec.volume_min * loss
        BY <1>1, <1>2, <1>3, <1>5, TimesMonotone
    <2>2. (whole + 1) * loss \in Nat /\ spec.volume_min * loss \in Nat
        BY <1>1, <1>2, <1>3
    <2> QED BY <1>2, <1>3, <2>1, <2>2 DEF budget, loss
<1>6. CASE spec.volume_max < spec.volume_min
    BY <1>6
<1> QED BY <1>1, <1>3, <1>4, <1>5, <1>6 DEF Least

(* Making the fraction smaller never makes the trade larger, nor has one   *)
(* taken that the larger fraction refuses: the grid, the largest lot and   *)
(* the refusal all keep the order (lots).                                  *)
THEOREM SmallerFractionSmallerTrade ==
    ASSUME NEW spec, NEW equity, NEW f \in Nat, NEW g \in Nat, f <= g, NEW stop, NEW max_risk,
           Asked(spec, equity, f, stop, max_risk)
    PROVE  Lots(spec, equity, f, stop, max_risk) <= Lots(spec, equity, g, stop, max_risk)
<1> DEFINE loss == StepLoss(spec, stop)
           few == Budget(equity, f, max_risk) \div loss
           many == Budget(equity, g, max_risk) \div loss
<1>1. CASE equity <= 0 \/ stop <= 0 \/ spec.step_loss = 0
    BY <1>1 DEF Lots
<1>2. CASE ~(equity <= 0 \/ stop <= 0 \/ spec.step_loss = 0)
    <2>1. equity \in Nat /\ stop \in Nat \ {0} /\ spec.step_loss # 0 /\ max_risk \in Nat
        BY <1>2 DEF Asked
    <2>2. /\ loss \in Nat \ {0}
          /\ Budget(equity, f, max_risk) \in Nat /\ Budget(equity, g, max_risk) \in Nat
          /\ Budget(equity, f, max_risk) <= Budget(equity, g, max_risk)
        BY <2>1, LossType, BudgetType, BudgetMonotone DEF Asked
    <2>3. few \in Nat /\ many \in Nat /\ few <= many
        BY <2>2, DivBounds, DivMonotone
    <2>4. spec.volume_min \in Nat /\ spec.volume_max \in Nat
        BY DEF Asked, Spec_
    <2>5. /\ Lots(spec, equity, f, stop, max_risk)
                = IF Least(few, spec.volume_max) < spec.volume_min THEN 0
                  ELSE Least(few, spec.volume_max)
          /\ Lots(spec, equity, g, stop, max_risk)
                = IF Least(many, spec.volume_max) < spec.volume_min THEN 0
                  ELSE Least(many, spec.volume_max)
        BY <1>2 DEF Lots, RoundVolume
    <2> HIDE DEF loss, few, many
    <2> QED BY <2>3, <2>4, <2>5 DEF Least
<1> QED BY <1>1, <1>2

(* The reductions together are a fraction, and never nothing (combined).   *)
LEMMA CombinedType ==
    ASSUME NEW product \in Nat
    PROVE  Combined(product) \in Floor .. One
BY DEF Combined, Most, Least, Floor, One

(* However the reductions come out, a trade that is stopped loses no more  *)
(* than the fraction of the equity the settings give, and what is reduced  *)
(* further is no larger (sizes.size).                                      *)
THEOREM ReducedUnderBudget ==
    ASSUME NEW spec \in Spec_, NEW equity \in Int, NEW fraction \in Nat, NEW stop \in Int,
           NEW max_risk \in Nat, NEW p \in Nat, NEW q \in Nat, p <= q
    PROVE  /\ Size(spec, equity, fraction, p, stop, max_risk)
                 <= Size(spec, equity, fraction, q, stop, max_risk)
           /\ Size(spec, equity, fraction, q, stop, max_risk) # 0
                 => One * (Size(spec, equity, fraction, q, stop, max_risk) * StepLoss(spec, stop))
                      <= One * (equity * fraction)
<1> DEFINE fine == Finer(spec)
           v == Size(spec, equity, fraction, q, stop, max_risk)
<1>0. Combined(p) \in Nat /\ Combined(q) \in Nat /\ Combined(q) <= One
    BY DEF Combined, Most, Least, Floor, One
<1>1. /\ fine \in Spec_ /\ One * max_risk \in Nat
      /\ fraction * Combined(p) \in Nat /\ fraction * Combined(q) \in Nat
    <2>1. fine \in Spec_
        BY DEF Spec_, One, Finer
    <2>2. One * max_risk \in Nat
        BY DEF One
    <2>3. fraction * Combined(p) \in Nat /\ fraction * Combined(q) \in Nat
        BY <1>0
    <2> QED BY <2>1, <2>2, <2>3
<1>2. /\ Asked(fine, equity, fraction * Combined(p), stop, One * max_risk)
      /\ Asked(fine, equity, fraction * Combined(q), stop, One * max_risk)
    BY <1>1 DEF Asked
<1>3. fraction * Combined(p) <= fraction * Combined(q)
    <2>1. Combined(p) \in Nat /\ Combined(q) \in Nat /\ Combined(p) <= Combined(q)
        BY DEF Combined, Most, Least, Floor, One
    <2> QED BY <2>1
<1>4. Size(spec, equity, fraction, p, stop, max_risk) <= v
    BY <1>1, <1>2, <1>3, SmallerFractionSmallerTrade DEF Size
<1>5. ASSUME v # 0
      PROVE  One * (v * StepLoss(spec, stop)) <= One * (equity * fraction)
    <2>1. v = Lots(fine, equity, fraction * Combined(q), stop, One * max_risk)
        BY DEF Size
    <2>2. /\ v \in Int
          /\ v * StepLoss(fine, stop) <= equity * (fraction * Combined(q))
        BY <1>2, <1>5, <2>1, BudgetKept DEF Spec_, Finer
    <2>3. equity \in Nat
        BY <1>2, <1>5, <2>1, Sized
    <2>4. equity * (fraction * Combined(q)) <= One * (equity * fraction)
        <3>1. Combined(q) \in Nat /\ Combined(q) <= One /\ One \in Nat
            BY <1>0 DEF One
        <3>2. Combined(q) * (equity * fraction) <= One * (equity * fraction)
            BY <2>3, <3>1, TimesMonotone
        <3>3. equity * (fraction * Combined(q)) = Combined(q) * (equity * fraction)
            BY <2>3, <3>1
        <3> QED BY <3>2, <3>3
    <2>5. v * StepLoss(fine, stop) = One * (v * StepLoss(spec, stop))
        <3>1. fine.step_loss = One * spec.step_loss /\ spec.step_loss \in Nat
            BY DEF Spec_, Finer
        <3> QED BY <2>2, <3>1 DEF StepLoss, One
    <2>6. equity * (fraction * Combined(q)) \in Int /\ One * (equity * fraction) \in Int
        BY <1>1, <2>3 DEF One
    <2>7. One * (v * StepLoss(spec, stop)) \in Int
        BY <2>2 DEF StepLoss, One, Spec_
    <2> HIDE DEF v, fine
    <2> QED BY <2>2, <2>4, <2>5, <2>6, <2>7
<1> QED BY <1>4, <1>5
---------------------------------------------------------------------------
(* Managed exits.                                                          *)

\* The distance of a trail is a number of points.
LEMMA BehindType ==
    ASSUME NEW t \in Trade
    PROVE  /\ Behind(t) \in Nat
           /\ Behind(t) * Parts <= t.best * t.width
           /\ t.best * t.width < (Behind(t) + 1) * Parts
<1>1. t.best \in Nat /\ t.width \in Nat /\ Parts \in Nat \ {0}
    BY DEF Trade, Parts
<1>2. t.best * t.width \in Nat
    BY <1>1
<1> QED BY <1>1, <1>2, DivBounds DEF Behind

(* A stop moved to break even, or beyond it, is where the trade no longer  *)
(* loses: the cushion is on the winning side, whichever side that is, and  *)
(* the trail takes over only when it is better still.  A cushion as large as *)
(* the price is excluded: a stop of nothing is no stop (advance).          *)
THEOREM BreakEvenLocks ==
    ASSUME NEW t \in Trade, Evens(t), t.cushion < t.open
    PROVE  t.sign * Proposed(t) >= t.sign * t.open
<1> DEFINE even == t.open + t.sign * t.cushion
           trail == t.best - t.sign * Behind(t)
<1>1. /\ t.sign \in {-1, 1} /\ t.open \in Nat /\ t.cushion \in Nat
      /\ t.best \in Nat /\ Behind(t) \in Nat /\ t.first \in Nat
    BY BehindType DEF Trade
<1>2. AfterEven(t) = even
    BY DEF AfterEven, Even
<1>3. t.sign * even >= t.sign * t.open
    <2>1. CASE t.sign = 1
        BY <1>1, <2>1
    <2>2. CASE t.sign = -1
        BY <1>1, <2>2
    <2> QED BY <1>1, <2>1, <2>2
<1>4. CASE ~Trails(t)
    BY <1>2, <1>3, <1>4 DEF Proposed
<1>5. CASE Trails(t)
    <2>1. Proposed(t) = trail /\ (even = 0 \/ trail * t.sign > even * t.sign)
        BY <1>2, <1>5 DEF Proposed, Trails, Trail, Better
    <2>2. even \in Int /\ trail \in Int
        BY <1>1
    <2>3. even # 0
        <3>1. CASE t.sign = 1
            BY <1>1, <3>1
        <3>2. CASE t.sign = -1
            BY <1>1, <3>2
        <3> QED BY <1>1, <3>1, <3>2
    <2> HIDE DEF even, trail
    <2>4. t.sign * trail = trail * t.sign /\ t.sign * even = even * t.sign
        BY <1>1, <2>2
    <2>5. t.sign * trail \in Int /\ t.sign * even \in Int /\ t.sign * t.open \in Int
        BY <1>1, <2>2
    <2> QED BY <1>3, <2>1, <2>3, <2>4, <2>5
<1> QED BY <1>4, <1>5

(* A partial close never leaves a remnant the broker would refuse to close, *)
(* nor asks for a slice it would refuse (partial).                         *)
THEOREM BothHalvesTrade ==
    ASSUME NEW t \in Trade, Banks(t)
    PROVE  /\ Slice(t) \in t.volume_min .. t.volume - t.volume_min
           /\ Slice(t) + Stays(t) = t.volume
           /\ 100 * Slice(t) <= t.volume * t.fraction
<1>1. t.volume \in Nat /\ t.fraction \in 1 .. 99 /\ t.volume_min \in Nat \ {0}
    BY DEF Trade, Banks
<1>2. t.volume * t.fraction \in Nat
    BY <1>1
<1>3. Slice(t) \in Nat /\ Slice(t) * 100 <= t.volume * t.fraction
    BY <1>2, DivBounds DEF Slice
<1>4. Slice(t) >= t.volume_min /\ t.volume - Slice(t) >= t.volume_min
    BY DEF Banks, Stays
<1> QED BY <1>1, <1>2, <1>3, <1>4 DEF Stays

(* A stop the policy moves stays behind the best price seen, if the cushion *)
(* is less than the gain that break even asks for and the trail keeps a    *)
(* distance; a larger cushion has a stop sent the market has passed        *)
(* (advance).                                                              *)
THEOREM StopBehindBest ==
    ASSUME NEW t \in Trade, Advances(t),
           100 * t.cushion < Risk(t) * t.even_at, t.width > 0 => Behind(t) > 0
    PROVE  t.sign * Proposed(t) < t.sign * t.best
<1>1. /\ t.sign \in {-1, 1} /\ t.open \in Nat /\ t.cushion \in Nat
      /\ t.best \in Nat /\ Behind(t) \in Nat
      /\ t.even_at \in Nat /\ Risk(t) \in Int
    BY BehindType DEF Trade, Risk, Away
<1>2. CASE Trails(t)
    <2>1. Proposed(t) = t.best - t.sign * Behind(t) /\ Behind(t) > 0
        BY <1>1, <1>2 DEF Proposed, Trails, Trail
    <2>2. CASE t.sign = 1
        BY <1>1, <2>1, <2>2
    <2>3. CASE t.sign = -1
        BY <1>1, <2>1, <2>3
    <2> QED BY <1>1, <2>2, <2>3
<1>3. CASE ~Trails(t)
    <2>1. Evens(t) /\ Proposed(t) = t.open + t.sign * t.cushion
        BY <1>3 DEF Advances, Proposed, AfterEven, Even
    <2>2. 100 * ((t.best - t.open) * t.sign) >= Risk(t) * t.even_at
        BY <2>1 DEF Evens, Gained
    <2>3. Risk(t) * t.even_at \in Int
        BY <1>1
    <2>4. CASE t.sign = 1
        BY <1>1, <2>1, <2>2, <2>3, <2>4
    <2>5. CASE t.sign = -1
        BY <1>1, <2>1, <2>2, <2>3, <2>5
    <2> QED BY <1>1, <2>4, <2>5
<1> QED BY <1>2, <1>3
(* The trade of a later quote: the best is no worse, and all else is as it *)
(* was.  The width is of the intent and the settings, which a trade keeps, *)
(* and the distance it comes to is measured again at the new best.         *)
Later(u, t) ==
    /\ u.sign = t.sign /\ u.open = t.open /\ u.entry = t.entry /\ u.first = t.first
    /\ u.stop = t.stop /\ u.even_at = t.even_at /\ u.cushion = t.cushion
    /\ u.width = t.width /\ t.sign * t.best <= t.sign * u.best

(* The trail follows the best: the distance of a long grows with the price, *)
(* but not faster than the price while it is no wider than the price.      *)
LEMMA TrailFollows ==
    ASSUME NEW t \in Trade, NEW u \in Trade, Later(u, t), t.width <= Parts
    PROVE  t.sign * Trail(t) <= t.sign * Trail(u)
<1> DEFINE p == Behind(t)
           q == Behind(u)
<1>1. /\ t.sign \in {-1, 1} /\ u.sign = t.sign /\ u.width = t.width
      /\ t.best \in Nat /\ u.best \in Nat /\ t.width \in Nat
    BY DEF Trade, Later
<1>2. /\ p \in Nat /\ t.best * t.width < (p + 1) * Parts
      /\ q \in Nat /\ q * Parts <= u.best * t.width
    BY <1>1, BehindType
<1>3. Trail(t) = t.best - t.sign * p /\ Trail(u) = u.best - t.sign * q
    BY <1>1 DEF Trail
<1>4. CASE t.sign = 1
    <2> DEFINE rise == u.best - t.best
    <2>1. rise \in Nat /\ u.best = t.best + rise
        BY <1>1, <1>4 DEF Later
    <2>2. rise * t.width <= rise * Parts
        <3>1. Parts \in Nat /\ t.width <= Parts
            BY DEF Parts
        <3>2. t.width * rise <= Parts * rise
            BY <3>1, <2>1, <1>1, TimesMonotone
        <3> QED BY <3>1, <3>2, <2>1, <1>1
    <2>3. u.best * t.width = t.best * t.width + rise * t.width
        BY <2>1, <1>1
    <2>4. t.best * t.width \in Nat /\ rise * t.width \in Nat
        BY <2>1, <1>1
    <2> HIDE DEF rise, p, q
    <2>5. q * Parts < (p + 1 + rise) * Parts
        BY <1>2, <2>1, <2>2, <2>3, <2>4 DEF Parts
    <2>6. q < p + 1 + rise
        BY <2>5, <1>2, <2>1 DEF Parts
    <2> QED BY <2>6, <1>1, <1>2, <1>3, <1>4, <2>1
<1>5. CASE t.sign = -1
    <2>1. u.best <= t.best
        BY <1>1, <1>5 DEF Later
    <2>2. u.best * t.width \in Nat /\ t.best * t.width \in Nat
        BY <1>1
    <2>3. u.best * t.width <= t.best * t.width
        BY <1>1, <2>1, TimesMonotone
    <2>4. q <= p
        BY <2>2, <2>3, <1>1, DivMonotone DEF Behind, Parts
    <2> HIDE DEF p, q
    <2> QED BY <2>1, <2>4, <1>1, <1>2, <1>3, <1>5
<1> QED BY <1>1, <1>4, <1>5

(* A quote on which no stop can be moved, for a modify is still in flight, *)
(* loses nothing: what a later one proposes, its trail measured anew from  *)
(* the later best, is no worse, so long as the trail is no wider than the  *)
(* price (advance, and _move which asks again).                            *)
THEOREM LaterIsNoWorse ==
    ASSUME NEW t \in Trade, NEW u \in Trade, Later(u, t), t.width <= Parts,
           t.stop # 0, t.cushion < t.open
    PROVE  t.sign * Proposed(u) >= t.sign * Proposed(t)
<1> DEFINE even == t.open + t.sign * t.cushion
           before == Trail(t)
           after == Trail(u)
<1>1. /\ t.sign \in {-1, 1} /\ t.open \in Nat /\ t.cushion \in Nat /\ t.stop \in Nat
      /\ t.best \in Nat /\ u.best \in Nat /\ t.first \in Nat
      /\ Behind(t) \in Nat /\ Behind(u) \in Nat
      /\ t.even_at \in Nat /\ Risk(t) \in Int
    BY BehindType DEF Trade, Risk, Away
<1>2. /\ Even(t) = even /\ Even(u) = even /\ Risk(u) = Risk(t)
    BY DEF Later, Even, Risk
<1>3. even \in Int /\ before \in Int /\ after \in Int /\ t.sign * before <= t.sign * after
    BY <1>1, TrailFollows DEF Trail, Later
<1>4. even # 0
    <2>1. CASE t.sign = 1
        BY <1>1, <2>1
    <2>2. CASE t.sign = -1
        BY <1>1, <2>2
    <2> QED BY <1>1, <2>1, <2>2
<1>5. Gained(t) \in Int /\ Gained(u) \in Int /\ Gained(t) <= Gained(u)
    <2>1. CASE t.sign = 1
        BY <1>1, <2>1 DEF Later, Gained
    <2>2. CASE t.sign = -1
        BY <1>1, <2>2 DEF Later, Gained
    <2> QED BY <1>1, <2>1, <2>2
<1>6. Risk(t) * t.even_at \in Int
    BY <1>1
<1> DEFINE x == AfterEven(t)
           y == AfterEven(u)
<1>7. /\ x \in Int /\ y \in Int /\ x # 0 /\ y # 0
      /\ t.sign * x <= t.sign * y
    <2>1. /\ x = IF Evens(t) THEN even ELSE t.stop
          /\ y = IF Evens(u) THEN even ELSE t.stop
        BY <1>2 DEF AfterEven, Later
    <2>2. /\ Evens(t) <=> /\ t.even_at > 0 /\ 100 * Gained(t) >= Risk(t) * t.even_at
                          /\ even * t.sign > t.stop * t.sign
          /\ Evens(u) <=> /\ t.even_at > 0 /\ 100 * Gained(u) >= Risk(t) * t.even_at
                          /\ even * t.sign > t.stop * t.sign
        BY <1>2 DEF Evens, Better, Later
    <2>3. Evens(t) => Evens(u)
        BY <1>5, <1>6, <1>1, <2>2
    <2> HIDE DEF even
    <2>4. CASE t.sign = 1
        BY <1>1, <1>3, <1>4, <2>1, <2>2, <2>3, <2>4
    <2>5. CASE t.sign = -1
        BY <1>1, <1>3, <1>4, <2>1, <2>2, <2>3, <2>5
    <2> QED BY <1>1, <2>4, <2>5
<1>8. /\ Trails(t) <=> /\ t.width > 0 /\ before * t.sign > x * t.sign
                       /\ (t.first = 0 \/ before * t.sign > t.first * t.sign)
      /\ Trails(u) <=> /\ t.width > 0 /\ after * t.sign > y * t.sign
                       /\ (t.first = 0 \/ after * t.sign > t.first * t.sign)
    BY <1>2, <1>7 DEF Trails, Better, Later
<1>9. /\ Proposed(t) = IF Trails(t) THEN before ELSE x
      /\ Proposed(u) = IF Trails(u) THEN after ELSE y
    BY <1>2 DEF Proposed
<1> HIDE DEF even, before, after, x, y
<1>10. CASE t.sign = 1
    BY <1>1, <1>3, <1>7, <1>8, <1>9, <1>10
<1>11. CASE t.sign = -1
    BY <1>1, <1>3, <1>7, <1>8, <1>9, <1>11
<1> QED BY <1>1, <1>10, <1>11
=============================================================================
