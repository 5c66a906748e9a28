------------------------------- MODULE Manage -------------------------------
(***************************************************************************)
(* The policy of a managed exit: strategies/manage.py, which exits.py asks *)
(* on every quote.  Prices are in points, volumes in the broker's steps,   *)
(* and a trade's sign is 1 for a long and -1 for a short.                  *)
(*                                                                         *)
(* A trade t has the price it was opened at, the entry and the first stop  *)
(* of its intent, the stop held for it (0: none), its volume, the best     *)
(* price seen, and the rules in force: break even and scale out in         *)
(* hundredths of the risk (0: off), the cushion, the least distance of a   *)
(* stop, and the width of the trail in basis points of the price (0: off): *)
(* the room asked for in units of the volatility its intent came with, so  *)
(* a trade keeps it for life.  The caller has no levels to step behind,    *)
(* and passes the best for the price now.                                  *)
(***************************************************************************)
EXTENDS Integers

Trade == [sign : {-1, 1}, open : Nat, entry : Nat, first : Nat, stop : Nat, volume : Nat,
          best : Nat, even_at : Nat, cushion : Nat, width : Nat, room : Nat,
          scale_at : Nat, fraction : 0..100, volume_min : Nat \ {0}]

Away(a, b) == IF a >= b THEN a - b ELSE b - a
Risk(t) == Away(t.entry, t.first)
Gained(t) == (t.best - t.open) * t.sign

\* better: a tighter stop, and anything where there is none.
Better(t, candidate, current) == current = 0 \/ candidate * t.sign > current * t.sign

---------------------------------------------------------------------------
(* advance                                                                 *)

Even(t) == t.open + t.sign * t.cushion
Evens(t) == t.even_at > 0 /\ 100 * Gained(t) >= Risk(t) * t.even_at /\ Better(t, Even(t), t.stop)
AfterEven(t) == IF Evens(t) THEN Even(t) ELSE t.stop

\* price_distance: a part of the price it is measured at, here the best, so
\* that every best has a distance of its own.
Parts == 10000
Behind(t) == (t.best * t.width) \div Parts

\* In front of the first stop too, or the trade is not the one that was sized.
Trail(t) == t.best - t.sign * Behind(t)
Trails(t) ==
    /\ t.width > 0
    /\ Better(t, Trail(t), AfterEven(t)) /\ Better(t, Trail(t), t.first)
Proposed(t) == IF Trails(t) THEN Trail(t) ELSE AfterEven(t)

\* A move is for a trade in front with a risk to measure by, to a better stop
\* that the broker does not find too near.
Advances(t) ==
    /\ Risk(t) > 0 /\ Gained(t) > 0
    /\ Evens(t) \/ Trails(t)
    /\ Better(t, Proposed(t), t.stop)
    /\ t.room > 0 => Away(t.best, Proposed(t)) >= t.room

---------------------------------------------------------------------------
(* partial                                                                 *)

\* What comes off, and what stays, each down to a step.
Slice(t) == (t.volume * t.fraction) \div 100
Stays(t) == t.volume - Slice(t)

\* Taken for a gain that reached the trigger, where both parts can be traded.
Banks(t) ==
    /\ t.scale_at > 0 /\ t.fraction \in 1..99 /\ Risk(t) > 0
    /\ 100 * Gained(t) >= Risk(t) * t.scale_at /\ Gained(t) > 0
    /\ Slice(t) >= t.volume_min /\ Stays(t) >= t.volume_min
=============================================================================
