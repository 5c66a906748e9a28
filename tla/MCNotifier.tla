---------------------------- MODULE MCNotifier ----------------------------
(* Notifier for TLC: a finding and the alarm it grows into, a trade that    *)
(* cannot be built, a finding no channel takes and one below the level.    *)
EXTENDS Notifier

MCKey == [a |-> "level", alarm |-> "level", trade |-> "trade", c |-> "drift", x |-> "drift"]
=============================================================================
