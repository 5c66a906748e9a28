----------------------------- MODULE MCLadder -----------------------------
(* Ladder for TLC: every strategy of the node trades one instrument, and    *)
(* the file is empty at first, or holds a strategy that was live, was       *)
(* retired and was put back.                                                *)
EXTENDS Ladder

CONSTANT Instrument
MCTrades == [c \in Strategies |-> Instrument]

Revived == [c \in Candidates |->
              IF c \in Strategies THEN [Absent EXCEPT !.rung = "backtested", !.after = LiveEpisodes]
                                  ELSE Absent]

MCSpec == (Init \/ InitFrom(Revived)) /\ [][Next]_vars /\ Fairness
=============================================================================
