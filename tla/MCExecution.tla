--------------------------- MODULE MCExecution ---------------------------
(* MT5Execution for TLC: commands in flight are interchangeable, and of one *)
(* market bracket and one limit one is placed, each with its own failures:  *)
(* a market is never left resting nor its stop confirmed and not set, a     *)
(* limit has no price of its deal to lose.                                  *)
EXTENDS MT5Execution, TLC

Symmetry == Permutations(Tasks)

Unused(bs) == \A b \in bs : status[<<b, "E">>] = "INITIALIZED"
Quiet(leg, answers) ==
    \A t \in Tasks : /\ task[t].answer \notin answers
                     /\ task[t].op = "modify" => task[t].o[2] # leg
Lied(t) == LET b == task[t].o[1] IN
    /\ task[t].op = "place" /\ task[t].call = "modify" /\ task[t].answer = "done"
    /\ <<venue[b].sl, venue[b].tp>> # <<task[t].send.sl, task[t].send.tp>>
Scenario == \/ Unused(Limits) /\ Quiet("E", {"refused", "placed"}) /\ \A t \in Tasks : ~Lied(t)
            \/ Unused(Markets) /\ Quiet("SL", {"unpriced", "nodeal"})
=============================================================================
