--------------------------- MODULE MT5Execution ---------------------------
(***************************************************************************)
(* The order side of the MT5 venue: adapters/mt5/execution.py.             *)
(*                                                                         *)
(* Every command the engine sends (submit a bracket, modify, cancel) runs  *)
(* as an asyncio task of its own.  A task is atomic between two awaits,    *)
(* and every await is a call to the terminal, so a call is two steps here: *)
(* the terminal serves it (one of the Take and List actions, which keep    *)
(* the answer in the task) and the handler resumes with that answer.       *)
(* Between the two any other task, and the broker, may move.               *)
(*                                                                         *)
(* MT5 has no separate orders for a stop and a target: a bracket is one    *)
(* ticket, and its legs are the fields sl and tp of the position the       *)
(* ticket opens.  A bracket is therefore a record of the terminal's book   *)
(* and three orders of the engine.  0 is MT5's "no level".                 *)
(***************************************************************************)
EXTENDS Naturals

CONSTANTS
    Markets,    \* brackets with a market entry
    Limits,     \* brackets with a limit entry
    Tasks,      \* how many commands may be in flight at once
    Prices,     \* the levels an order may be at
    First,      \* the level every bracket is submitted with
    Movable,    \* the legs the strategies move
    Faults      \* what the terminal and the bridge may do wrong

Brackets == Markets \cup Limits
Legs == {"E", "SL", "TP"}
Orders == Brackets \X Legs
Levels == Prices \cup {0}
AllFaults == {"unreadable", "lag", "drop", "refused", "empty", "raised", "lie",
              "placed", "noticket", "unpriced", "nodeal"}

ASSUME ConstantsAssumption ==
    /\ Markets \cap Limits = {} /\ Brackets # {}
    /\ Prices \subseteq Nat \ {0}
    /\ First \in Prices
    /\ Movable \subseteq Legs
    /\ Faults \subseteq AllFaults


VARIABLES
    venue,      \* the terminal's book: one row per bracket
    status,     \* the engine's status of each order
    shown,      \* the level the engine has for each order
    fills,      \* trade ids of the OrderFilled events sent for each order
    owed,       \* modifies and cancels the engine has no answer to yet
    unsure,     \* history: brackets a refused command may have changed anyway
    task        \* the commands in flight

vars == <<venue, status, shown, fills, owed, unsure, task>>

Row == [px : Levels, sl : Levels, tp : Levels]
Place == {"none", "resting", "fresh", "open", "closed", "gone"}
VenueRow == [at : Place, px : Levels, sl : Levels, tp : Levels]
Closed == {"REJECTED", "CANCELED", "FILLED"}
Status == {"INITIALIZED", "SUBMITTED", "ACCEPTED"} \cup Closed
Calls == {"none", "order", "modify", "move", "cancel", "positions", "pending", "deals"}
Stages == {"unplaced", "answer", "before", "protect", "after", "price",
           "resting", "held", "sent", "verify", "cleared",
           "withdraw", "listing", "history", "sweep", "stray"}
Answers == {"none", "rows", "done", "refused", "empty", "raised",
            "placed", "noticket", "unpriced", "nodeal"}
\* rows: what a listing answered; seen: the resting row found by _locate;
\* note: what the handler remembers of an earlier answer.
Task == [op : {"idle", "place", "modify", "cancel"}, o : Orders, arg : Levels,
         stage : Stages, call : Calls, send : Row, answer : Answers,
         rows : SUBSET Row, seen : SUBSET Row, note : Answers]

Traded(b) == venue[b].at \in {"fresh", "open", "closed"}
RowOf(b) == [px |-> venue[b].px, sl |-> venue[b].sl, tp |-> venue[b].tp]
NoRow == [px |-> 0, sl |-> 0, tp |-> 0]
Asked == [px |-> First, sl |-> First, tp |-> First]
Idle == [op |-> "idle", o |-> CHOOSE o \in Orders : TRUE, arg |-> 0, stage |-> "answer", call |-> "order",
         send |-> NoRow, answer |-> "none", rows |-> {}, seen |-> {}, note |-> "none"]

Init ==
    /\ venue = [b \in Brackets |-> [at |-> "none", px |-> 0, sl |-> 0, tp |-> 0]]
    /\ status = [o \in Orders |-> "INITIALIZED"]
    /\ shown = [o \in Orders |-> First]
    /\ fills = [o \in Orders |-> {}]
    /\ owed = {}
    /\ unsure = {}
    /\ task = [t \in Tasks |-> Idle]

---------------------------------------------------------------------------
(* Events to the engine.  Its order state machine drops an event an order  *)
(* that is already closed cannot take.                                     *)

Move(os, to) == [o \in Orders |-> IF o \in os /\ status[o] \notin Closed THEN to ELSE status[o]]
LegsOf(b) == {b} \X Legs

\* OrderAccepted for some legs of b and OrderRejected for the others.
Judged(b, rejected) ==
    [o \in Orders |->
        IF o[1] = b /\ status[o] \notin Closed
        THEN IF o[2] \in rejected THEN "REJECTED" ELSE "ACCEPTED"
        ELSE status[o]]

Filled(o, id) == /\ fills' = [fills EXCEPT ![o] = @ \cup {id}]
                 /\ status' = Move({o}, "FILLED")

---------------------------------------------------------------------------
(* The task's side of a call.                                              *)

Answered(t, stage) == task[t].op # "idle" /\ task[t].stage = stage /\ task[t].answer # "none"

\* Await the next call.
Await(t, stage, call, send) ==
    task' = [task EXCEPT ![t] = [@ EXCEPT !.stage = stage, !.call = call, !.send = send,
                                          !.answer = "none", !.rows = {}]]

\* The same, remembering one thing of the answer just received.
AwaitNoting(t, stage, call, send, note) ==
    task' = [task EXCEPT ![t] = [@ EXCEPT !.stage = stage, !.call = call, !.send = send,
                                          !.answer = "none", !.rows = {}, !.note = note]]

Finish(t) == task' = [task EXCEPT ![t] = Idle]

Start(t, op, o, arg, stage, call, send) ==
    /\ task[t].op = "idle"
    /\ task' = [task EXCEPT ![t] = [op |-> op, o |-> o, arg |-> arg, stage |-> stage,
                                    call |-> call, send |-> send, answer |-> "none",
                                    rows |-> {}, seen |-> {}, note |-> "none"]]

\* OrderModifyRejected or OrderCancelRejected: the order is as it was.
Refuse(t) ==
    /\ owed' = owed \ {<<task[t].o, task[t].op>>}
    /\ Finish(t)
    /\ UNCHANGED <<venue, status, shown, fills>>

RefuseUnsent(t) == Refuse(t) /\ UNCHANGED unsure
RefuseSent(t) == Refuse(t) /\ unsure' = unsure \cup {task[t].o[1]}

\* Mutant: the event carries a status the engine does not have.
CancelledMisspelt(t) ==
    /\ status' = Move({task[t].o}, "CANCELLED")
    /\ owed' = owed \ {<<task[t].o, "cancel">>}
    /\ Finish(t)
    /\ UNCHANGED <<venue, shown, fills, unsure>>

\* OrderCanceled.
Cancelled(t) ==
    /\ status' = Move({task[t].o}, "CANCELED")
    /\ owed' = owed \ {<<task[t].o, "cancel">>}
    /\ Finish(t)
    /\ UNCHANGED <<venue, shown, fills, unsure>>

---------------------------------------------------------------------------
(* The terminal and the bridge (external).                                 *)

Reply(t, answer, rows) == task' = [task EXCEPT ![t].answer = answer, ![t].rows = rows]
Pending(t, call) == task[t].op # "idle" /\ task[t].call = call /\ task[t].answer = "none"

\* A deal opens the position; a position may lag the deal that opened it, and
\* on a market entry the deal may leave a stop or a target behind.
Opened(b, row) ==
    \E at \in {"open"} \cup (IF "lag" \in Faults THEN {"fresh"} ELSE {}),
       sl \in {row.sl} \cup (IF "drop" \in Faults /\ b \in Markets THEN {0} ELSE {}),
       tp \in {row.tp} \cup (IF "drop" \in Faults /\ b \in Markets THEN {0} ELSE {}) :
        venue' = [venue EXCEPT ![b] = [at |-> at, px |-> row.px, sl |-> sl, tp |-> tp]]

Rested(b, row) ==
    venue' = [venue EXCEPT ![b] = [at |-> "resting", px |-> row.px, sl |-> row.sl, tp |-> row.tp]]

\* bridge.order: done or not, and what the reply says of it.
TakeOrder(t) ==
    LET b == task[t].o[1] IN
    /\ Pending(t, "order")
    /\ \/ /\ IF b \in Limits THEN Rested(b, task[t].send) ELSE Opened(b, task[t].send)
          /\ \E a \in {"done"} \cup (Faults \cap {"empty", "raised", "noticket", "unpriced", "nodeal"}) :
                Reply(t, a, {})
       \/ /\ "placed" \in Faults
          /\ Rested(b, task[t].send)
          /\ Reply(t, "placed", {})
       \/ /\ \E a \in Faults \cap {"refused", "empty", "raised"} : Reply(t, a, {})
          /\ UNCHANGED venue
    /\ UNCHANGED <<status, shown, fills, owed, unsure>>

\* A write that the terminal may have taken before the reply was lost.
Written(t, applies, row) ==
    /\ \/ applies /\ venue' = [venue EXCEPT ![task[t].o[1]] = row]
                  /\ \E a \in {"done"} \cup (Faults \cap {"empty", "raised"}) : Reply(t, a, {})
       \/ ~applies /\ Reply(t, "refused", {}) /\ UNCHANGED venue
       \/ /\ \E a \in Faults \cap {"refused", "empty", "raised"} : Reply(t, a, {})
          /\ UNCHANGED venue
    /\ UNCHANGED <<status, shown, fills, owed, unsure>>

\* bridge.modify: sets both fields of an open position; prices it already
\* holds are refused (a no-op modify is a 400).
TakeModify(t) ==
    LET b == task[t].o[1]  new == [venue[b] EXCEPT !.sl = task[t].send.sl, !.tp = task[t].send.tp] IN
    /\ Pending(t, "modify")
    /\ \/ Written(t, venue[b].at \in {"fresh", "open"} /\ new # venue[b], new)
       \/ /\ "lie" \in Faults
          /\ Reply(t, "done", {})
          /\ UNCHANGED <<venue, status, shown, fills, owed, unsure>>

\* bridge.modify_order: moves a resting order.
TakeMove(t) ==
    LET b == task[t].o[1]  new == [venue[b] EXCEPT !.px = task[t].send.px] IN
    Pending(t, "move") /\ Written(t, venue[b].at = "resting" /\ new # venue[b], new)

\* bridge.cancel: withdraws a resting order.
TakeCancel(t) ==
    LET b == task[t].o[1] IN
    Pending(t, "cancel") /\ Written(t, venue[b].at = "resting", [venue[b] EXCEPT !.at = "gone"])

Listing(t, call, shows) ==
    /\ Pending(t, call)
    /\ \/ Reply(t, "rows", IF shows THEN {RowOf(task[t].o[1])} ELSE {})
       \/ "unreadable" \in Faults /\ Reply(t, "raised", {})
    /\ UNCHANGED <<venue, status, shown, fills, owed, unsure>>

ListPositions(t) == Listing(t, "positions", venue[task[t].o[1]].at = "open")
ListPending(t) == Listing(t, "pending", venue[task[t].o[1]].at = "resting")
ListDeals(t) == Listing(t, "deals", Traded(task[t].o[1]))

Serve(t) == \/ TakeOrder(t) \/ TakeModify(t) \/ TakeMove(t) \/ TakeCancel(t)
            \/ ListPositions(t) \/ ListPending(t) \/ ListDeals(t)

\* The broker on its own: a resting order fills or expires, a position comes
\* into the listing, and is closed by its stop, its target or a trader.
BrokerMoves(b) ==
    /\ \/ venue[b].at = "resting" /\ Opened(b, RowOf(b))
       \/ venue[b].at = "resting" /\ venue' = [venue EXCEPT ![b].at = "gone"]
       \/ venue[b].at = "fresh" /\ venue' = [venue EXCEPT ![b].at = "open"]
       \/ venue[b].at = "open" /\ venue' = [venue EXCEPT ![b].at = "closed"]
    /\ UNCHANGED <<status, shown, fills, owed, unsure, task>>

---------------------------------------------------------------------------
(* Submit: _submit_order_list, _place, _report_legs, _protect.             *)

\* A list with no entry, a leg MT5 cannot express, an entry type it does not
\* take or a symbol it does not list: every order of the bracket is rejected.
RefuseBracket(b) ==
    /\ status[<<b, "E">>] = "INITIALIZED"
    /\ status' = Move(LegsOf(b), "REJECTED")
    /\ UNCHANGED <<venue, shown, fills, owed, unsure, task>>

SubmitBracket(t, b) ==
    /\ status[<<b, "E">>] = "INITIALIZED"
    /\ status' = Move(LegsOf(b), "SUBMITTED")
    /\ Start(t, "place", <<b, "E">>, 0, "answer", "order", Asked)
    /\ UNCHANGED <<venue, shown, fills, owed, unsure>>

\* Mutant: an empty answer is dropped instead of being read as a rejection.
PlaceAnsweredDropsEmpty(t) ==
    LET b == task[t].o[1]  a == task[t].answer IN
    /\ Answered(t, "answer")
    /\ \/ /\ a \in {"done", "nodeal", "unpriced"}
          /\ AwaitNoting(t, "before", "positions", NoRow, a)
       \/ a \in {"refused", "empty", "noticket", "raised"} /\ Finish(t)
    /\ UNCHANGED <<venue, status, shown, fills, owed, unsure>>

\* The reply to the order: raised leaves the bracket SUBMITTED; anything but a
\* positive code and a ticket rejects it; a working order is accepted as it
\* is; a market order done goes on to _protect.
PlaceAnswered(t) ==
    LET b == task[t].o[1]  a == task[t].answer IN
    /\ Answered(t, "answer")
    /\ \/ /\ a \in {"done", "nodeal", "unpriced"} /\ b \in Markets
          /\ AwaitNoting(t, "before", "positions", NoRow, a)
          /\ UNCHANGED status
       \/ /\ a = "placed" \/ (a \in {"done", "nodeal", "unpriced"} /\ b \in Limits)
          /\ status' = Judged(b, {})
          /\ Finish(t)
       \/ /\ a \in {"refused", "empty", "noticket"}
          /\ status' = Move(LegsOf(b), "REJECTED")
          /\ Finish(t)
       \/ a = "raised" /\ Finish(t) /\ UNCHANGED status
    /\ UNCHANGED <<venue, shown, fills, owed, unsure>>

Shortfall(row) == {l \in {"SL", "TP"} : (IF l = "SL" THEN row.sl ELSE row.tp) # First}

\* Accept the legs the venue holds and reject the rest, then fill the entry if
\* the reply priced it; an unpriced one asks the deals.
Report(t, naked, a) ==
    LET b == task[t].o[1]  e == <<b, "E">>  judged == Judged(b, naked) IN
    /\ \/ /\ a = "unpriced"
          /\ status' = judged
          /\ Await(t, "price", "deals", NoRow)
          /\ UNCHANGED fills
       \/ /\ a # "unpriced"
          /\ status' = [judged EXCEPT ![e] = IF @ \in Closed THEN @ ELSE "FILLED"]
          /\ fills' = [fills EXCEPT ![e] = @ \cup {IF a = "nodeal" THEN "ticket" ELSE "deal"}]
          /\ Finish(t)
    /\ UNCHANGED <<venue, shown, owed, unsure>>

\* Mutant: a position that cannot be seen is taken for a protected one.
ProtectBeforeTrusting(t) ==
    /\ Answered(t, "before")
    /\ \/ (\A row \in task[t].rows : Shortfall(row) = {}) /\ Report(t, {}, task[t].note)
       \/ /\ \E row \in task[t].rows : Shortfall(row) # {}
          /\ Await(t, "protect", "modify", Asked)
          /\ UNCHANGED <<venue, status, shown, fills, owed, unsure>>

\* _protect reads before it writes: a position that is already right is left alone.
ProtectBefore(t) ==
    /\ Answered(t, "before")
    /\ \/ /\ \E row \in task[t].rows : Shortfall(row) = {}
          /\ Report(t, {}, task[t].note)
       \/ /\ \A row \in task[t].rows : Shortfall(row) # {}
          /\ Await(t, "protect", "modify", Asked)
          /\ UNCHANGED <<venue, status, shown, fills, owed, unsure>>

\* Whatever the modify said, the position is read again; seen keeps whether it
\* was refused.
ProtectSent(t) ==
    /\ Answered(t, "protect")
    /\ task' = [task EXCEPT ![t] = [@ EXCEPT !.stage = "after", !.call = "positions", !.answer = "none",
                                     !.seen = IF task[t].answer = "done" THEN {} ELSE {NoRow}]]
    /\ UNCHANGED <<venue, status, shown, fills, owed, unsure>>

\* A missing row is not evidence: only a refusal with nothing to look at is
\* reported as unprotected.
ProtectAfter(t) ==
    /\ Answered(t, "after")
    /\ Report(t, IF task[t].rows = {}
                 THEN IF task[t].seen = {} THEN {} ELSE {"SL", "TP"}
                 ELSE UNION {Shortfall(row) : row \in task[t].rows},
              task[t].note)

\* Mutant: the fill carries the order's ticket instead of the deal's.
PlacePricedByTicket(t) ==
    /\ Answered(t, "price")
    /\ \/ task[t].rows = {} /\ UNCHANGED <<status, fills>>
       \/ task[t].rows # {} /\ Filled(task[t].o, "ticket")
    /\ Finish(t)
    /\ UNCHANGED <<venue, shown, owed, unsure>>

PlacePriced(t) ==
    /\ Answered(t, "price")
    /\ \/ task[t].rows = {} /\ UNCHANGED <<status, fills>>
       \/ task[t].rows # {} /\ Filled(task[t].o, "deal")
    /\ Finish(t)
    /\ UNCHANGED <<venue, shown, owed, unsure>>

---------------------------------------------------------------------------
(* A command for an order that has no venue id: its bracket is on the way, *)
(* or its reply never came.  The stop of a bracket is one the desks move   *)
(* (_guards takes an order submitted for one that is live).                *)

CommandUnplaced(t, o, k) ==
    /\ status[o] = "SUBMITTED" /\ o[2] \in Movable /\ o \notin Markets \X {"E"}
    /\ \A j \in {"modify", "cancel"} : <<o, j>> \notin owed
    /\ owed' = owed \cup {<<o, k>>}
    /\ Start(t, k, o, 0, "unplaced", "none", NoRow)
    /\ UNCHANGED <<venue, status, shown, fills, unsure>>

\* It is refused without a call, though the order may have been accepted
\* since: the command carries the id the order had when it was sent.
RefuseUnplaced(t) == task[t].op # "idle" /\ task[t].stage = "unplaced" /\ RefuseUnsent(t)

---------------------------------------------------------------------------
(* Modify: _modify_order, _locate, _send_modify, _verify_modify.           *)

\* The engine sends one modify at a time for an order, none while a cancel is
\* out, and only for an order that has a price to move.  The instrument of an
\* accepted order is loaded (_place), so that asking for it is no call here.
ModifyOrder(t, o, p) ==
    /\ status[o] = "ACCEPTED" /\ o[2] \in Movable /\ o \notin Markets \X {"E"}
    /\ \A k \in {"modify", "cancel"} : <<o, k>> \notin owed
    /\ owed' = owed \cup {<<o, "modify">>}
    /\ Start(t, "modify", o, p, "resting", "pending", NoRow)
    /\ UNCHANGED <<venue, status, shown, fills, unsure>>

\* _locate: the resting orders first, then the positions.
Located(t) ==
    /\ Answered(t, "resting")
    /\ \/ task[t].answer = "raised" /\ RefuseUnsent(t)
       \/ /\ task[t].answer # "raised"
          /\ task' = [task EXCEPT ![t] = [@ EXCEPT !.stage = "held", !.call = "positions",
                                           !.answer = "none", !.rows = {}, !.seen = task[t].rows]]
          /\ UNCHANGED <<venue, status, shown, fills, owed, unsure>>

\* Mutant: the side the command leaves out is sent as zero.
CompletedWithZero(o, p, row) ==
    IF o[2] = "SL" THEN [NoRow EXCEPT !.sl = p] ELSE [NoRow EXCEPT !.tp = p]

\* What the command sends to an open position; the side it leaves out is
\* filled from the row just read.  An entry and a target both carry a price.
Completed(o, p, row) ==
    IF o[2] = "SL" THEN [row EXCEPT !.sl = p] ELSE [row EXCEPT !.tp = p]

ModifySends(t) ==
    LET o == task[t].o  p == task[t].arg IN
    /\ Answered(t, "held") /\ task[t].op = "modify"
    /\ \/ /\ \/ task[t].answer = "raised"
             \/ task[t].seen # {} /\ o[2] = "SL"
             \/ task[t].seen = {} /\ task[t].rows = {}
          /\ RefuseUnsent(t)
       \/ /\ task[t].answer # "raised"
          /\ \/ task[t].seen # {} /\ o[2] # "SL"
                /\ Await(t, "sent", "move", [NoRow EXCEPT !.px = p])
             \/ /\ task[t].seen = {}
                /\ \E row \in task[t].rows : Await(t, "sent", "modify", Completed(o, p, row))
          /\ UNCHANGED <<venue, status, shown, fills, owed, unsure>>

\* Mutant: a modify that is not confirmed ends the task and nothing else.
ModifySentSilent(t) ==
    /\ Answered(t, "sent")
    /\ \/ task[t].answer # "done" /\ Finish(t)
       \/ /\ task[t].answer = "done"
          /\ Await(t, "verify", IF task[t].seen # {} THEN "pending" ELSE "positions", task[t].send)
    /\ UNCHANGED <<venue, status, shown, fills, owed, unsure>>

ModifySent(t) ==
    /\ Answered(t, "sent")
    /\ \/ task[t].answer # "done" /\ RefuseSent(t)
       \/ /\ task[t].answer = "done"
          /\ Await(t, "verify", IF task[t].seen # {} THEN "pending" ELSE "positions", task[t].send)
          /\ UNCHANGED <<venue, status, shown, fills, owed, unsure>>

Shows(t, row) ==
    IF task[t].seen # {} THEN row.px = task[t].send.px
    ELSE row.sl = task[t].send.sl /\ row.tp = task[t].send.tp

\* OrderUpdated only after DONE and a listing that shows what was sent.
ModifyVerified(t) ==
    LET o == task[t].o IN
    /\ Answered(t, "verify")
    /\ \/ /\ \A row \in task[t].rows : ~Shows(t, row)
          /\ RefuseSent(t)
       \/ /\ \E row \in task[t].rows : Shows(t, row)
          /\ shown' = [shown EXCEPT ![o] = task[t].arg]
          /\ owed' = owed \ {<<o, "modify">>}
          /\ Finish(t)
          /\ UNCHANGED <<venue, status, fills, unsure>>

---------------------------------------------------------------------------
(* Cancel: _cancel_order, _withdraw, _clear_leg.                           *)

\* Mutant: every order is withdrawn by its ticket, a leg by the entry's.
CancelOrderByTicket(t, o) ==
    /\ status[o] = "ACCEPTED" /\ <<o, "cancel">> \notin owed
    /\ owed' = owed \cup {<<o, "cancel">>}
    /\ Start(t, "cancel", o, 0, "withdraw", "cancel", NoRow)
    /\ UNCHANGED <<venue, status, shown, fills, unsure>>

\* A leg is cleared on the position, an entry withdrawn by its ticket.
CancelOrder(t, o) ==
    /\ status[o] = "ACCEPTED" /\ <<o, "cancel">> \notin owed
    /\ owed' = owed \cup {<<o, "cancel">>}
    /\ IF o[2] = "E" THEN Start(t, "cancel", o, 0, "withdraw", "cancel", NoRow)
                     ELSE Start(t, "cancel", o, 0, "resting", "pending", NoRow)
    /\ UNCHANGED <<venue, status, shown, fills, unsure>>

\* No open position: the leg is announced cancelled.  Otherwise its side is
\* zeroed and the other one sent back as it was read.
ClearSends(t) ==
    /\ Answered(t, "held") /\ task[t].op = "cancel"
    /\ \/ task[t].answer = "raised" /\ RefuseUnsent(t)
       \/ task[t].answer # "raised" /\ task[t].rows = {} /\ Cancelled(t)
       \/ /\ \E row \in task[t].rows : Await(t, "cleared", "modify", Completed(task[t].o, 0, row))
          /\ UNCHANGED <<venue, status, shown, fills, owed, unsure>>

\* Mutant: the answer to the modify is not looked at.
ClearSentUnchecked(t) == Answered(t, "cleared") /\ Cancelled(t)

ClearSent(t) ==
    /\ Answered(t, "cleared")
    /\ \/ task[t].answer # "done" /\ RefuseSent(t)
       \/ task[t].answer = "done" /\ Cancelled(t)

WithdrawSent(t) ==
    /\ Answered(t, "withdraw")
    /\ \/ task[t].answer = "raised" /\ RefuseSent(t)
       \/ /\ task[t].answer # "raised"
          /\ AwaitNoting(t, "listing", "pending", NoRow, task[t].answer)
          /\ UNCHANGED <<venue, status, shown, fills, owed, unsure>>

\* Mutant: gone from the listing is read as cancelled.
WithdrawListedByAbsence(t) ==
    /\ Answered(t, "listing")
    /\ \/ task[t].rows = {} /\ Cancelled(t)
       \/ task[t].rows # {} /\ RefuseSent(t)

\* Confirmed and not resting is a cancel; the terminal's own DONE outweighs an
\* unreadable listing.  Unconfirmed and not resting asks the deals.
WithdrawListed(t) ==
    LET confirmed == task[t].note = "done" IN
    /\ Answered(t, "listing")
    /\ \/ task[t].rows = {} /\ confirmed /\ Cancelled(t)
       \/ (task[t].rows # {} \/ (task[t].answer = "raised" /\ ~confirmed)) /\ RefuseSent(t)
       \/ /\ task[t].rows = {} /\ task[t].answer # "raised" /\ ~confirmed
          /\ Await(t, "history", "deals", NoRow)
          /\ UNCHANGED <<venue, status, shown, fills, owed, unsure>>

\* Only a deal is evidence of a fill.
WithdrawSettled(t) ==
    LET o == task[t].o IN
    /\ Answered(t, "history")
    /\ \/ task[t].rows = {} /\ RefuseSent(t)
       \/ /\ task[t].rows # {}
          /\ Filled(o, "deal")
          /\ owed' = owed \ {<<o, "cancel">>}
          /\ Finish(t)
          /\ UNCHANGED <<venue, shown, unsure>>

(* _cancel_all_orders: the resting orders of this desk, by the listing.  One *)
(* the cache knows is withdrawn, with its event; one it does not know (its   *)
(* acceptance never arrived) is cancelled at the terminal and no more.       *)
CancelAll(t, b) ==
    /\ Start(t, "cancel", <<b, "E">>, 0, "sweep", "pending", NoRow)
    /\ UNCHANGED <<venue, status, shown, fills, owed, unsure>>

Known(o) == status[o] \in {"ACCEPTED", "CANCELED", "FILLED"}

Swept(t) ==
    /\ Answered(t, "sweep")
    /\ \/ task[t].rows = {} /\ Finish(t)
       \/ /\ task[t].rows # {}
          /\ Await(t, IF Known(task[t].o) THEN "withdraw" ELSE "stray", "cancel", NoRow)
    /\ UNCHANGED <<venue, status, shown, fills, owed, unsure>>

StrayCancelled(t) ==
    /\ Answered(t, "stray")
    /\ Finish(t)
    /\ UNCHANGED <<venue, status, shown, fills, owed, unsure>>

---------------------------------------------------------------------------
Resume(t) ==
    \/ PlaceAnswered(t) \/ ProtectBefore(t) \/ ProtectSent(t) \/ ProtectAfter(t) \/ PlacePriced(t)
    \/ RefuseUnplaced(t)
    \/ Located(t) \/ ModifySends(t) \/ ModifySent(t) \/ ModifyVerified(t)
    \/ ClearSends(t) \/ ClearSent(t)
    \/ WithdrawSent(t) \/ WithdrawListed(t) \/ WithdrawSettled(t)
    \/ Swept(t) \/ StrayCancelled(t)

Command(t) ==
    \/ \E b \in Brackets : SubmitBracket(t, b)
    \/ \E o \in Orders, p \in Prices : ModifyOrder(t, o, p)
    \/ \E o \in Orders : CancelOrder(t, o)
    \/ \E o \in Orders, k \in {"modify", "cancel"} : CommandUnplaced(t, o, k)
    \/ \E b \in Brackets : CancelAll(t, b)

Next ==
    \/ \E t \in Tasks : Command(t) \/ Serve(t) \/ Resume(t)
    \/ \E b \in Brackets : BrokerMoves(b) \/ RefuseBracket(b)

Spec == Init /\ [][Next]_vars

\* A bridge call returns or times out, and asyncio runs a ready task.
LiveSpec == Spec /\ \A t \in Tasks : WF_vars(Serve(t) \/ Resume(t))

---------------------------------------------------------------------------
(* Type invariant of the model (no code behaviour of its own).             *)
TypeOK ==
    /\ venue \in [Brackets -> VenueRow]
    /\ status \in [Orders -> Status]
    /\ shown \in [Orders -> Levels]
    /\ fills \in [Orders -> SUBSET {"deal", "ticket"}]
    /\ owed \subseteq Orders \X {"modify", "cancel"}
    /\ unsure \subseteq Brackets
    /\ task \in [Tasks -> Task]

(* A fill is never fabricated: only an entry is ever reported filled, and   *)
(* only when the broker has a deal for its ticket.  (_place, _withdraw and  *)
(* the leg ids of _leg_id; a leg sent to the cancel route would find the    *)
(* entry's own opening deal.)                                               *)
NoFabricatedFill ==
    \A o \in Orders : fills[o] # {} \/ status[o] = "FILLED" => o[2] = "E" /\ Traded(o[1])

(* An entry announced cancelled is off the book and never traded, whatever  *)
(* replies were lost and whatever the broker did during the cancel.         *)
CanceledEntryIsGone ==
    \A b \in Brackets : status[<<b, "E">>] = "CANCELED" => venue[b].at = "gone"

(* Every path of a modify or a cancel ends in an event: no order waits for  *)
(* an answer that no task is working on.                                    *)
OwedHasATask ==
    \A w \in owed : \E t \in Tasks : task[t].op = w[2] /\ task[t].o = w[1]

(* Two paths can report one fill (the deals read for an unpriced reply, and *)
(* a withdraw that finds the deal): they carry the same trade id, so the    *)
(* engine counts the deal once.                                             *)
FilledOnce == \A o \in Orders : \A i, j \in fills[o] : i = j

(* A leg of a market bracket answered DONE is reported live only if the     *)
(* position carries it: _protect's verdict against the terminal's book.     *)
NoNakedClaim ==
    [][\A b \in Brackets, l \in {"SL", "TP"} :
        /\ status[<<b, l>>] = "SUBMITTED" /\ status'[<<b, l>>] = "ACCEPTED"
        /\ venue[b].at \in {"fresh", "open"}
        => First = IF l = "SL" THEN venue[b].sl ELSE venue[b].tp]_vars

(* While the engine holds the stop live and has not asked to cancel it, no  *)
(* command takes the stop off the position: a target-only modify fills the  *)
(* side it leaves out, it never sends zero.                                 *)
StopNeverStripped ==
    [][\A b \in Brackets :
        /\ status[<<b, "SL">>] = "ACCEPTED" /\ <<<<b, "SL">>, "cancel">> \notin owed
        /\ venue[b].at = "open" /\ venue[b].sl # 0
        /\ venue'[b].at = "open"
        => venue'[b].sl # 0]_vars

Busy(b) == \E t \in Tasks : task[t].op # "idle" /\ task[t].o[1] = b

(* With nothing in flight, and unless a refused command left it in doubt,   *)
(* a leg the engine holds live is on the position at the level shown: a     *)
(* modify or a clear of one side never undoes what was done to the other.   *)
AcceptedLegIsHeld ==
    \A b \in Brackets, l \in {"SL", "TP"} :
        /\ venue[b].at = "open" /\ ~Busy(b) /\ b \notin unsure
        /\ status[<<b, l>>] = "ACCEPTED"
        => shown[<<b, l>>] = IF l = "SL" THEN venue[b].sl ELSE venue[b].tp

(* And a leg announced cancelled is not on the position: _clear_leg zeroed  *)
(* its field, or the position was gone and the leg with it.                 *)
CanceledLegIsGone ==
    \A b \in Brackets, l \in {"SL", "TP"} :
        /\ venue[b].at = "open" /\ ~Busy(b) /\ b \notin unsure
        /\ status[<<b, l>>] = "CANCELED"
        => 0 = IF l = "SL" THEN venue[b].sl ELSE venue[b].tp

(* Every modify and every cancel is answered, however the bridge fails.     *)
EveryCommandAnswered ==
    \A o \in Orders, k \in {"modify", "cancel"} : <<o, k>> \in owed ~> <<o, k>> \notin owed

(* A bracket the terminal answered for does not stay SUBMITTED, whatever is  *)
(* then unreadable: only an order whose reply never came is left in doubt.   *)
NoLimbo ==
    \A t \in Tasks, b \in Brackets :
        Answered(t, "answer") /\ task[t].op = "place" /\ task[t].o[1] = b /\ task[t].answer # "raised"
            ~> \A l \in Legs : status[<<b, l>>] # "SUBMITTED"
=============================================================================
