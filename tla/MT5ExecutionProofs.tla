------------------------ MODULE MT5ExecutionProofs ------------------------
(* Theorems about MT5Execution, for any brackets, tasks, prices and faults. *)
EXTENDS MT5Execution, TLAPS

(* What a bracket's orders are, and that the levels the code sends are levels. *)
LEMMA Domains ==
    /\ Orders # {}
    /\ \A b \in Brackets, l \in Legs : <<b, l>> \in Orders
    /\ \A o \in Orders : o[1] \in Brackets /\ o[2] \in Legs /\ o = <<o[1], o[2]>>
    /\ First \in Levels /\ 0 \in Levels /\ \A p \in Prices : p \in Levels
<1>1. \A b \in Brackets, l \in Legs : <<b, l>> \in Orders
  BY DEF Orders
<1>2. Orders # {}
  BY <1>1, ConstantsAssumption DEF Legs
<1>3. \A o \in Orders : o[1] \in Brackets /\ o[2] \in Legs /\ o = <<o[1], o[2]>>
  BY DEF Orders
<1>4. First \in Levels /\ 0 \in Levels /\ \A p \in Prices : p \in Levels
  BY ConstantsAssumption DEF Levels
<1> QED BY <1>1, <1>2, <1>3, <1>4

(* The rows a handler sends and the idle task are of the type of a task's fields. *)
LEMMA Rows ==
    /\ NoRow \in Row /\ Asked \in Row /\ Idle \in Task
    /\ \A p \in Levels : [NoRow EXCEPT !.px = p] \in Row
    /\ \A o \in Orders, p \in Levels, row \in Row : Completed(o, p, row) \in Row
<1>1. NoRow \in Row /\ Asked \in Row
  BY Domains DEF NoRow, Asked, Row
<1>2. Idle \in Task
  BY <1>1, Domains DEF Idle, Task, Stages, Calls, Answers
<1>3. \A p \in Levels : [NoRow EXCEPT !.px = p] \in Row
  BY Domains DEF NoRow, Row
<1>4. \A o \in Orders, p \in Levels, row \in Row : Completed(o, p, row) \in Row
  BY DEF Completed, Row
<1> QED BY <1>1, <1>2, <1>3, <1>4

(* TypeOK without the tasks, and the tasks alone: no action needs both. *)
BookOK ==
    /\ venue \in [Brackets -> VenueRow]
    /\ status \in [Orders -> Status]
    /\ shown \in [Orders -> Levels]
    /\ fills \in [Orders -> SUBSET {"deal", "ticket"}]
    /\ owed \subseteq Orders \X {"modify", "cancel"}
    /\ unsure \subseteq Brackets
TasksOK == task \in [Tasks -> Task]

(* An answer of the bridge leaves a task that a handler can read. *)
LEMMA ReplyType ==
    ASSUME TasksOK, NEW t \in Tasks, NEW a \in Answers, NEW rows \in SUBSET Row,
           Reply(t, a, rows)
    PROVE  TasksOK'
  BY DEF TasksOK, Task, Reply

(* Awaiting the next call keeps the type of the tasks. *)
LEMMA AwaitType ==
    ASSUME TasksOK, NEW t \in Tasks, NEW stage \in Stages, NEW call \in Calls,
           NEW send \in Row, Await(t, stage, call, send)
    PROVE  TasksOK'
<1>1. task[t] \in Task
  BY DEF TasksOK
<1>2. [task[t] EXCEPT !.stage = stage, !.call = call, !.send = send,
                      !.answer = "none", !.rows = {}] \in Task
  BY <1>1 DEF Task, Answers
<1> QED BY <1>2 DEF TasksOK, Await

(* So does awaiting it with the last answer remembered. *)
LEMMA AwaitNotingType ==
    ASSUME TasksOK, NEW t \in Tasks, NEW stage \in Stages, NEW call \in Calls,
           NEW send \in Row, NEW note \in Answers, AwaitNoting(t, stage, call, send, note)
    PROVE  TasksOK'
<1>1. task[t] \in Task
  BY DEF TasksOK
<1>2. [task[t] EXCEPT !.stage = stage, !.call = call, !.send = send,
                      !.answer = "none", !.rows = {}, !.note = note] \in Task
  BY <1>1 DEF Task, Answers
<1> QED BY <1>2 DEF TasksOK, AwaitNoting

(* A handler that returns leaves an idle task. *)
LEMMA FinishType ==
    ASSUME TasksOK, NEW t \in Tasks, Finish(t)
    PROVE  TasksOK'
  BY Rows DEF TasksOK, Finish

(* A command starts a task of the right type. *)
LEMMA StartType ==
    ASSUME TasksOK, NEW t \in Tasks, NEW op \in {"place", "modify", "cancel"},
           NEW o \in Orders, NEW arg \in Levels, NEW stage \in Stages, NEW call \in Calls,
           NEW send \in Row, Start(t, op, o, arg, stage, call, send)
    PROVE  TasksOK'
  BY DEF TasksOK, Task, Start, Answers

(* The parts of a task, for the steps that use only some of them. *)
LEMMA TaskFields ==
    ASSUME TasksOK, NEW t \in Tasks
    PROVE  /\ task[t].o \in Orders /\ task[t].o[1] \in Brackets
           /\ task[t].rows \in SUBSET Row /\ task[t].seen \in SUBSET Row
           /\ task[t].send \in Row /\ task[t].arg \in Levels
           /\ task[t].answer \in Answers /\ task[t].note \in Answers
  BY Domains DEF TasksOK, Task

(* Events to the engine leave every order with a status it has. *)
LEMMA Statuses ==
    ASSUME status \in [Orders -> Status]
    PROVE  /\ \A os : \A to \in Status : Move(os, to) \in [Orders -> Status]
           /\ \A b : \A naked : Judged(b, naked) \in [Orders -> Status]
  BY DEF Move, Judged, Status, Closed

(* OrderFilled keeps the statuses and the trade ids typed. *)
LEMMA FilledType ==
    ASSUME BookOK, NEW o \in Orders, NEW id \in {"deal", "ticket"}, Filled(o, id)
    PROVE  /\ status' \in [Orders -> Status]
           /\ fills' \in [Orders -> SUBSET {"deal", "ticket"}]
<1>1. status' \in [Orders -> Status]
  BY Statuses DEF BookOK, Filled, Status, Closed, Move
<1>2. fills' \in [Orders -> SUBSET {"deal", "ticket"}]
  BY DEF BookOK, Filled
<1> QED BY <1>1, <1>2

(* OrderModifyRejected and OrderCancelRejected keep the types. *)
LEMMA RefuseType ==
    ASSUME BookOK, TasksOK, NEW t \in Tasks, RefuseUnsent(t) \/ RefuseSent(t)
    PROVE  BookOK' /\ TasksOK'
<1>1. TasksOK'
  BY FinishType DEF RefuseUnsent, RefuseSent, Refuse
<1>2. BookOK'
  BY TaskFields DEF RefuseUnsent, RefuseSent, Refuse, BookOK
<1> QED BY <1>1, <1>2

(* OrderCanceled keeps the types. *)
LEMMA CancelledType ==
    ASSUME BookOK, TasksOK, NEW t \in Tasks, Cancelled(t)
    PROVE  BookOK' /\ TasksOK'
<1>1. TasksOK'
  BY FinishType DEF Cancelled
<1>2. BookOK'
  BY Statuses DEF Cancelled, BookOK, Status, Closed
<1> QED BY <1>1, <1>2

(* _report_legs and the fill after it keep the types. *)
LEMMA ReportType ==
    ASSUME BookOK, TasksOK, NEW t \in Tasks, NEW naked, NEW a \in Answers, Report(t, naked, a)
    PROVE  BookOK' /\ TasksOK'
<1>0. task[t].o[1] \in Brackets /\ NoRow \in Row /\ "price" \in Stages /\ "deals" \in Calls
  BY TaskFields, Rows DEF Stages, Calls
<1>1. TasksOK'
  BY <1>0, AwaitType, FinishType DEF Report
<1>2. status' \in [Orders -> Status]
  <2> DEFINE judged == Judged(task[t].o[1], naked)
  <2>1. judged \in [Orders -> Status]
    BY Statuses DEF BookOK
  <2>2. \A e : [judged EXCEPT ![e] = IF @ \in Closed THEN @ ELSE "FILLED"] \in [Orders -> Status]
    BY <2>1 DEF Status, Closed
  <2> QED BY <2>1, <2>2 DEF Report
<1>3. fills' \in [Orders -> SUBSET {"deal", "ticket"}]
  BY <1>0 DEF BookOK, Report
<1> QED BY <1>1, <1>2, <1>3 DEF BookOK, Report

(* A write at the terminal keeps its book typed, applied or not. *)
LEMMA WrittenType ==
    ASSUME BookOK, TasksOK, NEW t \in Tasks, NEW applies, NEW row \in VenueRow,
           Written(t, applies, row)
    PROVE  BookOK' /\ TasksOK'
<1>1. PICK a \in Answers : Reply(t, a, {})
  BY DEF Written, Answers
<1>2. TasksOK'
  BY <1>1, ReplyType
<1>3. venue' \in [Brackets -> VenueRow]
  BY DEF Written, BookOK
<1> QED BY <1>2, <1>3 DEF Written, BookOK

(* The position a deal opens is a row of the book. *)
LEMMA OpenedType ==
    ASSUME BookOK, NEW b \in Brackets, NEW row \in Row, Opened(b, row) \/ Rested(b, row)
    PROVE  venue' \in [Brackets -> VenueRow]
<1>1. \A at \in Place, sl \in {row.sl, 0}, tp \in {row.tp, 0} :
        [at |-> at, px |-> row.px, sl |-> sl, tp |-> tp] \in VenueRow
  BY Domains DEF Row, VenueRow
<1>2. PICK at \in Place, sl \in {row.sl, 0}, tp \in {row.tp, 0} :
        venue' = [venue EXCEPT ![b] = [at |-> at, px |-> row.px, sl |-> sl, tp |-> tp]]
  BY DEF Opened, Rested, Place
<1> QED BY <1>1, <1>2 DEF BookOK

(* What a listing shows of a bracket is a row. *)
LEMMA RowOfType ==
    ASSUME BookOK, NEW b \in Brackets
    PROVE  RowOf(b) \in Row
  BY DEF BookOK, VenueRow, Row, RowOf

(* Every call the terminal serves keeps the types. *)
LEMMA ServeType ==
    ASSUME TypeOK, NEW t \in Tasks, Serve(t)
    PROVE  TypeOK'
<1> USE DEF TypeOK
<1>0. BookOK /\ TasksOK
  BY DEF BookOK, TasksOK
<1> SUFFICES BookOK' /\ TasksOK'
  BY DEF BookOK, TasksOK
<1> DEFINE b == task[t].o[1]
<1>f. b \in Brackets /\ task[t].send \in Row /\ venue[b] \in VenueRow
  BY <1>0, TaskFields DEF BookOK
<1>1. CASE TakeOrder(t)
  <2>1. PICK a \in Answers : Reply(t, a, {})
    BY <1>1 DEF TakeOrder, Answers
  <2>2. TasksOK'
    BY <1>0, <2>1, ReplyType
  <2>3. venue' \in [Brackets -> VenueRow]
    BY <1>0, <1>1, <1>f, OpenedType DEF TakeOrder
  <2> QED BY <1>1, <2>2, <2>3 DEF TakeOrder, BookOK
<1>2. CASE TakeModify(t)
  <2> DEFINE new == [venue[b] EXCEPT !.sl = task[t].send.sl, !.tp = task[t].send.tp]
  <2>1. new \in VenueRow
    BY <1>f DEF VenueRow, Row
  <2>2. CASE \E applies : Written(t, applies, new)
    BY <1>0, <2>1, <2>2, WrittenType
  <2>3. CASE Reply(t, "done", {}) /\ UNCHANGED <<venue, status, shown, fills, owed, unsure>>
    BY <1>0, <2>3, ReplyType DEF BookOK, Answers
  <2> QED BY <1>2, <2>2, <2>3 DEF TakeModify
<1>3. CASE TakeMove(t)
  <2> DEFINE new == [venue[b] EXCEPT !.px = task[t].send.px]
  <2>1. new \in VenueRow
    BY <1>f DEF VenueRow, Row
  <2> QED BY <1>0, <1>3, <2>1, WrittenType DEF TakeMove
<1>4. CASE TakeCancel(t)
  <2> DEFINE new == [venue[b] EXCEPT !.at = "gone"]
  <2>1. new \in VenueRow
    BY <1>f DEF VenueRow, Place
  <2> QED BY <1>0, <1>4, <2>1, WrittenType DEF TakeCancel
<1>5. CASE ListPositions(t) \/ ListPending(t) \/ ListDeals(t)
  <2>1. PICK a \in Answers, rows \in SUBSET Row : Reply(t, a, rows)
    BY <1>0, <1>5, <1>f, RowOfType DEF ListPositions, ListPending, ListDeals, Listing, Answers
  <2>2. TasksOK'
    BY <1>0, <2>1, ReplyType
  <2> QED BY <1>5, <2>2 DEF ListPositions, ListPending, ListDeals, Listing, BookOK
<1> QED BY <1>1, <1>2, <1>3, <1>4, <1>5 DEF Serve

(* What the broker does by itself, and a bracket refused unsent, keep the types. *)
LEMMA BrokerType ==
    ASSUME TypeOK, NEW b \in Brackets, BrokerMoves(b) \/ RefuseBracket(b)
    PROVE  TypeOK'
<1>0. BookOK
  BY DEF TypeOK, BookOK
<1>1. CASE RefuseBracket(b)
  BY <1>1, Statuses DEF TypeOK, RefuseBracket, Status, Closed
<1>2. CASE BrokerMoves(b)
  <2>1. venue' \in [Brackets -> VenueRow]
    <3>1. \A at \in Place : [venue[b] EXCEPT !.at = at] \in VenueRow
      BY <1>0 DEF BookOK, VenueRow
    <3>2. CASE Opened(b, RowOf(b))
      BY <3>2, <1>0, OpenedType, RowOfType
    <3>3. CASE \E at \in Place : venue' = [venue EXCEPT ![b].at = at]
      BY <3>1, <3>3, <1>0 DEF BookOK
    <3> QED BY <1>2, <3>2, <3>3 DEF BrokerMoves, Place
  <2> QED BY <1>2, <2>1 DEF TypeOK, BrokerMoves
<1> QED BY <1>1, <1>2

(* Every command that starts keeps the types. *)
LEMMA CommandType ==
    ASSUME TypeOK, NEW t \in Tasks, Command(t)
    PROVE  TypeOK'
<1>0. BookOK /\ TasksOK
  BY DEF TypeOK, BookOK, TasksOK
<1> SUFFICES BookOK' /\ TasksOK'
  BY DEF TypeOK, BookOK, TasksOK
<1>1. CASE \E b \in Brackets : SubmitBracket(t, b)
  <2>1. PICK b \in Brackets : SubmitBracket(t, b)
    BY <1>1
  <2>2. TasksOK'
    BY <1>0, <2>1, StartType, Domains, Rows DEF SubmitBracket, Legs, Stages, Calls
  <2> QED BY <1>0, <2>1, <2>2, Statuses DEF SubmitBracket, BookOK, Status
<1>2. CASE \E o \in Orders, p \in Prices : ModifyOrder(t, o, p)
  <2>1. PICK o \in Orders, p \in Prices : ModifyOrder(t, o, p)
    BY <1>2
  <2>2. TasksOK'
    BY <1>0, <2>1, StartType, Domains, Rows DEF ModifyOrder, Stages, Calls
  <2> QED BY <1>0, <2>1, <2>2 DEF ModifyOrder, BookOK
<1>3. CASE \E o \in Orders : CancelOrder(t, o)
  <2>1. PICK o \in Orders : CancelOrder(t, o)
    BY <1>3
  <2>2. TasksOK'
    BY <1>0, <2>1, StartType, Domains, Rows DEF CancelOrder, Stages, Calls
  <2> QED BY <1>0, <2>1, <2>2 DEF CancelOrder, BookOK
<1>4. CASE \E b \in Brackets : CancelAll(t, b)
  <2>1. PICK b \in Brackets : CancelAll(t, b)
    BY <1>4
  <2>2. TasksOK'
    BY <1>0, <2>1, StartType, Domains, Rows DEF CancelAll, Legs, Stages, Calls
  <2> QED BY <1>0, <2>1, <2>2 DEF CancelAll, BookOK
<1>5. CASE \E o \in Orders, j \in {"modify", "cancel"} : CommandUnplaced(t, o, j)
  <2>1. PICK o \in Orders, j \in {"modify", "cancel"} : CommandUnplaced(t, o, j)
    BY <1>5
  <2>2. TasksOK'
    BY <1>0, <2>1, StartType, Domains, Rows DEF CommandUnplaced, Stages, Calls
  <2> QED BY <1>0, <2>1, <2>2 DEF CommandUnplaced, BookOK
<1> QED BY <1>1, <1>2, <1>3, <1>4, <1>5 DEF Command

(* Every step of a submit keeps the types. *)
LEMMA PlaceType ==
    ASSUME TypeOK, NEW t \in Tasks,
           \/ PlaceAnswered(t) \/ ProtectBefore(t) \/ ProtectSent(t) \/ ProtectAfter(t)
           \/ PlacePriced(t)
    PROVE  TypeOK'
<1>0. BookOK /\ TasksOK
  BY DEF TypeOK, BookOK, TasksOK
<1> SUFFICES BookOK' /\ TasksOK'
  BY DEF TypeOK, BookOK, TasksOK
<1>f. task[t].o \in Orders /\ task[t].note \in Answers /\ task[t].answer \in Answers
  BY <1>0, TaskFields
<1>s. /\ {"answer", "before", "protect", "after", "price"} \subseteq Stages
      /\ {"positions", "modify", "deals"} \subseteq Calls
      /\ Asked \in Row /\ NoRow \in Row
      /\ {"done", "nodeal", "unpriced"} \subseteq Answers
      /\ {"ACCEPTED", "REJECTED"} \subseteq Status
  BY Rows DEF Stages, Calls, Answers, Status, Closed
<1>1. CASE PlaceAnswered(t)
  <2>1. TasksOK'
    BY <1>0, <1>1, <1>f, <1>s, AwaitNotingType, FinishType DEF PlaceAnswered
  <2>2. status' \in [Orders -> Status]
    BY <1>0, <1>1, <1>s, Statuses DEF PlaceAnswered, BookOK
  <2> QED BY <1>0, <1>1, <2>1, <2>2 DEF PlaceAnswered, BookOK
<1>2. CASE ProtectBefore(t)
  BY <1>0, <1>2, <1>f, <1>s, ReportType, AwaitType DEF ProtectBefore, BookOK
<1>3. CASE ProtectSent(t)
  <2>1. task[t] \in Task
    BY <1>0 DEF TasksOK
  <2>2. \A seen \in SUBSET Row :
          [task[t] EXCEPT !.stage = "after", !.call = "positions", !.answer = "none",
                          !.seen = seen] \in Task
    BY <2>1, <1>s DEF Task, Answers
  <2>3. TasksOK'
    BY <1>0, <1>3, <2>2, <1>s DEF ProtectSent, TasksOK
  <2> QED BY <1>0, <1>3, <2>3 DEF ProtectSent, BookOK
<1>4. CASE ProtectAfter(t)
  BY <1>0, <1>4, <1>f, ReportType DEF ProtectAfter
<1>5. CASE PlacePriced(t)
  BY <1>0, <1>5, <1>f, FinishType, FilledType DEF PlacePriced, BookOK
<1> QED BY <1>1, <1>2, <1>3, <1>4, <1>5

(* The refusal of a command without a venue id keeps the types. *)
LEMMA UnplacedType ==
    ASSUME TypeOK, NEW t \in Tasks, RefuseUnplaced(t)
    PROVE  TypeOK'
BY RefuseType DEF RefuseUnplaced, TypeOK, BookOK, TasksOK

(* Every step of a modify keeps the types. *)
LEMMA ModifyType ==
    ASSUME TypeOK, NEW t \in Tasks,
           Located(t) \/ ModifySends(t) \/ ModifySent(t) \/ ModifyVerified(t)
    PROVE  TypeOK'
<1>0. BookOK /\ TasksOK
  BY DEF TypeOK, BookOK, TasksOK
<1> SUFFICES BookOK' /\ TasksOK'
  BY DEF TypeOK, BookOK, TasksOK
<1>f. /\ task[t].o \in Orders /\ task[t].arg \in Levels /\ task[t].send \in Row
      /\ task[t].rows \in SUBSET Row
  BY <1>0, TaskFields
<1>s. /\ {"resting", "held", "sent", "verify"} \subseteq Stages
      /\ {"positions", "pending", "modify", "move"} \subseteq Calls
  BY DEF Stages, Calls
<1>1. CASE Located(t)
  <2>1. CASE RefuseUnsent(t)
    BY <1>0, <2>1, RefuseType
  <2>2. CASE ~RefuseUnsent(t)
    <3>1. [task[t] EXCEPT !.stage = "held", !.call = "positions", !.answer = "none", !.rows = {},
                          !.seen = task[t].rows] \in Task
      BY <1>0, <1>s, <1>f DEF TasksOK, Task, Answers
    <3>2. TasksOK'
      BY <1>0, <1>1, <2>2, <3>1 DEF Located, TasksOK
    <3> QED BY <1>0, <1>1, <2>2, <3>2 DEF Located, BookOK
  <2> QED BY <2>1, <2>2
<1>2. CASE ModifySends(t)
  <2>1. CASE RefuseUnsent(t)
    BY <1>0, <2>1, RefuseType
  <2>2. CASE ~RefuseUnsent(t)
    <3>1. TasksOK'
      BY <1>0, <1>2, <1>f, <1>s, <2>2, Rows, AwaitType DEF ModifySends
    <3> QED BY <1>0, <1>2, <2>2, <3>1 DEF ModifySends, BookOK
  <2> QED BY <2>1, <2>2
<1>3. CASE ModifySent(t)
  BY <1>0, <1>3, <1>f, <1>s, RefuseType, AwaitType DEF ModifySent, BookOK
<1>4. CASE ModifyVerified(t)
  <2>1. CASE RefuseSent(t)
    BY <1>0, <2>1, RefuseType
  <2>2. CASE ~RefuseSent(t)
    BY <1>0, <1>4, <1>f, <2>2, FinishType DEF ModifyVerified, BookOK
  <2> QED BY <2>1, <2>2
<1> QED BY <1>1, <1>2, <1>3, <1>4

(* Every step of a cancel, of a leg, an entry or a desk, keeps the types. *)
LEMMA CancelType ==
    ASSUME TypeOK, NEW t \in Tasks,
           \/ ClearSends(t) \/ ClearSent(t)
           \/ WithdrawSent(t) \/ WithdrawListed(t) \/ WithdrawSettled(t)
           \/ Swept(t) \/ StrayCancelled(t)
    PROVE  TypeOK'
<1>0. BookOK /\ TasksOK
  BY DEF TypeOK, BookOK, TasksOK
<1> SUFFICES BookOK' /\ TasksOK'
  BY DEF TypeOK, BookOK, TasksOK
<1>f. /\ task[t].o \in Orders /\ task[t].rows \in SUBSET Row /\ task[t].answer \in Answers
  BY <1>0, TaskFields
<1>s. /\ {"cleared", "listing", "history", "withdraw", "stray"} \subseteq Stages
      /\ {"pending", "modify", "deals", "cancel"} \subseteq Calls
      /\ NoRow \in Row
  BY Rows DEF Stages, Calls
<1>1. CASE ClearSends(t)
  <2>1. CASE RefuseUnsent(t) \/ Cancelled(t)
    BY <1>0, <2>1, RefuseType, CancelledType
  <2>2. CASE ~(RefuseUnsent(t) \/ Cancelled(t))
    <3>1. \A row \in task[t].rows : Completed(task[t].o, 0, row) \in Row
      BY <1>f, Rows, Domains
    <3>2. TasksOK'
      BY <1>0, <1>1, <1>s, <2>2, <3>1, AwaitType DEF ClearSends
    <3> QED BY <1>0, <1>1, <2>2, <3>2 DEF ClearSends, BookOK
  <2> QED BY <2>1, <2>2
<1>2. CASE ClearSent(t)
  BY <1>0, <1>2, RefuseType, CancelledType DEF ClearSent
<1>3. CASE WithdrawSent(t)
  BY <1>0, <1>3, <1>f, <1>s, RefuseType, AwaitNotingType DEF WithdrawSent, BookOK
<1>4. CASE WithdrawListed(t)
  BY <1>0, <1>4, <1>f, <1>s, RefuseType, CancelledType, AwaitType DEF WithdrawListed, BookOK
<1>5. CASE WithdrawSettled(t)
  BY <1>0, <1>5, <1>f, RefuseType, FinishType, FilledType DEF WithdrawSettled, BookOK
<1>6. CASE Swept(t)
  BY <1>0, <1>6, <1>s, FinishType, AwaitType DEF Swept, BookOK
<1>7. CASE StrayCancelled(t)
  BY <1>0, <1>7, FinishType DEF StrayCancelled, BookOK
<1> QED BY <1>1, <1>2, <1>3, <1>4, <1>5, <1>6, <1>7

(* Whatever the terminal and the bridge answer, no handler reaches a state  *)
(* outside the types of its module.                                         *)
THEOREM TypeCorrect == Spec => []TypeOK
<1>1. Init => TypeOK
  BY Domains, Rows DEF Init, TypeOK, VenueRow, Place, Status
<1>2. TypeOK /\ [Next]_vars => TypeOK'
  <2> SUFFICES ASSUME TypeOK, [Next]_vars PROVE TypeOK'
    OBVIOUS
  <2>1. CASE UNCHANGED vars
    BY <2>1 DEF vars, TypeOK
  <2>2. CASE Next
    BY <2>2, CommandType, ServeType, BrokerType, PlaceType, UnplacedType, ModifyType, CancelType
       DEF Next, Resume
  <2> QED BY <2>1, <2>2
<1> QED BY <1>1, <1>2, PTL DEF Spec

---------------------------------------------------------------------------
(* The inductive invariant.  A task is where its command can be, what it    *)
(* has read of the broker is still so, and a bracket is placed once.        *)

\* The awaits of a command of each kind, with the call each one makes.
PlaceSteps == {<<"answer", "order">>, <<"before", "positions">>, <<"protect", "modify">>,
               <<"after", "positions">>, <<"price", "deals">>}
ModifySteps == {<<"resting", "pending">>, <<"held", "positions">>, <<"sent", "move">>,
                <<"sent", "modify">>, <<"verify", "pending">>, <<"verify", "positions">>}
ClearSteps == {<<"resting", "pending">>, <<"held", "positions">>, <<"cleared", "modify">>}
WithdrawSteps == {<<"withdraw", "cancel">>, <<"listing", "pending">>, <<"history", "deals">>,
                  <<"sweep", "pending">>, <<"stray", "cancel">>}

OnCourse(k) ==
    \/ k.op = "idle"
    \/ k.op \in {"modify", "cancel"} /\ k.stage = "unplaced" /\ k.call = "none"
    \/ k.op = "place" /\ k.o[2] = "E" /\ <<k.stage, k.call>> \in PlaceSteps
    \/ k.op = "modify" /\ <<k.stage, k.call>> \in ModifySteps
    \/ k.op = "cancel" /\ k.o[2] # "E" /\ <<k.stage, k.call>> \in ClearSteps
    \/ k.op = "cancel" /\ k.o[2] = "E" /\ <<k.stage, k.call>> \in WithdrawSteps

\* What a command has been told and may act on: a trade and a withdrawn order
\* are for ever, so an answer to either cannot go stale.
Evidence(k) ==
    k.op # "idle" =>
        /\ k.call = "deals" /\ k.rows # {} => Traded(k.o[1])
        /\ k.stage = "answer" /\ k.answer = "none" => venue[k.o[1]].at = "none"
        /\ k.stage = "answer" /\ k.answer \in {"done", "nodeal", "unpriced"} /\ k.o[1] \in Markets
           => Traded(k.o[1])
        /\ k.stage \in {"before", "protect", "after"} => Traded(k.o[1])
        /\ k.stage = "withdraw" /\ k.answer = "done" => venue[k.o[1]].at = "gone"
        /\ k.stage = "listing" /\ k.note = "done" => venue[k.o[1]].at = "gone"

TasksSound == \A t \in Tasks : OnCourse(task[t]) /\ Evidence(task[t])

PlacedOnce ==
    /\ \A b \in Brackets : status[<<b, "E">>] = "INITIALIZED"
        => venue[b].at = "none" /\ \A t \in Tasks : ~(task[t].op = "place" /\ task[t].o = <<b, "E">>)
    /\ \A t, u \in Tasks : task[t].op = "place" /\ task[u].op = "place" /\ task[t].o = task[u].o
        => t = u

\* OwedHasATask, with a task that will answer: a sweep has no order to answer for.
Working(k) == k.stage \notin {"sweep", "stray"}
OwedWillBeAnswered ==
    \A w \in owed : \E t \in Tasks : task[t].op = w[2] /\ task[t].o = w[1] /\ Working(task[t])

IInv == /\ TypeOK /\ TasksSound /\ PlacedOnce
        /\ NoFabricatedFill /\ CanceledEntryIsGone /\ OwedWillBeAnswered

\* What no step undoes.
Kept(b) == /\ Traded(b) => Traded(b)'
           /\ venue[b].at = "gone" => venue'[b].at = "gone"

Steps == PlaceSteps \cup ModifySteps \cup ClearSteps \cup WithdrawSteps
ClosedKept == \A o \in Orders : /\ status[o] \in Closed => status'[o] = status[o]
                                /\ status'[o] = "INITIALIZED" => status[o] = "INITIALIZED"

(* An idle task is in no handler and claims nothing. *)
LEMMA IdleOnCourse == OnCourse(Idle) /\ Evidence(Idle) /\ Evidence(Idle)' /\ Idle.op = "idle"
  BY DEF Idle, OnCourse, Evidence

(* One task moves and the others' evidence keeps.                            *)
LEMMA TasksStep ==
    ASSUME IInv, NEW t \in Tasks, NEW k, task' = [task EXCEPT ![t] = k],
           OnCourse(k), Evidence(k)',
           \A u \in Tasks \ {t} : Evidence(task[u])'
    PROVE  TasksSound'
<1>1. task \in [Tasks -> Task]
  BY DEF IInv, TypeOK
<1>2. \A u \in Tasks : task'[u] = IF u = t THEN k ELSE task[u]
  BY <1>1
<1> SUFFICES ASSUME NEW u \in Tasks PROVE OnCourse(task'[u]) /\ Evidence(task[u])'
  BY DEF TasksSound, OnCourse
<1>3. CASE u = t
  BY <1>2, <1>3 DEF Evidence, Traded
<1>4. CASE u # t
  <2>1. task'[u] = task[u]
    BY <1>2, <1>4
  <2> QED BY <1>4, <2>1 DEF IInv, TasksSound, Evidence, Traded
<1> QED BY <1>3, <1>4

(* A handler resumes: the book does not move, and its task goes on with the  *)
(* same command or ends.                                                     *)
LEMMA ResumeStep ==
    ASSUME IInv, NEW t \in Tasks, NEW k, task' = [task EXCEPT ![t] = k], UNCHANGED venue,
           ClosedKept,
           \/ k = Idle
           \/ k.op = task[t].op /\ k.o = task[t].o /\ OnCourse(k) /\ Evidence(k)
    PROVE  TasksSound' /\ PlacedOnce'
<1>1. OnCourse(k) /\ Evidence(k)'
  BY IdleOnCourse DEF Evidence, Traded
<1>2. \A u \in Tasks \ {t} : Evidence(task[u])
  BY DEF IInv, TasksSound
<1>3. TasksSound'
  <2>1. \A u \in Tasks \ {t} : (Evidence(task[u]))'  = Evidence(task'[u])
    BY DEF Evidence, Traded
  <2>2. \A u \in Tasks \ {t} : task'[u] = task[u]
    BY DEF IInv, TypeOK
  <2> QED BY <1>1, <1>2, <2>1, <2>2, TasksStep
<1>4. PlacedOnce'
  <2>1. task \in [Tasks -> Task]
    BY DEF IInv, TypeOK
  <2>2. \A u \in Tasks : /\ task'[u].op = "place" => task[u].op = "place" /\ task'[u].o = task[u].o
    BY <2>1, IdleOnCourse
  <2>3. \A b \in Brackets : <<b, "E">> \in Orders
    BY Domains DEF Legs
  <2> QED BY <2>2, <2>3 DEF IInv, PlacedOnce, ClosedKept
<1> QED BY <1>3, <1>4

(* What is owed keeps its task while that task works, whoever starts anew.   *)
LEMMA OwedKept ==
    ASSUME IInv, NEW t \in Tasks, NEW k, task' = [task EXCEPT ![t] = k], UNCHANGED owed,
           \/ k.op = task[t].op /\ k.o = task[t].o /\ (Working(task[t]) => Working(k))
           \/ task[t].op \notin {"modify", "cancel"} \/ ~Working(task[t])
    PROVE  OwedWillBeAnswered'
<1>1. \A u \in Tasks : task'[u] = IF u = t THEN k ELSE task[u]
  BY DEF IInv, TypeOK
<1> SUFFICES ASSUME NEW w \in owed
             PROVE  \E u \in Tasks : task'[u].op = w[2] /\ task'[u].o = w[1] /\ Working(task'[u])
  BY DEF OwedWillBeAnswered, Working
<1>2. PICK u \in Tasks : task[u].op = w[2] /\ task[u].o = w[1] /\ Working(task[u])
  BY DEF IInv, OwedWillBeAnswered
<1>3. w[2] \in {"modify", "cancel"}
  BY DEF IInv, TypeOK
<1> QED BY <1>1, <1>2, <1>3

(* A task that ends gives the answer it owed.                                *)
LEMMA OwedPaid ==
    ASSUME IInv, NEW t \in Tasks, task' = [task EXCEPT ![t] = Idle],
           owed' = owed \ {<<task[t].o, task[t].op>>}
    PROVE  OwedWillBeAnswered'
<1>1. \A u \in Tasks : u # t => task'[u] = task[u]
  BY DEF IInv, TypeOK
<1> SUFFICES ASSUME NEW w \in owed, w # <<task[t].o, task[t].op>>
             PROVE  \E u \in Tasks : task'[u].op = w[2] /\ task'[u].o = w[1] /\ Working(task'[u])
  BY DEF OwedWillBeAnswered, Working
<1>2. PICK u \in Tasks : task[u].op = w[2] /\ task[u].o = w[1] /\ Working(task[u])
  BY DEF IInv, OwedWillBeAnswered
<1>3. w = <<w[1], w[2]>>
  BY DEF IInv, TypeOK
<1> QED BY <1>1, <1>2, <1>3

(* A refusal answers the command and changes nothing else the invariant reads. *)
LEMMA RefuseStep ==
    ASSUME IInv, NEW t \in Tasks, RefuseUnsent(t) \/ RefuseSent(t)
    PROVE  IInv'
<1>1. TypeOK'
  BY RefuseType DEF IInv, TypeOK, BookOK, TasksOK
<1>2. /\ task' = [task EXCEPT ![t] = Idle] /\ UNCHANGED <<venue, status, fills>>
      /\ owed' = owed \ {<<task[t].o, task[t].op>>}
  BY DEF RefuseUnsent, RefuseSent, Refuse, Finish
<1>3. TasksSound' /\ PlacedOnce'
  BY <1>2, ResumeStep DEF ClosedKept
<1>4. OwedWillBeAnswered'
  BY <1>2, OwedPaid
<1>5. NoFabricatedFill' /\ CanceledEntryIsGone'
  BY <1>2 DEF IInv, NoFabricatedFill, CanceledEntryIsGone, Traded
<1> QED BY <1>1, <1>3, <1>4, <1>5 DEF IInv

(* OrderCanceled keeps the invariant when the entry, if it is one, is off the book. *)
LEMMA CancelledStep ==
    ASSUME IInv, NEW t \in Tasks, Cancelled(t), task[t].op = "cancel",
           task[t].o[2] = "E" => venue[task[t].o[1]].at = "gone"
    PROVE  IInv'
<1>1. TypeOK'
  BY CancelledType DEF IInv, TypeOK, BookOK, TasksOK
<1>2. /\ task' = [task EXCEPT ![t] = Idle] /\ UNCHANGED <<venue, fills>>
      /\ owed' = owed \ {<<task[t].o, task[t].op>>}
      /\ status' = Move({task[t].o}, "CANCELED")
  BY DEF Cancelled, Finish
<1>3. \A o \in Orders : status'[o] = IF o = task[t].o /\ status[o] \notin Closed
                                    THEN "CANCELED" ELSE status[o]
  BY <1>2 DEF Move
<1>4. TasksSound' /\ PlacedOnce'
  <2>1. ClosedKept
    BY <1>3 DEF ClosedKept
  <2> QED BY <1>2, <2>1, ResumeStep
<1>5. OwedWillBeAnswered'
  BY <1>2, OwedPaid
<1>6. NoFabricatedFill'
  BY <1>2, <1>3 DEF IInv, NoFabricatedFill, Traded
<1>7. CanceledEntryIsGone'
  <2>1. \A b \in Brackets : <<b, "E">> \in Orders
    BY Domains DEF Legs
  <2>2. \A b \in Brackets : <<b, "E">> = task[t].o => task[t].o[2] = "E" /\ task[t].o[1] = b
    OBVIOUS
  <2> QED BY <1>2, <1>3, <2>1, <2>2 DEF IInv, CanceledEntryIsGone
<1> QED BY <1>1, <1>4, <1>5, <1>6, <1>7 DEF IInv

(* An entry the broker has traded is reported filled.                        *)
LEMMA FilledStep ==
    ASSUME IInv, NEW t \in Tasks, NEW id \in {"deal", "ticket"}, Filled(task[t].o, id),
           UNCHANGED venue, Finish(t), task[t].o[2] = "E", Traded(task[t].o[1]),
           \/ task[t].op = "place" /\ UNCHANGED owed
           \/ owed' = owed \ {<<task[t].o, task[t].op>>}
    PROVE  /\ TasksSound' /\ PlacedOnce' /\ OwedWillBeAnswered'
           /\ NoFabricatedFill' /\ CanceledEntryIsGone'
<1>1. task' = [task EXCEPT ![t] = Idle]
  BY DEF Finish
<1>2. task[t].o \in Orders /\ fills \in [Orders -> SUBSET {"deal", "ticket"}]
  BY TaskFields DEF IInv, TypeOK, TasksOK
<1>3. \A o \in Orders : /\ status'[o] = IF o = task[t].o /\ status[o] \notin Closed
                                       THEN "FILLED" ELSE status[o]
                        /\ o # task[t].o => fills'[o] = fills[o]
  BY <1>2 DEF Filled, Move
<1>4. ClosedKept
  BY <1>3 DEF ClosedKept
<1>5. TasksSound' /\ PlacedOnce'
  BY <1>1, <1>4, ResumeStep
<1>6. OwedWillBeAnswered'
  BY <1>1, OwedKept, OwedPaid
<1>7. NoFabricatedFill'
  BY <1>3 DEF IInv, NoFabricatedFill, Traded
<1>8. CanceledEntryIsGone'
  BY <1>3, Domains DEF IInv, CanceledEntryIsGone, Legs
<1> QED BY <1>5, <1>6, <1>7, <1>8

(* The terminal serves a call, or the broker moves: what was traded, what is *)
(* gone and, but for the order being served, what was never placed stay so.  *)
LEMMA BookStep ==
    ASSUME IInv, NEW c \in Brackets, NEW at \in Place,
           \A b \in Brackets : venue'[b].at = IF b = c THEN at ELSE venue[b].at,
           at # venue[c].at =>
              /\ venue[c].at # "gone"
              /\ Traded(c) => at \in {"fresh", "open", "closed"}
    PROVE  /\ \A b \in Brackets : Kept(b)
           /\ UNCHANGED <<status, fills>> => NoFabricatedFill' /\ CanceledEntryIsGone'
<1>1. \A b \in Brackets : Kept(b)
  BY DEF Kept, Traded
<1>2. ASSUME UNCHANGED <<status, fills>> PROVE NoFabricatedFill' /\ CanceledEntryIsGone'
  <2>1. \A o \in Orders : o[1] \in Brackets
    BY Domains
  <2>2. NoFabricatedFill'
    BY <1>1, <1>2, <2>1 DEF IInv, NoFabricatedFill, Kept, Traded
  <2>3. CanceledEntryIsGone'
    BY <1>1, <1>2 DEF IInv, CanceledEntryIsGone, Kept
  <2> QED BY <2>2, <2>3
<1> QED BY <1>1, <1>2

\* A call of t is answered; what that leaves of the other tasks' evidence.
LEMMA AnswerStep ==
    ASSUME IInv, NEW t \in Tasks, NEW a \in Answers, NEW rows \in SUBSET Row, Reply(t, a, rows),
           NEW k, k = [task[t] EXCEPT !.answer = a, !.rows = rows], Evidence(k)',
           task[t].op # "idle", UNCHANGED <<status, owed>>,
           \A b \in Brackets : Kept(b),
           \A b \in Brackets : /\ b # task[t].o[1] \/ task[t].call # "order"
                               /\ venue[b].at = "none"
                               => venue'[b].at = "none"
    PROVE  TasksSound' /\ PlacedOnce' /\ OwedWillBeAnswered'
<1>0. task[t] \in Task /\ \A u \in Tasks : task[u] \in Task
  BY DEF IInv, TypeOK
<1>1. task' = [task EXCEPT ![t] = k]
  BY <1>0 DEF Reply
<1>2. k.op = task[t].op /\ k.o = task[t].o /\ k.stage = task[t].stage /\ k.call = task[t].call
  BY <1>0 DEF Task
<1>3. \A u \in Tasks : task'[u] = IF u = t THEN k ELSE task[u]
  BY <1>1 DEF IInv, TypeOK
<1>4. \A u \in Tasks : /\ task[u].o \in Orders /\ task[u].o[1] \in Brackets
                       /\ task[u].o = <<task[u].o[1], task[u].o[2]>>
  BY TaskFields, Domains DEF IInv, TypeOK, TasksOK
<1>5. ASSUME NEW u \in Tasks, u # t PROVE Evidence(task[u])'
  <2>1. task'[u] = task[u]
    BY <1>3, <1>5
  <2>2. Evidence(task[u]) /\ OnCourse(task[u]) /\ OnCourse(task[t])
    BY DEF IInv, TasksSound
  <2>3. /\ task[u].op # "idle" /\ task[u].stage = "answer" /\ task[u].answer = "none"
        => venue'[task[u].o[1]].at = "none"
    <3> SUFFICES ASSUME task[u].op # "idle", task[u].stage = "answer", task[u].answer = "none"
                 PROVE  venue'[task[u].o[1]].at = "none"
      OBVIOUS
    <3>1. venue[task[u].o[1]].at = "none" /\ task[u].op = "place" /\ task[u].o[2] = "E"
      BY <2>2 DEF Evidence, OnCourse, ModifySteps, ClearSteps, WithdrawSteps
    <3>2. CASE task[t].call # "order" \/ task[u].o[1] # task[t].o[1]
      BY <1>4, <3>1, <3>2
    <3>3. CASE task[t].call = "order" /\ task[u].o[1] = task[t].o[1]
      <4>1. task[t].op = "place" /\ task[t].o[2] = "E"
        BY <2>2, <3>3 DEF OnCourse, ModifySteps, ClearSteps, WithdrawSteps
      <4> QED BY <1>4, <1>5, <3>1, <3>3, <4>1 DEF IInv, PlacedOnce
    <3> QED BY <3>2, <3>3
  <2> QED BY <1>4, <2>1, <2>2, <2>3 DEF Evidence, Kept, Traded
<1>6. OnCourse(k)
  BY <1>2 DEF IInv, TasksSound, OnCourse
<1>7. TasksSound'
  BY <1>1, <1>5, <1>6, TasksStep
<1>8. OwedWillBeAnswered'
  BY <1>1, <1>2, OwedKept DEF Working
<1>9. PlacedOnce'
  <2>1. \A u \in Tasks : task'[u].op = task[u].op /\ task'[u].o = task[u].o
    BY <1>2, <1>3
  <2>2. ASSUME NEW b \in Brackets, status[<<b, "E">>] = "INITIALIZED" PROVE venue'[b].at = "none"
    <3>1. venue[b].at = "none" /\ ~(task[t].op = "place" /\ task[t].o = <<b, "E">>)
      BY <2>2 DEF IInv, PlacedOnce
    <3>2. task[t].call = "order" => task[t].op = "place" /\ task[t].o[2] = "E"
      BY DEF IInv, TasksSound, OnCourse, ModifySteps, ClearSteps, WithdrawSteps
    <3> QED BY <1>4, <3>1, <3>2
  <2> QED BY <2>1, <2>2 DEF IInv, PlacedOnce
<1> QED BY <1>7, <1>8, <1>9

(* Every call the terminal serves keeps the invariant. *)
LEMMA ServeStep ==
    ASSUME IInv, NEW t \in Tasks, Serve(t)
    PROVE  IInv'
<1> DEFINE b == task[t].o[1]
           Answer(a, rows) == [task[t] EXCEPT !.answer = a, !.rows = rows]
<1>0. /\ TypeOK' /\ UNCHANGED <<status, fills, owed>> /\ task[t] \in Task
      /\ task[t].op # "idle" /\ b \in Brackets /\ OnCourse(task[t]) /\ Evidence(task[t])
      /\ venue \in [Brackets -> VenueRow] /\ venue[b].at \in Place
  <2>1. TypeOK'
    BY ServeType DEF IInv
  <2>2. UNCHANGED <<status, fills, owed>> /\ task[t].op # "idle"
    BY DEF Serve, TakeOrder, TakeModify, TakeMove, TakeCancel, ListPositions, ListPending,
           ListDeals, Listing, Written, Pending
  <2>3. task[t] \in Task /\ b \in Brackets
    BY TaskFields DEF IInv, TypeOK, TasksOK
  <2> QED BY <2>1, <2>2, <2>3 DEF IInv, TypeOK, TasksSound, VenueRow
<1>k. \A a, rows : LET k == Answer(a, rows) IN
        /\ k.op = task[t].op /\ k.o = task[t].o /\ k.stage = task[t].stage
        /\ k.call = task[t].call /\ k.note = task[t].note /\ k.answer = a /\ k.rows = rows
  BY <1>0 DEF Task
<1> SUFFICES TasksSound' /\ PlacedOnce' /\ OwedWillBeAnswered' /\ NoFabricatedFill'
             /\ CanceledEntryIsGone'
  BY <1>0 DEF IInv
<1>1. CASE TakeOrder(t)
  <2>1. venue[b].at = "none" /\ task[t].stage = "answer" /\ task[t].call = "order"
    BY <1>0, <1>1 DEF TakeOrder, Pending, OnCourse, Evidence, PlaceSteps, ModifySteps,
       ClearSteps, WithdrawSteps
  <2>2. PICK a \in Answers, at \in Place :
          /\ Reply(t, a, {}) /\ a # "none"
          /\ \A c \in Brackets : venue'[c].at = IF c = b THEN at ELSE venue[c].at
          /\ a \in {"done", "nodeal", "unpriced"} /\ b \in Markets => at \in {"fresh", "open"}
    <3>1. CASE UNCHANGED venue /\ \E a \in Faults \cap {"refused", "empty", "raised"} : Reply(t, a, {})
      BY <1>0, <3>1 DEF Answers
    <3>2. CASE /\ \E a \in {"done"} \cup (Faults \cap {"empty", "raised", "noticket", "unpriced", "nodeal"}) :
                    Reply(t, a, {})
               /\ IF b \in Limits THEN Rested(b, task[t].send) ELSE Opened(b, task[t].send)
      <4>1. PICK a \in Answers : Reply(t, a, {}) /\ a # "none"
        BY <3>2 DEF Answers
      <4>2. PICK at \in {"resting", "fresh", "open"} :
              /\ \A c \in Brackets : venue'[c].at = IF c = b THEN at ELSE venue[c].at
              /\ b \notin Limits => at \in {"fresh", "open"}
        <5>1. CASE Rested(b, task[t].send) /\ b \in Limits
          BY <1>0, <5>1 DEF Rested
        <5>2. CASE Opened(b, task[t].send) /\ b \notin Limits
          <6>1. PICK at \in {"fresh", "open"} : \E sl, tp :
                  venue' = [venue EXCEPT ![b] = [at |-> at, px |-> task[t].send.px, sl |-> sl, tp |-> tp]]
            BY <5>2 DEF Opened
          <6> QED BY <1>0, <6>1
        <5> QED BY <3>2, <5>1, <5>2
      <4> QED BY <4>1, <4>2, ConstantsAssumption DEF Place
    <3>3. CASE Rested(b, task[t].send) /\ Reply(t, "placed", {})
      BY <1>0, <3>3 DEF Answers, Rested, Place
    <3> QED BY <1>1, <3>1, <3>2, <3>3 DEF TakeOrder
  <2>3. /\ \A c \in Brackets : Kept(c)
        /\ NoFabricatedFill' /\ CanceledEntryIsGone'
    BY <1>0, <2>1, <2>2, BookStep DEF Traded
  <2> PICK k : k = Answer(a, {})
    OBVIOUS
  <2>4. Evidence(k)'
    BY <1>0, <1>k, <2>1, <2>2 DEF Evidence, Traded
  <2> QED BY <1>0, <2>1, <2>2, <2>3, <2>4, AnswerStep
<1>2. CASE TakeModify(t) \/ TakeMove(t)
  <2>1. PICK a \in Answers :
          /\ Reply(t, a, {}) /\ \A c \in Brackets : venue'[c].at = venue[c].at
    <3>1. CASE UNCHANGED venue
      BY <1>2, <3>1 DEF TakeModify, TakeMove, Written, Answers
    <3>2. CASE ~UNCHANGED venue
      BY <1>0, <1>2, <3>2 DEF TakeModify, TakeMove, Written, Answers, VenueRow
    <3> QED BY <3>1, <3>2
  <2>2. task[t].stage \in {"protect", "sent", "cleared"} /\ task[t].call \in {"modify", "move"}
    BY <1>0, <1>2 DEF TakeModify, TakeMove, Pending, OnCourse, PlaceSteps, ModifySteps,
       ClearSteps, WithdrawSteps
  <2>3. /\ \A c \in Brackets : Kept(c)
        /\ NoFabricatedFill' /\ CanceledEntryIsGone'
    BY <1>0, <2>1, BookStep DEF Traded
  <2> PICK k : k = Answer(a, {})
    OBVIOUS
  <2>4. Evidence(k)'
    BY <1>0, <1>k, <2>1, <2>2 DEF Evidence, Traded
  <2> QED BY <1>0, <2>1, <2>2, <2>3, <2>4, AnswerStep
<1>3. CASE TakeCancel(t)
  <2>1. PICK a \in Answers, at \in {venue[b].at, "gone"} :
          /\ Reply(t, a, {}) /\ \A c \in Brackets : venue'[c].at = IF c = b THEN at ELSE venue[c].at
          /\ at # venue[b].at => venue[b].at = "resting"
          /\ a = "done" => at = "gone"
    <3>1. CASE UNCHANGED venue /\ \E a \in {"refused", "empty", "raised"} : Reply(t, a, {})
      BY <1>0, <3>1 DEF Answers
    <3>2. CASE /\ venue[b].at = "resting" /\ venue' = [venue EXCEPT ![b] = [venue[b] EXCEPT !.at = "gone"]]
               /\ \E a \in {"done", "empty", "raised"} : Reply(t, a, {})
      BY <1>0, <3>2 DEF Answers, VenueRow
    <3> QED BY <1>3, <3>1, <3>2 DEF TakeCancel, Written
  <2>2. task[t].stage \in {"withdraw", "stray"} /\ task[t].call = "cancel"
    BY <1>0, <1>3 DEF TakeCancel, Pending, OnCourse, PlaceSteps, ModifySteps,
       ClearSteps, WithdrawSteps
  <2>3. /\ \A c \in Brackets : Kept(c)
        /\ NoFabricatedFill' /\ CanceledEntryIsGone'
    BY <1>0, <2>1, BookStep DEF Traded, Place
  <2> PICK k : k = Answer(a, {})
    OBVIOUS
  <2>4. Evidence(k)'
    BY <1>0, <1>k, <2>1, <2>2 DEF Evidence, Traded
  <2> QED BY <1>0, <2>1, <2>2, <2>3, <2>4, AnswerStep
<1>4. CASE ListPositions(t) \/ ListPending(t) \/ ListDeals(t)
  <2>1. PICK a \in {"rows", "raised"}, rows \in SUBSET Row :
          Reply(t, a, rows) /\ (task[t].call = "deals" /\ rows # {} => Traded(b))
    BY <1>0, <1>4, RowOfType DEF ListPositions, ListPending, ListDeals, Listing, Pending,
       IInv, TypeOK, BookOK
  <2>2. /\ UNCHANGED venue /\ task[t].call \in {"positions", "pending", "deals"}
        /\ a \in Answers
    BY <1>4 DEF ListPositions, ListPending, ListDeals, Listing, Pending, Answers
  <2>3. /\ \A c \in Brackets : Kept(c)
        /\ NoFabricatedFill' /\ CanceledEntryIsGone'
    BY <1>0, <2>2, BookStep DEF Traded
  <2>4. task[t].stage # "answer"
    BY <1>0, <2>2 DEF OnCourse, PlaceSteps, ModifySteps, ClearSteps, WithdrawSteps
  <2> PICK k : k = Answer(a, rows)
    OBVIOUS
  <2>5. Evidence(k)'
    BY <1>0, <1>k, <2>1, <2>2, <2>4 DEF Evidence, Traded
  <2> QED BY <1>0, <2>1, <2>2, <2>3, <2>5, AnswerStep
<1> QED BY <1>1, <1>2, <1>3, <1>4 DEF Serve

(* Whatever the broker does by itself keeps the invariant. *)
LEMMA BrokerStep ==
    ASSUME IInv, NEW b \in Brackets, BrokerMoves(b)
    PROVE  IInv'
<1>0. /\ TypeOK' /\ UNCHANGED <<status, fills, owed, task>>
      /\ venue \in [Brackets -> VenueRow] /\ \A u \in Tasks : task[u].o[1] \in Brackets
  BY BrokerType, TaskFields DEF IInv, TypeOK, TasksOK, BrokerMoves
<1>1. PICK at \in {"fresh", "open", "gone", "closed"} :
        /\ \A c \in Brackets : venue'[c].at = IF c = b THEN at ELSE venue[c].at
        /\ venue[b].at \in {"resting", "fresh", "open"}
        /\ at = "gone" => venue[b].at = "resting"
  <2>1. CASE venue[b].at = "resting" /\ Opened(b, RowOf(b))
    <3>1. PICK at \in {"fresh", "open"} : \E sl, tp :
            venue' = [venue EXCEPT ![b] = [at |-> at, px |-> RowOf(b).px, sl |-> sl, tp |-> tp]]
      BY <2>1 DEF Opened
    <3> QED BY <1>0, <2>1, <3>1
  <2>2. CASE \E at \in {"gone", "open", "closed"} :
               /\ venue' = [venue EXCEPT ![b].at = at]
               /\ venue[b].at \in {"resting", "fresh", "open"}
               /\ at = "gone" => venue[b].at = "resting"
    BY <1>0, <2>2 DEF VenueRow
  <2> QED BY <2>1, <2>2 DEF BrokerMoves
<1>2. /\ \A c \in Brackets : Kept(c)
      /\ NoFabricatedFill' /\ CanceledEntryIsGone'
  BY <1>0, <1>1, BookStep DEF Traded, Place
<1>3. TasksSound'
  BY <1>0, <1>1, <1>2 DEF IInv, TasksSound, Evidence, Kept, Traded
<1>4. PlacedOnce' /\ OwedWillBeAnswered'
  BY <1>0, <1>1 DEF IInv, PlacedOnce, OwedWillBeAnswered, Working
<1> QED BY <1>0, <1>2, <1>3, <1>4 DEF IInv

(* Rejecting a bracket that was never sent keeps the invariant. *)
LEMMA RefuseBracketStep ==
    ASSUME IInv, NEW b \in Brackets, RefuseBracket(b)
    PROVE  IInv'
<1>0. TypeOK' /\ UNCHANGED <<venue, fills, owed, task>>
  BY BrokerType DEF IInv, RefuseBracket
<1>1. \A o \in Orders : status'[o] = IF o \in LegsOf(b) /\ status[o] \notin Closed
                                    THEN "REJECTED" ELSE status[o]
  BY DEF RefuseBracket, Move
<1>2. \A c \in Brackets : <<c, "E">> \in Orders
  BY Domains DEF Legs
<1>3. NoFabricatedFill' /\ CanceledEntryIsGone'
  BY <1>0, <1>1, <1>2 DEF IInv, NoFabricatedFill, CanceledEntryIsGone, Traded
<1>4. PlacedOnce'
  BY <1>0, <1>1, <1>2 DEF IInv, PlacedOnce
<1>5. TasksSound' /\ OwedWillBeAnswered'
  BY <1>0 DEF IInv, TasksSound, OwedWillBeAnswered, Evidence, Traded, Working
<1> QED BY <1>0, <1>3, <1>4, <1>5 DEF IInv

(* A command starts: a submit is the bracket's only one, and what a modify   *)
(* or a cancel owes has its task from the start.                             *)
LEMMA StartStep ==
    ASSUME IInv, NEW t \in Tasks, NEW op \in {"place", "modify", "cancel"}, NEW o \in Orders,
           NEW arg \in Levels, NEW stage \in Stages, NEW call \in Calls, NEW send \in Row,
           Start(t, op, o, arg, stage, call, send), UNCHANGED <<venue, fills>>, ClosedKept,
           \A q \in Orders : status'[q] # status[q] => status'[q] = "SUBMITTED",
           OnCourse([op |-> op, o |-> o, arg |-> arg, stage |-> stage, call |-> call, send |-> send,
                     answer |-> "none", rows |-> {}, seen |-> {}, note |-> "none"]),
           op = "place" => /\ status[o] = "INITIALIZED" /\ status'[o] = "SUBMITTED"
                           /\ stage = "answer",
           op # "place" => stage # "answer",
           owed' = owed \/ (owed' = owed \cup {<<o, op>>} /\ stage \notin {"sweep", "stray"})
    PROVE  /\ TasksSound' /\ PlacedOnce' /\ OwedWillBeAnswered'
           /\ NoFabricatedFill' /\ CanceledEntryIsGone'
<1> PICK k : k = [op |-> op, o |-> o, arg |-> arg, stage |-> stage, call |-> call, send |-> send,
                  answer |-> "none", rows |-> {}, seen |-> {}, note |-> "none"]
  OBVIOUS
<1>0. /\ k.op = op /\ k.o = o /\ k.stage = stage /\ k.call = call /\ k.answer = "none"
      /\ k.rows = {} /\ k.note = "none" /\ task[t].op = "idle"
      /\ task' = [task EXCEPT ![t] = k] /\ OnCourse(k)
  BY DEF Start
<1>1. \A u \in Tasks : task'[u] = IF u = t THEN k ELSE task[u]
  BY <1>0 DEF IInv, TypeOK
<1>2. /\ o[1] \in Brackets /\ o = <<o[1], o[2]>>
      /\ op = "place" => o[2] = "E"
      /\ \A b \in Brackets : <<b, "E">> \in Orders
  BY <1>0, Domains DEF Legs, OnCourse
<1>3. op = "place" => venue[o[1]].at = "none"
  BY <1>2 DEF IInv, PlacedOnce
<1>4. Evidence(k)'
  <2>1. stage \notin {"before", "protect", "after"}  \/ Traded(o[1])
    BY <1>0 DEF OnCourse, PlaceSteps, ModifySteps, ClearSteps, WithdrawSteps
  <2> QED BY <1>0, <1>3, <2>1 DEF Evidence, Traded
<1>5. ASSUME NEW u \in Tasks \ {t} PROVE Evidence(task[u])'
  <2>1. task'[u] = task[u] /\ Evidence(task[u])
    BY <1>1 DEF IInv, TasksSound
  <2> QED BY <2>1 DEF Evidence, Traded
<1>6. TasksSound'
  BY <1>0, <1>4, <1>5, TasksStep
<1>7. PlacedOnce'
  <2>1. \A b \in Brackets : status'[<<b, "E">>] = "INITIALIZED" =>
            status[<<b, "E">>] = "INITIALIZED" /\ ~(op = "place" /\ o = <<b, "E">>)
    BY <1>2 DEF ClosedKept
  <2>2. op = "place" => \A u \in Tasks : ~(task[u].op = "place" /\ task[u].o = o)
    BY <1>2 DEF IInv, PlacedOnce
  <2> QED BY <1>0, <1>1, <2>1, <2>2 DEF IInv, PlacedOnce
<1>8. OwedWillBeAnswered'
  <2> SUFFICES ASSUME NEW w \in owed'
               PROVE  \E u \in Tasks : task'[u].op = w[2] /\ task'[u].o = w[1] /\ Working(task'[u])
    BY DEF OwedWillBeAnswered, Working
  <2>1. CASE w \in owed
    <3>1. PICK u \in Tasks : task[u].op = w[2] /\ task[u].o = w[1] /\ Working(task[u])
      BY <2>1 DEF IInv, OwedWillBeAnswered
    <3>2. w[2] \in {"modify", "cancel"}
      BY <2>1 DEF IInv, TypeOK
    <3> QED BY <1>0, <1>1, <3>1, <3>2
  <2>2. CASE w \notin owed
    <3>1. w = <<o, op>> /\ Working(k)
      BY <1>0, <2>2 DEF Working
    <3> QED BY <1>0, <1>1, <3>1
  <2> QED BY <2>1, <2>2
<1>9. NoFabricatedFill' /\ CanceledEntryIsGone'
  BY <1>2 DEF IInv, NoFabricatedFill, CanceledEntryIsGone, Traded
<1> QED BY <1>6, <1>7, <1>8, <1>9

(* Every command that starts keeps the invariant. *)
LEMMA CommandStep ==
    ASSUME IInv, NEW t \in Tasks, Command(t)
    PROVE  IInv'
<1>0. TypeOK'
  BY CommandType DEF IInv
<1>s. /\ {"unplaced", "answer", "resting", "withdraw", "sweep"} \subseteq Stages
      /\ {"none", "order", "pending", "cancel"} \subseteq Calls
      /\ Asked \in Row /\ NoRow \in Row /\ 0 \in Levels
  BY Rows, Domains DEF Stages, Calls
<1> SUFFICES /\ TasksSound' /\ PlacedOnce' /\ OwedWillBeAnswered'
             /\ NoFabricatedFill' /\ CanceledEntryIsGone'
  BY <1>0 DEF IInv
<1>1. CASE \E b \in Brackets : SubmitBracket(t, b)
  <2>1. PICK b \in Brackets : SubmitBracket(t, b)
    BY <1>1
  <2>2. <<b, "E">> \in Orders /\ <<b, "E">> \in LegsOf(b)
    BY Domains DEF Legs, LegsOf
  <2>3. \A o \in Orders : status'[o] = IF o \in LegsOf(b) /\ status[o] \notin Closed
                                       THEN "SUBMITTED" ELSE status[o]
    BY <2>1 DEF SubmitBracket, Move
  <2>4. ClosedKept /\ status[<<b, "E">>] = "INITIALIZED" /\ status'[<<b, "E">>] = "SUBMITTED"
    BY <2>1, <2>2, <2>3 DEF ClosedKept, SubmitBracket, Closed
  <2> QED BY <1>s, <2>1, <2>2, <2>3, <2>4, StartStep
          DEF SubmitBracket, OnCourse, PlaceSteps
<1>2. CASE \E o \in Orders, p \in Prices : ModifyOrder(t, o, p)
  <2>1. PICK o \in Orders, p \in Prices : ModifyOrder(t, o, p)
    BY <1>2
  <2> QED BY <1>s, <2>1, StartStep, Domains
          DEF ModifyOrder, ClosedKept, OnCourse, ModifySteps
<1>3. CASE \E o \in Orders : CancelOrder(t, o)
  <2>1. PICK o \in Orders : CancelOrder(t, o)
    BY <1>3
  <2> QED BY <1>s, <2>1, StartStep DEF CancelOrder, ClosedKept, OnCourse, ClearSteps, WithdrawSteps
<1>4. CASE \E b \in Brackets : CancelAll(t, b)
  <2>1. PICK b \in Brackets : CancelAll(t, b)
    BY <1>4
  <2>2. <<b, "E">> \in Orders
    BY Domains DEF Legs
  <2> QED BY <1>s, <2>1, <2>2, StartStep DEF CancelAll, ClosedKept, OnCourse, WithdrawSteps
<1>5. CASE \E o \in Orders, j \in {"modify", "cancel"} : CommandUnplaced(t, o, j)
  <2>1. PICK o \in Orders, j \in {"modify", "cancel"} : CommandUnplaced(t, o, j)
    BY <1>5
  <2>2. j \in {"place", "modify", "cancel"} /\ j # "place" /\ "unplaced" \notin {"answer", "sweep", "stray"}
    OBVIOUS
  <2>3. /\ Start(t, j, o, 0, "unplaced", "none", NoRow) /\ UNCHANGED <<venue, fills, status>>
        /\ owed' = owed \cup {<<o, j>>}
    BY <2>1 DEF CommandUnplaced
  <2>4. OnCourse([op |-> j, o |-> o, arg |-> 0, stage |-> "unplaced", call |-> "none", send |-> NoRow,
                  answer |-> "none", rows |-> {}, seen |-> {}, note |-> "none"])
    BY DEF OnCourse
  <2>5. ClosedKept /\ \A q \in Orders : status'[q] = status[q]
    BY <2>3 DEF ClosedKept
  <2> QED BY <1>s, <2>2, <2>3, <2>4, <2>5, StartStep
<1> QED BY <1>1, <1>2, <1>3, <1>4, <1>5 DEF Command

(* A handler awaits its next call.                                           *)
LEMMA GoesOn ==
    ASSUME IInv, NEW t \in Tasks, NEW k, task' = [task EXCEPT ![t] = k],
           UNCHANGED <<venue, owed>>, ClosedKept,
           k.op = task[t].op, k.o = task[t].o, k.answer = "none", OnCourse(k),
           k.stage # "answer", k.call = "deals" => k.rows = {},
           k.stage \in {"before", "protect", "after"} => Traded(k.o[1]),
           k.stage = "listing" /\ k.note = "done" => venue[k.o[1]].at = "gone",
           Working(k) \/ ~Working(task[t])
    PROVE  TasksSound' /\ PlacedOnce' /\ OwedWillBeAnswered'
<1>1. Evidence(k)
  BY DEF Evidence
<1>2. TasksSound' /\ PlacedOnce'
  BY <1>1, ResumeStep
<1>3. OwedWillBeAnswered'
  BY OwedKept
<1> QED BY <1>2, <1>3

(* A handler that changes nothing and awaits its next call keeps the invariant. *)
LEMMA AwaitStep ==
    ASSUME IInv, NEW t \in Tasks, NEW stage, NEW call, NEW send, NEW note,
           \/ Await(t, stage, call, send) /\ note = task[t].note
           \/ AwaitNoting(t, stage, call, send, note),
           UNCHANGED <<venue, owed>>, ClosedKept, task[t].op # "idle",
           \/ task[t].op = "place" /\ <<stage, call>> \in PlaceSteps
           \/ task[t].op = "modify" /\ <<stage, call>> \in ModifySteps
           \/ task[t].op = "cancel" /\ task[t].o[2] # "E" /\ <<stage, call>> \in ClearSteps
           \/ task[t].op = "cancel" /\ task[t].o[2] = "E" /\ <<stage, call>> \in WithdrawSteps,
           stage # "answer",
           stage \in {"before", "protect", "after"} => Traded(task[t].o[1]),
           stage = "listing" /\ note = "done" => venue[task[t].o[1]].at = "gone",
           stage \notin {"sweep", "stray"} \/ ~Working(task[t])
    PROVE  TasksSound' /\ PlacedOnce' /\ OwedWillBeAnswered'
<1>0. task[t] \in Task
  BY DEF IInv, TypeOK
<1>1. PICK k :
        /\ task' = [task EXCEPT ![t] = k]
        /\ k.op = task[t].op /\ k.o = task[t].o /\ k.stage = stage /\ k.call = call
        /\ k.answer = "none" /\ k.rows = {} /\ k.note = note
  <2>1. CASE Await(t, stage, call, send) /\ note = task[t].note
    <3> DEFINE k == [task[t] EXCEPT !.stage = stage, !.call = call, !.send = send,
                                    !.answer = "none", !.rows = {}]
    <3>1. /\ k.op = task[t].op /\ k.o = task[t].o /\ k.stage = stage /\ k.call = call
          /\ k.answer = "none" /\ k.rows = {} /\ k.note = note
      BY <1>0, <2>1 DEF Task
    <3>2. task' = [task EXCEPT ![t] = k]
      BY <2>1 DEF Await
    <3> QED BY <3>1, <3>2
  <2>2. CASE AwaitNoting(t, stage, call, send, note)
    <3> DEFINE k == [task[t] EXCEPT !.stage = stage, !.call = call, !.send = send,
                                    !.answer = "none", !.rows = {}, !.note = note]
    <3>1. /\ k.op = task[t].op /\ k.o = task[t].o /\ k.stage = stage /\ k.call = call
          /\ k.answer = "none" /\ k.rows = {} /\ k.note = note
      BY <1>0, <2>2 DEF Task
    <3>2. task' = [task EXCEPT ![t] = k]
      BY <2>2 DEF AwaitNoting
    <3> QED BY <3>1, <3>2
  <2> QED BY <2>1, <2>2
<1>2. OnCourse(k)
  <2>1. OnCourse(task[t])
    BY DEF IInv, TasksSound
  <2> QED BY <1>1, <2>1 DEF OnCourse
<1> QED BY <1>1, <1>2, GoesOn DEF Working

(* The next stage of a submit is on its course. *)
LEMMA PlaceGoesOn ==
    ASSUME IInv, NEW t \in Tasks, NEW stage, NEW call, NEW send, NEW note,
           \/ Await(t, stage, call, send) /\ note = task[t].note
           \/ AwaitNoting(t, stage, call, send, note),
           UNCHANGED <<venue, owed>>, ClosedKept,
           task[t].op = "place", Traded(task[t].o[1]),
           stage \in {"before", "protect", "price"}, <<stage, call>> \in PlaceSteps
    PROVE  TasksSound' /\ PlacedOnce' /\ OwedWillBeAnswered'
  BY AwaitStep

(* A place ends with no event of a fill.                                     *)
LEMMA PlaceEnds ==
    ASSUME IInv, NEW t \in Tasks, Finish(t), task[t].op = "place",
           UNCHANGED <<venue, owed>>, ClosedKept
    PROVE  TasksSound' /\ PlacedOnce' /\ OwedWillBeAnswered'
<1>1. task' = [task EXCEPT ![t] = Idle]
  BY DEF Finish
<1> QED BY <1>1, ResumeStep, OwedKept

\* A status that is neither filled nor cancelled breaks neither claim.
LEMMA BookkeepingStep ==
    ASSUME IInv, UNCHANGED <<venue, fills>>,
           \A o \in Orders : status'[o] # status[o] => status'[o] \in {"ACCEPTED", "REJECTED"}
    PROVE  NoFabricatedFill' /\ CanceledEntryIsGone'
<1>1. \A c \in Brackets : <<c, "E">> \in Orders
  BY Domains DEF Legs
<1> QED BY <1>1 DEF IInv, NoFabricatedFill, CanceledEntryIsGone, Traded

(* _report_legs and the fill keep the invariant, given the deal. *)
LEMMA ReportStep ==
    ASSUME IInv, NEW t \in Tasks, NEW naked, NEW a, Report(t, naked, a),
           task[t].op = "place", task[t].o[2] = "E", Traded(task[t].o[1])
    PROVE  TasksSound' /\ PlacedOnce' /\ OwedWillBeAnswered'
           /\ NoFabricatedFill' /\ CanceledEntryIsGone'
<1> DEFINE b == task[t].o[1]  e == <<b, "E">>  judged == Judged(b, naked)
<1>0. /\ UNCHANGED <<venue, owed>> /\ status \in [Orders -> Status]
      /\ task[t].o = e /\ e \in Orders /\ fills \in [Orders -> SUBSET {"deal", "ticket"}]
  BY TaskFields, Domains DEF IInv, TypeOK, TasksOK, Report
<1>1. \A o \in Orders : judged[o] # status[o] =>
        judged[o] \in {"ACCEPTED", "REJECTED"} /\ status[o] \notin Closed
  BY DEF Judged
<1>2. CASE a = "unpriced"
  <2>1. /\ status' = judged /\ UNCHANGED fills
        /\ Await(t, "price", "deals", NoRow)
    BY <1>2 DEF Report
  <2>2. ClosedKept
    BY <1>0, <1>1, <2>1 DEF ClosedKept
  <2>3. TasksSound' /\ PlacedOnce' /\ OwedWillBeAnswered'
    <3>1. <<"price", "deals">> \in PlaceSteps
      BY DEF PlaceSteps
    <3> QED BY <1>0, <2>1, <2>2, <3>1, PlaceGoesOn
  <2> QED BY <1>0, <1>1, <2>1, <2>3, BookkeepingStep
<1>3. CASE a # "unpriced"
  <2>1. /\ status' = [judged EXCEPT ![e] = IF @ \in Closed THEN @ ELSE "FILLED"]
        /\ Finish(t)
        /\ \E id : fills' = [fills EXCEPT ![e] = @ \cup {id}]
    BY <1>3 DEF Report
  <2>2. judged \in [Orders -> Status]
    BY <1>0, Statuses
  <2>3. \A o \in Orders : o # e => status'[o] = judged[o] /\ fills'[o] = fills[o]
    BY <1>0, <2>1, <2>2
  <2>4. status'[e] = IF judged[e] \in Closed THEN judged[e] ELSE "FILLED"
    BY <1>0, <2>1, <2>2
  <2>5. ClosedKept
    BY <1>1, <2>3, <2>4 DEF ClosedKept, Closed
  <2>6. TasksSound' /\ PlacedOnce' /\ OwedWillBeAnswered'
    BY <1>0, <2>1, <2>5, PlaceEnds
  <2>7. NoFabricatedFill'
    BY <1>0, <1>1, <2>3 DEF IInv, NoFabricatedFill, Traded
  <2>8. CanceledEntryIsGone'
    <3>1. ASSUME NEW c \in Brackets, status'[<<c, "E">>] = "CANCELED"
          PROVE  status[<<c, "E">>] = "CANCELED"
      <4>1. <<c, "E">> \in Orders
        BY Domains DEF Legs
      <4> QED BY <1>1, <2>3, <2>4, <3>1, <4>1
    <3> QED BY <1>0, <3>1 DEF IInv, CanceledEntryIsGone
  <2> QED BY <2>6, <2>7, <2>8
<1> QED BY <1>2, <1>3

(* Every step of a submit keeps the invariant. *)
LEMMA PlaceStep ==
    ASSUME IInv, NEW t \in Tasks,
           \/ PlaceAnswered(t) \/ ProtectBefore(t) \/ ProtectSent(t) \/ ProtectAfter(t)
           \/ PlacePriced(t)
    PROVE  IInv'
<1>0. /\ TypeOK' /\ OnCourse(task[t]) /\ Evidence(task[t]) /\ task[t] \in Task
      /\ task[t].o[1] \in Brackets
  BY PlaceType, TaskFields DEF IInv, TasksSound, TypeOK, TasksOK
<1>1. /\ task[t].op = "place" /\ task[t].o[2] = "E" /\ Working(task[t])
      /\ <<task[t].stage, task[t].call>> \in PlaceSteps /\ task[t].answer # "none"
      /\ task[t].op # "idle"
  BY <1>0 DEF PlaceAnswered, ProtectBefore, ProtectSent, ProtectAfter, PlacePriced, Answered,
     OnCourse, PlaceSteps, ModifySteps, ClearSteps, WithdrawSteps, Working
<1> SUFFICES TasksSound' /\ PlacedOnce' /\ OwedWillBeAnswered' /\ NoFabricatedFill'
             /\ CanceledEntryIsGone'
  BY <1>0 DEF IInv
<1>2. CASE PlaceAnswered(t)
  <2>0. UNCHANGED <<venue, fills, owed>> /\ task[t].stage = "answer"
    BY <1>2 DEF PlaceAnswered, Answered
  <2>1. CASE /\ task[t].answer \in {"done", "nodeal", "unpriced"} /\ task[t].o[1] \in Markets
             /\ AwaitNoting(t, "before", "positions", NoRow, task[t].answer) /\ UNCHANGED status
    <3>1. Traded(task[t].o[1])
      BY <1>0, <1>1, <2>0, <2>1 DEF Evidence
    <3>2. ClosedKept
      BY <2>1 DEF ClosedKept
    <3>3. TasksSound' /\ PlacedOnce' /\ OwedWillBeAnswered'
      <4>1. <<"before", "positions">> \in PlaceSteps
        BY DEF PlaceSteps
      <4> QED BY <1>1, <2>0, <2>1, <3>1, <3>2, <4>1, PlaceGoesOn
    <3> QED BY <2>0, <2>1, <3>3, BookkeepingStep
  <2>2. CASE /\ \/ status' = Judged(task[t].o[1], {})
                \/ status' = Move(LegsOf(task[t].o[1]), "REJECTED")
                \/ UNCHANGED status
             /\ Finish(t)
    <3>1. \A o \in Orders : status'[o] # status[o] =>
            status'[o] \in {"ACCEPTED", "REJECTED"} /\ status[o] \notin Closed
      BY <2>2 DEF Judged, Move
    <3>2. ClosedKept
      BY <3>1 DEF ClosedKept
    <3> QED BY <1>1, <2>0, <2>2, <3>1, <3>2, PlaceEnds, BookkeepingStep
  <2> QED BY <1>2, <2>1, <2>2 DEF PlaceAnswered
<1>3. CASE ProtectBefore(t)
  <2>1. Traded(task[t].o[1])
    BY <1>0, <1>1, <1>3 DEF ProtectBefore, Answered, Evidence
  <2>2. CASE Report(t, {}, task[t].note)
    BY <1>1, <2>1, <2>2, ReportStep
  <2>3. CASE ~Report(t, {}, task[t].note)
    <3>1. Await(t, "protect", "modify", Asked) /\ UNCHANGED <<venue, status, fills, owed>>
      BY <1>3, <2>3 DEF ProtectBefore
    <3>2. TasksSound' /\ PlacedOnce' /\ OwedWillBeAnswered'
      <4>1. <<"protect", "modify">> \in PlaceSteps
        BY DEF PlaceSteps
      <4>2. ClosedKept
        BY <3>1 DEF ClosedKept
      <4> QED BY <1>1, <2>1, <3>1, <4>1, <4>2, PlaceGoesOn
    <3> QED BY <3>1, <3>2, BookkeepingStep
  <2> QED BY <2>2, <2>3
<1>4. CASE ProtectSent(t)
  <2>1. Traded(task[t].o[1])
    BY <1>0, <1>1, <1>4 DEF ProtectSent, Answered, Evidence
  <2>2. PICK k : k = [task[t] EXCEPT !.stage = "after", !.call = "positions", !.answer = "none",
                       !.seen = IF task[t].answer = "done" THEN {} ELSE {NoRow}]
    OBVIOUS
  <2>3. /\ k.op = task[t].op /\ k.o = task[t].o /\ k.stage = "after" /\ k.call = "positions"
        /\ k.answer = "none"
    BY <1>0, <2>2 DEF Task
  <2>4. task' = [task EXCEPT ![t] = k] /\ UNCHANGED <<venue, status, fills, owed>>
    BY <1>4, <2>2 DEF ProtectSent
  <2>5. OnCourse(k) /\ Working(k) /\ ClosedKept
    BY <1>1, <2>3, <2>4 DEF OnCourse, PlaceSteps, Working, ClosedKept
  <2>6. TasksSound' /\ PlacedOnce' /\ OwedWillBeAnswered'
    BY <2>1, <2>3, <2>4, <2>5, GoesOn
  <2> QED BY <2>4, <2>6, BookkeepingStep
<1>5. CASE ProtectAfter(t)
  <2>1. Traded(task[t].o[1])
    BY <1>0, <1>1, <1>5 DEF ProtectAfter, Answered, Evidence
  <2> QED BY <1>1, <1>5, <2>1, ReportStep DEF ProtectAfter
<1>6. CASE PlacePriced(t)
  <2>1. CASE task[t].rows = {} /\ UNCHANGED <<status, fills>>
    <3>1. Finish(t) /\ UNCHANGED <<venue, owed>> /\ ClosedKept
      BY <1>6, <2>1 DEF PlacePriced, ClosedKept
    <3> QED BY <1>1, <2>1, <3>1, PlaceEnds, BookkeepingStep
  <2>2. CASE task[t].rows # {} /\ Filled(task[t].o, "deal")
    <3>1. task[t].call = "deals"
      BY <1>1, <1>6 DEF PlacePriced, Answered, PlaceSteps
    <3>2. Traded(task[t].o[1])
      BY <1>0, <1>1, <2>2, <3>1 DEF Evidence
    <3> QED BY <1>1, <1>6, <2>2, <3>2, FilledStep DEF PlacePriced
  <2> QED BY <1>6, <2>1, <2>2 DEF PlacePriced
<1> QED BY <1>2, <1>3, <1>4, <1>5, <1>6

(* The next stage of a modify is on its course. *)
LEMMA ModifyGoesOn ==
    ASSUME IInv, NEW t \in Tasks, NEW stage, NEW call, NEW send, Await(t, stage, call, send),
           UNCHANGED <<venue, status, fills, owed>>, task[t].op = "modify",
           stage \in {"sent", "verify"}, <<stage, call>> \in ModifySteps
    PROVE  /\ TasksSound' /\ PlacedOnce' /\ OwedWillBeAnswered'
           /\ NoFabricatedFill' /\ CanceledEntryIsGone'
<1>1. ClosedKept
  BY DEF ClosedKept
<1>2. TasksSound' /\ PlacedOnce' /\ OwedWillBeAnswered'
  BY <1>1, AwaitStep
<1> QED BY <1>2, BookkeepingStep

(* The next stage of a cancel is on its course. *)
LEMMA CancelGoesOn ==
    ASSUME IInv, NEW t \in Tasks, NEW stage, NEW call, NEW send, NEW note,
           \/ Await(t, stage, call, send) /\ note = task[t].note
           \/ AwaitNoting(t, stage, call, send, note),
           UNCHANGED <<venue, status, fills, owed>>, task[t].op = "cancel",
           \/ task[t].o[2] # "E" /\ <<stage, call>> \in ClearSteps
           \/ task[t].o[2] = "E" /\ <<stage, call>> \in WithdrawSteps,
           stage \in {"cleared", "withdraw", "listing", "history", "stray"},
           stage = "listing" /\ note = "done" => venue[task[t].o[1]].at = "gone",
           stage = "stray" => ~Working(task[t])
    PROVE  /\ TasksSound' /\ PlacedOnce' /\ OwedWillBeAnswered'
           /\ NoFabricatedFill' /\ CanceledEntryIsGone'
<1>1. ClosedKept
  BY DEF ClosedKept
<1>2. TasksSound' /\ PlacedOnce' /\ OwedWillBeAnswered'
  BY <1>1, AwaitStep
<1> QED BY <1>2, BookkeepingStep

(* Every step of a modify keeps the invariant. *)
LEMMA ModifyStep ==
    ASSUME IInv, NEW t \in Tasks,
           Located(t) \/ ModifySends(t) \/ ModifySent(t) \/ ModifyVerified(t)
    PROVE  IInv'
<1>0. /\ TypeOK' /\ OnCourse(task[t]) /\ task[t] \in Task
  BY ModifyType DEF IInv, TasksSound, TypeOK
<1> SUFFICES ASSUME ~(RefuseUnsent(t) \/ RefuseSent(t))
             PROVE  TasksSound' /\ PlacedOnce' /\ OwedWillBeAnswered' /\ NoFabricatedFill'
                    /\ CanceledEntryIsGone'
  BY <1>0, RefuseStep DEF IInv
<1>1. CASE Located(t)
  <2>1. PICK k : k = [task[t] EXCEPT !.stage = "held", !.call = "positions",
                       !.answer = "none", !.rows = {}, !.seen = task[t].rows]
    OBVIOUS
  <2>2. /\ k.op = task[t].op /\ k.o = task[t].o /\ k.stage = "held" /\ k.call = "positions"
        /\ k.answer = "none" /\ k.rows = {}
    BY <1>0, <2>1 DEF Task
  <2>3. task' = [task EXCEPT ![t] = k] /\ UNCHANGED <<venue, status, fills, owed>>
    BY <1>1, <2>1 DEF Located
  <2>4. task[t].stage = "resting" /\ task[t].op # "idle"
    BY <1>1 DEF Located, Answered
  <2>5. OnCourse(k)
    BY <1>0, <2>2, <2>4 DEF OnCourse, PlaceSteps, ModifySteps, ClearSteps, WithdrawSteps
  <2>6. Working(k) /\ ClosedKept
    BY <2>2, <2>3 DEF Working, ClosedKept
  <2>7. TasksSound' /\ PlacedOnce' /\ OwedWillBeAnswered'
    BY <2>2, <2>3, <2>5, <2>6, GoesOn
  <2> QED BY <2>3, <2>7, BookkeepingStep
<1>2. CASE ModifySends(t)
  <2>1. /\ task[t].op = "modify" /\ UNCHANGED <<venue, status, fills, owed>>
        /\ \E call \in {"move", "modify"} : \E send : Await(t, "sent", call, send)
    BY <1>2 DEF ModifySends
  <2>2. <<"sent", "move">> \in ModifySteps /\ <<"sent", "modify">> \in ModifySteps
    BY DEF ModifySteps
  <2> QED BY <2>1, <2>2, ModifyGoesOn
<1>3. CASE ModifySent(t)
  <2>1. /\ UNCHANGED <<venue, status, fills, owed>> /\ task[t].stage = "sent" /\ task[t].op # "idle"
        /\ \E call \in {"pending", "positions"} : \E send : Await(t, "verify", call, send)
    BY <1>3 DEF ModifySent, Answered
  <2>2. task[t].op = "modify"
    BY <1>0, <2>1 DEF OnCourse, PlaceSteps, ClearSteps, WithdrawSteps
  <2>3. <<"verify", "pending">> \in ModifySteps /\ <<"verify", "positions">> \in ModifySteps
    BY DEF ModifySteps
  <2> QED BY <2>1, <2>2, <2>3, ModifyGoesOn
<1>4. CASE ModifyVerified(t)
  <2>1. /\ UNCHANGED <<venue, status, fills>> /\ task[t].stage = "verify" /\ task[t].op # "idle"
        /\ task' = [task EXCEPT ![t] = Idle] /\ owed' = owed \ {<<task[t].o, "modify">>}
    BY <1>4 DEF ModifyVerified, Answered, Finish
  <2>2. task[t].op = "modify" /\ ClosedKept
    BY <1>0, <2>1 DEF OnCourse, PlaceSteps, ClearSteps, WithdrawSteps, ClosedKept
  <2> QED BY <2>1, <2>2, ResumeStep, OwedPaid, BookkeepingStep
<1> QED BY <1>1, <1>2, <1>3, <1>4

(* Clearing a leg keeps the invariant. *)
LEMMA ClearStep ==
    ASSUME IInv, NEW t \in Tasks, ClearSends(t) \/ ClearSent(t)
    PROVE  IInv'
<1>0. /\ TypeOK' /\ OnCourse(task[t]) /\ task[t] \in Task
  BY CancelType DEF IInv, TasksSound, TypeOK
<1>1. task[t].op = "cancel" /\ task[t].o[2] # "E"
  BY <1>0 DEF ClearSends, ClearSent, Answered, OnCourse, PlaceSteps, ModifySteps, WithdrawSteps
<1>2. CASE RefuseUnsent(t) \/ RefuseSent(t) \/ Cancelled(t)
  BY <1>1, <1>2, RefuseStep, CancelledStep
<1>3. CASE ~(RefuseUnsent(t) \/ RefuseSent(t) \/ Cancelled(t))
  <2>1. /\ UNCHANGED <<venue, status, fills, owed>>
        /\ \E send : Await(t, "cleared", "modify", send)
    BY <1>3 DEF ClearSends, ClearSent
  <2>2. <<"cleared", "modify">> \in ClearSteps
    BY DEF ClearSteps
  <2> QED BY <1>0, <1>1, <2>1, <2>2, CancelGoesOn DEF IInv
<1> QED BY <1>2, <1>3

(* Withdrawing an entry keeps the invariant: the cancel it announces is real. *)
LEMMA WithdrawStep ==
    ASSUME IInv, NEW t \in Tasks,
           \/ WithdrawSent(t) \/ WithdrawListed(t) \/ WithdrawSettled(t)
           \/ Swept(t) \/ StrayCancelled(t)
    PROVE  IInv'
<1>0. /\ TypeOK' /\ OnCourse(task[t]) /\ Evidence(task[t]) /\ task[t] \in Task
  BY CancelType DEF IInv, TasksSound, TypeOK
<1>1. /\ task[t].op = "cancel" /\ task[t].o[2] = "E" /\ task[t].op # "idle"
      /\ <<task[t].stage, task[t].call>> \in WithdrawSteps
  BY <1>0 DEF WithdrawSent, WithdrawListed, WithdrawSettled, Swept, StrayCancelled, Answered,
     OnCourse, PlaceSteps, ModifySteps, ClearSteps
<1>2. CASE RefuseUnsent(t) \/ RefuseSent(t)
  BY <1>2, RefuseStep
<1> SUFFICES ASSUME ~(RefuseUnsent(t) \/ RefuseSent(t)) PROVE IInv'
  BY <1>2
<1>3. CASE WithdrawSent(t)
  <2>1. /\ UNCHANGED <<venue, status, fills, owed>> /\ task[t].stage = "withdraw"
        /\ AwaitNoting(t, "listing", "pending", NoRow, task[t].answer)
    BY <1>3 DEF WithdrawSent, Answered
  <2>2. task[t].answer = "done" => venue[task[t].o[1]].at = "gone"
    BY <1>0, <1>1, <2>1 DEF Evidence
  <2>3. <<"listing", "pending">> \in WithdrawSteps
    BY DEF WithdrawSteps
  <2> QED BY <1>0, <1>1, <2>1, <2>2, <2>3, CancelGoesOn DEF IInv
<1>4. CASE WithdrawListed(t)
  <2>1. CASE task[t].note = "done" /\ Cancelled(t)
    <3>1. venue[task[t].o[1]].at = "gone"
      BY <1>0, <1>1, <1>4, <2>1 DEF WithdrawListed, Answered, Evidence
    <3> QED BY <1>1, <2>1, <3>1, CancelledStep
  <2>2. CASE /\ Await(t, "history", "deals", NoRow)
             /\ UNCHANGED <<venue, status, shown, fills, owed, unsure>>
    <3>1. <<"history", "deals">> \in WithdrawSteps
      BY DEF WithdrawSteps
    <3> QED BY <1>0, <1>1, <2>2, <3>1, CancelGoesOn DEF IInv
  <2> QED BY <1>4, <2>1, <2>2 DEF WithdrawListed
<1>5. CASE WithdrawSettled(t)
  <2>1. /\ task[t].rows # {} /\ Filled(task[t].o, "deal") /\ task[t].stage = "history"
        /\ owed' = owed \ {<<task[t].o, task[t].op>>} /\ Finish(t) /\ UNCHANGED venue
    BY <1>1, <1>5 DEF WithdrawSettled, Answered
  <2>2. task[t].call = "deals"
    BY <1>1, <2>1 DEF WithdrawSteps
  <2>3. Traded(task[t].o[1])
    BY <1>0, <1>1, <2>1, <2>2 DEF Evidence
  <2> QED BY <1>0, <1>1, <2>1, <2>3, FilledStep DEF IInv
<1>6. CASE Swept(t) \/ StrayCancelled(t)
  <2>1. UNCHANGED <<venue, status, fills, owed>> /\ ~Working(task[t]) /\ ClosedKept
    BY <1>6 DEF Swept, StrayCancelled, Answered, Working, ClosedKept
  <2>2. CASE Finish(t)
    <3>1. task' = [task EXCEPT ![t] = Idle]
      BY <2>2 DEF Finish
    <3> QED BY <1>0, <2>1, <3>1, ResumeStep, OwedKept, BookkeepingStep DEF IInv
  <2>3. CASE \E stage \in {"withdraw", "stray"} : Await(t, stage, "cancel", NoRow)
    <3>1. <<"withdraw", "cancel">> \in WithdrawSteps /\ <<"stray", "cancel">> \in WithdrawSteps
      BY DEF WithdrawSteps
    <3> QED BY <1>0, <1>1, <2>1, <2>3, <3>1, CancelGoesOn DEF IInv
  <2> QED BY <1>6, <2>2, <2>3 DEF Swept, StrayCancelled
<1> QED BY <1>3, <1>4, <1>5, <1>6

(* The invariant the safety theorems follow from holds in every behaviour of
   the execution client (adapters/mt5/execution.py): each task is at a stage of
   its own handler and what it remembers is evidence of the book, an order is
   placed once, fills and cancels are real, and what is owed is being worked on. *)
THEOREM Inductive == Spec => []IInv
<1>1. Init => IInv
  <2> SUFFICES ASSUME Init PROVE IInv
    OBVIOUS
  <2>1. TypeOK
    BY Domains, Rows DEF Init, TypeOK, VenueRow, Place, Status
  <2>2. \A t \in Tasks : task[t] = Idle
    BY DEF Init
  <2>3. TasksSound /\ PlacedOnce /\ OwedWillBeAnswered
    BY <2>2, IdleOnCourse DEF Init, TasksSound, PlacedOnce, OwedWillBeAnswered
  <2>4. NoFabricatedFill /\ CanceledEntryIsGone
    BY Domains DEF Init, NoFabricatedFill, CanceledEntryIsGone, Legs
  <2> QED BY <2>1, <2>3, <2>4 DEF IInv
<1>2. IInv /\ [Next]_vars => IInv'
  <2> SUFFICES ASSUME IInv, [Next]_vars PROVE IInv'
    OBVIOUS
  <2>1. CASE UNCHANGED vars
    BY <2>1 DEF vars, IInv, TypeOK, TasksSound, Evidence, PlacedOnce, NoFabricatedFill,
       CanceledEntryIsGone, OwedWillBeAnswered, Working, Traded
  <2>2. CASE Next
    BY <2>2, CommandStep, ServeStep, BrokerStep, RefuseBracketStep, PlaceStep, RefuseStep, ModifyStep,
       ClearStep, WithdrawStep DEF Next, Resume, RefuseUnplaced
  <2> QED BY <2>1, <2>2
<1> QED BY <1>1, <1>2, PTL DEF Spec

(* Whatever replies are lost and however commands interleave, a fill the     *)
(* client reports is an entry's, and the broker has traded it.               *)
THEOREM FillsAreReal == Spec => []NoFabricatedFill
<1>1. IInv => NoFabricatedFill
  BY DEF IInv
<1> QED BY <1>1, Inductive, PTL

(* An entry the client reports cancelled is withdrawn and was never traded.  *)
THEOREM CancelsAreReal == Spec => []CanceledEntryIsGone
<1>1. IInv => CanceledEntryIsGone
  BY DEF IInv
<1> QED BY <1>1, Inductive, PTL

(* No path through _modify_order or _cancel_order ends without an event: a   *)
(* modify or a cancel without an answer has a task still working on it.      *)
THEOREM NothingForgotten == Spec => []OwedHasATask
<1>1. IInv => OwedHasATask
  BY DEF IInv, OwedWillBeAnswered, OwedHasATask
<1> QED BY <1>1, Inductive, PTL

---------------------------------------------------------------------------
(* One fill of a bracket is counted once: the trade ids never differ.       *)

(***************************************************************************)
(* A fill is reported under its order's ticket only where the reply of a   *)
(* market order had no deal (_place).  Every other path asks the deals.    *)
(* Such an order never rested: it is alone from before it was sent until   *)
(* it is filled, so no withdrawal has taken it up, and none will.          *)
(***************************************************************************)
Entry(b) == <<b, "E">>

\* A command that may end in a fill found among the deals.
Withdrawing(k, b) ==
    /\ k.op = "cancel" /\ k.o = Entry(b)
    /\ k.stage \in {"withdraw", "listing", "history"} \/ (k.stage = "sweep" /\ k.rows # {})

\* A submit that will report the ticket.
Undealt(k, b) ==
    /\ k.op = "place" /\ k.o = Entry(b)
    /\ \/ k.stage = "answer" /\ k.answer = "nodeal" /\ b \in Markets
       \/ k.stage \in {"before", "protect", "after"} /\ k.note = "nodeal"

Alone(b) ==
    \/ venue[b].at = "none"
    \/ \E t \in Tasks : Undealt(task[t], b)
    \/ "ticket" \in fills[Entry(b)]

Settled(b) == /\ status[Entry(b)] # "ACCEPTED"
              /\ \A t \in Tasks : ~Withdrawing(task[t], b)

Took(k) == k.op = "place" /\ k.stage = "answer" /\ k.answer \in {"placed", "done", "nodeal", "unpriced"}

FInv ==
    /\ \A b \in Brackets : Alone(b) => Settled(b)
    /\ \A t \in Tasks : Took(task[t]) => venue[task[t].o[1]].at # "none"
    /\ \A b \in Brackets, t \in Tasks : Undealt(task[t], b) => fills[Entry(b)] = {}
    /\ \A b \in Brackets : "ticket" \in fills[Entry(b)] =>
          /\ fills[Entry(b)] = {"ticket"}
          /\ \A t \in Tasks : ~(task[t].op = "place" /\ task[t].o = Entry(b))

(* What is alone is not resting: it was never sent, or it has been traded. *)
LEMMA AloneNotResting ==
    ASSUME IInv, NEW b \in Brackets, Alone(b)
    PROVE  venue[b].at # "resting" /\ (venue[b].at # "none" => Traded(b))
<1>1. CASE \E t \in Tasks : Undealt(task[t], b)
  <2>1. PICK t \in Tasks : Undealt(task[t], b)
    BY <1>1
  <2>2. Evidence(task[t]) /\ task[t].o[1] = b /\ task[t].op # "idle"
    BY <2>1 DEF IInv, TasksSound, Undealt, Entry
  <2> QED BY <2>1, <2>2 DEF Undealt, Evidence, Traded
<1>2. CASE "ticket" \in fills[Entry(b)]
  <2>1. Entry(b) \in Orders /\ Entry(b)[1] = b
    BY Domains DEF Entry, Legs
  <2> QED BY <1>2, <2>1 DEF IInv, NoFabricatedFill, Traded
<1> QED BY <1>1, <1>2 DEF Alone

(* The entries are orders, and of one bracket each.                         *)
LEMMA Entries ==
    /\ \A b \in Brackets : Entry(b) \in Orders /\ Entry(b)[1] = b /\ Entry(b)[2] = "E"
    /\ \A o \in Orders : o[2] = "E" => o = Entry(o[1])
BY Domains DEF Entry, Legs

(***************************************************************************)
(* A step of one task that reports no fill, described by what it may do to *)
(* a bracket that is alone: nothing.                                       *)
(***************************************************************************)
LEMMA QuietStep ==
    ASSUME IInv, FInv, NEW t \in Tasks, NEW k, task' = [task EXCEPT ![t] = k], UNCHANGED fills,
           \A b \in Brackets : venue'[b].at = "none" => venue[b].at = "none",
           \A b \in Brackets : status'[Entry(b)] = "ACCEPTED"
                                  => status[Entry(b)] = "ACCEPTED" \/ ~Alone(b),
           \A b \in Brackets : Withdrawing(k, b) => Withdrawing(task[t], b) \/ ~Alone(b),
           \A b \in Brackets : Undealt(k, b) => Undealt(task[t], b) \/ venue[b].at = "none",
           Took(k) => venue'[k.o[1]].at # "none",
           \A b \in Brackets : k.op = "place" /\ k.o = Entry(b)
                                  => (task[t].op = "place" /\ task[t].o = Entry(b)) \/ venue[b].at = "none"
    PROVE  FInv'
<1>1. \A u \in Tasks : task'[u] = IF u = t THEN k ELSE task[u]
  BY DEF IInv, TypeOK
<1>2. ASSUME NEW b \in Brackets, Alone(b)' PROVE Alone(b) /\ Settled(b)'
  <2>1. Alone(b)
    <3>1. CASE venue'[b].at = "none"
      BY <3>1 DEF Alone
    <3>2. CASE \E u \in Tasks : Undealt(task'[u], b)
      BY <1>1, <3>2 DEF Alone
    <3>3. CASE "ticket" \in fills[Entry(b)]
      BY <3>3 DEF Alone
    <3> QED BY <1>2, <3>1, <3>2, <3>3 DEF Alone, Undealt
  <2>2. Settled(b)
    BY <2>1 DEF FInv
  <2>3. \A u \in Tasks : ~Withdrawing(task'[u], b)
    BY <1>1, <2>1, <2>2 DEF Settled
  <2> QED BY <2>1, <2>2, <2>3 DEF Settled, Withdrawing
<1>3. ASSUME NEW u \in Tasks, Took(task'[u]) PROVE venue'[task'[u].o[1]].at # "none"
  <2>1. CASE u = t
    BY <1>1, <1>3, <2>1
  <2>2. CASE u # t
    <3>1. task'[u] = task[u] /\ task[u].o[1] \in Brackets
      BY <1>1, <2>2, TaskFields DEF IInv, TypeOK, TasksOK
    <3> QED BY <1>3, <3>1 DEF FInv
  <2> QED BY <2>1, <2>2
<1>n. ASSUME NEW b \in Brackets, venue[b].at = "none" PROVE fills[Entry(b)] = {}
  BY <1>n, Entries DEF IInv, NoFabricatedFill, Traded
<1>4. ASSUME NEW b \in Brackets, NEW u \in Tasks, Undealt(task'[u], b)
      PROVE  fills[Entry(b)] = {}
  BY <1>1, <1>4, <1>n DEF FInv
<1>5. ASSUME NEW b \in Brackets, "ticket" \in fills[Entry(b)]
      PROVE  /\ fills[Entry(b)] = {"ticket"}
             /\ \A u \in Tasks : ~(task'[u].op = "place" /\ task'[u].o = Entry(b))
  <2>1. fills[Entry(b)] = {"ticket"} /\ venue[b].at # "none"
    BY <1>5, <1>n DEF FInv
  <2>2. \A u \in Tasks : ~(task[u].op = "place" /\ task[u].o = Entry(b))
    BY <1>5 DEF FInv
  <2> QED BY <1>1, <2>1, <2>2
<1> QED BY <1>2, <1>3, <1>4, <1>5 DEF FInv, Took, Undealt, Settled, Withdrawing

(* Such a step of a handler that goes on with the same command. *)
LEMMA GoesOnQuiet ==
    ASSUME IInv, FInv, NEW t \in Tasks, NEW k, task' = [task EXCEPT ![t] = k],
           UNCHANGED venue, UNCHANGED fills,
           \A b \in Brackets : status'[Entry(b)] = "ACCEPTED"
                                  => status[Entry(b)] = "ACCEPTED" \/ ~Alone(b),
           k.op = task[t].op, k.o = task[t].o, k.stage # "answer",
           \A b \in Brackets : Withdrawing(k, b) => Withdrawing(task[t], b),
           \A b \in Brackets : Undealt(k, b) => Undealt(task[t], b)
    PROVE  FInv'
<1>1. \A b \in Brackets : Withdrawing(k, b) => Withdrawing(task[t], b) \/ ~Alone(b)
  OBVIOUS
<1>2. \A b \in Brackets : Undealt(k, b) => Undealt(task[t], b) \/ venue[b].at = "none"
  OBVIOUS
<1>3. \A b \in Brackets : k.op = "place" /\ k.o = Entry(b)
          => (task[t].op = "place" /\ task[t].o = Entry(b)) \/ venue[b].at = "none"
  OBVIOUS
<1>4. Took(k) => venue'[k.o[1]].at # "none"
  BY DEF Took
<1> QED BY <1>1, <1>2, <1>3, <1>4, QuietStep

(* A step that moves no task: the broker's, or a bracket refused unsent. *)
LEMMA Untasked ==
    ASSUME IInv, FInv, NEW b \in Brackets, BrokerMoves(b) \/ RefuseBracket(b)
    PROVE  FInv'
<1>1. UNCHANGED <<task, fills>>
  BY DEF BrokerMoves, RefuseBracket
<1>2. \A c \in Brackets : venue'[c].at = "none" => venue[c].at = "none"
  <2>1. venue \in [Brackets -> VenueRow]
    BY DEF IInv, TypeOK
  <2>2. CASE RefuseBracket(b)
    BY <2>2 DEF RefuseBracket
  <2>3. CASE BrokerMoves(b)
    <3>1. PICK at \in {"fresh", "open", "gone", "closed"} :
            \A c \in Brackets : venue'[c].at = IF c = b THEN at ELSE venue[c].at
      <4>1. CASE Opened(b, RowOf(b))
        <5>1. PICK at \in {"fresh", "open"} : \E sl, tp :
                venue' = [venue EXCEPT ![b] = [at |-> at, px |-> RowOf(b).px, sl |-> sl, tp |-> tp]]
          BY <4>1 DEF Opened
        <5> QED BY <2>1, <5>1
      <4>2. CASE \E at \in {"gone", "open", "closed"} : venue' = [venue EXCEPT ![b].at = at]
        BY <2>1, <4>2 DEF VenueRow
      <4> QED BY <2>3, <4>1, <4>2 DEF BrokerMoves
    <3> QED BY <3>1
  <2> QED BY <2>2, <2>3
<1>3. \A o \in Orders : status'[o] = "ACCEPTED" => status[o] = "ACCEPTED"
  BY DEF BrokerMoves, RefuseBracket, Move
<1>4. \A c \in Brackets : Alone(c)' => Alone(c)
  BY <1>1, <1>2 DEF Alone, Undealt
<1>5. \A c \in Brackets : Alone(c)' => Settled(c)'
  BY <1>1, <1>3, <1>4, Entries DEF FInv, Settled, Withdrawing
<1>6. \A u \in Tasks : task[u].o[1] \in Brackets
  BY TaskFields DEF IInv, TypeOK, TasksOK
<1>7. \A u \in Tasks : Took(task'[u]) => venue'[task'[u].o[1]].at # "none"
  BY <1>1, <1>2, <1>6 DEF FInv, Took
<1> QED BY <1>1, <1>5, <1>7 DEF FInv, Undealt, Took, Settled, Withdrawing

(* The idle task is none of these. *)
LEMMA IdleQuiet == Idle.op = "idle" /\ \A b : ~Withdrawing(Idle, b) /\ ~Undealt(Idle, b)
  BY IdleOnCourse DEF Withdrawing, Undealt

(* A handler that ends with no fill and accepts nothing that is alone. *)
LEMMA EndsQuiet ==
    ASSUME IInv, FInv, NEW t \in Tasks, Finish(t), UNCHANGED venue, UNCHANGED fills,
           \A b \in Brackets : status'[Entry(b)] = "ACCEPTED"
                                  => status[Entry(b)] = "ACCEPTED" \/ ~Alone(b)
    PROVE  FInv'
<1>1. task' = [task EXCEPT ![t] = Idle]
  BY DEF Finish
<1>2. ~Took(Idle) /\ Idle.op # "place"
  BY IdleQuiet DEF Took
<1> QED BY <1>1, <1>2, IdleQuiet, QuietStep

(* A handler that awaits its next call. *)
LEMMA AwaitQuiet ==
    ASSUME IInv, FInv, NEW t \in Tasks, NEW stage, NEW call, NEW send, NEW note,
           \/ Await(t, stage, call, send) /\ note = task[t].note
           \/ AwaitNoting(t, stage, call, send, note),
           UNCHANGED venue, UNCHANGED fills, stage # "answer",
           \A b \in Brackets : status'[Entry(b)] = "ACCEPTED"
                                  => status[Entry(b)] = "ACCEPTED" \/ ~Alone(b),
           \A b \in Brackets :
              /\ task[t].op = "cancel" /\ task[t].o = Entry(b) /\ stage # "sweep"
                 => Withdrawing(task[t], b)
              /\ task[t].op = "place" /\ task[t].o = Entry(b) /\ note = "nodeal" /\ stage # "price"
                 => Undealt(task[t], b)
    PROVE  FInv'
<1>0. task[t] \in Task
  BY DEF IInv, TypeOK
<1>1. PICK k :
        /\ task' = [task EXCEPT ![t] = k]
        /\ k.op = task[t].op /\ k.o = task[t].o /\ k.stage = stage /\ k.rows = {} /\ k.note = note
  <2>1. CASE Await(t, stage, call, send) /\ note = task[t].note
    <3> DEFINE k == [task[t] EXCEPT !.stage = stage, !.call = call, !.send = send,
                                    !.answer = "none", !.rows = {}]
    <3>1. /\ k.op = task[t].op /\ k.o = task[t].o /\ k.stage = stage /\ k.rows = {} /\ k.note = note
      BY <1>0, <2>1 DEF Task
    <3>2. task' = [task EXCEPT ![t] = k]
      BY <2>1 DEF Await
    <3> QED BY <3>1, <3>2
  <2>2. CASE AwaitNoting(t, stage, call, send, note)
    <3> DEFINE k == [task[t] EXCEPT !.stage = stage, !.call = call, !.send = send,
                                    !.answer = "none", !.rows = {}, !.note = note]
    <3>1. /\ k.op = task[t].op /\ k.o = task[t].o /\ k.stage = stage /\ k.rows = {} /\ k.note = note
      BY <1>0, <2>2 DEF Task
    <3>2. task' = [task EXCEPT ![t] = k]
      BY <2>2 DEF AwaitNoting
    <3> QED BY <3>1, <3>2
  <2> QED BY <2>1, <2>2
<1>2. \A b \in Brackets : Withdrawing(k, b) => Withdrawing(task[t], b)
  BY <1>1 DEF Withdrawing
<1>3. \A b \in Brackets : Undealt(k, b) => Undealt(task[t], b)
  BY <1>1 DEF Undealt
<1>4. /\ task' = [task EXCEPT ![t] = k]
      /\ k.op = task[t].op /\ k.o = task[t].o /\ k.stage # "answer"
  BY <1>1
<1> QED BY <1>2, <1>3, <1>4, GoesOnQuiet

(* A submit whose reply has a deal, or none that is a fill, is not of a      *)
(* bracket that is alone.                                                    *)
LEMMA NotAlone ==
    ASSUME IInv, FInv, NEW t \in Tasks, task[t].op = "place",
           venue[task[t].o[1]].at # "none", ~Undealt(task[t], task[t].o[1])
    PROVE  task[t].o = Entry(task[t].o[1]) /\ task[t].o[1] \in Brackets /\ ~Alone(task[t].o[1])
<1>1. task[t].o \in Orders /\ task[t].o[2] = "E" /\ task[t].o[1] \in Brackets
  BY TaskFields DEF IInv, TypeOK, TasksOK, TasksSound, OnCourse
<1>2. task[t].o = Entry(task[t].o[1])
  BY <1>1, Entries
<1>3. \A u \in Tasks : ~Undealt(task[u], task[t].o[1])
  BY <1>2 DEF Undealt, IInv, PlacedOnce
<1>4. "ticket" \notin fills[task[t].o]
  BY <1>1, <1>2 DEF FInv
<1> QED BY <1>1, <1>2, <1>3, <1>4 DEF Alone

(* A fill is reported and the task that reports it ends: by the deal, of a   *)
(* bracket that is not alone, or by the ticket, of one whose submit knows of *)
(* no deal.                                                                  *)
LEMMA FillQuiet ==
    ASSUME IInv, FInv, NEW t \in Tasks, Finish(t), UNCHANGED venue,
           NEW b \in Brackets, task[t].o = Entry(b), NEW id \in {"deal", "ticket"},
           fills' = [fills EXCEPT ![Entry(b)] = @ \cup {id}],
           status'[Entry(b)] # "ACCEPTED",
           \A c \in Brackets : c # b => status'[Entry(c)] = status[Entry(c)],
           \/ id = "deal" /\ ~Alone(b)
           \/ id = "ticket" /\ Undealt(task[t], b)
    PROVE  FInv'
<1>0. /\ \A c \in Brackets : c # b => Entry(c) # Entry(b)
      /\ \A c \in Brackets : Entry(c) \in Orders
  BY Entries DEF Entry
<1>1. /\ \A u \in Tasks : task'[u] = IF u = t THEN Idle ELSE task[u]
      /\ \A c \in Brackets : fills'[Entry(c)] =
              IF c = b THEN fills[Entry(c)] \cup {id} ELSE fills[Entry(c)]
  BY <1>0 DEF Finish, IInv, TypeOK
<1>2. \A u \in Tasks : Undealt(task'[u], b) => u # t /\ Undealt(task[u], b)
  BY <1>1, IdleQuiet
<1>3. ASSUME NEW c \in Brackets, Alone(c)' PROVE Alone(c) /\ Settled(c)'
  <2>1. Alone(c)
    <3>1. CASE c = b /\ id = "ticket"
      BY <3>1 DEF Alone, Undealt
    <3>2. CASE c # b
      BY <1>1, <1>3, <3>2, IdleQuiet DEF Alone, Undealt
    <3>3. CASE c = b /\ id = "deal"
      BY <1>1, <1>2, <1>3, <3>3 DEF Alone, Undealt
    <3> QED BY <3>1, <3>2, <3>3
  <2>2. Settled(c)
    BY <2>1 DEF FInv
  <2>3. \A u \in Tasks : ~Withdrawing(task'[u], c)
    BY <1>1, <2>2, IdleQuiet DEF Settled
  <2> QED BY <2>1, <2>2, <2>3 DEF Settled, Withdrawing
<1>4. ASSUME NEW u \in Tasks, Took(task'[u]) PROVE venue'[task'[u].o[1]].at # "none"
  BY <1>1, <1>4, IdleQuiet DEF FInv, Took
<1>5. ASSUME NEW c \in Brackets, NEW u \in Tasks, Undealt(task'[u], c)
      PROVE  fills'[Entry(c)] = {}
  <2>1. u # t /\ Undealt(task[u], c)
    BY <1>1, <1>5, IdleQuiet
  <2>2. fills[Entry(c)] = {} /\ Alone(c)
    BY <2>1 DEF FInv, Alone
  <2>3. c # b
    BY <2>1, <2>2 DEF Undealt, IInv, PlacedOnce
  <2> QED BY <1>1, <2>2, <2>3
<1>6. ASSUME NEW c \in Brackets, "ticket" \in fills'[Entry(c)]
      PROVE  /\ fills'[Entry(c)] = {"ticket"}
             /\ \A u \in Tasks : ~(task'[u].op = "place" /\ task'[u].o = Entry(c))
  <2>1. CASE c = b /\ id = "ticket"
    <3>1. fills[Entry(b)] = {} /\ task[t].op = "place"
      BY <2>1 DEF FInv, Undealt
    <3>2. \A u \in Tasks : task[u].op = "place" /\ task[u].o = Entry(b) => u = t
      BY <3>1 DEF IInv, PlacedOnce
    <3> QED BY <1>1, <2>1, <3>1, <3>2, IdleQuiet
  <2>2. CASE ~(c = b /\ id = "ticket")
    <3>1. "ticket" \in fills[Entry(c)]
      BY <1>1, <1>6, <2>2
    <3>2. Alone(c)
      BY <3>1 DEF Alone
    <3>3. c # b
      BY <2>2, <3>2
    <3> QED BY <1>1, <3>1, <3>3, IdleQuiet DEF FInv
  <2> QED BY <2>1, <2>2
<1> QED BY <1>3, <1>4, <1>5, <1>6 DEF FInv, Took, Undealt, Settled, Withdrawing

(* Every call the terminal serves: only a listing of resting orders, for a   *)
(* sweep, starts a withdrawal, and what is alone is not in it.               *)
LEMMA ServeQuiet ==
    ASSUME IInv, FInv, NEW t \in Tasks, Serve(t)
    PROVE  FInv'
<1> DEFINE b == task[t].o[1]
           Answer(a, rows) == [task[t] EXCEPT !.answer = a, !.rows = rows]
<1>0. /\ UNCHANGED status /\ UNCHANGED fills /\ task[t] \in Task
      /\ task[t].op # "idle" /\ b \in Brackets /\ OnCourse(task[t]) /\ Evidence(task[t])
      /\ venue \in [Brackets -> VenueRow]
  <2>1. UNCHANGED <<status, fills>> /\ task[t].op # "idle"
    BY DEF Serve, TakeOrder, TakeModify, TakeMove, TakeCancel, ListPositions, ListPending,
           ListDeals, Listing, Written, Pending
  <2> QED BY <2>1, TaskFields DEF IInv, TypeOK, TasksOK, TasksSound
<1>r. ASSUME NEW a, NEW rows, Reply(t, a, rows)
      PROVE  \E k : /\ task' = [task EXCEPT ![t] = k]
                    /\ k.op = task[t].op /\ k.o = task[t].o /\ k.stage = task[t].stage
                    /\ k.note = task[t].note /\ k.answer = a /\ k.rows = rows
  <2> DEFINE k == Answer(a, rows)
  <2>1. task' = [task EXCEPT ![t] = k]
    BY <1>0, <1>r DEF Reply, IInv, TypeOK
  <2>2. /\ k.op = task[t].op /\ k.o = task[t].o /\ k.stage = task[t].stage
        /\ k.note = task[t].note /\ k.answer = a /\ k.rows = rows
    BY <1>0 DEF Task
  <2> QED BY <2>1, <2>2
<1>s. \A c \in Brackets : status'[Entry(c)] = "ACCEPTED"
                              => status[Entry(c)] = "ACCEPTED" \/ ~Alone(c)
  BY <1>0
<1>1. CASE TakeOrder(t)
  <2>1. venue[b].at = "none" /\ task[t].stage = "answer" /\ task[t].op = "place"
        /\ task[t].o = Entry(b)
    BY <1>0, <1>1, Entries, TaskFields DEF TakeOrder, Pending, OnCourse, Evidence, PlaceSteps,
       ModifySteps, ClearSteps, WithdrawSteps, IInv, TypeOK, TasksOK
  <2>2. PICK a : /\ Reply(t, a, {})
                 /\ a \in {"placed", "done", "nodeal", "unpriced"} => venue'[b].at # "none"
                 /\ \A c \in Brackets : c # b => venue'[c].at = venue[c].at
    <3>1. CASE UNCHANGED venue /\ \E a \in {"refused", "empty", "raised"} : Reply(t, a, {})
      BY <3>1
    <3>2. CASE \E a : Reply(t, a, {}) /\ \E row \in Row : Opened(b, row) \/ Rested(b, row)
      <4>1. PICK row \in Row : Opened(b, row) \/ Rested(b, row)
        BY <3>2
      <4>2. PICK at \in {"resting", "fresh", "open"} : \E sl, tp :
              venue' = [venue EXCEPT ![b] = [at |-> at, px |-> row.px, sl |-> sl, tp |-> tp]]
        BY <4>1 DEF Opened, Rested
      <4> QED BY <1>0, <3>2, <4>2
    <3>3. task[t].send \in Row
      BY TaskFields DEF IInv, TypeOK, TasksOK
    <3> QED BY <1>1, <3>1, <3>2, <3>3 DEF TakeOrder
  <2>3. PICK k : /\ task' = [task EXCEPT ![t] = k] /\ k.op = "place" /\ k.o = Entry(b)
                 /\ k.stage = "answer" /\ k.answer = a
    BY <1>r, <2>1, <2>2
  <2>w. \A c \in Brackets : Withdrawing(k, c) => Withdrawing(task[t], c) \/ ~Alone(c)
    BY <2>3 DEF Withdrawing
  <2>u. \A c \in Brackets : Undealt(k, c) => Undealt(task[t], c) \/ venue[c].at = "none"
    BY <2>1, <2>3 DEF Undealt, Entry
  <2>4. \A c \in Brackets : k.op = "place" /\ k.o = Entry(c)
            => (task[t].op = "place" /\ task[t].o = Entry(c)) \/ venue[c].at = "none"
    BY <2>1, <2>3
  <2>5. Took(k) => venue'[k.o[1]].at # "none"
    BY <2>2, <2>3, Entries, <1>0 DEF Took
  <2>6. \A c \in Brackets : venue'[c].at = "none" => venue[c].at = "none"
    BY <2>1, <2>2
  <2>7. task' = [task EXCEPT ![t] = k] /\ UNCHANGED fills
    BY <1>0, <2>3
  <2> QED BY <1>s, <2>7, <2>w, <2>u, <2>4, <2>5, <2>6, QuietStep
<1>2. CASE ~TakeOrder(t)
  <2>1. task[t].call # "order"
    BY <1>2 DEF Serve, TakeModify, TakeMove, TakeCancel, ListPositions, ListPending, ListDeals,
       Listing, Written, Pending
  <2>2. task[t].stage # "answer"
    BY <1>0, <2>1 DEF OnCourse, PlaceSteps, ModifySteps, ClearSteps, WithdrawSteps
  <2>3. PICK a, rows : /\ Reply(t, a, rows)
                       /\ task[t].stage = "sweep" /\ rows # {} => venue[b].at = "resting"
    <3>1. task[t].stage = "sweep" => task[t].call = "pending"
      BY <1>0 DEF OnCourse, PlaceSteps, ModifySteps, ClearSteps, WithdrawSteps
    <3> QED BY <1>2, <3>1 DEF Serve, TakeModify, TakeMove, TakeCancel, ListPositions, ListPending,
            ListDeals, Listing, Written, Pending
  <2>4. \A c \in Brackets : venue'[c].at = "none" => venue[c].at = "none"
    <3>1. CASE UNCHANGED venue
      BY <3>1
    <3>2. CASE TakeModify(t) \/ TakeMove(t) \/ TakeCancel(t)
      BY <1>0, <3>2 DEF TakeModify, TakeMove, TakeCancel, Written, VenueRow
    <3> QED BY <1>2, <3>1, <3>2 DEF Serve, ListPositions, ListPending, ListDeals, Listing
  <2>5. PICK k : /\ task' = [task EXCEPT ![t] = k] /\ k.op = task[t].op /\ k.o = task[t].o
                 /\ k.stage = task[t].stage /\ k.note = task[t].note /\ k.rows = rows
    BY <1>r, <2>3
  <2>6. \A c \in Brackets : Withdrawing(k, c) => Withdrawing(task[t], c) \/ ~Alone(c)
    <3> SUFFICES ASSUME NEW c \in Brackets, Withdrawing(k, c), ~Withdrawing(task[t], c)
                 PROVE  ~Alone(c)
      OBVIOUS
    <3>1. k.stage = "sweep" /\ rows # {} /\ task[t].o = Entry(c)
      BY <2>5 DEF Withdrawing
    <3>2. venue[c].at = "resting"
      BY <2>3, <2>5, <3>1, Entries
    <3> QED BY <3>2, AloneNotResting
  <2>7. \A c \in Brackets : Undealt(k, c) => Undealt(task[t], c) \/ venue[c].at = "none"
    BY <2>2, <2>5 DEF Undealt
  <2>8. Took(k) => venue'[k.o[1]].at # "none"
    BY <2>2, <2>5 DEF Took
  <2>9. \A c \in Brackets : k.op = "place" /\ k.o = Entry(c)
            => (task[t].op = "place" /\ task[t].o = Entry(c)) \/ venue[c].at = "none"
    BY <2>5
  <2>a. task' = [task EXCEPT ![t] = k] /\ UNCHANGED fills
    BY <1>0, <2>5
  <2> QED BY <1>s, <2>a, <2>4, <2>6, <2>7, <2>8, <2>9, QuietStep
<1> QED BY <1>1, <1>2

(* Every command that starts: a bracket is submitted once, and the cancel of *)
(* an entry is of one the engine holds accepted, which is not alone.         *)
LEMMA CommandQuiet ==
    ASSUME IInv, FInv, NEW t \in Tasks, Command(t)
    PROVE  FInv'
<1> DEFINE Began(k) ==
             /\ task' = [task EXCEPT ![t] = k] /\ k.o \in Orders
             /\ k.answer = "none" /\ k.rows = {} /\ k.note = "none"
             /\ k.op = "place" => k.o[2] = "E" /\ status[k.o] = "INITIALIZED"
             /\ k.op = "cancel" /\ k.o[2] = "E" /\ k.stage \notin {"sweep", "unplaced"} => status[k.o] = "ACCEPTED"
<1>0. \A b \in Brackets : <<b, "E">> \in Orders
  BY Domains DEF Legs
<1>1. ASSUME NEW op, NEW o \in Orders, NEW arg, NEW stage, NEW call, NEW send,
             Start(t, op, o, arg, stage, call, send),
             op = "place" => o[2] = "E" /\ status[o] = "INITIALIZED",
             op = "cancel" /\ o[2] = "E" /\ stage \notin {"sweep", "unplaced"} => status[o] = "ACCEPTED"
      PROVE  \E k : Began(k)
  <2> DEFINE k == [op |-> op, o |-> o, arg |-> arg, stage |-> stage, call |-> call, send |-> send,
                   answer |-> "none", rows |-> {}, seen |-> {}, note |-> "none"]
  <2>1. Began(k)
    BY <1>1 DEF Start
  <2> QED BY <2>1
<1>3. PICK k : Began(k)
  <2>1. CASE \E b \in Brackets : SubmitBracket(t, b)
    <3>1. PICK b \in Brackets : SubmitBracket(t, b)
      BY <2>1
    <3>2. Start(t, "place", <<b, "E">>, 0, "answer", "order", Asked) /\ status[<<b, "E">>] = "INITIALIZED"
      BY <3>1 DEF SubmitBracket
    <3> HIDE DEF Began
    <3> QED BY <1>0, <1>1, <3>2
  <2>2. CASE \E b \in Brackets : CancelAll(t, b)
    <3>1. PICK b \in Brackets : CancelAll(t, b)
      BY <2>2
    <3>2. Start(t, "cancel", <<b, "E">>, 0, "sweep", "pending", NoRow)
      BY <3>1 DEF CancelAll
    <3> HIDE DEF Began
    <3> QED BY <1>0, <1>1, <3>2
  <2>3. CASE \E o \in Orders, p \in Prices : ModifyOrder(t, o, p)
    <3>1. PICK o \in Orders, p \in Prices : ModifyOrder(t, o, p)
      BY <2>3
    <3>2. Start(t, "modify", o, p, "resting", "pending", NoRow)
      BY <3>1 DEF ModifyOrder
    <3> HIDE DEF Began
    <3> QED BY <1>1, <3>2
  <2>4. CASE \E o \in Orders : CancelOrder(t, o)
    <3>1. PICK o \in Orders : CancelOrder(t, o)
      BY <2>4
    <3>2. /\ status[o] = "ACCEPTED"
          /\ \/ Start(t, "cancel", o, 0, "withdraw", "cancel", NoRow)
             \/ o[2] # "E" /\ Start(t, "cancel", o, 0, "resting", "pending", NoRow)
      BY <3>1 DEF CancelOrder
    <3> HIDE DEF Began
    <3> QED BY <1>1, <3>2
  <2>5. CASE \E o \in Orders, j \in {"modify", "cancel"} : CommandUnplaced(t, o, j)
    <3>1. PICK o \in Orders, j \in {"modify", "cancel"} : CommandUnplaced(t, o, j)
      BY <2>5
    <3>2. Start(t, j, o, 0, "unplaced", "none", NoRow)
      BY <3>1 DEF CommandUnplaced
    <3> HIDE DEF Began
    <3> QED BY <1>1, <3>2
  <2> QED BY <2>1, <2>2, <2>3, <2>4, <2>5 DEF Command
<1>2. /\ UNCHANGED venue /\ UNCHANGED fills
      /\ \A q \in Orders : status'[q] = "ACCEPTED" => status[q] = "ACCEPTED"
  BY DEF Command, SubmitBracket, ModifyOrder, CancelOrder, CommandUnplaced, CancelAll, Move
<1>4. \A b \in Brackets : Withdrawing(k, b) => Withdrawing(task[t], b) \/ ~Alone(b)
  <2> SUFFICES ASSUME NEW b \in Brackets, Withdrawing(k, b) PROVE ~Alone(b)
    OBVIOUS
  <2>1. status[Entry(b)] = "ACCEPTED"
    BY <1>3, Entries DEF Withdrawing
  <2> QED BY <2>1 DEF FInv, Settled
<1>5. \A b \in Brackets : Undealt(k, b) => Undealt(task[t], b) \/ venue[b].at = "none"
  BY <1>3 DEF Undealt
<1>6. Took(k) => venue'[k.o[1]].at # "none"
  BY <1>3 DEF Took
<1>7. \A b \in Brackets : k.op = "place" /\ k.o = Entry(b)
          => (task[t].op = "place" /\ task[t].o = Entry(b)) \/ venue[b].at = "none"
  BY <1>3 DEF IInv, PlacedOnce, Entry
<1>8. \A b \in Brackets : status'[Entry(b)] = "ACCEPTED"
                              => status[Entry(b)] = "ACCEPTED" \/ ~Alone(b)
  BY <1>2, Entries
<1>9. \A b \in Brackets : venue'[b].at = "none" => venue[b].at = "none"
  BY <1>2
<1>a. task' = [task EXCEPT ![t] = k] /\ UNCHANGED fills
  BY <1>2, <1>3
<1> HIDE DEF Began
<1> QED BY <1>a, <1>4, <1>5, <1>6, <1>7, <1>8, <1>9, QuietStep

(* Every step of a modify, and of the clearing of a leg: neither reports a   *)
(* fill, accepts an order or withdraws an entry.                             *)
LEMMA LegQuiet ==
    ASSUME IInv, FInv, NEW t \in Tasks,
           \/ Located(t) \/ ModifySends(t) \/ ModifySent(t) \/ ModifyVerified(t)
           \/ ClearSends(t) \/ ClearSent(t)
    PROVE  FInv'
<1>0. OnCourse(task[t]) /\ task[t] \in Task
  BY DEF IInv, TasksSound, TypeOK
<1>1. /\ task[t].stage \in {"resting", "held", "sent", "verify", "cleared"}
      /\ task[t].op \in {"modify", "cancel"}
      /\ task[t].op = "cancel" => task[t].o[2] # "E"
  BY <1>0 DEF Located, ModifySends, ModifySent, ModifyVerified, ClearSends, ClearSent, Answered,
     OnCourse, PlaceSteps, ModifySteps, ClearSteps, WithdrawSteps
<1>2. UNCHANGED venue /\ UNCHANGED fills
  BY DEF Located, ModifySends, ModifySent, ModifyVerified, ClearSends, ClearSent,
         RefuseUnsent, RefuseSent, Refuse, Cancelled
<1>3. \A b \in Brackets : status'[Entry(b)] = "ACCEPTED" => status[Entry(b)] = "ACCEPTED" \/ ~Alone(b)
  BY Entries DEF Located, ModifySends, ModifySent, ModifyVerified, ClearSends, ClearSent,
         RefuseUnsent, RefuseSent, Refuse, Cancelled, Move
<1>4. CASE Finish(t)
  BY <1>2, <1>3, <1>4, EndsQuiet
<1>5. CASE \E stage \in {"sent", "verify", "cleared"} : \E call, send : Await(t, stage, call, send)
  <2>1. PICK stage \in {"sent", "verify", "cleared"} : \E call, send : Await(t, stage, call, send)
    BY <1>5
  <2>2. \A b \in Brackets :
           /\ task[t].op = "cancel" /\ task[t].o = Entry(b) /\ stage # "sweep"
              => Withdrawing(task[t], b)
           /\ task[t].op = "place" /\ task[t].o = Entry(b) /\ task[t].note = "nodeal" /\ stage # "price"
              => Undealt(task[t], b)
    <3>1. task[t].op # "place" /\ \A b \in Brackets : ~(task[t].op = "cancel" /\ task[t].o = Entry(b))
      BY <1>1 DEF Entry
    <3> QED BY <3>1
  <2>3. stage # "answer"
    BY <2>1
  <2> QED BY <1>2, <1>3, <2>1, <2>2, <2>3, AwaitQuiet
<1>6. CASE Located(t) /\ ~Finish(t)
  <2> DEFINE k == [task[t] EXCEPT !.stage = "held", !.call = "positions", !.answer = "none",
                                  !.rows = {}, !.seen = task[t].rows]
  <2>1. task' = [task EXCEPT ![t] = k]
    BY <1>6 DEF Located, RefuseUnsent, Refuse
  <2>2. k.op = task[t].op /\ k.o = task[t].o /\ k.stage = "held"
    BY <1>0 DEF Task
  <2>3. \A b \in Brackets : ~Withdrawing(k, b) /\ ~Undealt(k, b)
    BY <2>2 DEF Withdrawing, Undealt
  <2> HIDE DEF k
  <2>4. /\ \A b \in Brackets : Withdrawing(k, b) => Withdrawing(task[t], b)
        /\ \A b \in Brackets : Undealt(k, b) => Undealt(task[t], b)
    BY <2>3
  <2>5. k.stage # "answer" /\ k.op = task[t].op /\ k.o = task[t].o
    BY <2>2
  <2> QED BY <1>2, <1>3, <2>1, <2>4, <2>5, GoesOnQuiet
<1> QED BY <1>4, <1>5, <1>6 DEF Located, ModifySends, ModifySent, ModifyVerified, ClearSends,
           ClearSent, RefuseUnsent, RefuseSent, Refuse, Cancelled

(* Every step of a withdrawal: it may find a fill, under its deal, and the   *)
(* entry it withdraws is not alone.                                          *)
LEMMA WithdrawQuiet ==
    ASSUME IInv, FInv, NEW t \in Tasks,
           \/ WithdrawSent(t) \/ WithdrawListed(t) \/ WithdrawSettled(t)
           \/ Swept(t) \/ StrayCancelled(t)
    PROVE  FInv'
<1>0. OnCourse(task[t]) /\ task[t] \in Task
  BY DEF IInv, TasksSound, TypeOK
<1>1. /\ task[t].stage \in {"withdraw", "listing", "history", "sweep", "stray"}
      /\ task[t].op = "cancel" /\ task[t].o[2] = "E"
  BY <1>0 DEF WithdrawSent, WithdrawListed, WithdrawSettled, Swept, StrayCancelled, Answered,
     OnCourse, PlaceSteps, ModifySteps, ClearSteps, WithdrawSteps
<1>2. PICK b \in Brackets : task[t].o = Entry(b)
  BY <1>1, Entries, TaskFields DEF IInv, TypeOK, TasksOK
<1>3. /\ UNCHANGED venue
      /\ \A c \in Brackets : status'[Entry(c)] = "ACCEPTED" => status[Entry(c)] = "ACCEPTED" \/ ~Alone(c)
  BY Entries DEF WithdrawSent, WithdrawListed, WithdrawSettled, Swept, StrayCancelled,
         RefuseUnsent, RefuseSent, Refuse, Cancelled, Filled, Move
<1>4. CASE Finish(t) /\ UNCHANGED fills
  BY <1>3, <1>4, EndsQuiet
<1>5. CASE \/ \E note : AwaitNoting(t, "listing", "pending", NoRow, note) /\ WithdrawSent(t)
           \/ Await(t, "history", "deals", NoRow) /\ WithdrawListed(t)
           \/ \E stage \in {"withdraw", "stray"} :
                 Await(t, stage, "cancel", NoRow) /\ Swept(t) /\ task[t].rows # {}
  <2>1. Withdrawing(task[t], b) /\ UNCHANGED fills
    BY <1>1, <1>2, <1>5 DEF Withdrawing, WithdrawSent, WithdrawListed, Swept, Answered,
       RefuseUnsent, RefuseSent, Refuse, Cancelled
  <2>0. PICK stage \in {"listing", "history", "withdraw", "stray"} : \E call, send, note :
           \/ Await(t, stage, call, send) /\ note = task[t].note
           \/ AwaitNoting(t, stage, call, send, note)
    BY <1>5
  <2>2. PICK call, send, note :
           \/ Await(t, stage, call, send) /\ note = task[t].note
           \/ AwaitNoting(t, stage, call, send, note)
    BY <2>0
  <2>3. \A c \in Brackets :
           /\ task[t].op = "cancel" /\ task[t].o = Entry(c) /\ stage # "sweep"
              => Withdrawing(task[t], c)
           /\ task[t].op = "place" /\ task[t].o = Entry(c) /\ note = "nodeal" /\ stage # "price"
              => Undealt(task[t], c)
    BY <1>1, <1>2, <2>1 DEF Entry
  <2>4. stage # "answer"
    BY <2>0
  <2> QED BY <1>3, <2>1, <2>2, <2>3, <2>4, AwaitQuiet
<1>6. CASE WithdrawSettled(t) /\ task[t].rows # {}
  <2>1. task[t].stage = "history" /\ Filled(Entry(b), "deal") /\ Finish(t)
    BY <1>2, <1>6 DEF WithdrawSettled, Answered
  <2>2. ~Alone(b)
    <3>1. Withdrawing(task[t], b)
      BY <1>1, <1>2, <2>1 DEF Withdrawing
    <3> QED BY <3>1 DEF FInv, Settled
  <2>3. /\ status'[Entry(b)] # "ACCEPTED"
        /\ \A c \in Brackets : c # b => status'[Entry(c)] = status[Entry(c)]
        /\ fills' = [fills EXCEPT ![Entry(b)] = @ \cup {"deal"}]
    BY <2>1, Entries DEF Filled, Move, Closed, Entry
  <2> QED BY <1>2, <1>3, <2>1, <2>2, <2>3, FillQuiet
<1> QED BY <1>4, <1>5, <1>6 DEF WithdrawSent, WithdrawListed, WithdrawSettled, Swept,
           StrayCancelled, RefuseUnsent, RefuseSent, Refuse, Cancelled

(* Every step of a submit: what it accepts rests, or its reply has a deal;   *)
(* a reply without one is of a bracket that is alone till the fill is sent.  *)
LEMMA PlaceQuiet ==
    ASSUME IInv, FInv, NEW t \in Tasks,
           \/ PlaceAnswered(t) \/ ProtectBefore(t) \/ ProtectSent(t) \/ ProtectAfter(t)
           \/ PlacePriced(t)
    PROVE  FInv'
<1>0. OnCourse(task[t]) /\ Evidence(task[t]) /\ task[t] \in Task
  BY DEF IInv, TasksSound, TypeOK
<1>1. /\ task[t].stage \in {"answer", "before", "protect", "after", "price"}
      /\ task[t].op = "place" /\ task[t].o[2] = "E" /\ task[t].answer # "none"
  BY <1>0 DEF PlaceAnswered, ProtectBefore, ProtectSent, ProtectAfter, PlacePriced, Answered,
     OnCourse, PlaceSteps, ModifySteps, ClearSteps, WithdrawSteps
<1>2. PICK b \in Brackets : task[t].o = Entry(b) /\ task[t].o[1] = b
  BY <1>1, Entries, TaskFields DEF IInv, TypeOK, TasksOK
<1>3. UNCHANGED venue
  BY DEF PlaceAnswered, ProtectBefore, ProtectSent, ProtectAfter, PlacePriced, Report
<1>e. \A c \in Brackets : c # b => Entry(c) # Entry(b)
  BY DEF Entry
<1>4. CASE PlaceAnswered(t)
  <2>0. task[t].stage = "answer" /\ UNCHANGED fills
    BY <1>4 DEF PlaceAnswered, Answered
  <2>1. CASE /\ task[t].answer \in {"done", "nodeal", "unpriced"} /\ b \in Markets
             /\ AwaitNoting(t, "before", "positions", NoRow, task[t].answer) /\ UNCHANGED status
    <3>1. \A c \in Brackets :
             /\ task[t].op = "cancel" /\ task[t].o = Entry(c) /\ "before" # "sweep"
                => Withdrawing(task[t], c)
             /\ task[t].op = "place" /\ task[t].o = Entry(c) /\ task[t].answer = "nodeal" /\ "before" # "price"
                => Undealt(task[t], c)
      BY <1>1, <1>2, <1>e, <2>0, <2>1 DEF Undealt
    <3>2. \A c \in Brackets : status'[Entry(c)] = "ACCEPTED" => status[Entry(c)] = "ACCEPTED" \/ ~Alone(c)
      BY <2>1
    <3> QED BY <1>3, <2>0, <2>1, <3>1, <3>2, AwaitQuiet
  <2>2. CASE /\ \/ task[t].answer = "placed"
                \/ task[t].answer \in {"done", "nodeal", "unpriced"} /\ b \in Limits
             /\ status' = Judged(b, {}) /\ Finish(t)
    <3>1. ~Alone(b)
      <4>1. venue[b].at # "none"
        BY <1>1, <1>2, <2>0, <2>2 DEF FInv, Took
      <4>2. ~Undealt(task[t], b)
        BY <2>0, <2>2, ConstantsAssumption DEF Undealt
      <4> QED BY <1>1, <1>2, <4>1, <4>2, NotAlone
    <3>2. \A c \in Brackets : c # b => status'[Entry(c)] = status[Entry(c)]
      BY <2>2, Entries DEF Judged
    <3>3. \A c \in Brackets : status'[Entry(c)] = "ACCEPTED" => status[Entry(c)] = "ACCEPTED" \/ ~Alone(c)
      BY <3>1, <3>2
    <3> QED BY <1>3, <2>0, <2>2, <3>3, EndsQuiet
  <2>3. CASE (status' = Move(LegsOf(b), "REJECTED") \/ UNCHANGED status) /\ Finish(t)
    <3>1. \A c \in Brackets : status'[Entry(c)] = "ACCEPTED" => status[Entry(c)] = "ACCEPTED" \/ ~Alone(c)
      BY <2>3, Entries DEF Move
    <3> QED BY <1>3, <2>0, <2>3, <3>1, EndsQuiet
  <2> QED BY <1>2, <1>4, <2>1, <2>2, <2>3 DEF PlaceAnswered
<1>5. ASSUME task[t].stage \in {"before", "after"}, NEW naked, Report(t, naked, task[t].note)
      PROVE  FInv'
  <2>1. venue[b].at # "none"
    BY <1>0, <1>1, <1>2, <1>5 DEF Evidence, Traded
  <2>2. \A c \in Brackets : c # b => status'[Entry(c)] = status[Entry(c)]
    BY <1>2, <1>5, <1>e, Entries DEF Report, Judged, IInv, TypeOK
  <2>3. CASE task[t].note = "unpriced"
    <3>1. ~Undealt(task[t], b)
      BY <1>5, <2>3 DEF Undealt
    <3>2. ~Alone(b)
      BY <1>1, <1>2, <2>1, <3>1, NotAlone
    <3>3. \A c \in Brackets : status'[Entry(c)] = "ACCEPTED" => status[Entry(c)] = "ACCEPTED" \/ ~Alone(c)
      BY <2>2, <3>2
    <3>4. UNCHANGED fills /\ Await(t, "price", "deals", NoRow)
      BY <1>5, <2>3 DEF Report
    <3>5. \A c \in Brackets :
             /\ task[t].op = "cancel" /\ task[t].o = Entry(c) /\ "price" # "sweep"
                => Withdrawing(task[t], c)
             /\ task[t].op = "place" /\ task[t].o = Entry(c) /\ task[t].note = "nodeal" /\ "price" # "price"
                => Undealt(task[t], c)
      BY <1>1
    <3> QED BY <1>3, <3>3, <3>4, <3>5, AwaitQuiet
  <2>4. CASE task[t].note # "unpriced"
    <3> DEFINE id == IF task[t].note = "nodeal" THEN "ticket" ELSE "deal"
    <3>1. /\ fills' = [fills EXCEPT ![Entry(b)] = @ \cup {id}] /\ Finish(t)
          /\ status' = [Judged(b, naked) EXCEPT ![Entry(b)] = IF @ \in Closed THEN @ ELSE "FILLED"]
      BY <1>2, <1>5, <2>4 DEF Report, Entry
    <3>2. status'[Entry(b)] # "ACCEPTED"
      BY <3>1, Entries DEF Judged, Closed
    <3>3. id = "ticket" => Undealt(task[t], b)
      BY <1>1, <1>2, <1>5 DEF Undealt
    <3>4. id = "deal" => ~Alone(b)
      <4>1. id = "deal" => ~Undealt(task[t], b)
        BY <1>5 DEF Undealt
      <4> QED BY <1>1, <1>2, <2>1, <4>1, NotAlone
    <3>5. id \in {"deal", "ticket"} /\ (id = "deal" \/ id = "ticket")
      OBVIOUS
    <3> HIDE DEF id
    <3> QED BY <1>2, <1>3, <2>2, <3>1, <3>2, <3>3, <3>4, <3>5, FillQuiet
  <2> QED BY <2>3, <2>4
<1>6. CASE ProtectBefore(t)
  <2>0. task[t].stage = "before"
    BY <1>6 DEF ProtectBefore, Answered
  <2>1. CASE Report(t, {}, task[t].note)
    BY <1>5, <2>0, <2>1
  <2>2. CASE /\ Await(t, "protect", "modify", Asked)
             /\ UNCHANGED <<venue, status, shown, fills, owed, unsure>>
    <3>1. \A c \in Brackets :
             /\ task[t].op = "cancel" /\ task[t].o = Entry(c) /\ "protect" # "sweep"
                => Withdrawing(task[t], c)
             /\ task[t].op = "place" /\ task[t].o = Entry(c) /\ task[t].note = "nodeal" /\ "protect" # "price"
                => Undealt(task[t], c)
      BY <1>1, <2>0 DEF Undealt
    <3>2. \A c \in Brackets : status'[Entry(c)] = "ACCEPTED" => status[Entry(c)] = "ACCEPTED" \/ ~Alone(c)
      BY <2>2
    <3>3. UNCHANGED fills
      BY <2>2
    <3> QED BY <1>3, <2>2, <3>1, <3>2, <3>3, AwaitQuiet
  <2> QED BY <1>6, <2>1, <2>2 DEF ProtectBefore
<1>7. CASE ProtectSent(t)
  <2>0. task[t].stage = "protect" /\ UNCHANGED fills /\ UNCHANGED status
    BY <1>7 DEF ProtectSent, Answered
  <2>1. PICK k : /\ task' = [task EXCEPT ![t] = k] /\ k.op = "place" /\ k.o = task[t].o
                 /\ k.stage = "after" /\ k.note = task[t].note
    <3> DEFINE k == [task[t] EXCEPT !.stage = "after", !.call = "positions", !.answer = "none",
                                    !.seen = IF task[t].answer = "done" THEN {} ELSE {NoRow}]
    <3>1. task' = [task EXCEPT ![t] = k]
      BY <1>7 DEF ProtectSent
    <3>2. k.op = "place" /\ k.o = task[t].o /\ k.stage = "after" /\ k.note = task[t].note
      BY <1>0, <1>1 DEF Task
    <3> QED BY <3>1, <3>2
  <2>2. \A c \in Brackets : Withdrawing(k, c) => Withdrawing(task[t], c)
    BY <2>1 DEF Withdrawing
  <2>3. \A c \in Brackets : Undealt(k, c) => Undealt(task[t], c)
    BY <1>1, <2>0, <2>1 DEF Undealt
  <2>4. k.op = task[t].op /\ k.o = task[t].o /\ k.stage # "answer"
    BY <1>1, <2>1
  <2>5. \A c \in Brackets : status'[Entry(c)] = "ACCEPTED" => status[Entry(c)] = "ACCEPTED" \/ ~Alone(c)
    BY <2>0
  <2> QED BY <1>3, <2>0, <2>1, <2>2, <2>3, <2>4, <2>5, GoesOnQuiet
<1>8. CASE ProtectAfter(t)
  BY <1>5, <1>8 DEF ProtectAfter, Answered
<1>9. CASE PlacePriced(t)
  <2>0. task[t].stage = "price" /\ Finish(t)
    BY <1>9 DEF PlacePriced, Answered
  <2>1. CASE task[t].rows = {} /\ UNCHANGED <<status, fills>>
    <3>1. \A c \in Brackets : status'[Entry(c)] = "ACCEPTED" => status[Entry(c)] = "ACCEPTED" \/ ~Alone(c)
      BY <2>1
    <3>2. UNCHANGED fills
      BY <2>1
    <3> QED BY <1>3, <2>0, <3>1, <3>2, EndsQuiet
  <2>2. CASE task[t].rows # {} /\ Filled(task[t].o, "deal")
    <3>1. ~Alone(b)
      <4>1. task[t].call = "deals"
        BY <1>0, <1>1, <2>0 DEF OnCourse, PlaceSteps, ModifySteps, ClearSteps, WithdrawSteps
      <4>2. venue[b].at # "none"
        BY <1>0, <1>1, <1>2, <2>2, <4>1 DEF Evidence, Traded
      <4>3. ~Undealt(task[t], b)
        BY <2>0 DEF Undealt
      <4> QED BY <1>1, <1>2, <4>2, <4>3, NotAlone
    <3>2. /\ status'[Entry(b)] # "ACCEPTED"
          /\ \A c \in Brackets : c # b => status'[Entry(c)] = status[Entry(c)]
          /\ fills' = [fills EXCEPT ![Entry(b)] = @ \cup {"deal"}]
      BY <1>2, <1>e, <2>2, Entries DEF Filled, Move, Closed
    <3> QED BY <1>2, <1>3, <2>0, <3>1, <3>2, FillQuiet
  <2> QED BY <1>9, <2>1, <2>2 DEF PlacePriced
<1> QED BY <1>4, <1>6, <1>7, <1>8, <1>9

(* The refusal of a command without a venue id ends its task. *)
LEMMA UnplacedQuiet ==
    ASSUME IInv, FInv, NEW t \in Tasks, RefuseUnplaced(t)
    PROVE  FInv'
<1>1. /\ Finish(t) /\ UNCHANGED venue /\ UNCHANGED fills /\ UNCHANGED status
      /\ task[t].stage = "unplaced"
  BY DEF RefuseUnplaced, RefuseUnsent, Refuse
<1>2. \A b \in Brackets : ~Undealt(task[t], b)
  BY <1>1 DEF Undealt
<1> QED BY <1>1, <1>2, EndsQuiet

(* Whatever replies are lost and however a submit, a withdrawal and a sweep  *)
(* of one order cross, the fills sent for it carry one trade id: the engine  *)
(* counts it once (_place, _protect, _withdraw, _send_fill).                 *)
THEOREM CountedOnce == Spec => []FilledOnce
<1>1. Init => FInv
  <2> SUFFICES ASSUME Init PROVE FInv
    OBVIOUS
  <2>1. /\ \A t \in Tasks : task[t] = Idle
        /\ \A b \in Brackets : status[Entry(b)] = "INITIALIZED" /\ fills[Entry(b)] = {}
    BY Entries DEF Init
  <2>2. \A t \in Tasks : task[t].op = "idle"
    BY <2>1, IdleQuiet
  <2> QED BY <2>1, <2>2 DEF FInv, Settled, Withdrawing, Undealt, Took
<1>2. IInv /\ FInv /\ [Next]_vars => FInv'
  <2> SUFFICES ASSUME IInv, FInv, [Next]_vars PROVE FInv'
    OBVIOUS
  <2>1. CASE UNCHANGED vars
    BY <2>1 DEF vars, FInv, Alone, Settled, Withdrawing, Undealt, Took
  <2>2. CASE Next
    BY <2>2, CommandQuiet, ServeQuiet, Untasked, PlaceQuiet, UnplacedQuiet, LegQuiet, WithdrawQuiet
       DEF Next, Resume
  <2> QED BY <2>1, <2>2
<1>3. IInv /\ FInv => FilledOnce
  <2> SUFFICES ASSUME IInv, FInv, NEW o \in Orders, NEW i \in fills[o], NEW j \in fills[o]
               PROVE  i = j
    BY DEF FilledOnce
  <2>1. PICK b \in Brackets : o = Entry(b)
    BY Domains, Entries DEF IInv, NoFabricatedFill
  <2>2. fills[o] \subseteq {"deal", "ticket"}
    BY DEF IInv, TypeOK
  <2> QED BY <2>1, <2>2 DEF FInv
<1> QED BY <1>1, <1>2, <1>3, Inductive, PTL DEF Spec

---------------------------------------------------------------------------
(* A leg is reported live only where the position carries it.               *)

\* A terminal that opens positions without the levels it was sent confirms no
\* repair it has not made, and reports no market order placed.
Honest == "drop" \in Faults => {"lie", "placed"} \cap Faults = {}

\* The legs of b have no verdict yet, or have had one.
Unjudged(b) == \E l \in {"SL", "TP"} : status[<<b, l>>] = "SUBMITTED"
Past(b) == status[<<b, "E">>] # "INITIALIZED" /\ ~Unjudged(b)

AsAsked(b) == venue[b].sl = First /\ venue[b].tp = First
Standing(b) == venue[b].at \in {"fresh", "open"}
Agrees(row, b) == Standing(b) => row.sl = venue[b].sl /\ row.tp = venue[b].tp

LegStages == {"resting", "held", "sent", "verify", "cleared"}

\* The terminal has confirmed the repair of the position.
Repaired(k) == \/ k.stage = "protect" /\ k.answer = "done"
               \/ k.stage = "after" /\ k.seen = {}

\* What a task has read of the levels of a bracket without a verdict, and that
\* a leg is moved or cleared only after it.
Verdict(k) ==
    /\ k.op \in {"modify", "cancel"} /\ k.stage \in LegStages => Past(k.o[1])
    /\ k.answer = "placed" => "placed" \in Faults
    /\ k.op = "place" /\ k.stage \in {"answer", "protect"} => k.send = Asked
    /\ k.op = "place" /\ Unjudged(k.o[1]) =>
        /\ k.stage \in {"before", "after"} /\ k.answer # "none" => \A row \in k.rows : Agrees(row, k.o[1])
        /\ Repaired(k) /\ Standing(k.o[1]) => AsAsked(k.o[1])

TaskVerdicts == \A t \in Tasks : Verdict(task[t])
Untouched ==
    \A b \in Brackets :
        /\ \A l \in Legs : status[<<b, l>>] = "ACCEPTED" => Past(b)
        /\ Unjudged(b) /\ venue[b].at # "none" /\ (b \in Limits \/ "drop" \notin Faults) => AsAsked(b)
NInv == TaskVerdicts /\ Untouched

\* A step that takes back no verdict and asks for none again.
Tame(b) == /\ Past(b) => Past(b)'
           /\ status[<<b, "E">>] # "INITIALIZED" /\ Unjudged(b)' => Unjudged(b)
           /\ \A l \in Legs : status'[<<b, l>>] = "ACCEPTED" => status[<<b, l>>] = "ACCEPTED" \/ Past(b)'
\* A step that leaves the levels of the position where they are.
Steady(b) == /\ venue'[b].sl = venue[b].sl /\ venue'[b].tp = venue[b].tp
             /\ Standing(b)' => Standing(b)
             /\ venue'[b].at # "none" => venue[b].at # "none"

(* What another task knows of a bracket outlives a step that is tame and     *)
(* steady where it looks.                                                    *)
LEMMA VerdictKept ==
    ASSUME IInv, NInv, NEW u \in Tasks, NEW b \in Brackets, task[u].o[1] = b,
           task'[u] = task[u], Tame(b),
           task[u].op = "place" => Steady(b) \/ Past(b)
    PROVE  Verdict(task[u])'
<1> DEFINE k == task[u]
<1>1. Verdict(k) /\ OnCourse(k)
  BY DEF IInv, TasksSound, NInv, TaskVerdicts
<1>2. k.op = "place" => status[<<b, "E">>] # "INITIALIZED"
  <2>1. k.op = "place" => k.o = <<b, "E">>
    BY <1>1, TaskFields, Domains DEF OnCourse, IInv, TypeOK, TasksOK
  <2> QED BY <1>1, <2>1 DEF IInv, PlacedOnce
<1>3. k.op \in {"modify", "cancel"} /\ k.stage \in LegStages => Past(b)'
  BY <1>1 DEF Verdict, Tame
<1>4. k.op = "place" /\ Unjudged(b)' => Unjudged(b) /\ Steady(b)
  BY <1>2 DEF Tame, Past
<1>5. k.op = "place" /\ Unjudged(b)' =>
        /\ k.stage \in {"before", "after"} /\ k.answer # "none" => \A row \in k.rows : Agrees(row, b)'
        /\ Repaired(k) /\ Standing(b)' => AsAsked(b)'
  BY <1>1, <1>4 DEF Verdict, Steady, Agrees, AsAsked, Standing
<1>6. /\ k.answer = "placed" => "placed" \in Faults
      /\ k.op = "place" /\ k.stage \in {"answer", "protect"} => k.send = Asked
  BY <1>1 DEF Verdict
<1> QED BY <1>3, <1>5, <1>6 DEF Verdict, Repaired, Past, Unjudged, Agrees, AsAsked, Standing

(* One task moves, and the others see a tame and steady step.                *)
LEMMA VerdictsStep ==
    ASSUME IInv, NInv, NEW t \in Tasks, NEW k, task' = [task EXCEPT ![t] = k], Verdict(k)',
           \A b \in Brackets : Tame(b),
           \A b \in Brackets : \/ Steady(b) \/ Past(b)
                               \/ \A u \in Tasks \ {t} : ~(task[u].op = "place" /\ task[u].o[1] = b)
    PROVE  TaskVerdicts'
<1>1. task \in [Tasks -> Task]
  BY DEF IInv, TypeOK
<1>2. \A u \in Tasks : task'[u] = IF u = t THEN k ELSE task[u]
  BY <1>1
<1> SUFFICES ASSUME NEW u \in Tasks PROVE Verdict(task[u])'
  BY DEF TaskVerdicts
<1>3. CASE u = t
  <2>1. task'[u] = k
    BY <1>2, <1>3
  <2> QED BY <2>1 DEF Verdict, Repaired, Past, Unjudged, Agrees, AsAsked, Standing
<1>4. CASE u # t
  <2>1. PICK b \in Brackets : b = task[u].o[1]
    BY TaskFields DEF IInv, TypeOK, TasksOK
  <2>2. task'[u] = task[u]
    BY <1>2, <1>4
  <2>3. Tame(b) /\ (task[u].op = "place" => Steady(b) \/ Past(b))
    BY <1>4, <2>1
  <2> QED BY <2>1, <2>2, <2>3, VerdictKept
<1> QED BY <1>3, <1>4

(* An idle task has read nothing.                                            *)
LEMMA IdleVerdict == Verdict(Idle) /\ Verdict(Idle)'
  BY DEF Idle, Verdict

(* Events to the engine: a verdict is given once.                            *)
LEMMA Verdicts ==
    ASSUME IInv, NEW b \in Brackets,
           \/ UNCHANGED status
           \/ \E os, to : to \in {"REJECTED", "CANCELED", "FILLED"} /\ status' = Move(os, to)
           \/ \E c, naked : status' = Judged(c, naked)
           \/ \E c, naked : \E o \in Orders :
                status' = [Judged(c, naked) EXCEPT ![o] = IF @ \in Closed THEN @ ELSE "FILLED"]
    PROVE  Tame(b)
<1>1. \A l \in Legs : <<b, l>> \in Orders
  BY Domains
<1>2. /\ \A o \in Orders : status'[o] \in {status[o], "REJECTED", "CANCELED", "FILLED", "ACCEPTED"}
      /\ \A o \in Orders : status[o] \in Closed => status'[o] = status[o]
  <2>1. CASE \E c, naked : \E o \in Orders :
                status' = [Judged(c, naked) EXCEPT ![o] = IF @ \in Closed THEN @ ELSE "FILLED"]
    <3>1. PICK c, naked, o :
            /\ o \in Orders
            /\ status' = [Judged(c, naked) EXCEPT ![o] = IF @ \in Closed THEN @ ELSE "FILLED"]
      BY <2>1
    <3>2. \A q \in Orders :
            status'[q] = IF q = o /\ Judged(c, naked)[q] \notin Closed THEN "FILLED"
                         ELSE Judged(c, naked)[q]
      BY <3>1 DEF Judged
    <3> QED BY <3>2 DEF Judged, Closed
  <2> QED BY <2>1 DEF Move, Judged, Closed
<1>3. Unjudged(b)' => Unjudged(b)
  BY <1>1, <1>2 DEF Unjudged, Legs
<1>4. status'[<<b, "E">>] = "INITIALIZED" => status[<<b, "E">>] = "INITIALIZED"
  BY <1>1, <1>2 DEF Legs
<1>5. ASSUME NEW l \in Legs, status'[<<b, l>>] = "ACCEPTED", status[<<b, l>>] # "ACCEPTED" PROVE Past(b)'
  <2>1. PICK c, naked :
          \A o \in Orders : status'[o] = Judged(c, naked)[o] \/ status'[o] = "FILLED"
    <3>1. CASE \E c, naked : status' = Judged(c, naked)
      BY <3>1
    <3>2. CASE \E c, naked : \E o \in Orders :
                status' = [Judged(c, naked) EXCEPT ![o] = IF @ \in Closed THEN @ ELSE "FILLED"]
      <4>1. PICK c, naked, o : status' = [Judged(c, naked) EXCEPT ![o] = IF @ \in Closed THEN @ ELSE "FILLED"]
        BY <3>2
      <4>2. \A q \in Orders : status'[q] = IF q = o /\ Judged(c, naked)[q] \notin Closed THEN "FILLED"
                                           ELSE Judged(c, naked)[q]
        BY <4>1 DEF Judged
      <4> QED BY <4>2
    <3>3. CASE UNCHANGED status
      BY <3>3, <1>5
    <3>4. CASE \E os, to : to \in {"REJECTED", "CANCELED", "FILLED"} /\ status' = Move(os, to)
      BY <1>1, <1>5, <3>4 DEF Move
    <3> QED BY <3>1, <3>2, <3>3, <3>4
  <2>2. <<b, l>> \in Orders /\ status'[<<b, l>>] = Judged(c, naked)[<<b, l>>]
    BY <1>1, <1>5, <2>1
  <2>3. c = b
    BY <1>5, <2>2 DEF Judged
  <2>4. \A m \in Legs : Judged(b, naked)[<<b, m>>] \in Closed \cup {"ACCEPTED"}
    BY <1>1 DEF Judged, Closed
  <2>5. \A m \in Legs : status'[<<b, m>>] \in Closed \cup {"ACCEPTED"}
    BY <1>1, <2>1, <2>3, <2>4 DEF Closed
  <2> QED BY <2>5 DEF Past, Unjudged, Legs, Closed
<1> QED BY <1>3, <1>4, <1>5 DEF Tame, Past

(* The terminal serves a call: it is not repairing a bracket that another    *)
(* task is placing, and moves a leg only after the verdict.                  *)
LEMMA ServeVerdicts ==
    ASSUME IInv, NInv, Honest, NEW t \in Tasks, Serve(t)
    PROVE  NInv'
<1> PICK b \in Brackets : b = task[t].o[1]
  BY TaskFields DEF IInv, TypeOK, TasksOK
<1> DEFINE Answer(a, rows) == [task[t] EXCEPT !.answer = a, !.rows = rows]
<1>0. /\ UNCHANGED <<status, fills, owed>> /\ task[t].op # "idle" /\ task[t].answer = "none"
      /\ task[t] \in Task /\ OnCourse(task[t]) /\ Evidence(task[t]) /\ Verdict(task[t])
      /\ venue \in [Brackets -> VenueRow]
  <2>1. UNCHANGED <<status, fills, owed>> /\ task[t].op # "idle" /\ task[t].answer = "none"
    BY DEF Serve, TakeOrder, TakeModify, TakeMove, TakeCancel, ListPositions, ListPending,
           ListDeals, Listing, Written, Pending
  <2> QED BY <2>1 DEF IInv, TypeOK, TasksSound, NInv, TaskVerdicts
<1>k. \A a, rows : \E k : /\ Reply(t, a, rows) => task' = [task EXCEPT ![t] = k]
        /\ k.op = task[t].op /\ k.o = task[t].o /\ k.stage = task[t].stage /\ k.send = task[t].send
        /\ k.call = task[t].call /\ k.seen = task[t].seen /\ k.answer = a /\ k.rows = rows
  <2> SUFFICES ASSUME NEW a, NEW rows
               PROVE  \E k : /\ Reply(t, a, rows) => task' = [task EXCEPT ![t] = k]
                             /\ k.op = task[t].op /\ k.o = task[t].o /\ k.stage = task[t].stage
                             /\ k.send = task[t].send /\ k.call = task[t].call
                             /\ k.seen = task[t].seen /\ k.answer = a /\ k.rows = rows
    OBVIOUS
  <2> DEFINE k == [task[t] EXCEPT !.answer = a, !.rows = rows]
  <2>1. /\ k.op = task[t].op /\ k.o = task[t].o /\ k.stage = task[t].stage
        /\ k.send = task[t].send /\ k.call = task[t].call
        /\ k.seen = task[t].seen /\ k.answer = a /\ k.rows = rows
    BY <1>0 DEF Task
  <2>2. Reply(t, a, rows) => task' = [task EXCEPT ![t] = k]
    BY <1>0 DEF Reply, IInv, TypeOK
  <2> QED BY <2>1, <2>2
<1>t. \A c \in Brackets : Tame(c)
  BY <1>0, Verdicts
<1>o. task[t].op = "place" => \A u \in Tasks \ {t} : ~(task[u].op = "place" /\ task[u].o[1] = b)
  <2>1. \A u \in Tasks : task[u].op = "place" => task[u].o = <<task[u].o[1], "E">>
    BY TaskFields, Domains DEF IInv, TasksSound, OnCourse, TypeOK, TasksOK
  <2> QED BY <2>1 DEF IInv, PlacedOnce
<1>u. (\A c \in Brackets : Unjudged(c) /\ venue'[c].at # "none" /\ (c \in Limits \/ "drop" \notin Faults)
            => AsAsked(c)')
      => Untouched'
  BY <1>0, <1>t DEF NInv, Untouched, Unjudged, Past, AsAsked, Tame
<1>v. ASSUME NEW k, task' = [task EXCEPT ![t] = k], Verdict(k)',
             \A c \in Brackets \ {b} : venue'[c] = venue[c],
             task[t].op = "place" \/ Steady(b) \/ Past(b)
      PROVE  TaskVerdicts'
  <2>1. ASSUME NEW c \in Brackets
        PROVE  \/ Steady(c) \/ Past(c)
               \/ \A u \in Tasks \ {t} : ~(task[u].op = "place" /\ task[u].o[1] = c)
    <3>1. CASE c = b
      BY <1>o, <1>v, <3>1
    <3>2. CASE c # b
      <4>1. venue'[c] = venue[c]
        BY <1>v, <3>2
      <4> QED BY <4>1 DEF Steady, Standing
    <3> QED BY <3>1, <3>2
  <2> QED BY <1>t, <1>v, <2>1, VerdictsStep
<1>1. CASE TakeOrder(t)
  <2>1. task[t].op = "place" /\ task[t].stage = "answer" /\ task[t].send = Asked /\ venue[b].at = "none"
    BY <1>0, <1>1 DEF TakeOrder, Pending, OnCourse, Evidence, PlaceSteps, ModifySteps,
       ClearSteps, WithdrawSteps, Verdict
  <2>2. PICK a : Reply(t, a, {}) /\ (a = "placed" => "placed" \in Faults)
    BY <1>1 DEF TakeOrder
  <2>3. /\ \A c \in Brackets \ {b} : venue'[c] = venue[c]
        /\ venue'[b] = venue[b] \/ (b \in Limits \/ "drop" \notin Faults => AsAsked(b)')
    <3>1. CASE UNCHANGED venue
      BY <3>1
    <3>2. CASE Rested(b, task[t].send)
      BY <1>0, <2>1, <3>2 DEF Rested, AsAsked, Asked
    <3>3. CASE Opened(b, task[t].send)
      <4>1. PICK at, sl, tp : /\ venue' = [venue EXCEPT ![b] = [at |-> at, px |-> First, sl |-> sl, tp |-> tp]]
                              /\ "drop" \notin Faults \/ b \notin Markets => sl = First /\ tp = First
        <5>1. task[t].send.px = First /\ task[t].send.sl = First /\ task[t].send.tp = First
          BY <2>1 DEF Asked
        <5>2. PICK at \in {"open", "fresh"},
                   sl \in {First} \cup (IF "drop" \in Faults /\ b \in Markets THEN {0} ELSE {}),
                   tp \in {First} \cup (IF "drop" \in Faults /\ b \in Markets THEN {0} ELSE {}) :
                venue' = [venue EXCEPT ![b] = [at |-> at, px |-> First, sl |-> sl, tp |-> tp]]
          BY <3>3, <5>1 DEF Opened
        <5> QED BY <5>2
      <4>2. b \in Limits => b \notin Markets
        BY ConstantsAssumption
      <4> QED BY <1>0, <4>1, <4>2 DEF AsAsked
    <3> QED BY <1>1, <3>1, <3>2, <3>3 DEF TakeOrder
  <2>4. PICK k : /\ task' = [task EXCEPT ![t] = k] /\ k.op = "place" /\ k.stage = "answer"
                 /\ k.send = Asked /\ k.answer = a
    BY <1>k, <2>1, <2>2
  <2>5. Verdict(k)'
    BY <2>2, <2>4 DEF Verdict, Repaired
  <2>6. TaskVerdicts'
    BY <1>v, <2>1, <2>3, <2>4, <2>5
  <2>7. Untouched'
    BY <1>u, <2>3 DEF NInv, Untouched, AsAsked
  <2> QED BY <2>6, <2>7 DEF NInv
<1>2. CASE TakeModify(t)
  <2>1. PICK a : /\ Reply(t, a, {})
                 /\ \A c \in Brackets \ {b} : venue'[c] = venue[c]
                 /\ \/ /\ venue'[b].sl = task[t].send.sl /\ venue'[b].tp = task[t].send.tp
                       /\ venue'[b].at = venue[b].at
                    \/ venue'[b] = venue[b] /\ (a # "done" \/ "drop" \notin Faults)
                 /\ a # "placed"
    <3> DEFINE new == [venue[b] EXCEPT !.sl = task[t].send.sl, !.tp = task[t].send.tp]
    <3>1. \/ \E applies : Written(t, applies, new)
          \/ "lie" \in Faults /\ Reply(t, "done", {}) /\ UNCHANGED venue
      BY <1>2 DEF TakeModify
    <3>2. PICK a : /\ Reply(t, a, {}) /\ a # "placed"
                   /\ \/ venue' = [venue EXCEPT ![b] = new]
                      \/ UNCHANGED venue /\ (a # "done" \/ "drop" \notin Faults)
      BY <3>1 DEF Written, Honest
    <3>3. venue[b] \in VenueRow
      BY <1>0
    <3>4. /\ new.sl = task[t].send.sl /\ new.tp = task[t].send.tp /\ new.at = venue[b].at
      BY <3>3 DEF VenueRow
    <3> QED BY <1>0, <3>2, <3>4
  <2>2. PICK k : /\ task' = [task EXCEPT ![t] = k] /\ k.op = task[t].op /\ k.stage = task[t].stage
                 /\ k.send = task[t].send /\ k.answer = a /\ k.o[1] = b
    BY <1>k, <2>1
  <2>3. CASE task[t].op = "place"
    <3>1. task[t].stage = "protect" /\ task[t].send = Asked
      BY <1>0, <1>2, <2>3 DEF TakeModify, Pending, OnCourse, PlaceSteps, Verdict
    <3>2. venue'[b] = venue[b] \/ AsAsked(b)'
      BY <2>1, <3>1 DEF AsAsked, Asked
    <3>3. Verdict(k)'
      <4>1. Unjudged(b) /\ venue[b].at # "none" /\ "drop" \notin Faults => AsAsked(b)
        BY DEF NInv, Untouched
      <4>2. Standing(b) => venue[b].at # "none"
        BY DEF Standing
      <4>3. Unjudged(b)' <=> Unjudged(b)
        BY <1>0 DEF Unjudged
      <4>4. k.stage = "protect" /\ k.op = "place" /\ k.send = Asked
        BY <2>2, <2>3, <3>1
      <4>5. a = "done" /\ Unjudged(b) /\ Standing(b)' => AsAsked(b)'
        BY <2>1, <3>1, <4>1, <4>2 DEF AsAsked, Asked, Standing
      <4> QED BY <2>1, <2>2, <4>3, <4>4, <4>5 DEF Verdict, Repaired, LegStages
    <3>4. TaskVerdicts'
      BY <1>v, <2>1, <2>2, <2>3, <3>3
    <3>5. Untouched'
      BY <1>u, <2>1, <3>2 DEF NInv, Untouched, AsAsked
    <3> QED BY <3>4, <3>5 DEF NInv
  <2>4. CASE task[t].op # "place"
    <3>1. Past(b) /\ task[t].op \in {"modify", "cancel"} /\ task[t].stage \in LegStages
      BY <1>0, <1>2, <2>4 DEF TakeModify, Pending, OnCourse, ModifySteps, ClearSteps,
         WithdrawSteps, Verdict, LegStages
    <3>2. Past(b)'
      BY <1>t, <3>1 DEF Tame
    <3>3. Verdict(k)'
      BY <2>1, <2>2, <2>4, <3>2 DEF Verdict
    <3>4. TaskVerdicts'
      BY <1>v, <2>1, <2>2, <3>1, <3>3
    <3>5. Untouched'
      BY <1>u, <2>1, <3>1 DEF NInv, Untouched, AsAsked, Past
    <3> QED BY <3>4, <3>5 DEF NInv
  <2> QED BY <2>3, <2>4
<1>3. CASE TakeMove(t) \/ TakeCancel(t)
  <2>1. PICK a : Reply(t, a, {}) /\ a # "placed"
    BY <1>3 DEF TakeMove, TakeCancel, Written
  <2>2. /\ \A c \in Brackets \ {b} : venue'[c] = venue[c]
        /\ venue'[b].sl = venue[b].sl /\ venue'[b].tp = venue[b].tp
        /\ venue'[b].at = venue[b].at \/ (venue'[b].at = "gone" /\ venue[b].at = "resting")
    <3>1. venue[b] \in VenueRow
      BY <1>0
    <3> QED BY <1>0, <1>3, <3>1 DEF TakeMove, TakeCancel, Written, VenueRow
  <2>3. PICK k : /\ task' = [task EXCEPT ![t] = k] /\ k.op = task[t].op /\ k.stage = task[t].stage
                 /\ k.answer = a /\ k.o[1] = b
    BY <1>k, <2>1
  <2>4. task[t].op \in {"modify", "cancel"} /\ Steady(b)
    BY <1>0, <1>3, <2>2 DEF TakeMove, TakeCancel, Pending, OnCourse, PlaceSteps, Steady, Standing
  <2>5. Verdict(k)'
    BY <1>0, <1>t, <2>1, <2>3, <2>4 DEF Verdict, Tame
  <2>6. TaskVerdicts'
    BY <1>v, <2>2, <2>3, <2>4, <2>5
  <2>7. Untouched'
    BY <1>u, <2>2 DEF NInv, Untouched, AsAsked
  <2> QED BY <2>6, <2>7 DEF NInv
<1>4. CASE ListPositions(t) \/ ListPending(t) \/ ListDeals(t)
  <2>1. PICK a, rows : Reply(t, a, rows) /\ a # "placed" /\ UNCHANGED venue
                       /\ (rows # {} => rows = {RowOf(b)})
    BY <1>4 DEF ListPositions, ListPending, ListDeals, Listing
  <2>2. PICK k : /\ task' = [task EXCEPT ![t] = k] /\ k.op = task[t].op /\ k.stage = task[t].stage
                 /\ k.answer = a /\ k.rows = rows /\ k.o[1] = b /\ k.send = task[t].send
                 /\ k.seen = task[t].seen
    BY <1>k, <2>1
  <2>3. \A row \in rows : Agrees(row, b)'
    BY <2>1 DEF Agrees, RowOf
  <2>4. task[t].stage # "protect"
    BY <1>0, <1>4 DEF ListPositions, ListPending, ListDeals, Listing, Pending, OnCourse,
       PlaceSteps, ModifySteps, ClearSteps, WithdrawSteps
  <2>5. Verdict(k)'
    BY <1>0, <1>t, <2>1, <2>2, <2>3, <2>4 DEF Verdict, Tame, Repaired, AsAsked, Standing, Unjudged
  <2>6. TaskVerdicts'
    BY <1>v, <2>1, <2>2, <2>5 DEF Steady, Standing
  <2>7. Untouched'
    BY <1>u, <2>1 DEF NInv, Untouched, AsAsked
  <2> QED BY <2>6, <2>7 DEF NInv
<1> QED BY <1>1, <1>2, <1>3, <1>4 DEF Serve

(* What the broker does by itself moves the levels of no open position.      *)
LEMMA BrokerVerdicts ==
    ASSUME IInv, NInv, NEW b \in Brackets, BrokerMoves(b)
    PROVE  NInv'
<1>0. /\ UNCHANGED <<status, fills, owed, task>> /\ venue \in [Brackets -> VenueRow]
      /\ venue[b] \in VenueRow
  BY DEF BrokerMoves, IInv, TypeOK
<1>t. \A c \in Brackets : Tame(c)
  BY <1>0, Verdicts
<1>1. /\ \A c \in Brackets \ {b} : venue'[c] = venue[c]
      /\ \/ venue[b].at = "resting" /\ (b \in Limits \/ "drop" \notin Faults =>
                venue'[b].sl = venue[b].sl /\ venue'[b].tp = venue[b].tp)
         \/ Steady(b) /\ venue[b].at # "none"
  <2>1. CASE venue[b].at = "resting" /\ Opened(b, RowOf(b))
    <3>1. PICK at \in {"open", "fresh"},
               sl \in {venue[b].sl} \cup (IF "drop" \in Faults /\ b \in Markets THEN {0} ELSE {}),
               tp \in {venue[b].tp} \cup (IF "drop" \in Faults /\ b \in Markets THEN {0} ELSE {}) :
            venue' = [venue EXCEPT ![b] = [at |-> at, px |-> venue[b].px, sl |-> sl, tp |-> tp]]
      <4>1. RowOf(b).px = venue[b].px /\ RowOf(b).sl = venue[b].sl /\ RowOf(b).tp = venue[b].tp
        BY DEF RowOf
      <4> QED BY <2>1, <4>1 DEF Opened
    <3>2. b \in Limits => b \notin Markets
      BY ConstantsAssumption
    <3> QED BY <1>0, <2>1, <3>1, <3>2
  <2>2. CASE \E at : /\ venue' = [venue EXCEPT ![b].at = at]
                     /\ at \in {"fresh", "open"} => venue[b].at \in {"fresh", "open"}
                     /\ venue[b].at # "none"
    BY <1>0, <2>2 DEF VenueRow, Steady, Standing
  <2> QED BY <2>1, <2>2 DEF BrokerMoves
<1>2. ASSUME NEW u \in Tasks PROVE Verdict(task[u])'
  <2>1. PICK c \in Brackets : c = task[u].o[1]
    BY TaskFields DEF IInv, TypeOK, TasksOK
  <2>2. CASE Steady(c)
    BY <1>0, <1>t, <2>1, <2>2, VerdictKept
  <2>3. CASE venue[c].at = "resting"
    <3>1. Verdict(task[u]) /\ Evidence(task[u])
      BY DEF NInv, TaskVerdicts, IInv, TasksSound
    <3>2. task[u].op = "place" => task[u].stage \notin {"before", "protect", "after"}
      BY <2>1, <2>3, <3>1 DEF Evidence, Traded
    <3> QED BY <1>0, <1>t, <2>1, <3>1, <3>2 DEF Verdict, Tame, Repaired, Past, Unjudged
  <2>4. Steady(c) \/ venue[c].at = "resting"
    BY <1>1 DEF Steady, Standing
  <2> QED BY <2>2, <2>3, <2>4
<1>3. Untouched'
  BY <1>0, <1>t, <1>1 DEF NInv, Untouched, Unjudged, Past, AsAsked, Tame, Steady
<1> QED BY <1>2, <1>3 DEF NInv, TaskVerdicts

(* A bracket refused unsent has its verdict.                                 *)
LEMMA RefusedVerdicts ==
    ASSUME IInv, NInv, NEW b \in Brackets, RefuseBracket(b)
    PROVE  NInv'
<1>0. UNCHANGED <<venue, task>> /\ status' = Move(LegsOf(b), "REJECTED")
  BY DEF RefuseBracket
<1>t. \A c \in Brackets : Tame(c)
  BY <1>0, Verdicts
<1>1. ASSUME NEW u \in Tasks PROVE Verdict(task[u])'
  <2>1. PICK c \in Brackets : c = task[u].o[1]
    BY TaskFields DEF IInv, TypeOK, TasksOK
  <2>2. Steady(c)
    BY <1>0 DEF Steady, Standing
  <2> QED BY <1>0, <1>t, <2>1, <2>2, VerdictKept
<1>2. \A c \in Brackets : Unjudged(c)' => Unjudged(c)
  BY <1>0, Domains DEF Unjudged, Move, Legs
<1>3. Untouched'
  BY <1>0, <1>t, <1>2 DEF NInv, Untouched, AsAsked, Tame
<1> QED BY <1>1, <1>3 DEF NInv, TaskVerdicts

(* A handler resumes: the book does not move.                                *)
LEMMA ResumeVerdicts ==
    ASSUME IInv, NInv, NEW t \in Tasks, NEW k, task' = [task EXCEPT ![t] = k], Verdict(k)',
           UNCHANGED venue, \A b \in Brackets : Tame(b),
           \A b \in Brackets : Unjudged(b)' => Unjudged(b)
    PROVE  NInv'
<1>1. TaskVerdicts'
  BY VerdictsStep DEF Steady, Standing
<1>2. Untouched'
  BY DEF NInv, Untouched, AsAsked, Tame
<1> QED BY <1>1, <1>2 DEF NInv

(* The task a command starts.                                                *)
LEMMA Started ==
    ASSUME NEW t \in Tasks, NEW op, NEW o, NEW arg, NEW stage, NEW call, NEW send,
           Start(t, op, o, arg, stage, call, send)
    PROVE  \E k : /\ task' = [task EXCEPT ![t] = k] /\ k.op = op /\ k.o = o /\ k.arg = arg
                  /\ k.stage = stage /\ k.call = call /\ k.send = send /\ k.answer = "none"
                  /\ k.rows = {} /\ k.seen = {} /\ k.note = "none"
<1> DEFINE k == [op |-> op, o |-> o, arg |-> arg, stage |-> stage, call |-> call, send |-> send,
                 answer |-> "none", rows |-> {}, seen |-> {}, note |-> "none"]
<1>1. task' = [task EXCEPT ![t] = k]
  BY DEF Start
<1>2. /\ k.op = op /\ k.o = o /\ k.arg = arg /\ k.stage = stage /\ k.call = call /\ k.send = send
      /\ k.answer = "none" /\ k.rows = {} /\ k.seen = {} /\ k.note = "none"
  OBVIOUS
<1> QED BY <1>1, <1>2

(* A command starts: a submit before any verdict, a modify or a clear of a   *)
(* leg that is live after it.                                                *)
LEMMA CommandVerdicts ==
    ASSUME IInv, NInv, NEW t \in Tasks, Command(t)
    PROVE  NInv'
<1>0. UNCHANGED venue /\ task[t].op = "idle" /\ \A b \in Brackets, l \in Legs : <<b, l>> \in Orders
  BY Domains DEF Command, SubmitBracket, ModifyOrder, CancelOrder, CommandUnplaced, CancelAll, Start
<1>1. CASE \E b \in Brackets : SubmitBracket(t, b)
  <2>1. PICK b \in Brackets : SubmitBracket(t, b)
    BY <1>1
  <2>2. PICK k : /\ task' = [task EXCEPT ![t] = k] /\ k.op = "place" /\ k.o = <<b, "E">>
                 /\ k.stage = "answer" /\ k.send = Asked /\ k.answer = "none"
    BY <2>1, Started DEF SubmitBracket
  <2>3. \A o \in Orders : status'[o] = IF o \in LegsOf(b) /\ status[o] \notin Closed
                                       THEN "SUBMITTED" ELSE status[o]
    BY <2>1 DEF SubmitBracket, Move
  <2>4. /\ status[<<b, "E">>] = "INITIALIZED" /\ venue[b].at = "none"
        /\ \A l \in Legs : status[<<b, l>>] # "ACCEPTED"
    BY <2>1 DEF SubmitBracket, IInv, PlacedOnce, NInv, Untouched, Past
  <2>5. ASSUME NEW c \in Brackets PROVE Tame(c)
    <3>1. CASE c = b
      BY <1>0, <2>3, <2>4, <3>1 DEF Tame, Past
    <3>2. CASE c # b
      <4>1. \A l \in Legs : status'[<<c, l>>] = status[<<c, l>>]
        BY <1>0, <2>3, <3>2 DEF LegsOf
      <4> QED BY <4>1 DEF Tame, Past, Unjudged, Legs
    <3> QED BY <3>1, <3>2
  <2>6. Verdict(k)'
    BY <2>2 DEF Verdict, Repaired
  <2>7. TaskVerdicts'
    BY <1>0, <2>2, <2>5, <2>6, VerdictsStep DEF Steady, Standing
  <2>8. ASSUME NEW c \in Brackets, Unjudged(c)', venue[c].at # "none" PROVE Unjudged(c)
    <3>1. c # b
      BY <2>4, <2>8
    <3>2. \A l \in Legs : status'[<<c, l>>] = status[<<c, l>>]
      BY <1>0, <2>3, <3>1 DEF LegsOf
    <3> QED BY <2>8, <3>2 DEF Unjudged, Legs
  <2>9. Untouched'
    BY <1>0, <2>5, <2>8 DEF NInv, Untouched, AsAsked, Tame
  <2> QED BY <2>7, <2>9 DEF NInv
<1>2. CASE \/ \E o \in Orders, p \in Prices : ModifyOrder(t, o, p)
           \/ \E o \in Orders : CancelOrder(t, o)
           \/ \E o \in Orders, j \in {"modify", "cancel"} : CommandUnplaced(t, o, j)
           \/ \E b \in Brackets : CancelAll(t, b)
  <2>1. PICK k : /\ task' = [task EXCEPT ![t] = k] /\ k.answer = "none" /\ UNCHANGED status
                 /\ k.op \in {"modify", "cancel"}
                 /\ k.stage = "resting" => k.o \in Orders /\ status[k.o] = "ACCEPTED"
                 /\ k.stage \in {"unplaced", "resting", "withdraw", "sweep"}
    <3>1. CASE \E o \in Orders, p \in Prices : ModifyOrder(t, o, p)
      BY <3>1, Started DEF ModifyOrder
    <3>2. CASE \E o \in Orders : CancelOrder(t, o)
      BY <3>2, Started DEF CancelOrder
    <3>3. CASE \E b \in Brackets : CancelAll(t, b)
      BY <3>3, Started DEF CancelAll
    <3>4. CASE \E o \in Orders, j \in {"modify", "cancel"} : CommandUnplaced(t, o, j)
      BY <3>4, Started DEF CommandUnplaced
    <3> QED BY <1>2, <3>1, <3>2, <3>3, <3>4
  <2>2. \A c \in Brackets : Tame(c) /\ (Unjudged(c)' => Unjudged(c))
    BY <2>1, Verdicts DEF Unjudged
  <2>3. k.stage = "resting" => Past(k.o[1])
    BY <2>1, Domains DEF NInv, Untouched
  <2>4. Verdict(k)'
    BY <2>1, <2>3 DEF Verdict, LegStages, Past, Unjudged
  <2> QED BY <1>0, <2>1, <2>2, <2>4, ResumeVerdicts
<1> QED BY <1>1, <1>2 DEF Command

(* A task that ends claims nothing.                                          *)
LEMMA EndsVerdicts ==
    ASSUME IInv, NInv, NEW t \in Tasks, Finish(t), UNCHANGED venue, \A b \in Brackets : Tame(b),
           \A b \in Brackets : Unjudged(b)' => Unjudged(b)
    PROVE  NInv'
<1>1. task' = [task EXCEPT ![t] = Idle]
  BY DEF Finish
<1> QED BY <1>1, IdleVerdict, ResumeVerdicts

(* An event judges a bracket and never takes it back.                        *)
LEMMA NoneUnjudged ==
    ASSUME NEW b \in Brackets,
           \/ UNCHANGED status
           \/ \E os, to : to \in {"REJECTED", "CANCELED", "FILLED"} /\ status' = Move(os, to)
           \/ \E c, naked : status' = Judged(c, naked)
           \/ \E c, naked : \E o \in Orders :
                status' = [Judged(c, naked) EXCEPT ![o] = IF @ \in Closed THEN @ ELSE "FILLED"]
    PROVE  Unjudged(b)' => Unjudged(b)
<1>1. \A l \in Legs : <<b, l>> \in Orders
  BY Domains
<1>2. \A o \in Orders : status'[o] \in {status[o], "REJECTED", "CANCELED", "FILLED", "ACCEPTED"}
  <2>1. CASE \E c, naked : \E o \in Orders :
                status' = [Judged(c, naked) EXCEPT ![o] = IF @ \in Closed THEN @ ELSE "FILLED"]
    <3>1. PICK c, naked, o :
            /\ o \in Orders
            /\ status' = [Judged(c, naked) EXCEPT ![o] = IF @ \in Closed THEN @ ELSE "FILLED"]
      BY <2>1
    <3>2. \A q \in Orders :
            status'[q] = IF q = o /\ Judged(c, naked)[q] \notin Closed THEN "FILLED"
                         ELSE Judged(c, naked)[q]
      BY <3>1 DEF Judged
    <3> QED BY <3>2 DEF Judged, Closed
  <2> QED BY <2>1 DEF Move, Judged, Closed
<1> QED BY <1>1, <1>2 DEF Unjudged, Legs

(* A handler of a modify or a cancel resumes with the same command: its leg  *)
(* has had its verdict already.                                              *)
LEMMA LaterVerdicts ==
    ASSUME IInv, NInv, NEW t \in Tasks, NEW k, task' = [task EXCEPT ![t] = k],
           UNCHANGED <<venue, status>>, k.op = task[t].op, k.o = task[t].o, k.answer = "none",
           task[t].op \in {"modify", "cancel"},
           k.stage \in LegStages => task[t].stage \in LegStages
    PROVE  NInv'
<1>1. \A b \in Brackets : Tame(b) /\ (Unjudged(b)' => Unjudged(b))
  BY Verdicts, NoneUnjudged
<1>2. Verdict(task[t])
  BY DEF NInv, TaskVerdicts
<1>3. Verdict(k)'
  BY <1>2 DEF Verdict, Past, Unjudged
<1> QED BY <1>1, <1>3, ResumeVerdicts

(* The task that awaits its next call.                                       *)
LEMMA Awaiting ==
    ASSUME IInv, NEW t \in Tasks, NEW stage, NEW call, NEW send, Await(t, stage, call, send)
    PROVE  \E k : /\ task' = [task EXCEPT ![t] = k] /\ k.op = task[t].op /\ k.o = task[t].o
                  /\ k.arg = task[t].arg /\ k.stage = stage /\ k.call = call /\ k.send = send
                  /\ k.answer = "none" /\ k.rows = {} /\ k.seen = task[t].seen
<1> DEFINE k == [task[t] EXCEPT !.stage = stage, !.call = call, !.send = send,
                                !.answer = "none", !.rows = {}]
<1>1. task[t] \in Task
  BY DEF IInv, TypeOK
<1>2. /\ k.op = task[t].op /\ k.o = task[t].o /\ k.arg = task[t].arg /\ k.stage = stage
      /\ k.call = call /\ k.send = send /\ k.answer = "none" /\ k.rows = {} /\ k.seen = task[t].seen
  BY <1>1 DEF Task
<1>3. task' = [task EXCEPT ![t] = k]
  BY DEF Await
<1> QED BY <1>2, <1>3

(* The same, with the last answer remembered.                                *)
LEMMA AwaitingNoting ==
    ASSUME IInv, NEW t \in Tasks, NEW stage, NEW call, NEW send, NEW note,
           AwaitNoting(t, stage, call, send, note)
    PROVE  \E k : /\ task' = [task EXCEPT ![t] = k] /\ k.op = task[t].op /\ k.o = task[t].o
                  /\ k.arg = task[t].arg /\ k.stage = stage /\ k.call = call /\ k.send = send
                  /\ k.answer = "none" /\ k.rows = {} /\ k.seen = task[t].seen
<1> DEFINE k == [task[t] EXCEPT !.stage = stage, !.call = call, !.send = send,
                                !.answer = "none", !.rows = {}, !.note = note]
<1>1. task[t] \in Task
  BY DEF IInv, TypeOK
<1>2. /\ k.op = task[t].op /\ k.o = task[t].o /\ k.arg = task[t].arg /\ k.stage = stage
      /\ k.call = call /\ k.send = send /\ k.answer = "none" /\ k.rows = {} /\ k.seen = task[t].seen
  BY <1>1 DEF Task
<1>3. task' = [task EXCEPT ![t] = k]
  BY DEF AwaitNoting
<1> QED BY <1>2, <1>3

(* The legs' report ends the submit, or leaves it to ask for the price.      *)
LEMMA ReportVerdicts ==
    ASSUME IInv, NInv, NEW t \in Tasks, NEW naked, NEW a, Report(t, naked, a), task[t].op = "place"
    PROVE  NInv'
<1>1. \A b \in Brackets : Tame(b) /\ (Unjudged(b)' => Unjudged(b))
  <2>0. <<task[t].o[1], "E">> \in Orders
    BY TaskFields, Domains DEF IInv, TypeOK, TasksOK, Legs
  <2> QED BY <2>0, Verdicts, NoneUnjudged DEF Report
<1>2. UNCHANGED venue
  BY DEF Report
<1>3. CASE Finish(t)
  BY <1>1, <1>2, <1>3, EndsVerdicts
<1>4. CASE Await(t, "price", "deals", NoRow)
  <2>1. PICK k : /\ task' = [task EXCEPT ![t] = k] /\ k.op = "place" /\ k.stage = "price"
                 /\ k.answer = "none"
    BY <1>4, Awaiting
  <2>2. Verdict(k)'
    BY <2>1 DEF Verdict, Repaired
  <2> QED BY <1>1, <1>2, <2>1, <2>2, ResumeVerdicts
<1> QED BY <1>3, <1>4 DEF Report

(* Every step of a submit.                                                   *)
LEMMA PlaceVerdicts ==
    ASSUME IInv, NInv, NEW t \in Tasks,
           \/ PlaceAnswered(t) \/ ProtectBefore(t) \/ ProtectSent(t) \/ ProtectAfter(t)
           \/ PlacePriced(t)
    PROVE  NInv'
<1>0. /\ OnCourse(task[t]) /\ Verdict(task[t]) /\ task[t] \in Task
      /\ task[t].op = "place" /\ task[t].answer # "none"
  BY DEF PlaceAnswered, ProtectBefore, ProtectSent, ProtectAfter, PlacePriced, Answered,
     OnCourse, ModifySteps, ClearSteps, WithdrawSteps, IInv, TasksSound, TypeOK, NInv, TaskVerdicts
<1>1. CASE PlaceAnswered(t)
  <2>1. /\ UNCHANGED venue
        /\ \A b \in Brackets : Tame(b) /\ (Unjudged(b)' => Unjudged(b))
    <3>1. \/ UNCHANGED status
          \/ \E os, to : to \in {"REJECTED", "CANCELED", "FILLED"} /\ status' = Move(os, to)
          \/ \E c, naked : status' = Judged(c, naked)
      BY <1>1 DEF PlaceAnswered
    <3> QED BY <1>1, <3>1, Verdicts, NoneUnjudged DEF PlaceAnswered
  <2>2. CASE Finish(t)
    BY <2>1, <2>2, EndsVerdicts
  <2>3. CASE AwaitNoting(t, "before", "positions", NoRow, task[t].answer)
    <3>1. PICK k : /\ task' = [task EXCEPT ![t] = k] /\ k.op = "place" /\ k.stage = "before"
                   /\ k.answer = "none"
      BY <1>0, <2>3, AwaitingNoting
    <3>2. Verdict(k)'
      BY <3>1 DEF Verdict, Repaired
    <3> QED BY <2>1, <3>1, <3>2, ResumeVerdicts
  <2> QED BY <1>1, <2>2, <2>3 DEF PlaceAnswered
<1>2. CASE ProtectBefore(t)
  <2>1. CASE Report(t, {}, task[t].note)
    BY <1>0, <2>1, ReportVerdicts
  <2>2. CASE Await(t, "protect", "modify", Asked) /\ UNCHANGED <<venue, status>>
    <3>1. PICK k : /\ task' = [task EXCEPT ![t] = k] /\ k.op = "place" /\ k.stage = "protect"
                   /\ k.answer = "none" /\ k.send = Asked
      BY <1>0, <2>2, Awaiting
    <3>2. Verdict(k)'
      BY <3>1 DEF Verdict, Repaired
    <3>3. \A b \in Brackets : Tame(b) /\ (Unjudged(b)' => Unjudged(b))
      BY <2>2, Verdicts, NoneUnjudged
    <3> QED BY <2>2, <3>1, <3>2, <3>3, ResumeVerdicts
  <2> QED BY <1>2, <2>1, <2>2 DEF ProtectBefore
<1>3. CASE ProtectSent(t)
  <2>1. PICK k : k = [task[t] EXCEPT !.stage = "after", !.call = "positions", !.answer = "none",
                       !.seen = IF task[t].answer = "done" THEN {} ELSE {NoRow}]
    OBVIOUS
  <2>2. /\ k.op = "place" /\ k.stage = "after" /\ k.answer = "none" /\ k.o = task[t].o
        /\ k.seen = {} => task[t].answer = "done"
    BY <1>0, <2>1 DEF Task
  <2>3. /\ task' = [task EXCEPT ![t] = k] /\ UNCHANGED <<venue, status>>
        /\ task[t].stage = "protect"
    BY <1>3, <2>1 DEF ProtectSent, Answered
  <2>4. Verdict(k)'
    BY <1>0, <2>2, <2>3 DEF Verdict, Repaired, AsAsked, Standing, Unjudged
  <2>5. \A b \in Brackets : Tame(b) /\ (Unjudged(b)' => Unjudged(b))
    BY <2>3, Verdicts, NoneUnjudged
  <2> QED BY <2>3, <2>4, <2>5, ResumeVerdicts
<1>4. CASE ProtectAfter(t)
  BY <1>0, <1>4, ReportVerdicts DEF ProtectAfter
<1>5. CASE PlacePriced(t)
  <2>1. Finish(t) /\ UNCHANGED venue
        /\ \/ UNCHANGED status
           \/ \E os, to : to \in {"REJECTED", "CANCELED", "FILLED"} /\ status' = Move(os, to)
    BY <1>5 DEF PlacePriced, Filled
  <2>2. \A b \in Brackets : Tame(b) /\ (Unjudged(b)' => Unjudged(b))
    BY <2>1, Verdicts, NoneUnjudged
  <2> QED BY <2>1, <2>2, EndsVerdicts
<1> QED BY <1>1, <1>2, <1>3, <1>4, <1>5

(* Every step of a modify or a cancel.                                       *)
LEMMA OtherVerdicts ==
    ASSUME IInv, NInv, NEW t \in Tasks,
           \/ RefuseUnplaced(t)
           \/ Located(t) \/ ModifySends(t) \/ ModifySent(t) \/ ModifyVerified(t)
           \/ ClearSends(t) \/ ClearSent(t)
           \/ WithdrawSent(t) \/ WithdrawListed(t) \/ WithdrawSettled(t)
           \/ Swept(t) \/ StrayCancelled(t)
    PROVE  NInv'
<1>0. /\ OnCourse(task[t]) /\ task[t] \in Task /\ task[t].op \in {"modify", "cancel"}
  BY DEF Located, ModifySends, ModifySent, ModifyVerified, ClearSends, ClearSent, WithdrawSent,
     WithdrawListed, WithdrawSettled, Swept, StrayCancelled, Answered,
     RefuseUnplaced, OnCourse, PlaceSteps, IInv, TasksSound, TypeOK
<1>1. UNCHANGED venue
  BY DEF Located, ModifySends, ModifySent, ModifyVerified, ClearSends, ClearSent, WithdrawSent,
     WithdrawListed, WithdrawSettled, Swept, StrayCancelled, RefuseUnplaced, RefuseUnsent, RefuseSent, Refuse, Cancelled
<1>2. CASE Finish(t)
  <2>1. \/ UNCHANGED status
        \/ \E os, to : to \in {"REJECTED", "CANCELED", "FILLED"} /\ status' = Move(os, to)
    BY DEF Located, ModifySends, ModifySent, ModifyVerified, ClearSends, ClearSent, WithdrawSent,
       WithdrawListed, WithdrawSettled, Swept, StrayCancelled, RefuseUnplaced, RefuseUnsent, RefuseSent,
       Refuse, Cancelled, Filled
  <2>2. \A b \in Brackets : Tame(b) /\ (Unjudged(b)' => Unjudged(b))
    BY <2>1, Verdicts, NoneUnjudged
  <2> QED BY <1>1, <1>2, <2>2, EndsVerdicts
<1>3. CASE Located(t) /\ ~Finish(t)
  <2>1. PICK k : k = [task[t] EXCEPT !.stage = "held", !.call = "positions",
                       !.answer = "none", !.rows = {}, !.seen = task[t].rows]
    OBVIOUS
  <2>2. k.op = task[t].op /\ k.o = task[t].o /\ k.stage = "held" /\ k.answer = "none"
    BY <1>0, <2>1 DEF Task
  <2>3. task' = [task EXCEPT ![t] = k] /\ UNCHANGED status /\ task[t].stage \in LegStages
    BY <1>3, <2>1 DEF Located, Answered, RefuseUnsent, Refuse, LegStages
  <2> QED BY <1>0, <1>1, <2>2, <2>3, LaterVerdicts
<1>4. CASE ~Located(t) /\ ~Finish(t)
  <2>0. CASE WithdrawSent(t)
    <3>1. AwaitNoting(t, "listing", "pending", NoRow, task[t].answer) /\ UNCHANGED status
      BY <1>4, <2>0 DEF WithdrawSent, RefuseSent, Refuse
    <3>2. PICK k : /\ task' = [task EXCEPT ![t] = k] /\ k.op = task[t].op /\ k.o = task[t].o
                   /\ k.stage = "listing" /\ k.answer = "none"
      BY <3>1, AwaitingNoting
    <3> QED BY <1>0, <1>1, <3>1, <3>2, LaterVerdicts DEF LegStages
  <2> SUFFICES ASSUME ~WithdrawSent(t) PROVE NInv'
    BY <2>0
  <2>1. PICK stage, call, send :
          /\ Await(t, stage, call, send)
          /\ stage \in LegStages => task[t].stage \in LegStages
    <3>1. CASE ModifySends(t)
      BY <1>4, <3>1 DEF ModifySends, Answered, RefuseUnsent, Refuse, LegStages
    <3>2. CASE ModifySent(t)
      BY <1>4, <3>2 DEF ModifySent, Answered, RefuseSent, Refuse, LegStages
    <3>3. CASE ModifyVerified(t)
      BY <1>4, <3>3 DEF ModifyVerified, RefuseSent, Refuse
    <3>4. CASE ClearSends(t)
      BY <1>4, <3>4 DEF ClearSends, Answered, RefuseUnsent, Refuse, Cancelled, LegStages
    <3>5. CASE ClearSent(t)
      BY <1>4, <3>5 DEF ClearSent, RefuseSent, Refuse, Cancelled
    <3>6. CASE WithdrawListed(t) \/ Swept(t)
      BY <1>4, <3>6 DEF WithdrawListed, Swept, RefuseSent, Refuse, Cancelled, LegStages
    <3>7. CASE WithdrawSettled(t) \/ StrayCancelled(t) \/ RefuseUnplaced(t)
      BY <1>4, <3>7 DEF WithdrawSettled, StrayCancelled, RefuseUnplaced, RefuseUnsent, RefuseSent, Refuse
    <3> QED BY <1>4, <3>1, <3>2, <3>3, <3>4, <3>5, <3>6, <3>7
  <2>2. UNCHANGED status
    BY <1>4 DEF ModifySends, ModifySent, ModifyVerified, ClearSends, ClearSent, WithdrawSent,
       WithdrawListed, WithdrawSettled, Swept, StrayCancelled, RefuseUnplaced, RefuseUnsent, RefuseSent,
       Refuse, Cancelled
  <2>3. PICK k : /\ task' = [task EXCEPT ![t] = k] /\ k.op = task[t].op /\ k.o = task[t].o
                 /\ k.stage = stage /\ k.answer = "none"
    BY <2>1, Awaiting
  <2> QED BY <1>0, <1>1, <2>1, <2>2, <2>3, LaterVerdicts
<1> QED BY <1>2, <1>3, <1>4

(* Reporting a leg live is right about the position, by what was read.       *)
LEMMA ReportIsRight ==
    ASSUME IInv, NInv, NEW t \in Tasks, NEW naked, NEW a, Report(t, naked, a),
           NEW b \in Brackets, NEW l \in {"SL", "TP"}, Standing(b),
           status[<<b, l>>] = "SUBMITTED", status'[<<b, l>>] = "ACCEPTED"
    PROVE  task[t].o[1] = b /\ l \notin naked
<1> DEFINE c == task[t].o[1]  judged == Judged(c, naked)
<1>1. <<b, l>> \in Orders
  BY Domains DEF Legs
<1>2. status'[<<b, l>>] = judged[<<b, l>>]
  <2>1. CASE status' = judged
    BY <2>1
  <2>2. CASE status' = [judged EXCEPT ![<<c, "E">>] = IF @ \in Closed THEN @ ELSE "FILLED"]
    <3>1. <<b, l>> # <<c, "E">>
      OBVIOUS
    <3> QED BY <1>1, <2>2, <3>1 DEF Judged
  <2> QED BY <2>1, <2>2 DEF Report
<1> QED BY <1>1, <1>2 DEF Judged

(* A step that reports a leg of an open position live: the level is there.   *)
LEMMA ClaimIsRight ==
    ASSUME IInv, NInv, Honest, Next,
           NEW b \in Brackets, NEW l \in {"SL", "TP"}, Standing(b),
           status[<<b, l>>] = "SUBMITTED", status'[<<b, l>>] = "ACCEPTED"
    PROVE  First = IF l = "SL" THEN venue[b].sl ELSE venue[b].tp
<1>1. <<b, l>> \in Orders /\ Unjudged(b)
  BY Domains DEF Legs, Unjudged
<1>2. PICK t \in Tasks :
        \/ PlaceAnswered(t) /\ status' = Judged(task[t].o[1], {})
        \/ \E naked : Report(t, naked, task[t].note) /\ (ProtectBefore(t) \/ ProtectAfter(t))
  <2>1. ~\E os, to : to # "ACCEPTED" /\ status' = Move(os, to)
    BY <1>1 DEF Move
  <2>2. status' # status
    OBVIOUS
  <2>3. ASSUME NEW t \in Tasks PROVE ~Command(t) /\ ~Serve(t)
    BY <2>1, <2>2 DEF Command, SubmitBracket, ModifyOrder, CancelOrder, CommandUnplaced, CancelAll, Serve,
       TakeOrder, TakeModify, TakeMove, TakeCancel, ListPositions, ListPending, ListDeals, Listing, Written
  <2>4. ASSUME NEW c \in Brackets PROVE ~BrokerMoves(c) /\ ~RefuseBracket(c)
    BY <2>1, <2>2 DEF BrokerMoves, RefuseBracket
  <2>5. ASSUME NEW t \in Tasks
        PROVE  ~(\/ RefuseUnplaced(t)
                 \/ Located(t) \/ ModifySends(t) \/ ModifySent(t) \/ ModifyVerified(t)
                 \/ ClearSends(t) \/ ClearSent(t)
                 \/ WithdrawSent(t) \/ WithdrawListed(t) \/ WithdrawSettled(t)
                 \/ Swept(t) \/ StrayCancelled(t))
    BY <2>1, <2>2 DEF Located, ModifySends, ModifySent, ModifyVerified, ClearSends, ClearSent, WithdrawSent,
       WithdrawListed, WithdrawSettled, Swept, StrayCancelled, RefuseUnplaced, RefuseUnsent, RefuseSent, Refuse,
       Cancelled, Filled
  <2>6. PICK t \in Tasks : PlaceAnswered(t) \/ ProtectBefore(t) \/ ProtectSent(t) \/ ProtectAfter(t)
                           \/ PlacePriced(t)
    BY <2>3, <2>4, <2>5 DEF Next, Resume
  <2>7. ~PlacePriced(t) /\ ~ProtectSent(t)
    BY <2>1, <2>2 DEF PlacePriced, ProtectSent, Filled
  <2>8. CASE PlaceAnswered(t)
    BY <2>1, <2>2, <2>8 DEF PlaceAnswered
  <2>9. CASE ProtectBefore(t)
    BY <2>2, <2>9 DEF ProtectBefore
  <2>10. CASE ProtectAfter(t)
    BY <2>10 DEF ProtectAfter
  <2> QED BY <2>6, <2>7, <2>8, <2>9, <2>10
<1>3. /\ Verdict(task[t]) /\ OnCourse(task[t]) /\ Evidence(task[t]) /\ task[t].op = "place"
      /\ task[t].answer # "none"
  BY <1>2 DEF NInv, TaskVerdicts, IInv, TasksSound, OnCourse, PlaceAnswered, ProtectBefore, ProtectAfter,
     Answered, ModifySteps, ClearSteps, WithdrawSteps
<1>4. CASE PlaceAnswered(t) /\ status' = Judged(task[t].o[1], {})
  <2>1. task[t].o[1] = b
    BY <1>1, <1>4 DEF Judged
  <2>2. \/ task[t].answer = "placed"
        \/ b \in Limits
    <3>1. status' # status /\ status' # Move(LegsOf(task[t].o[1]), "REJECTED")
      BY <1>1 DEF Move
    <3> QED BY <1>4, <2>1, <3>1 DEF PlaceAnswered
  <2>3. "drop" \notin Faults \/ b \in Limits
    BY <1>3, <2>2 DEF Verdict, Honest
  <2> QED BY <1>1, <2>3 DEF NInv, Untouched, Standing, AsAsked
<1>5. CASE ProtectBefore(t) /\ \E naked : Report(t, naked, task[t].note)
  <2>1. task[t].o[1] = b
    BY <1>5, ReportIsRight
  <2>2. \E row \in task[t].rows : Shortfall(row) = {}
    <3>1. status' # status
      OBVIOUS
    <3> QED BY <1>5, <3>1 DEF ProtectBefore
  <2>3. PICK row \in task[t].rows : row.sl = First /\ row.tp = First
    BY <2>2 DEF Shortfall
  <2>4. Agrees(row, b)
    BY <1>1, <1>3, <1>5, <2>1 DEF Verdict, ProtectBefore, Answered
  <2> QED BY <2>3, <2>4 DEF Agrees
<1>6. CASE ProtectAfter(t)
  <2> DEFINE naked == IF task[t].rows = {}
                      THEN IF task[t].seen = {} THEN {} ELSE {"SL", "TP"}
                      ELSE UNION {Shortfall(row) : row \in task[t].rows}
  <2>1. Report(t, naked, task[t].note) /\ task[t].stage = "after"
    BY <1>6 DEF ProtectAfter, Answered
  <2>2. task[t].o[1] = b /\ l \notin naked
    BY <2>1, ReportIsRight
  <2>3. CASE task[t].rows = {}
    <3>1. task[t].seen = {}
      BY <2>2, <2>3
    <3>2. AsAsked(b)
      BY <1>1, <1>3, <2>1, <2>2, <3>1 DEF Verdict, Repaired
    <3> QED BY <3>2 DEF AsAsked
  <2>4. CASE task[t].rows # {}
    <3>1. PICK row \in task[t].rows : l \notin Shortfall(row)
      BY <2>2, <2>4
    <3>2. Agrees(row, b)
      BY <1>1, <1>3, <2>1, <2>2 DEF Verdict
    <3> QED BY <3>1, <3>2 DEF Agrees, Shortfall
  <2> QED BY <2>3, <2>4
<1> QED BY <1>2, <1>4, <1>5, <1>6

(* What the commands have read of a bracket without a verdict is inductive.  *)
LEMMA VerdictsHold == ASSUME Honest PROVE Spec => []NInv
<1>1. Init => NInv
  <2> SUFFICES ASSUME Init PROVE NInv
    OBVIOUS
  <2>1. \A t \in Tasks : task[t] = Idle
    BY DEF Init
  <2>2. TaskVerdicts
    BY <2>1, IdleVerdict DEF TaskVerdicts
  <2>3. \A b \in Brackets, l \in Legs : status[<<b, l>>] = "INITIALIZED"
    BY Domains DEF Init
  <2> QED BY <2>2, <2>3 DEF NInv, Untouched, Unjudged, Legs
<1>2. IInv /\ NInv /\ [Next]_vars => NInv'
  <2> SUFFICES ASSUME IInv, NInv, [Next]_vars PROVE NInv'
    OBVIOUS
  <2>1. CASE UNCHANGED vars
    BY <2>1 DEF vars, NInv, TaskVerdicts, Untouched, Verdict, Past, Unjudged, AsAsked, Agrees, Standing,
       Repaired
  <2>2. CASE Next
    BY <2>2, CommandVerdicts, ServeVerdicts, BrokerVerdicts, RefusedVerdicts, PlaceVerdicts,
       OtherVerdicts DEF Next, Resume
  <2> QED BY <2>1, <2>2
<1> QED BY <1>1, <1>2, Inductive, PTL DEF Spec

(* A leg of a bracket is reported live only where the position carries it,   *)
(* whatever replies are lost, however late the position is listed and        *)
(* whatever other commands do (_protect, _report_legs): provided that the    *)
(* terminal confirms nothing it has not done, and does not report placed an  *)
(* order whose fill then drops a level.                                      *)
THEOREM NeverNaked == ASSUME Honest PROVE Spec => NoNakedClaim
<1> DEFINE Claims == \A b \in Brackets, l \in {"SL", "TP"} :
                        /\ status[<<b, l>>] = "SUBMITTED" /\ status'[<<b, l>>] = "ACCEPTED"
                        /\ venue[b].at \in {"fresh", "open"}
                        => First = IF l = "SL" THEN venue[b].sl ELSE venue[b].tp
<1>1. IInv /\ NInv /\ [Next]_vars => [Claims]_vars
  <2> SUFFICES ASSUME IInv, NInv, Next PROVE Claims
    OBVIOUS
  <2> QED BY ClaimIsRight DEF Standing
<1>2. Spec => [][Claims]_vars
  BY <1>1, VerdictsHold, Inductive, PTL DEF Spec
<1> QED BY <1>2 DEF NoNakedClaim

---------------------------------------------------------------------------
(* What holds with one command at a time.  With two, the side a command      *)
(* leaves out is sent back as it was before the other one moved it.          *)

OneAtATime == \A s, t \in Tasks : s = t

\* A listing of positions has shown the position of b.
Seen(b) == venue[b].at \in {"open", "closed"}

\* The stop that the command of a task is to leave on the position.
StopSent(k) ==
    IF k.o[2] # "SL" THEN venue[k.o[1]].sl ELSE IF k.op = "modify" THEN k.arg ELSE 0

\* What is about to be sent to a position is right about its stop.
StopRead(k) ==
    /\ k.op = "modify" /\ k.stage # "unplaced" => k.arg \in Prices
    /\ k.op = "cancel" /\ k.o[2] # "E" => <<k.o, "cancel">> \in owed
    /\ k.op = "place" /\ k.stage = "protect" => k.send.sl = First
    /\ k.op \in {"modify", "cancel"} =>
        /\ k.stage = "held" => \A row \in k.rows :
              Seen(k.o[1]) /\ (venue[k.o[1]].at = "open" => row.sl = venue[k.o[1]].sl)
        /\ k.call = "modify" /\ k.answer = "none" =>
              Seen(k.o[1]) /\ (venue[k.o[1]].at = "open" => k.send.sl = StopSent(k))
StopsRead == \A t \in Tasks : StopRead(task[t])

(* The one task moves.                                                       *)
LEMMA AloneStops ==
    ASSUME OneAtATime, IInv, NEW t \in Tasks, NEW k, task' = [task EXCEPT ![t] = k], StopRead(k)'
    PROVE  StopsRead'
<1>1. \A u \in Tasks : task'[u] = k
  BY DEF OneAtATime, IInv, TypeOK
<1> QED BY <1>1 DEF StopsRead, StopRead, StopSent, Seen

(* A task that ends, and one that goes on with the submit of a bracket.      *)
LEMMA EndsStops ==
    ASSUME OneAtATime, IInv, NEW t \in Tasks, NEW k, task' = [task EXCEPT ![t] = k],
           k.op = "idle" \/ (k.op = "place" /\ (k.stage = "protect" => k.send.sl = First))
    PROVE  StopsRead'
<1>1. StopRead(k)'
  BY DEF StopRead
<1> QED BY <1>1, AloneStops

(* A modify or a cancel goes on to a call that sends no levels.              *)
LEMMA AsksStops ==
    ASSUME OneAtATime, IInv, StopsRead, NEW t \in Tasks, NEW k, task' = [task EXCEPT ![t] = k],
           k.op = task[t].op, k.o = task[t].o, k.arg = task[t].arg, k.op \in {"modify", "cancel"},
           task[t].stage # "unplaced" \/ k.stage = "unplaced",
           owed \subseteq owed', k.stage = "held" => k.rows = {}, k.call # "modify" \/ k.answer # "none"
    PROVE  StopsRead'
<1>1. StopRead(task[t])
  BY DEF StopsRead
<1>2. StopRead(k)'
  BY <1>1 DEF StopRead
<1> QED BY <1>2, AloneStops

(* A modify or a clear goes on to send a position the row it has read, with  *)
(* its own side changed.                                                     *)
LEMMA SendsStops ==
    ASSUME OneAtATime, IInv, StopsRead, NEW t \in Tasks, NEW k, task' = [task EXCEPT ![t] = k],
           k.op = task[t].op, k.o = task[t].o, k.arg = task[t].arg, k.op \in {"modify", "cancel"},
           UNCHANGED <<venue, owed>>, k.stage # "held", task[t].stage = "held",
           NEW row \in task[t].rows,
           k.send = Completed(k.o, IF k.op = "modify" THEN k.arg ELSE 0, row)
    PROVE  StopsRead'
<1>1. StopRead(task[t])
  BY DEF StopsRead
<1>2. Seen(k.o[1]) /\ (venue[k.o[1]].at = "open" => row.sl = venue[k.o[1]].sl)
  BY <1>1 DEF StopRead
<1>3. row \in Row
  BY TaskFields DEF IInv, TypeOK, TasksOK
<1>4. k.send.sl = IF k.o[2] # "SL" THEN row.sl ELSE IF k.op = "modify" THEN k.arg ELSE 0
  BY <1>3 DEF Completed, Row
<1>5. StopRead(k)'
  BY <1>1, <1>2, <1>4 DEF StopRead, StopSent, Seen
<1> QED BY <1>5, AloneStops

(* Every call the terminal serves.                                           *)
LEMMA ServeStops ==
    ASSUME OneAtATime, IInv, StopsRead, NEW t \in Tasks, Serve(t)
    PROVE  StopsRead'
<1> PICK b \in Brackets : b = task[t].o[1]
  BY TaskFields DEF IInv, TypeOK, TasksOK
<1>0. /\ UNCHANGED owed /\ task[t] \in Task /\ OnCourse(task[t]) /\ StopRead(task[t])
      /\ task[t].op # "idle"
  <2>1. UNCHANGED owed /\ task[t].op # "idle"
    BY DEF Serve, TakeOrder, TakeModify, TakeMove, TakeCancel, ListPositions, ListPending,
           ListDeals, Listing, Written, Pending
  <2> QED BY <2>1 DEF IInv, TypeOK, TasksSound, StopsRead
<1>1. PICK a, rows : Reply(t, a, rows) /\ a # "none"
        /\ \/ rows = {}
           \/ rows = {RowOf(b)} /\ UNCHANGED venue /\ (task[t].call = "positions" => venue[b].at = "open")
  <2>1. CASE TakeOrder(t)
    BY <2>1 DEF TakeOrder
  <2>2. CASE TakeModify(t)
    BY <2>2 DEF TakeModify, Written
  <2>3. CASE TakeMove(t) \/ TakeCancel(t)
    BY <2>3 DEF TakeMove, TakeCancel, Written
  <2>4. CASE ListPositions(t) \/ ListPending(t) \/ ListDeals(t)
    BY <2>4 DEF ListPositions, ListPending, ListDeals, Listing, Pending
  <2> QED BY <2>1, <2>2, <2>3, <2>4 DEF Serve
<1>2. PICK k : /\ task' = [task EXCEPT ![t] = k]
               /\ k.op = task[t].op /\ k.o = task[t].o /\ k.arg = task[t].arg /\ k.stage = task[t].stage
               /\ k.send = task[t].send /\ k.call = task[t].call /\ k.answer = a /\ k.rows = rows
  <2> DEFINE k == [task[t] EXCEPT !.answer = a, !.rows = rows]
  <2>1. /\ k.op = task[t].op /\ k.o = task[t].o /\ k.arg = task[t].arg /\ k.stage = task[t].stage
        /\ k.send = task[t].send /\ k.call = task[t].call /\ k.answer = a /\ k.rows = rows
    BY <1>0 DEF Task
  <2>2. task' = [task EXCEPT ![t] = k]
    BY <1>0, <1>1 DEF Reply, IInv, TypeOK
  <2> QED BY <2>1, <2>2
<1>3. k.stage = "held" => k.call = "positions"
  BY <1>0, <1>2 DEF OnCourse, PlaceSteps, ModifySteps, ClearSteps, WithdrawSteps
<1>4. k.stage = "held" => \A row \in k.rows :
              Seen(b)' /\ (venue'[b].at = "open" => row.sl = venue'[b].sl)
  BY <1>1, <1>2, <1>3 DEF Seen, RowOf
<1>5. StopRead(k)'
  BY <1>0, <1>1, <1>2, <1>4 DEF StopRead
<1> QED BY <1>2, <1>5, AloneStops

(* The broker by itself changes the stop of no position that was listed.     *)
LEMMA BrokerStops ==
    ASSUME OneAtATime, IInv, StopsRead, NEW b \in Brackets, BrokerMoves(b)
    PROVE  StopsRead'
<1>0. UNCHANGED <<owed, task>> /\ venue \in [Brackets -> VenueRow]
  BY DEF BrokerMoves, IInv, TypeOK
<1>1. ASSUME NEW c \in Brackets, Seen(c)
      PROVE  Seen(c)' /\ (venue'[c].at = "open" => venue[c].at = "open" /\ venue'[c].sl = venue[c].sl)
  <2>1. CASE c = b
    <3>1. venue[b].at = "open" /\ venue' = [venue EXCEPT ![b].at = "closed"]
      BY <1>1, <2>1 DEF BrokerMoves, Seen
    <3> QED BY <1>0, <2>1, <3>1 DEF Seen, VenueRow
  <2>2. CASE c # b
    <3>1. venue'[c] = venue[c]
      BY <1>0, <2>2 DEF BrokerMoves, Opened
    <3> QED BY <1>1, <3>1 DEF Seen
  <2> QED BY <2>1, <2>2
<1> SUFFICES ASSUME NEW u \in Tasks PROVE StopRead(task[u])'
  BY DEF StopsRead
<1>2. PICK c \in Brackets : c = task[u].o[1]
  BY TaskFields DEF IInv, TypeOK, TasksOK
<1>3. StopRead(task[u])
  BY DEF StopsRead
<1> QED BY <1>0, <1>1, <1>2, <1>3 DEF StopRead, StopSent, Seen

(* A command starts.                                                         *)
LEMMA CommandStops ==
    ASSUME OneAtATime, IInv, StopsRead, NEW t \in Tasks, Command(t)
    PROVE  StopsRead'
<1>1. CASE \E b \in Brackets : SubmitBracket(t, b)
  <2>1. PICK k : task' = [task EXCEPT ![t] = k] /\ k.op = "place" /\ k.stage = "answer"
    BY <1>1, Started DEF SubmitBracket
  <2> QED BY <2>1, EndsStops
<1>2. CASE \E o \in Orders, p \in Prices : ModifyOrder(t, o, p)
  <2>1. PICK o \in Orders, p \in Prices : ModifyOrder(t, o, p)
    BY <1>2
  <2>2. PICK k : /\ task' = [task EXCEPT ![t] = k] /\ k.op = "modify" /\ k.arg = p
                 /\ k.stage = "resting" /\ k.call = "pending"
    BY <2>1, Started DEF ModifyOrder
  <2>3. StopRead(k)'
    BY <2>2 DEF StopRead
  <2> QED BY <2>2, <2>3, AloneStops
<1>3. CASE \E o \in Orders : CancelOrder(t, o)
  <2>1. PICK o \in Orders : CancelOrder(t, o)
    BY <1>3
  <2>2. PICK k : /\ task' = [task EXCEPT ![t] = k] /\ k.op = "cancel" /\ k.o = o
                 /\ k.stage \in {"resting", "withdraw"} /\ k.call \in {"pending", "cancel"}
    BY <2>1, Started DEF CancelOrder
  <2>3. <<o, "cancel">> \in owed'
    BY <2>1 DEF CancelOrder
  <2>4. StopRead(k)'
    BY <2>2, <2>3 DEF StopRead
  <2> QED BY <2>2, <2>4, AloneStops
<1>4. CASE \E b \in Brackets : CancelAll(t, b)
  <2>1. PICK b \in Brackets : CancelAll(t, b)
    BY <1>4
  <2>2. PICK k : /\ task' = [task EXCEPT ![t] = k] /\ k.op = "cancel" /\ k.o = <<b, "E">>
                 /\ k.stage = "sweep" /\ k.call = "pending"
    BY <2>1, Started DEF CancelAll
  <2>3. StopRead(k)'
    BY <2>2 DEF StopRead
  <2> QED BY <2>2, <2>3, AloneStops
<1>5. CASE \E o \in Orders, j \in {"modify", "cancel"} : CommandUnplaced(t, o, j)
  <2>1. PICK o \in Orders, j \in {"modify", "cancel"} : CommandUnplaced(t, o, j)
    BY <1>5
  <2>2. PICK k : /\ task' = [task EXCEPT ![t] = k] /\ k.op = j /\ k.o = o
                 /\ k.stage = "unplaced" /\ k.call = "none"
    BY <2>1, Started DEF CommandUnplaced
  <2>3. <<o, j>> \in owed'
    BY <2>1 DEF CommandUnplaced
  <2>4. StopRead(k)'
    BY <2>2, <2>3 DEF StopRead
  <2> QED BY <2>2, <2>4, AloneStops
<1> QED BY <1>1, <1>2, <1>3, <1>4, <1>5 DEF Command

(* A handler that ends.                                                      *)
LEMMA FinishStops ==
    ASSUME OneAtATime, IInv, NEW t \in Tasks, Finish(t)
    PROVE  StopsRead'
<1>1. task' = [task EXCEPT ![t] = Idle] /\ Idle.op = "idle"
  BY IdleOnCourse DEF Finish
<1> QED BY <1>1, EndsStops

(* Every step of a submit.                                                   *)
LEMMA PlaceStops ==
    ASSUME OneAtATime, IInv, StopsRead, NEW t \in Tasks,
           \/ PlaceAnswered(t) \/ ProtectBefore(t) \/ ProtectSent(t) \/ ProtectAfter(t)
           \/ PlacePriced(t)
    PROVE  StopsRead'
<1>0. task[t].op = "place" /\ task[t] \in Task
  BY DEF PlaceAnswered, ProtectBefore, ProtectSent, ProtectAfter, PlacePriced, Answered,
     OnCourse, ModifySteps, ClearSteps, WithdrawSteps, IInv, TasksSound, TypeOK
<1>1. CASE Finish(t)
  BY <1>1, FinishStops
<1>2. CASE ProtectSent(t)
  <2> DEFINE k == [task[t] EXCEPT !.stage = "after", !.call = "positions", !.answer = "none",
                                  !.seen = IF task[t].answer = "done" THEN {} ELSE {NoRow}]
  <2>1. task' = [task EXCEPT ![t] = k] /\ k.op = "place" /\ k.stage = "after"
    BY <1>0, <1>2 DEF ProtectSent, Task
  <2> QED BY <2>1, EndsStops
<1>3. CASE PlaceAnswered(t) /\ ~Finish(t)
  <2>1. AwaitNoting(t, "before", "positions", NoRow, task[t].answer)
    BY <1>3 DEF PlaceAnswered
  <2>2. PICK k : task' = [task EXCEPT ![t] = k] /\ k.op = "place" /\ k.stage = "before"
    BY <1>0, <2>1, AwaitingNoting
  <2> QED BY <2>2, EndsStops
<1>4. CASE (ProtectBefore(t) \/ ProtectAfter(t) \/ PlacePriced(t)) /\ ~Finish(t)
  <2>1. \/ Await(t, "price", "deals", NoRow)
        \/ Await(t, "protect", "modify", Asked)
    BY <1>4 DEF ProtectBefore, ProtectAfter, PlacePriced, Report
  <2>2. CASE Await(t, "price", "deals", NoRow)
    <3>1. PICK k : task' = [task EXCEPT ![t] = k] /\ k.op = "place" /\ k.stage = "price"
      BY <1>0, <2>2, Awaiting
    <3> QED BY <3>1, EndsStops
  <2>3. CASE Await(t, "protect", "modify", Asked)
    <3>1. PICK k : task' = [task EXCEPT ![t] = k] /\ k.op = "place" /\ k.send = Asked
      BY <1>0, <2>3, Awaiting
    <3>2. k.send.sl = First
      BY <3>1 DEF Asked
    <3> QED BY <3>1, <3>2, EndsStops
  <2> QED BY <2>1, <2>2, <2>3
<1> QED BY <1>1, <1>2, <1>3, <1>4

(* Every step of a modify or a cancel.                                       *)
LEMMA OtherStops ==
    ASSUME OneAtATime, IInv, StopsRead, NEW t \in Tasks,
           \/ RefuseUnplaced(t)
           \/ Located(t) \/ ModifySends(t) \/ ModifySent(t) \/ ModifyVerified(t)
           \/ ClearSends(t) \/ ClearSent(t)
           \/ WithdrawSent(t) \/ WithdrawListed(t) \/ WithdrawSettled(t)
           \/ Swept(t) \/ StrayCancelled(t)
    PROVE  StopsRead'
<1>0. /\ OnCourse(task[t]) /\ task[t] \in Task /\ task[t].op \in {"modify", "cancel"}
  BY DEF Located, ModifySends, ModifySent, ModifyVerified, ClearSends, ClearSent, WithdrawSent,
     WithdrawListed, WithdrawSettled, Swept, StrayCancelled, Answered,
     RefuseUnplaced, OnCourse, PlaceSteps, IInv, TasksSound, TypeOK
<1>1. CASE Finish(t)
  BY <1>1, FinishStops
<1>u. ~Finish(t) => task[t].stage # "unplaced"
  BY DEF Located, ModifySends, ModifySent, ModifyVerified, ClearSends, ClearSent, WithdrawSent,
     WithdrawListed, WithdrawSettled, Swept, StrayCancelled, RefuseUnplaced, RefuseUnsent, Refuse, Answered
<1>2. CASE Located(t) /\ ~Finish(t)
  <2>1. PICK k : k = [task[t] EXCEPT !.stage = "held", !.call = "positions",
                       !.answer = "none", !.rows = {}, !.seen = task[t].rows]
    OBVIOUS
  <2>2. /\ k.op = task[t].op /\ k.o = task[t].o /\ k.arg = task[t].arg /\ k.stage = "held"
        /\ k.call = "positions" /\ k.rows = {}
    BY <1>0, <2>1 DEF Task
  <2>3. task' = [task EXCEPT ![t] = k] /\ UNCHANGED owed
    BY <1>2, <2>1 DEF Located, RefuseUnsent, Refuse
  <2> QED BY <1>0, <2>2, <2>3, <1>2, <1>u, AsksStops
<1>3. CASE (ModifySends(t) \/ ClearSends(t)) /\ ~Finish(t)
  <2>1. /\ UNCHANGED <<venue, owed>> /\ task[t].stage = "held"
        /\ \/ \E send : Await(t, "sent", "move", send)
           \/ \E row \in task[t].rows, stage \in {"sent", "cleared"} :
                Await(t, stage, "modify",
                      Completed(task[t].o, IF task[t].op = "modify" THEN task[t].arg ELSE 0, row))
    <3>1. CASE ModifySends(t)
      BY <1>3, <3>1 DEF ModifySends, Answered, RefuseUnsent, Refuse
    <3>2. CASE ClearSends(t)
      <4>1. task[t].op = "cancel" /\ task[t].stage = "held"
        BY <3>2 DEF ClearSends, Answered
      <4>2. PICK row \in task[t].rows : Await(t, "cleared", "modify", Completed(task[t].o, 0, row))
        BY <1>3, <3>2 DEF ClearSends, RefuseUnsent, Refuse, Cancelled
      <4>3. UNCHANGED <<venue, owed>>
        BY <1>3, <3>2 DEF ClearSends, RefuseUnsent, Refuse, Cancelled
      <4> QED BY <4>1, <4>2, <4>3
    <3> QED BY <1>3, <3>1, <3>2
  <2>2. CASE \E send : Await(t, "sent", "move", send)
    <3>1. PICK k : /\ task' = [task EXCEPT ![t] = k] /\ k.op = task[t].op /\ k.o = task[t].o
                   /\ k.arg = task[t].arg /\ k.stage = "sent" /\ k.call = "move"
      BY <2>2, Awaiting
    <3> QED BY <1>0, <2>1, <3>1, <1>3, <1>u, AsksStops
  <2>3. ASSUME NEW row \in task[t].rows, NEW stage \in {"sent", "cleared"},
               Await(t, stage, "modify",
                      Completed(task[t].o, IF task[t].op = "modify" THEN task[t].arg ELSE 0, row))
        PROVE  StopsRead'
    <3>1. PICK k : /\ task' = [task EXCEPT ![t] = k] /\ k.op = task[t].op /\ k.o = task[t].o
                   /\ k.arg = task[t].arg /\ k.stage = stage
                   /\ k.send = Completed(task[t].o, IF task[t].op = "modify" THEN task[t].arg ELSE 0, row)
      BY <2>3, Awaiting
    <3> QED BY <1>0, <2>1, <3>1, SendsStops
  <2> QED BY <2>1, <2>2, <2>3
<1>4. CASE WithdrawSent(t) /\ ~Finish(t)
  <2>1. AwaitNoting(t, "listing", "pending", NoRow, task[t].answer) /\ UNCHANGED owed
    BY <1>4 DEF WithdrawSent, RefuseSent, Refuse
  <2>2. PICK k : /\ task' = [task EXCEPT ![t] = k] /\ k.op = task[t].op /\ k.o = task[t].o
                 /\ k.arg = task[t].arg /\ k.stage = "listing" /\ k.call = "pending"
    BY <2>1, AwaitingNoting
  <2> QED BY <1>0, <2>1, <2>2, <1>4, <1>u, AsksStops
<1>5. CASE (ModifySent(t) \/ WithdrawListed(t) \/ Swept(t)) /\ ~Finish(t)
  <2>1. PICK stage, call, send : Await(t, stage, call, send) /\ stage # "held" /\ call # "modify"
    BY <1>5 DEF ModifySent, WithdrawListed, Swept, RefuseSent, Refuse, Cancelled
  <2>2. UNCHANGED owed
    BY <1>5 DEF ModifySent, WithdrawListed, Swept, RefuseSent, Refuse, Cancelled
  <2>3. PICK k : /\ task' = [task EXCEPT ![t] = k] /\ k.op = task[t].op /\ k.o = task[t].o
                 /\ k.arg = task[t].arg /\ k.stage = stage /\ k.call = call
    BY <2>1, Awaiting
  <2> QED BY <1>0, <2>1, <2>2, <2>3, <1>5, <1>u, AsksStops
<1>6. CASE ModifyVerified(t) \/ ClearSent(t) \/ WithdrawSettled(t) \/ StrayCancelled(t)
  <2>1. Finish(t)
    BY <1>6 DEF ModifyVerified, ClearSent, WithdrawSettled, StrayCancelled, RefuseSent, Refuse, Cancelled
  <2> QED BY <2>1, FinishStops
<1>7. CASE RefuseUnplaced(t)
  BY <1>7, FinishStops DEF RefuseUnplaced, RefuseUnsent, Refuse
<1> QED BY <1>1, <1>2, <1>3, <1>4, <1>5, <1>6, <1>7

(* Only a modify changes the stop of an open position, and it sends one.     *)
LEMMA StopIsKept ==
    ASSUME OneAtATime, IInv, StopsRead, Next, NEW b \in Brackets,
           <<<<b, "SL">>, "cancel">> \notin owed,
           venue[b].at = "open", venue[b].sl # 0, venue'[b].at = "open"
    PROVE  venue'[b].sl # 0
<1>0. venue \in [Brackets -> VenueRow]
  BY DEF IInv, TypeOK
<1>1. CASE \E t \in Tasks : Command(t) \/ Resume(t)
  <2>1. UNCHANGED venue
    BY <1>1 DEF Command, SubmitBracket, ModifyOrder, CancelOrder, CommandUnplaced, CancelAll, Resume,
       RefuseUnplaced, PlaceAnswered,
       ProtectBefore, ProtectSent, ProtectAfter, PlacePriced, Report, Located, ModifySends, ModifySent,
       ModifyVerified, ClearSends, ClearSent, WithdrawSent, WithdrawListed, WithdrawSettled, Swept,
       StrayCancelled, RefuseUnsent, RefuseSent, Refuse, Cancelled
  <2> QED BY <2>1
<1>2. CASE \E c \in Brackets : BrokerMoves(c) \/ RefuseBracket(c)
  <2>1. PICK c \in Brackets : BrokerMoves(c) \/ RefuseBracket(c)
    BY <1>2
  <2>2. CASE c = b
    BY <1>0, <2>1, <2>2 DEF BrokerMoves, RefuseBracket, VenueRow
  <2>3. CASE c # b
    BY <1>0, <2>1, <2>3 DEF BrokerMoves, RefuseBracket, Opened
  <2> QED BY <2>2, <2>3
<1>3. ASSUME NEW t \in Tasks, Serve(t) PROVE venue'[b].sl # 0
  <2> DEFINE c == task[t].o[1]
  <2>0. /\ OnCourse(task[t]) /\ Evidence(task[t]) /\ StopRead(task[t]) /\ c \in Brackets
        /\ task[t].o = <<c, task[t].o[2]>> /\ task[t].op # "idle"
        /\ venue[c] \in VenueRow
    <3>1. task[t].op # "idle"
      BY <1>3 DEF Serve, TakeOrder, TakeModify, TakeMove, TakeCancel, ListPositions, ListPending,
           ListDeals, Listing, Written, Pending
    <3> QED BY <1>0, <3>1, TaskFields, Domains DEF IInv, TasksSound, TypeOK, TasksOK, StopsRead
  <2>1. CASE venue'[b] = venue[b]
    BY <2>1
  <2>2. CASE TakeOrder(t)
    <3>1. venue[c].at = "none"
      BY <2>0, <2>2 DEF TakeOrder, Pending, OnCourse, Evidence, PlaceSteps, ModifySteps,
         ClearSteps, WithdrawSteps
    <3>2. c # b
      BY <3>1
    <3> QED BY <1>0, <2>2, <3>2 DEF TakeOrder, Opened, Rested
  <2>3. CASE TakeModify(t)
    <3>1. CASE c # b
      BY <1>0, <2>3, <3>1 DEF TakeModify, Written
    <3>2. CASE c = b
      <4>1. task[t].call = "modify" /\ task[t].answer = "none"
        BY <2>3 DEF TakeModify, Pending
      <4>2. task[t].send.sl # 0
        <5>1. CASE task[t].op = "place"
          <6>1. task[t].stage = "protect" /\ First # 0
            BY <2>0, <4>1, <5>1, ConstantsAssumption DEF OnCourse, PlaceSteps
          <6> QED BY <2>0, <5>1, <6>1 DEF StopRead
        <5>2. CASE task[t].op # "place"
          <6>1. task[t].op \in {"modify", "cancel"} /\ (task[t].op = "cancel" => task[t].o[2] # "E")
                /\ task[t].stage # "unplaced"
            BY <2>0, <4>1, <5>2 DEF OnCourse, ModifySteps, ClearSteps, WithdrawSteps
          <6>2. task[t].send.sl = StopSent(task[t])
            BY <2>0, <3>2, <4>1, <6>1 DEF StopRead
          <6>3. task[t].op = "modify" => task[t].arg # 0
            BY <2>0, <6>1, ConstantsAssumption DEF StopRead
          <6>4. task[t].op = "cancel" => task[t].o[2] # "SL"
            BY <2>0, <3>2, <6>1 DEF StopRead
          <6> QED BY <3>2, <6>1, <6>2, <6>3, <6>4 DEF StopSent
        <5> QED BY <5>1, <5>2
      <4>3. venue'[b] = venue[b] \/ venue'[b].sl = task[t].send.sl
        <5> DEFINE new == [venue[b] EXCEPT !.sl = task[t].send.sl, !.tp = task[t].send.tp]
        <5>1. venue' = [venue EXCEPT ![b] = new] \/ UNCHANGED venue
          BY <2>3, <3>2 DEF TakeModify, Written
        <5>2. new.sl = task[t].send.sl
          BY <1>0 DEF VenueRow
        <5> QED BY <1>0, <5>1, <5>2
      <4> QED BY <4>2, <4>3
    <3> QED BY <3>1, <3>2
  <2>4. CASE TakeMove(t) \/ TakeCancel(t)
    BY <1>0, <2>0, <2>4 DEF TakeMove, TakeCancel, Written, VenueRow
  <2>5. CASE ListPositions(t) \/ ListPending(t) \/ ListDeals(t)
    BY <2>5 DEF ListPositions, ListPending, ListDeals, Listing
  <2> QED BY <1>3, <2>2, <2>3, <2>4, <2>5 DEF Serve
<1> QED BY <1>1, <1>2, <1>3 DEF Next

(* With one command at a time, whatever fails, no command takes a live stop  *)
(* off a position unless its cancel was asked for (_modify_order completes   *)
(* the side it leaves out; _protect sends what was asked).                   *)
THEOREM StopsAreKept == ASSUME OneAtATime PROVE Spec => StopNeverStripped
<1> DEFINE Kept1 == \A b \in Brackets :
                      /\ status[<<b, "SL">>] = "ACCEPTED" /\ <<<<b, "SL">>, "cancel">> \notin owed
                      /\ venue[b].at = "open" /\ venue[b].sl # 0
                      /\ venue'[b].at = "open"
                      => venue'[b].sl # 0
<1>1. Init => StopsRead
  <2>1. Idle.op = "idle"
    BY IdleOnCourse
  <2> QED BY <2>1 DEF Init, StopsRead, StopRead
<1>2. IInv /\ StopsRead /\ [Next]_vars => StopsRead'
  <2> SUFFICES ASSUME IInv, StopsRead, [Next]_vars PROVE StopsRead'
    OBVIOUS
  <2>1. CASE UNCHANGED vars
    BY <2>1 DEF vars, StopsRead, StopRead, StopSent, Seen
  <2>2. CASE \E b \in Brackets : RefuseBracket(b)
    BY <2>2 DEF RefuseBracket, StopsRead, StopRead, StopSent, Seen
  <2>3. CASE Next
    BY <2>2, <2>3, CommandStops, ServeStops, BrokerStops, PlaceStops, OtherStops DEF Next, Resume
  <2> QED BY <2>1, <2>3
<1>3. IInv /\ StopsRead /\ [Next]_vars => [Kept1]_vars
  BY StopIsKept
<1>4. Spec => [][Kept1]_vars
  BY <1>1, <1>2, <1>3, Inductive, PTL DEF Spec
<1> QED BY <1>4 DEF StopNeverStripped

---------------------------------------------------------------------------
(* What the engine has announced of a leg is what the position carries, with *)
(* one command at a time and market brackets whose fill the terminal shows   *)
(* and reports as it is.                                                     *)

Sequential == OneAtATime /\ Limits = {} /\ Faults \cap {"lag", "lie", "placed"} = {}

\* The side of a row that a leg is.
Side(row, l) == IF l = "SL" THEN row.sl ELSE row.tp

\* The leg is on the position as announced.
Held(b, l) ==
    venue[b].at = "open" /\ b \notin unsure =>
        /\ status[<<b, l>>] = "ACCEPTED" => shown[<<b, l>>] = Side(venue[b], l)
        /\ status[<<b, l>>] = "CANCELED" => Side(venue[b], l) = 0

\* A command has sent the leg's level, or a zero, and has not answered yet.
InDoubt(k, b, l) ==
    k.op \in {"modify", "cancel"} /\ k.o = <<b, l>> /\ k.stage \in {"sent", "verify", "cleared"}

\* What a command on a leg has read and sent.
NewLevel(k) == IF k.op = "modify" THEN k.arg ELSE 0
LegRead(k) ==
    LET b == k.o[1]  open == venue[b].at = "open" IN
    /\ k.op = "place" /\ k.stage # "price" =>
          \A l \in {"SL", "TP"} : status[<<b, l>>] \notin {"INITIALIZED", "ACCEPTED", "CANCELED"}
    /\ k.op = "modify" => k.o[2] # "E"
    /\ k.op \in {"modify", "cancel"} /\ k.o[2] # "E" /\ k.stage # "unplaced" =>
         /\ status[k.o] = "ACCEPTED"
         /\ k.seen = {}
         /\ k.stage = "resting" => k.rows = {}
         /\ k.stage \in {"held", "verify"} /\ open => k.rows \subseteq {RowOf(b)}
         /\ k.stage = "held" /\ k.answer \notin {"none", "raised"} /\ open => k.rows # {}
         /\ k.stage \in {"sent", "cleared"} /\ k.answer = "none" /\ open =>
               k.send = Completed(k.o, NewLevel(k), RowOf(b))
         /\ k.stage \in {"sent", "verify"} => k.arg = Side(k.send, k.o[2])
         /\ k.stage = "cleared" /\ k.answer = "done" /\ open => Side(venue[b], k.o[2]) = 0

LegSound(b, l) ==
    /\ status[<<b, l>>] \in {"INITIALIZED", "SUBMITTED"} => shown[<<b, l>>] = First
    /\ status[<<b, l>>] \in {"ACCEPTED", "CANCELED"} => venue[b].at # "none"

LInv ==
    /\ \A b \in Brackets : venue[b].at \in {"none", "open", "closed"}
    /\ \A b \in Brackets, l \in {"SL", "TP"} :
        LegSound(b, l) /\ (Held(b, l) \/ \E t \in Tasks : InDoubt(task[t], b, l))
    /\ \A t \in Tasks : LegRead(task[t])

(* The one task moves.                                                       *)
LEMMA AloneLegs ==
    ASSUME OneAtATime, IInv, NEW t \in Tasks, NEW k, task' = [task EXCEPT ![t] = k], LegRead(k)',
           \A b \in Brackets : venue'[b].at \in {"none", "open", "closed"},
           \A b \in Brackets, l \in {"SL", "TP"} : LegSound(b, l)' /\ (Held(b, l)' \/ InDoubt(k, b, l))
    PROVE  LInv'
<1>1. \A u \in Tasks : task'[u] = k
  BY DEF OneAtATime, IInv, TypeOK
<1>2. \A b, l : InDoubt(k, b, l) => InDoubt(task'[t], b, l)
  BY <1>1
<1>3. ASSUME NEW u \in Tasks PROVE LegRead(task[u])'
  BY <1>1 DEF LegRead, NewLevel, Side, RowOf
<1>4. ASSUME NEW b \in Brackets, NEW l \in {"SL", "TP"}
      PROVE  Held(b, l)' \/ \E u \in Tasks : InDoubt(task[u], b, l)'
  BY <1>2 DEF InDoubt
<1> QED BY <1>3, <1>4 DEF LInv

(* What is known of the one task and of each leg before a step.              *)
LEMMA LegFacts ==
    ASSUME OneAtATime, IInv, LInv, NEW t \in Tasks
    PROVE  /\ LegRead(task[t]) /\ task[t] \in Task /\ OnCourse(task[t]) /\ Evidence(task[t])
           /\ \A b \in Brackets, l \in {"SL", "TP"} :
                LegSound(b, l) /\ (Held(b, l) \/ InDoubt(task[t], b, l))
           /\ \A b \in Brackets : venue[b] \in VenueRow /\ venue[b].at \in {"none", "open", "closed"}
<1>1. \A u \in Tasks : u = t
  BY DEF OneAtATime
<1> QED BY <1>1 DEF LInv, IInv, TypeOK, TasksSound

(* A handler goes on, and nothing else moves.                                *)
LEMMA GoesOnLegs ==
    ASSUME OneAtATime, IInv, LInv, NEW t \in Tasks, NEW k, task' = [task EXCEPT ![t] = k],
           UNCHANGED <<venue, status, shown, unsure>>, LegRead(k)',
           k.op = task[t].op, k.o = task[t].o,
           task[t].stage \in {"sent", "verify", "cleared"} => k.stage \in {"sent", "verify", "cleared"}
    PROVE  LInv'
<1>1. ASSUME NEW b \in Brackets, NEW l \in {"SL", "TP"}
      PROVE  LegSound(b, l)' /\ (Held(b, l)' \/ InDoubt(k, b, l))
  BY LegFacts DEF LegSound, Held, InDoubt
<1>2. \A b \in Brackets : venue'[b].at \in {"none", "open", "closed"}
  BY DEF LInv
<1> QED BY <1>1, <1>2, AloneLegs

(* A handler ends with every leg as it is announced.                         *)
LEMMA EndsLegs ==
    ASSUME OneAtATime, IInv, LInv, NEW t \in Tasks, Finish(t), UNCHANGED venue,
           \A b \in Brackets, l \in {"SL", "TP"} : LegSound(b, l)' /\ Held(b, l)'
    PROVE  LInv'
<1>1. task' = [task EXCEPT ![t] = Idle] /\ LegRead(Idle)'
  BY DEF Finish, LegRead, Idle
<1>2. \A b \in Brackets : venue'[b].at \in {"none", "open", "closed"}
  BY DEF LInv
<1> QED BY <1>1, <1>2, AloneLegs

(* Every call the terminal serves.                                           *)
LEMMA ServeLegs ==
    ASSUME Sequential, IInv, NInv, LInv, NEW t \in Tasks, Serve(t)
    PROVE  LInv'
<1> PICK b \in Brackets : b = task[t].o[1]
  BY TaskFields DEF IInv, TypeOK, TasksOK
<1>0. /\ UNCHANGED <<status, shown, unsure>> /\ task[t].op # "idle" /\ task[t].answer = "none"
      /\ LegRead(task[t]) /\ task[t] \in Task /\ OnCourse(task[t]) /\ Evidence(task[t])
      /\ venue \in [Brackets -> VenueRow] /\ venue[b] \in VenueRow
      /\ \A c \in Brackets : venue[c].at \in {"none", "open", "closed"}
      /\ \A c \in Brackets, l \in {"SL", "TP"} :
           LegSound(c, l) /\ (Held(c, l) \/ InDoubt(task[t], c, l))
      /\ OneAtATime /\ b \notin Limits /\ b \in Markets
      /\ Faults \cap {"lag", "lie", "placed"} = {}
  <2>1. /\ UNCHANGED <<status, shown, unsure>> /\ task[t].op # "idle" /\ task[t].answer = "none"
    BY DEF Serve, TakeOrder, TakeModify, TakeMove, TakeCancel, ListPositions, ListPending,
           ListDeals, Listing, Written, Pending
  <2>2. OneAtATime /\ b \notin Limits /\ b \in Markets /\ Faults \cap {"lag", "lie", "placed"} = {}
    BY DEF Sequential, Brackets
  <2> QED BY <2>1, <2>2, LegFacts DEF IInv, TypeOK
<1>1. PICK a, rows :
        /\ Reply(t, a, rows) /\ a # "none"
        /\ \/ /\ rows = {} /\ task[t].call \in {"order", "modify", "move", "cancel"}
           \/ /\ UNCHANGED venue /\ task[t].call \in {"positions", "pending", "deals"}
              /\ \/ a = "raised" /\ rows = {}
                 \/ a = "rows" /\ rows \subseteq {RowOf(b)}
              /\ task[t].call = "pending" => rows = {}
              /\ task[t].call = "positions" /\ venue[b].at = "open" /\ a # "raised" => rows # {}
        /\ a = "done" /\ task[t].call = "modify" =>
              venue'[b] = [venue[b] EXCEPT !.sl = task[t].send.sl, !.tp = task[t].send.tp]
  <2>1. CASE TakeOrder(t)
    BY <2>1 DEF TakeOrder, Pending
  <2>2. CASE TakeModify(t)
    <3> DEFINE new == [venue[b] EXCEPT !.sl = task[t].send.sl, !.tp = task[t].send.tp]
    <3>1. task[t].call = "modify" /\ \E applies : Written(t, applies, new)
      BY <1>0, <2>2 DEF TakeModify, Pending
    <3>2. PICK a : Reply(t, a, {}) /\ a # "none" /\ (a = "done" => venue' = [venue EXCEPT ![b] = new])
      BY <3>1 DEF Written
    <3>3. a = "done" => venue'[b] = new
      BY <1>0, <3>2
    <3> HIDE DEF new
    <3>4. \E aa : Reply(t, aa, {}) /\ aa # "none" /\ (aa = "done" => venue'[b] = new)
      BY <3>2, <3>3
    <3> QED BY <3>1, <3>4 DEF new
  <2>3. CASE TakeMove(t)
    BY <2>3 DEF TakeMove, Pending, Written
  <2>4. CASE TakeCancel(t)
    BY <2>4 DEF TakeCancel, Pending, Written
  <2>5. CASE ListPositions(t)
    BY <2>5 DEF ListPositions, Listing, Pending
  <2>6. CASE ListPending(t)
    BY <1>0, <2>6 DEF ListPending, Listing, Pending
  <2>7. CASE ListDeals(t)
    BY <2>7 DEF ListDeals, Listing, Pending
  <2> QED BY <2>1, <2>2, <2>3, <2>4, <2>5, <2>6, <2>7 DEF Serve
<1>2. PICK k : /\ task' = [task EXCEPT ![t] = k]
               /\ k.op = task[t].op /\ k.o = task[t].o /\ k.arg = task[t].arg /\ k.stage = task[t].stage
               /\ k.send = task[t].send /\ k.call = task[t].call /\ k.seen = task[t].seen
               /\ k.answer = a /\ k.rows = rows
  <2> DEFINE k == [task[t] EXCEPT !.answer = a, !.rows = rows]
  <2>1. /\ k.op = task[t].op /\ k.o = task[t].o /\ k.arg = task[t].arg /\ k.stage = task[t].stage
        /\ k.send = task[t].send /\ k.call = task[t].call /\ k.seen = task[t].seen
        /\ k.answer = a /\ k.rows = rows
    BY <1>0 DEF Task
  <2>2. task' = [task EXCEPT ![t] = k]
    BY <1>0, <1>1 DEF Reply, IInv, TypeOK
  <2> QED BY <2>1, <2>2
\* What the terminal does to the book: it opens a bracket never placed, or
\* gives an open position the levels it was sent.
<1>3. \/ UNCHANGED venue
      \/ /\ \A c \in Brackets \ {b} : venue'[c] = venue[c]
         /\ \/ task[t].op = "place" /\ venue[b].at = "none" /\ venue'[b].at = "open"
            \/ /\ venue[b].at = "open" /\ venue'[b].at = "open" /\ task[t].call = "modify"
               /\ venue'[b].sl = task[t].send.sl /\ venue'[b].tp = task[t].send.tp
  <2>1. CASE TakeOrder(t)
    <3>1. task[t].op = "place" /\ venue[b].at = "none"
      BY <1>0, <2>1 DEF TakeOrder, Pending, OnCourse, Evidence, PlaceSteps, ModifySteps,
         ClearSteps, WithdrawSteps
    <3>2. UNCHANGED venue \/ Opened(b, task[t].send)
      BY <1>0, <2>1 DEF TakeOrder
    <3>3. CASE Opened(b, task[t].send)
      <4>1. PICK sl, tp : venue' = [venue EXCEPT
                       ![b] = [at |-> "open", px |-> task[t].send.px, sl |-> sl, tp |-> tp]]
        BY <1>0, <3>3 DEF Opened
      <4> QED BY <1>0, <3>1, <4>1
    <3> QED BY <3>2, <3>3
  <2>2. CASE TakeModify(t)
    <3> DEFINE new == [venue[b] EXCEPT !.sl = task[t].send.sl, !.tp = task[t].send.tp]
    <3>1. task[t].call = "modify" /\ Written(t, venue[b].at \in {"fresh", "open"} /\ new # venue[b], new)
      BY <1>0, <2>2 DEF TakeModify, Pending
    <3>2. UNCHANGED venue \/ (venue[b].at = "open" /\ venue' = [venue EXCEPT ![b] = new])
      BY <1>0, <3>1 DEF Written
    <3>3. new.sl = task[t].send.sl /\ new.tp = task[t].send.tp /\ new.at = venue[b].at
      BY <1>0 DEF VenueRow
    <3> QED BY <1>0, <3>1, <3>2, <3>3
  <2>3. CASE TakeMove(t) \/ TakeCancel(t)
    BY <1>0, <2>3 DEF TakeMove, TakeCancel, Written
  <2>4. CASE ListPositions(t) \/ ListPending(t) \/ ListDeals(t)
    BY <2>4 DEF ListPositions, ListPending, ListDeals, Listing
  <2> QED BY <2>1, <2>2, <2>3, <2>4 DEF Serve
<1>4. \A c \in Brackets : venue'[c].at \in {"none", "open", "closed"}
  BY <1>0, <1>3
<1>5. \A c \in Brackets, l \in {"SL", "TP"} : LegSound(c, l)'
  BY <1>0, <1>3 DEF LegSound
<1>6. task[t].call = "modify" =>
        \/ task[t].op = "place" /\ task[t].stage = "protect"
        \/ task[t].op \in {"modify", "cancel"} /\ task[t].o[2] # "E" /\ task[t].stage \in {"sent", "cleared"}
  BY <1>0 DEF OnCourse, PlaceSteps, ModifySteps, ClearSteps, WithdrawSteps, LegRead
<1>7. task[t].op \in {"modify", "cancel"} /\ task[t].call = "modify" /\ venue[b].at = "open" =>
        task[t].send = Completed(task[t].o, NewLevel(task[t]), RowOf(b))
  BY <1>0, <1>6 DEF LegRead
<1>8. ASSUME NEW c \in Brackets, NEW l \in {"SL", "TP"} PROVE Held(c, l)' \/ InDoubt(k, c, l)
  <2>1. CASE UNCHANGED venue
    BY <1>0, <1>2, <2>1 DEF Held, InDoubt
  <2>2. CASE c # b /\ venue'[c] = venue[c]
    BY <1>0, <1>2, <2>2 DEF Held, InDoubt
  <2>3. CASE c = b /\ venue[b].at = "none"
    BY <1>0, <2>3 DEF Held, LegSound
  <2>4. CASE c = b /\ task[t].op = "place" /\ task[t].call = "modify"
    BY <1>0, <1>6, <2>4 DEF Held, LegRead
  <2>5. CASE /\ c = b /\ task[t].op # "place" /\ task[t].call = "modify" /\ venue[b].at = "open"
             /\ venue'[b].sl = task[t].send.sl /\ venue'[b].tp = task[t].send.tp
    <3>1. CASE task[t].o[2] = l
      <4>1. task[t].o = <<b, l>>
        BY <3>1, TaskFields, Domains DEF IInv, TypeOK, TasksOK
      <4> QED BY <1>2, <1>6, <2>5, <4>1 DEF InDoubt
    <3>2. CASE task[t].o[2] # l
      <4>1. task[t].send = Completed(task[t].o, NewLevel(task[t]), RowOf(b)) /\ task[t].o[2] \in {"SL", "TP"}
        <5>1. task[t].o[2] \in {"E", "SL", "TP"}
          BY TaskFields, Domains DEF IInv, TypeOK, TasksOK, Legs
        <5> QED BY <1>6, <1>7, <2>5, <5>1
      <4>2. Side(task[t].send, l) = Side(RowOf(b), l)
        BY <3>2, <4>1 DEF Completed, Side, RowOf
      <4>3. Side(venue'[b], l) = Side(venue[b], l)
        BY <2>5, <4>2 DEF Side, RowOf
      <4>4. ~InDoubt(task[t], b, l)
        BY <3>2 DEF InDoubt
      <4>5. venue'[b].at = "open" => venue[b].at = "open"
        BY <2>5
      <4> QED BY <1>0, <2>5, <4>3, <4>4, <4>5 DEF Held
    <3> QED BY <3>1, <3>2
  <2> QED BY <1>3, <2>1, <2>2, <2>3, <2>4, <2>5
<1>9. LegRead(k)'
  <2>1. CASE task[t].op = "place"
    BY <1>0, <1>2, <2>1 DEF LegRead
  <2>2. CASE task[t].op # "place"
    <3> DEFINE o == task[t].o
    <3>0. (venue'[b].at = "open" => venue[b].at = "open") /\ (task[t].call # "modify" => UNCHANGED venue)
      BY <1>3, <2>2
    <3>1. k.stage = "resting" => k.rows = {}
      BY <1>0, <1>1, <1>2 DEF LegRead, OnCourse, PlaceSteps, ModifySteps, ClearSteps, WithdrawSteps
    <3>2. k.stage = "held" => task[t].call = "positions"
      BY <1>0, <1>2 DEF OnCourse, PlaceSteps, ModifySteps, ClearSteps, WithdrawSteps
    <3>3. k.stage = "verify" => task[t].call \in {"positions", "pending"}
      BY <1>0, <1>2 DEF OnCourse, PlaceSteps, ModifySteps, ClearSteps, WithdrawSteps
    <3>4. k.stage \in {"held", "verify"} => UNCHANGED venue /\ k.rows \subseteq {RowOf(b)'}
      BY <1>1, <1>2, <3>2, <3>3 DEF RowOf
    <3>5. k.stage = "held" /\ k.answer \notin {"none", "raised"} /\ venue'[b].at = "open" => k.rows # {}
      BY <1>1, <1>2, <3>0, <3>2
    <3>6. k.answer # "none"
      BY <1>1, <1>2
    <3>7. k.stage = "cleared" /\ k.answer = "done" /\ venue'[b].at = "open" /\ o[2] # "E" =>
            Side(venue'[b], o[2]) = 0
      <4> SUFFICES ASSUME k.stage = "cleared", k.answer = "done", venue'[b].at = "open", o[2] # "E"
                   PROVE  Side(venue'[b], o[2]) = 0
        OBVIOUS
      <4>1. task[t].call = "modify" /\ task[t].op = "cancel"
        BY <1>0, <1>2, <2>2 DEF OnCourse, ModifySteps, ClearSteps, WithdrawSteps
      <4>2. venue'[b] = [venue[b] EXCEPT !.sl = task[t].send.sl, !.tp = task[t].send.tp]
        BY <1>1, <1>2, <4>1
      <4>3. venue'[b].sl = task[t].send.sl /\ venue'[b].tp = task[t].send.tp
        BY <1>0, <4>2 DEF VenueRow
      <4>4. task[t].send = Completed(o, 0, RowOf(b))
        BY <1>7, <3>0, <4>1 DEF NewLevel
      <4>5. Side(task[t].send, o[2]) = 0
        BY <4>4 DEF Completed, Side, RowOf
      <4> QED BY <4>3, <4>5 DEF Side
    <3>8. k.op = "modify" => k.o[2] # "E"
      BY <1>0, <1>2 DEF LegRead
    <3>9. k.op \in {"modify", "cancel"} /\ k.o[2] # "E" /\ k.stage # "unplaced" =>
            /\ status'[k.o] = "ACCEPTED" /\ k.seen = {}
            /\ k.stage \in {"sent", "verify"} => k.arg = Side(k.send, k.o[2])
      BY <1>0, <1>2 DEF LegRead
    <3>10. k.op # "place" /\ k.o = o /\ k.o[1] = b
      BY <1>2, <2>2
    <3> HIDE DEF o
    <3> QED BY <3>1, <3>4, <3>5, <3>6, <3>7, <3>8, <3>9, <3>10 DEF LegRead
  <2> QED BY <2>1, <2>2
<1> QED BY <1>0, <1>2, <1>4, <1>5, <1>8, <1>9, AloneLegs

(* By itself the broker only closes a position.                              *)
LEMMA BrokerLegs ==
    ASSUME Sequential, IInv, LInv, NEW b \in Brackets, BrokerMoves(b)
    PROVE  LInv'
<1>1. /\ UNCHANGED <<status, shown, unsure, task>> /\ venue \in [Brackets -> VenueRow]
      /\ venue[b].at = "open" /\ venue' = [venue EXCEPT ![b].at = "closed"]
  BY DEF LInv, BrokerMoves, IInv, TypeOK
<1>2. \A c \in Brackets : venue'[c] = venue[c] \/ (venue[c].at = "open" /\ venue'[c].at = "closed")
  BY <1>1 DEF VenueRow
<1>3. \A c \in Brackets, l \in {"SL", "TP"} : LegSound(c, l)' /\ (Held(c, l) => Held(c, l)')
  BY <1>1, <1>2 DEF LInv, LegSound, Held
<1>4. ASSUME NEW u \in Tasks PROVE LegRead(task[u])'
  <2>1. PICK c \in Brackets : c = task[u].o[1]
    BY TaskFields DEF IInv, TypeOK, TasksOK
  <2>2. LegRead(task[u])
    BY DEF LInv
  <2> QED BY <1>1, <1>2, <2>1, <2>2 DEF LegRead, RowOf, NewLevel, Side
<1>5. \A c \in Brackets : venue'[c].at \in {"none", "open", "closed"}
  BY <1>2 DEF LInv
<1> QED BY <1>1, <1>3, <1>4, <1>5 DEF LInv, InDoubt

(* A bracket refused unsent has no leg to announce.                          *)
LEMMA RefusedLegs ==
    ASSUME Sequential, IInv, LInv, NEW b \in Brackets, RefuseBracket(b)
    PROVE  LInv'
<1>1. UNCHANGED <<venue, shown, unsure, task>> /\ status' = Move(LegsOf(b), "REJECTED")
  BY DEF RefuseBracket
<1>2. \A o \in Orders : status'[o] = status[o] \/ status'[o] = "REJECTED"
  BY <1>1 DEF Move
<1>3. ASSUME NEW u \in Tasks PROVE LegRead(task[u])'
  <2>1. LegRead(task[u]) /\ task[u].o \in Orders /\ task[u].o[1] \in Brackets
    BY TaskFields DEF LInv, IInv, TypeOK, TasksOK
  <2>2. \A l \in {"SL", "TP"} : <<task[u].o[1], l>> \in Orders
    BY <2>1, Domains DEF Legs
  <2>3. task[u].op \in {"modify", "cancel"} /\ task[u].o[2] # "E" /\ task[u].stage # "unplaced"
          => status'[task[u].o] = "ACCEPTED"
    <3> SUFFICES ASSUME task[u].op \in {"modify", "cancel"}, task[u].o[2] # "E", task[u].stage # "unplaced"
                 PROVE  status'[task[u].o] = "ACCEPTED"
      OBVIOUS
    <3> DEFINE c == task[u].o[1]
    <3>1. status[task[u].o] = "ACCEPTED" /\ task[u].o = <<c, task[u].o[2]>> /\ task[u].o[2] \in {"SL", "TP"}
      BY <2>1, Domains DEF LegRead, Legs
    <3>2. LegSound(c, task[u].o[2])
      BY <2>1, <3>1 DEF LInv
    <3>3. venue[c].at # "none"
      BY <3>1, <3>2 DEF LegSound
    <3>4. c # b
      BY <3>3 DEF RefuseBracket, IInv, PlacedOnce
    <3> QED BY <1>1, <2>1, <3>1, <3>4 DEF Move, LegsOf
  <2>4. task[u].op = "place" /\ task[u].stage # "price" =>
          \A l \in {"SL", "TP"} : status'[<<task[u].o[1], l>>] \notin {"INITIALIZED", "ACCEPTED", "CANCELED"}
    BY <1>2, <2>1, <2>2 DEF LegRead
  <2> QED BY <1>1, <2>1, <2>3, <2>4 DEF LegRead, RowOf, NewLevel
<1>4. ASSUME NEW c \in Brackets, NEW l \in {"SL", "TP"}
      PROVE  LegSound(c, l)' /\ (Held(c, l) => Held(c, l)')
  <2>1. <<c, l>> \in Orders
    BY Domains DEF Legs
  <2> QED BY <1>1, <1>2, <2>1 DEF LInv, LegSound, Held
<1> QED BY <1>1, <1>3, <1>4 DEF LInv, InDoubt

(* A command starts.                                                         *)
LEMMA CommandLegs ==
    ASSUME Sequential, IInv, LInv, NEW t \in Tasks, Command(t)
    PROVE  LInv'
<1>0. /\ task[t].op = "idle" /\ UNCHANGED <<venue, shown, unsure>> /\ OneAtATime /\ Limits = {}
      /\ \A c \in Brackets : venue'[c].at \in {"none", "open", "closed"}
      /\ \A c \in Brackets, l \in {"SL", "TP"} : LegSound(c, l) /\ Held(c, l)
  <2>1. task[t].op = "idle" /\ UNCHANGED <<venue, shown, unsure>>
    BY DEF Command, SubmitBracket, ModifyOrder, CancelOrder, CommandUnplaced, CancelAll, Start
  <2>2. OneAtATime /\ Limits = {}
    BY DEF Sequential
  <2> QED BY <2>1, <2>2, LegFacts DEF InDoubt
<1>1. CASE \E b \in Brackets : SubmitBracket(t, b)
  <2>1. PICK b \in Brackets : SubmitBracket(t, b)
    BY <1>1
  <2>2. PICK k : /\ task' = [task EXCEPT ![t] = k] /\ k.op = "place" /\ k.o = <<b, "E">>
                 /\ k.stage = "answer"
    BY <2>1, Started DEF SubmitBracket
  <2>3. venue[b].at = "none" /\ status' = Move(LegsOf(b), "SUBMITTED")
    BY <2>1 DEF SubmitBracket, IInv, PlacedOnce
  <2>4. ASSUME NEW c \in Brackets, NEW l \in {"SL", "TP"}
        PROVE  /\ status'[<<c, l>>] = status[<<c, l>>] \/ (c = b /\ status'[<<c, l>>] = "SUBMITTED")
               /\ c = b => status'[<<c, l>>] \notin {"INITIALIZED", "ACCEPTED", "CANCELED"}
               /\ status'[<<c, l>>] = "SUBMITTED" /\ c = b /\ status[<<c, l>>] # "SUBMITTED" =>
                    status[<<c, l>>] = "INITIALIZED"
    <3>1. <<c, l>> \in Orders /\ status[<<c, l>>] \in Status
      BY Domains DEF Legs, IInv, TypeOK
    <3>2. c = b => status[<<c, l>>] \notin {"ACCEPTED", "CANCELED"}
      BY <1>0, <2>3 DEF LegSound
    <3> QED BY <2>3, <3>1, <3>2 DEF Move, LegsOf, Legs, Closed, Status
  <2>5. ASSUME NEW c \in Brackets, NEW l \in {"SL", "TP"} PROVE LegSound(c, l)' /\ Held(c, l)'
    <3>1. LegSound(c, l) /\ Held(c, l)
      BY <1>0
    <3>2. CASE status'[<<c, l>>] = status[<<c, l>>]
      BY <1>0, <3>1, <3>2 DEF LegSound, Held
    <3>3. CASE status[<<c, l>>] = "INITIALIZED" /\ status'[<<c, l>>] = "SUBMITTED"
      BY <1>0, <3>1, <3>3 DEF LegSound, Held
    <3> QED BY <2>4, <3>2, <3>3
  <2>6. LegRead(k)'
    BY <2>2, <2>4 DEF LegRead
  <2> QED BY <1>0, <2>2, <2>5, <2>6, AloneLegs
<1>2. CASE (\E o \in Orders, p \in Prices : ModifyOrder(t, o, p)) \/ (\E o \in Orders : CancelOrder(t, o))
  <2>1. PICK o \in Orders : (\E p \in Prices : ModifyOrder(t, o, p)) \/ CancelOrder(t, o)
    BY <1>2
  <2>2. UNCHANGED status /\ status[o] = "ACCEPTED"
    BY <2>1 DEF ModifyOrder, CancelOrder
  <2>3. PICK k : /\ task' = [task EXCEPT ![t] = k] /\ k.o = o
                 /\ k.op = "modify" \/ k.op = "cancel"
                 /\ k.op = "modify" => o[2] # "E"
                 /\ k.stage \in {"resting", "withdraw"} /\ k.rows = {} /\ k.seen = {}
    <3>1. CASE \E p \in Prices : ModifyOrder(t, o, p)
      <4>1. PICK p \in Prices : ModifyOrder(t, o, p)
        BY <3>1
      <4>2. o[2] # "E"
        BY <1>0, <4>1, Domains DEF ModifyOrder, Brackets
      <4> QED BY <4>1, <4>2, Started DEF ModifyOrder
    <3>2. CASE CancelOrder(t, o)
      <4>1. \/ Start(t, "cancel", o, 0, "withdraw", "cancel", NoRow)
            \/ Start(t, "cancel", o, 0, "resting", "pending", NoRow)
        BY <3>2 DEF CancelOrder
      <4>2. CASE Start(t, "cancel", o, 0, "withdraw", "cancel", NoRow)
        <5>1. PICK k : /\ task' = [task EXCEPT ![t] = k] /\ k.o = o /\ k.op = "cancel"
                       /\ k.stage = "withdraw" /\ k.rows = {} /\ k.seen = {}
          BY <4>2, Started
        <5> QED BY <5>1
      <4>3. CASE Start(t, "cancel", o, 0, "resting", "pending", NoRow)
        <5>1. PICK k : /\ task' = [task EXCEPT ![t] = k] /\ k.o = o /\ k.op = "cancel"
                       /\ k.stage = "resting" /\ k.rows = {} /\ k.seen = {}
          BY <4>3, Started
        <5> QED BY <5>1
      <4> QED BY <4>1, <4>2, <4>3
    <3> QED BY <2>1, <3>1, <3>2
  <2>4. LegRead(k)'
    BY <2>2, <2>3 DEF LegRead
  <2>5. \A c \in Brackets, l \in {"SL", "TP"} : LegSound(c, l)' /\ Held(c, l)'
    BY <1>0, <2>2 DEF LegSound, Held
  <2> QED BY <1>0, <2>3, <2>4, <2>5, AloneLegs
<1>3. CASE \E b \in Brackets : CancelAll(t, b)
  <2>1. PICK b \in Brackets : CancelAll(t, b)
    BY <1>3
  <2>2. PICK k : task' = [task EXCEPT ![t] = k] /\ k.op = "cancel" /\ k.o = <<b, "E">>
    BY <2>1, Started DEF CancelAll
  <2>3. LegRead(k)'
    BY <2>2 DEF LegRead
  <2>4. \A c \in Brackets, l \in {"SL", "TP"} : LegSound(c, l)' /\ Held(c, l)'
    BY <1>0, <2>1 DEF LegSound, Held, CancelAll
  <2> QED BY <1>0, <2>2, <2>3, <2>4, AloneLegs
<1>4. CASE \E o \in Orders, j \in {"modify", "cancel"} : CommandUnplaced(t, o, j)
  <2>1. PICK o \in Orders, j \in {"modify", "cancel"} : CommandUnplaced(t, o, j)
    BY <1>4
  <2>2. PICK k : /\ task' = [task EXCEPT ![t] = k] /\ k.op = j /\ k.o = o /\ k.stage = "unplaced"
    BY <2>1, Started DEF CommandUnplaced
  <2>3. o[2] # "E"
    BY <1>0, <2>1, Domains DEF CommandUnplaced, Brackets
  <2>4. LegRead(k)'
    BY <2>2, <2>3 DEF LegRead
  <2>5. \A c \in Brackets, l \in {"SL", "TP"} : LegSound(c, l)' /\ Held(c, l)'
    BY <1>0, <2>1 DEF LegSound, Held, CommandUnplaced
  <2> QED BY <1>0, <2>2, <2>4, <2>5, AloneLegs
<1> QED BY <1>1, <1>2, <1>3, <1>4 DEF Command

(* The verdict on a bracket: a leg reported live is where it was asked.      *)
LEMMA ReportLegs ==
    ASSUME Sequential, IInv, NInv, LInv, Next, NEW t \in Tasks, NEW naked, NEW a, Report(t, naked, a),
           task[t].op = "place", task[t].stage \in {"before", "after"}
    PROVE  LInv'
<1> DEFINE b == task[t].o[1]
<1>0. /\ UNCHANGED <<venue, shown, unsure>> /\ OneAtATime /\ Honest
      /\ venue[b].at # "none" /\ b \in Brackets /\ LegRead(task[t])
      /\ \A c \in Brackets : venue'[c].at \in {"none", "open", "closed"}
      /\ \A c \in Brackets, l \in {"SL", "TP"} : LegSound(c, l) /\ Held(c, l)
  <2>1. UNCHANGED <<venue, shown, unsure>> /\ OneAtATime /\ Honest /\ b \in Brackets
    BY TaskFields DEF Report, Sequential, Honest, IInv, TypeOK, TasksOK
  <2> QED BY <2>1, LegFacts DEF InDoubt, Evidence, Traded
<1>1. ASSUME NEW c \in Brackets, NEW l \in {"SL", "TP"} PROVE LegSound(c, l)' /\ Held(c, l)'
  <2>0. <<c, l>> \in Orders /\ status[<<c, l>>] \in Status
    BY Domains DEF Legs, IInv, TypeOK
  <2>1. status'[<<c, l>>] = Judged(b, naked)[<<c, l>>]
    <3>1. CASE status' = Judged(b, naked)
      BY <3>1
    <3>2. CASE status' = [Judged(b, naked) EXCEPT ![<<b, "E">>] = IF @ \in Closed THEN @ ELSE "FILLED"]
      <4>1. <<c, l>> # <<b, "E">>
        OBVIOUS
      <4> QED BY <2>0, <3>2, <4>1 DEF Judged
    <3> QED BY <3>1, <3>2 DEF Report
  <2>2. CASE status'[<<c, l>>] = status[<<c, l>>]
    BY <1>0, <2>2 DEF LegSound, Held
  <2>3. CASE status'[<<c, l>>] # status[<<c, l>>]
    <3>1. c = b /\ status[<<c, l>>] \notin Closed /\ status'[<<c, l>>] \in {"ACCEPTED", "REJECTED"}
      BY <2>0, <2>1, <2>3 DEF Judged
    <3>2. status[<<c, l>>] = "SUBMITTED"
      BY <1>0, <2>0, <3>1 DEF LegRead, Status, Closed
    <3>3. shown[<<c, l>>] = First
      BY <1>0, <3>2 DEF LegSound
    <3>4. venue[c].at = "open" /\ status'[<<c, l>>] = "ACCEPTED" => First = Side(venue[c], l)
      BY <1>0, <3>2, ClaimIsRight DEF Standing, Side
    <3> QED BY <1>0, <3>1, <3>3, <3>4 DEF LegSound, Held
  <2> QED BY <2>2, <2>3
<1>2. CASE Finish(t)
  BY <1>0, <1>1, <1>2, EndsLegs
<1>3. CASE Await(t, "price", "deals", NoRow)
  <2>1. PICK k : task' = [task EXCEPT ![t] = k] /\ k.op = "place" /\ k.stage = "price"
    BY <1>3, Awaiting
  <2>2. LegRead(k)'
    BY <2>1 DEF LegRead
  <2> QED BY <1>0, <1>1, <2>1, <2>2, AloneLegs
<1> QED BY <1>2, <1>3 DEF Report

(* Events that change no leg but to one that is not announced.               *)
LEMMA EventLegs ==
    ASSUME OneAtATime, IInv, LInv, NEW t \in Tasks, UNCHANGED <<venue, shown, unsure>>, Finish(t),
           \A b \in Brackets, l \in {"SL", "TP"} :
                /\ ~InDoubt(task[t], b, l)
                /\ status'[<<b, l>>] = status[<<b, l>>] \/ status'[<<b, l>>] \in {"REJECTED", "FILLED"}
    PROVE  LInv'
<1>1. ASSUME NEW b \in Brackets, NEW l \in {"SL", "TP"} PROVE LegSound(b, l)' /\ Held(b, l)'
  <2>1. LegSound(b, l) /\ Held(b, l)
    BY LegFacts
  <2>2. status'[<<b, l>>] = status[<<b, l>>] \/ status'[<<b, l>>] \in {"REJECTED", "FILLED"}
    OBVIOUS
  <2> QED BY <2>1, <2>2 DEF LegSound, Held
<1> QED BY <1>1, EndsLegs

(* Every step of a submit.                                                   *)
LEMMA PlaceLegs ==
    ASSUME Sequential, IInv, NInv, LInv, Next, NEW t \in Tasks,
           \/ PlaceAnswered(t) \/ ProtectBefore(t) \/ ProtectSent(t) \/ ProtectAfter(t)
           \/ PlacePriced(t)
    PROVE  LInv'
<1>0. /\ task[t].op = "place" /\ task[t] \in Task /\ OneAtATime /\ LegRead(task[t]) /\ Verdict(task[t])
      /\ task[t].o[1] \in Brackets /\ task[t].o \in Orders /\ task[t].o[2] = "E"
      /\ \A b \in Brackets, l \in {"SL", "TP"} : ~InDoubt(task[t], b, l) /\ <<b, l>> \in Orders
  <2>1. task[t].op = "place" /\ task[t].o[2] = "E" /\ OneAtATime
    BY DEF PlaceAnswered, ProtectBefore, ProtectSent, ProtectAfter, PlacePriced, Answered,
       OnCourse, ModifySteps, ClearSteps, WithdrawSteps, IInv, TasksSound, Sequential
  <2> QED BY <2>1, LegFacts, TaskFields, Domains DEF InDoubt, NInv, TaskVerdicts, IInv, TypeOK, TasksOK, Legs
<1>1. CASE PlaceAnswered(t)
  <2>0. UNCHANGED <<venue, shown, unsure>> /\ task[t].stage = "answer"
    BY <1>1 DEF PlaceAnswered, Answered
  <2>1. CASE Finish(t)
    <3>1. status' = Move(LegsOf(task[t].o[1]), "REJECTED") \/ UNCHANGED status
      <4>1. task[t].answer # "placed" /\ task[t].o[1] \notin Limits
        BY <1>0 DEF Verdict, Sequential
      <4> QED BY <1>1, <2>1, <4>1 DEF PlaceAnswered
    <3>2. \A b \in Brackets, l \in {"SL", "TP"} :
            status'[<<b, l>>] = status[<<b, l>>] \/ status'[<<b, l>>] = "REJECTED"
      BY <1>0, <3>1 DEF Move
    <3> QED BY <1>0, <2>0, <2>1, <3>2, EventLegs
  <2>2. CASE AwaitNoting(t, "before", "positions", NoRow, task[t].answer) /\ UNCHANGED status
    <3>1. PICK k : task' = [task EXCEPT ![t] = k] /\ k.op = task[t].op /\ k.o = task[t].o /\ k.stage = "before"
      BY <2>2, AwaitingNoting
    <3>2. LegRead(k)'
      BY <1>0, <2>0, <2>2, <3>1 DEF LegRead
    <3> QED BY <1>0, <2>0, <2>2, <3>1, <3>2, GoesOnLegs
  <2> QED BY <1>1, <2>1, <2>2 DEF PlaceAnswered
<1>2. CASE ProtectBefore(t) \/ ProtectAfter(t)
  <2>0. task[t].stage \in {"before", "after"}
    BY <1>2 DEF ProtectBefore, ProtectAfter, Answered
  <2>1. CASE \E naked, a : Report(t, naked, a)
    BY <1>0, <2>0, <2>1, ReportLegs
  <2>2. CASE Await(t, "protect", "modify", Asked) /\ UNCHANGED <<venue, status, shown, unsure>>
    <3>1. PICK k : task' = [task EXCEPT ![t] = k] /\ k.op = task[t].op /\ k.o = task[t].o /\ k.stage = "protect"
      BY <2>2, Awaiting
    <3>2. LegRead(k)'
      BY <1>0, <2>0, <2>2, <3>1 DEF LegRead
    <3> QED BY <1>0, <2>0, <2>2, <3>1, <3>2, GoesOnLegs
  <2> QED BY <1>2, <2>1, <2>2 DEF ProtectBefore, ProtectAfter
<1>3. CASE ProtectSent(t)
  <2>1. PICK k : k = [task[t] EXCEPT !.stage = "after", !.call = "positions", !.answer = "none",
                       !.seen = IF task[t].answer = "done" THEN {} ELSE {NoRow}]
    OBVIOUS
  <2>2. k.op = task[t].op /\ k.o = task[t].o /\ k.stage = "after"
    BY <1>0, <2>1 DEF Task
  <2>3. /\ task' = [task EXCEPT ![t] = k] /\ UNCHANGED <<venue, status, shown, unsure>>
        /\ task[t].stage = "protect"
    BY <1>3, <2>1 DEF ProtectSent, Answered
  <2>4. LegRead(k)'
    BY <1>0, <2>2, <2>3 DEF LegRead
  <2> QED BY <1>0, <2>2, <2>3, <2>4, GoesOnLegs
<1>4. CASE PlacePriced(t)
  <2>1. UNCHANGED status \/ status' = Move({task[t].o}, "FILLED")
    BY <1>4 DEF PlacePriced, Filled
  <2>2. \A b \in Brackets, l \in {"SL", "TP"} :
            status'[<<b, l>>] = status[<<b, l>>] \/ status'[<<b, l>>] = "FILLED"
    BY <1>0, <2>1 DEF Move
  <2>3. Finish(t) /\ UNCHANGED <<venue, shown, unsure>>
    BY <1>4 DEF PlacePriced
  <2> QED BY <1>0, <2>2, <2>3, EventLegs
<1> QED BY <1>1, <1>2, <1>3, <1>4

(* A command that is refused: its legs are as they were, or in doubt.        *)
LEMMA RefuseLegs ==
    ASSUME OneAtATime, IInv, LInv, NEW t \in Tasks,
           \/ RefuseSent(t)
           \/ RefuseUnsent(t) /\ task[t].stage \in {"unplaced", "resting", "held"}
    PROVE  LInv'
<1>1. Finish(t) /\ UNCHANGED <<venue, status, shown>>
  BY DEF RefuseSent, RefuseUnsent, Refuse
<1>2. ASSUME NEW b \in Brackets, NEW l \in {"SL", "TP"} PROVE LegSound(b, l)' /\ Held(b, l)'
  <2>1. LegSound(b, l) /\ (Held(b, l) \/ InDoubt(task[t], b, l))
    BY LegFacts
  <2>2. LegSound(b, l)'
    BY <1>1, <2>1 DEF LegSound
  <2>3. CASE Held(b, l)
    BY <1>1, <2>2, <2>3 DEF Held, RefuseSent, RefuseUnsent
  <2>4. CASE InDoubt(task[t], b, l)
    <3>1. RefuseSent(t) /\ task[t].o[1] = b
      BY <2>4 DEF InDoubt
    <3> QED BY <2>2, <3>1 DEF RefuseSent, Held
  <2> QED BY <2>1, <2>2, <2>3, <2>4
<1> QED BY <1>1, <1>2, EndsLegs

(* A leg announced cancelled is at zero, or the position is gone.            *)
LEMMA CancelledLegs ==
    ASSUME OneAtATime, IInv, LInv, NEW t \in Tasks, Cancelled(t), task[t].op = "cancel",
           task[t].stage # "unplaced",
           task[t].o[2] # "E" /\ venue[task[t].o[1]].at = "open" =>
                Side(venue[task[t].o[1]], task[t].o[2]) = 0
    PROVE  LInv'
<1>0. /\ Finish(t) /\ UNCHANGED <<venue, shown, unsure>> /\ status' = Move({task[t].o}, "CANCELED")
      /\ LegRead(task[t])
  BY LegFacts DEF Cancelled
<1>1. ASSUME NEW b \in Brackets, NEW l \in {"SL", "TP"} PROVE LegSound(b, l)' /\ Held(b, l)'
  <2>1. LegSound(b, l) /\ (Held(b, l) \/ InDoubt(task[t], b, l)) /\ <<b, l>> \in Orders
    BY LegFacts, Domains DEF Legs
  <2>2. CASE task[t].o # <<b, l>>
    <3>1. status'[<<b, l>>] = status[<<b, l>>]
      BY <1>0, <2>1, <2>2 DEF Move
    <3> QED BY <1>0, <2>1, <2>2, <3>1 DEF LegSound, Held, InDoubt
  <2>3. CASE task[t].o = <<b, l>>
    <3>1. status'[<<b, l>>] = "CANCELED" /\ status[<<b, l>>] = "ACCEPTED"
      BY <1>0, <2>1, <2>3 DEF Move, LegRead, Closed
    <3> QED BY <1>0, <2>1, <2>3, <3>1 DEF LegSound, Held
  <2> QED BY <2>2, <2>3
<1> QED BY <1>0, <1>1, EndsLegs

(* Every step of a modify or a clear of a leg.                               *)
LEMMA LegSteps ==
    ASSUME Sequential, IInv, LInv, NEW t \in Tasks,
           \/ Located(t) \/ ModifySends(t) \/ ModifySent(t) \/ ModifyVerified(t)
           \/ ClearSends(t) \/ ClearSent(t)
    PROVE  LInv'
<1> PICK b \in Brackets : b = task[t].o[1]
  BY TaskFields DEF IInv, TypeOK, TasksOK
<1>0. /\ task[t].op \in {"modify", "cancel"} /\ task[t].o[2] # "E" /\ task[t] \in Task /\ OneAtATime
      /\ LegRead(task[t]) /\ OnCourse(task[t]) /\ task[t].answer # "none" /\ task[t].stage # "unplaced"
      /\ task[t].o = <<b, task[t].o[2]>> /\ task[t].o[2] \in {"SL", "TP"}
      /\ \A c \in Brackets, l \in {"SL", "TP"} :
           LegSound(c, l) /\ (Held(c, l) \/ InDoubt(task[t], c, l))
  <2>1. OneAtATime /\ task[t].op # "idle" /\ task[t].answer # "none"
        /\ task[t].stage \in {"resting", "held", "sent", "verify", "cleared"}
    BY DEF Sequential, Located, ModifySends, ModifySent, ModifyVerified, ClearSends, ClearSent, Answered
  <2>2. LegRead(task[t]) /\ task[t] \in Task /\ OnCourse(task[t])
        /\ \A c \in Brackets, l \in {"SL", "TP"} :
           LegSound(c, l) /\ (Held(c, l) \/ InDoubt(task[t], c, l))
    BY <2>1, LegFacts
  <2>3. task[t].op \in {"modify", "cancel"} /\ task[t].o[2] # "E"
    BY <2>1, <2>2 DEF OnCourse, PlaceSteps, WithdrawSteps, LegRead
  <2>4. task[t].o = <<b, task[t].o[2]>> /\ task[t].o[2] \in {"SL", "TP"}
    BY <2>3, TaskFields, Domains DEF IInv, TypeOK, TasksOK, Legs
  <2> QED BY <2>1, <2>2, <2>3, <2>4
<1>1. CASE RefuseSent(t)
  BY <1>0, <1>1, RefuseLegs
<1>2. CASE Located(t) /\ ~RefuseSent(t)
  <2>0. task[t].stage = "resting" /\ task[t].rows = {}
    BY <1>0, <1>2 DEF Located, Answered, LegRead
  <2>1. CASE RefuseUnsent(t)
    BY <1>0, <2>0, <2>1, RefuseLegs
  <2>2. CASE ~RefuseUnsent(t)
    <3>1. PICK k : k = [task[t] EXCEPT !.stage = "held", !.call = "positions",
                       !.answer = "none", !.rows = {}, !.seen = task[t].rows]
      OBVIOUS
    <3>2. /\ k.op = task[t].op /\ k.o = task[t].o /\ k.stage = "held" /\ k.answer = "none"
          /\ k.rows = {} /\ k.seen = {}
      BY <1>0, <2>0, <3>1 DEF Task
    <3>3. task' = [task EXCEPT ![t] = k] /\ UNCHANGED <<venue, status, shown, unsure>>
      BY <1>2, <2>2, <3>1 DEF Located
    <3>4. LegRead(k)'
      BY <1>0, <3>2, <3>3 DEF LegRead
    <3> QED BY <1>0, <2>0, <3>2, <3>3, <3>4, GoesOnLegs
  <2> QED BY <2>1, <2>2
<1>3. CASE ModifySends(t) /\ ~RefuseSent(t)
  <2>0. task[t].stage = "held" /\ task[t].op = "modify" /\ task[t].seen = {}
    BY <1>0, <1>3 DEF ModifySends, Answered, LegRead
  <2>1. CASE RefuseUnsent(t)
    BY <1>0, <2>0, <2>1, RefuseLegs
  <2>2. CASE ~RefuseUnsent(t)
    <3>1. PICK row \in task[t].rows : Await(t, "sent", "modify", Completed(task[t].o, task[t].arg, row))
      BY <1>3, <2>0, <2>2 DEF ModifySends
    <3>2. UNCHANGED <<venue, status, shown, unsure>>
      BY <1>3, <2>2 DEF ModifySends
    <3>3. PICK k : /\ task' = [task EXCEPT ![t] = k] /\ k.op = "modify" /\ k.o = task[t].o
                   /\ k.arg = task[t].arg /\ k.stage = "sent" /\ k.answer = "none" /\ k.seen = {}
                   /\ k.send = Completed(task[t].o, task[t].arg, row)
      BY <2>0, <3>1, Awaiting
    <3>4. row \in Row /\ (venue[b].at = "open" => row = RowOf(b))
      BY <1>0, <2>0, TaskFields DEF LegRead, IInv, TypeOK, TasksOK
    <3>5. k.arg = Side(k.send, k.o[2])
      BY <1>0, <3>3, <3>4 DEF Side, Completed, Row
    <3>6. venue'[b].at = "open" => k.send = Completed(k.o, NewLevel(k), RowOf(b)')
      BY <3>2, <3>3, <3>4 DEF NewLevel, RowOf
    <3>7. LegRead(k)'
      BY <1>0, <3>2, <3>3, <3>5, <3>6 DEF LegRead
    <3> QED BY <1>0, <2>0, <3>2, <3>3, <3>7, GoesOnLegs
  <2> QED BY <2>1, <2>2
<1>4. CASE ModifySent(t) /\ ~RefuseSent(t)
  <2>0. /\ task[t].stage = "sent" /\ UNCHANGED <<venue, status, shown, unsure>>
        /\ Await(t, "verify", "positions", task[t].send)
    BY <1>0, <1>4 DEF ModifySent, Answered, LegRead
  <2>1. PICK k : /\ task' = [task EXCEPT ![t] = k] /\ k.op = task[t].op /\ k.o = task[t].o
                 /\ k.arg = task[t].arg /\ k.stage = "verify" /\ k.rows = {} /\ k.seen = task[t].seen
                 /\ k.send = task[t].send
    BY <2>0, Awaiting
  <2>2. LegRead(k)'
    BY <1>0, <2>0, <2>1 DEF LegRead
  <2> QED BY <1>0, <2>0, <2>1, <2>2, GoesOnLegs
<1>5. CASE ModifyVerified(t) /\ ~RefuseSent(t)
  <2>1. /\ shown' = [shown EXCEPT ![task[t].o] = task[t].arg] /\ UNCHANGED <<venue, status, unsure>>
        /\ Finish(t) /\ task[t].stage = "verify"
    BY <1>5 DEF ModifyVerified, Answered
  <2>2. PICK row \in task[t].rows : Shows(t, row)
    BY <1>5 DEF ModifyVerified
  <2>3. task[t].arg = Side(task[t].send, task[t].o[2]) /\ (venue[b].at = "open" => row = RowOf(b))
    BY <1>0, <2>1, <2>2 DEF LegRead
  <2>4. Side(task[t].send, task[t].o[2]) = Side(row, task[t].o[2])
    BY <1>0, <2>2 DEF Shows, Side, LegRead
  <2>5. venue[b].at = "open" => task[t].arg = Side(venue[b], task[t].o[2])
    BY <2>3, <2>4 DEF Side, RowOf
  <2>6. ASSUME NEW c \in Brackets, NEW l \in {"SL", "TP"} PROVE LegSound(c, l)' /\ Held(c, l)'
    <3>0. <<c, l>> \in Orders /\ shown \in [Orders -> Levels]
      BY Domains DEF Legs, IInv, TypeOK
    <3>1. CASE task[t].o # <<c, l>>
      <4>1. shown'[<<c, l>>] = shown[<<c, l>>]
        BY <2>1, <3>0, <3>1
      <4> QED BY <1>0, <2>1, <3>1, <4>1 DEF LegSound, Held, InDoubt
    <3>2. CASE task[t].o = <<c, l>>
      <4>1. shown'[<<c, l>>] = task[t].arg /\ status'[<<c, l>>] = "ACCEPTED" /\ c = b
        BY <1>0, <2>1, <3>0, <3>2 DEF LegRead
      <4>2. venue[b].at = "open" => task[t].arg = Side(venue[b], l)
        BY <2>5, <3>2
      <4>3. status[<<c, l>>] = "ACCEPTED" /\ LegSound(c, l)
        BY <1>0, <2>1, <4>1
      <4>4. LegSound(c, l)'
        BY <2>1, <4>1, <4>3 DEF LegSound
      <4>5. Held(c, l)'
        BY <2>1, <4>1, <4>2 DEF Held
      <4> QED BY <4>4, <4>5
    <3> QED BY <3>1, <3>2
  <2> QED BY <1>0, <2>1, <2>6, EndsLegs
<1>6. CASE ClearSends(t) /\ ~RefuseSent(t)
  <2>0. task[t].stage = "held" /\ task[t].op = "cancel"
    BY <1>6 DEF ClearSends, Answered
  <2>1. CASE RefuseUnsent(t)
    BY <1>0, <2>0, <2>1, RefuseLegs
  <2>2. CASE task[t].answer # "raised" /\ task[t].rows = {} /\ Cancelled(t)
    <3>1. venue[b].at # "open"
      BY <1>0, <2>0, <2>2 DEF LegRead
    <3> QED BY <1>0, <2>0, <2>2, <3>1, CancelledLegs
  <2>3. CASE /\ \E row \in task[t].rows : Await(t, "cleared", "modify", Completed(task[t].o, 0, row))
             /\ UNCHANGED <<venue, status, shown, fills, owed, unsure>>
    <3>1. PICK row \in task[t].rows : Await(t, "cleared", "modify", Completed(task[t].o, 0, row))
      BY <2>3
    <3>2. UNCHANGED <<venue, status, shown, unsure>>
      BY <2>3
    <3>3. PICK k : /\ task' = [task EXCEPT ![t] = k] /\ k.op = "cancel" /\ k.o = task[t].o
                   /\ k.stage = "cleared" /\ k.answer = "none" /\ k.seen = task[t].seen
                   /\ k.send = Completed(task[t].o, 0, row)
      BY <2>0, <3>1, Awaiting
    <3>4. venue[b].at = "open" => row = RowOf(b)
      BY <1>0, <2>0 DEF LegRead
    <3>5. venue'[b].at = "open" => k.send = Completed(k.o, NewLevel(k), RowOf(b)')
      BY <3>2, <3>3, <3>4 DEF NewLevel, RowOf
    <3>6. LegRead(k)'
      BY <1>0, <3>2, <3>3, <3>5 DEF LegRead
    <3> QED BY <1>0, <2>0, <3>2, <3>3, <3>6, GoesOnLegs
  <2> QED BY <1>6, <2>1, <2>2, <2>3 DEF ClearSends
<1>7. CASE ClearSent(t) /\ ~RefuseSent(t)
  <2>1. task[t].stage = "cleared" /\ task[t].answer = "done" /\ Cancelled(t)
    BY <1>7 DEF ClearSent, Answered
  <2>2. task[t].op = "cancel"
    BY <1>0, <2>1 DEF OnCourse, ModifySteps
  <2>3. venue[b].at = "open" => Side(venue[b], task[t].o[2]) = 0
    BY <1>0, <2>1 DEF LegRead
  <2> QED BY <1>0, <2>1, <2>2, <2>3, CancelledLegs
<1> QED BY <1>1, <1>2, <1>3, <1>4, <1>5, <1>6, <1>7

(* Every step of a withdraw or a sweep: no leg is touched.                   *)
LEMMA WithdrawLegs ==
    ASSUME Sequential, IInv, LInv, NEW t \in Tasks,
           \/ WithdrawSent(t) \/ WithdrawListed(t) \/ WithdrawSettled(t)
           \/ Swept(t) \/ StrayCancelled(t)
    PROVE  LInv'
<1>0. /\ task[t].op = "cancel" /\ task[t].o[2] = "E" /\ task[t].o \in Orders /\ task[t] \in Task /\ OneAtATime
      /\ task[t].stage \notin {"unplaced", "sent", "verify", "cleared"}
      /\ \A c \in Brackets, l \in {"SL", "TP"} : ~InDoubt(task[t], c, l) /\ <<c, l>> \in Orders
  <2>1. OneAtATime /\ task[t].op # "idle"
        /\ task[t].stage \in {"withdraw", "listing", "history", "sweep", "stray"}
    BY DEF Sequential, WithdrawSent, WithdrawListed, WithdrawSettled, Swept, StrayCancelled, Answered
  <2>2. task[t].op = "cancel" /\ task[t].o[2] = "E"
    BY <2>1, LegFacts DEF OnCourse, PlaceSteps, ModifySteps, ClearSteps
  <2> QED BY <2>1, <2>2, LegFacts, TaskFields, Domains DEF InDoubt, Legs, IInv, TypeOK, TasksOK
<1>1. CASE RefuseSent(t)
  BY <1>0, <1>1, RefuseLegs
<1>2. CASE Cancelled(t)
  BY <1>0, <1>2, CancelledLegs
<1>3. CASE /\ Finish(t) /\ UNCHANGED <<venue, shown, unsure>>
           /\ UNCHANGED status \/ status' = Move({task[t].o}, "FILLED")
  <2>1. ASSUME NEW c \in Brackets, NEW l \in {"SL", "TP"} PROVE status'[<<c, l>>] = status[<<c, l>>]
    <3>0. <<c, l>>[2] # "E"
      OBVIOUS
    <3>1. <<c, l>> \in Orders /\ task[t].o # <<c, l>>
      BY <1>0, <3>0
    <3> QED BY <1>3, <3>1 DEF Move
  <2> QED BY <1>0, <1>3, <2>1, EventLegs
<1>4. ASSUME NEW stage, NEW call, UNCHANGED <<venue, status, shown, unsure>>,
             Await(t, stage, call, NoRow) \/ AwaitNoting(t, stage, call, NoRow, task[t].answer)
      PROVE  LInv'
  <2>1. PICK k : task' = [task EXCEPT ![t] = k] /\ k.op = task[t].op /\ k.o = task[t].o
    BY <1>4, Awaiting, AwaitingNoting
  <2>2. LegRead(k)'
    BY <1>0, <2>1 DEF LegRead
  <2> QED BY <1>0, <1>4, <2>1, <2>2, GoesOnLegs
<1>5. CASE WithdrawSent(t)
  BY <1>1, <1>4, <1>5 DEF WithdrawSent
<1>6. CASE WithdrawListed(t)
  BY <1>1, <1>2, <1>4, <1>6 DEF WithdrawListed
<1>7. CASE WithdrawSettled(t)
  BY <1>1, <1>3, <1>7 DEF WithdrawSettled, Filled
<1>8. CASE Swept(t)
  BY <1>3, <1>4, <1>8 DEF Swept
<1>9. CASE StrayCancelled(t)
  BY <1>3, <1>9 DEF StrayCancelled
<1> QED BY <1>5, <1>6, <1>7, <1>8, <1>9

(* What is announced of the legs is inductive, with what the commands have   *)
(* read and sent of them.                                                    *)
LEMMA LegsInductive == ASSUME Sequential PROVE Spec => []LInv
<1>0. Honest
  BY DEF Sequential, Honest
<1>1. Init => LInv
  <2> SUFFICES ASSUME Init PROVE LInv
    OBVIOUS
  <2>1. /\ \A t \in Tasks : task[t] = Idle
        /\ \A b \in Brackets : venue[b].at = "none"
        /\ \A b \in Brackets, l \in {"SL", "TP"} : status[<<b, l>>] = "INITIALIZED" /\ shown[<<b, l>>] = First
    BY Domains DEF Init, Legs
  <2>2. LegRead(Idle)
    BY DEF LegRead, Idle
  <2> QED BY <2>1, <2>2 DEF LInv, LegSound, Held
<1>2. IInv /\ NInv /\ LInv /\ [Next]_vars => LInv'
  <2> SUFFICES ASSUME IInv, NInv, LInv, [Next]_vars PROVE LInv'
    OBVIOUS
  <2>1. CASE UNCHANGED vars
    BY <2>1 DEF vars, LInv, LegSound, Held, InDoubt, LegRead, NewLevel, Side, RowOf
  <2>2. CASE Next
    <3>1. ASSUME NEW t \in Tasks, RefuseUnplaced(t) PROVE LInv'
      BY <3>1, RefuseLegs DEF RefuseUnplaced, Sequential
    <3> QED BY <2>2, <3>1, CommandLegs, ServeLegs, BrokerLegs, RefusedLegs, PlaceLegs, LegSteps,
               WithdrawLegs DEF Next, Resume
  <2> QED BY <2>1, <2>2
<1> QED BY <1>0, <1>1, <1>2, Inductive, VerdictsHold, PTL DEF Spec

(* With nothing in flight for a bracket, its legs are as announced.          *)
LEMMA LegsStand ==
    ASSUME LInv, NEW b \in Brackets, NEW l \in {"SL", "TP"}, ~Busy(b)
    PROVE  Held(b, l)
  BY DEF LInv, Busy, InDoubt

(* A leg the engine holds live is on the position at the level shown, with   *)
(* one command at a time, market brackets and a terminal that reports what   *)
(* it did: whatever replies are lost and whatever levels a fill drops.       *)
THEOREM LiveLegsAreHeld == ASSUME Sequential PROVE Spec => []AcceptedLegIsHeld
<1>1. LInv => AcceptedLegIsHeld
  BY LegsStand DEF AcceptedLegIsHeld, Held, Side
<1> QED BY <1>1, LegsInductive, PTL

(* A leg announced cancelled is not on the position, under the same terms.   *)
THEOREM CanceledLegsAreGone == ASSUME Sequential PROVE Spec => []CanceledLegIsGone
<1>1. LInv => CanceledLegIsGone
  BY LegsStand DEF CanceledLegIsGone, Held, Side
<1> QED BY <1>1, LegsInductive, PTL
=============================================================================
