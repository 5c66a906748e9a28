------------------------------ MODULE Journal ------------------------------
(***************************************************************************)
(* The journal: journal/actor.py and the append of journal/store.py.       *)
(*                                                                         *)
(* Two threads: the loop (intake, timer, lifecycle) and the executor, which *)
(* runs one queued write at a time.  The lock makes the open and the append *)
(* of a write one step; what a worker does after it lets the lock go is    *)
(* another.  A direct write is the loop's own, so nothing of the loop runs *)
(* inside it.                                                              *)
(***************************************************************************)
EXTENDS Integers, SequencesExt

CONSTANTS
    Messages,       \* what is published on the topic, each once
    Id,             \* content id of each message
    None,           \* no parent
    Parent,         \* of each message: the id an outcome judges, None for another kind
    Tagged,         \* messages published with tags of their own
    Unreadable,     \* messages from_message refuses, or outcomes with no parent
    MaxPending, DegradeAfter

ASSUME ConstantsAssumption ==
    /\ Unreadable \subseteq Messages /\ Tagged \subseteq Messages /\ \A m \in Messages : Id[m] # None
    /\ MaxPending \in Nat \ {0} /\ DegradeAfter \in Nat \ {0}

VARIABLES
    pending,    \* _pending, oldest first
    queue,      \* batches handed to the executor and not yet written
    worker,     \* what the executor's last write did, until it returns
    writing,    \* _writing
    record,     \* the rows of the store
    opened,     \* _opened: the store holds a connection
    fails,      \* _consecutive_failures, counted up to DegradeAfter
    state,      \* the component's state
    attached,   \* the topics are subscribed to and the flush timer is set
    arrived     \* history: the messages published so far

vars == <<pending, queue, worker, writing, record, opened, fails, state, attached, arrived>>

States == {"ready", "running", "degraded", "stopped", "disposed"}
Row == [msg : Messages, tags : BOOLEAN,
        missed : BOOLEAN]   \* history: its decision's tags could not be read

Init ==
    /\ pending = <<>> /\ queue = <<>> /\ worker = "idle" /\ writing = FALSE
    /\ record = <<>> /\ opened = FALSE /\ fails = 0
    /\ state = "ready" /\ attached = FALSE /\ arrived = {}

---------------------------------------------------------------------------
(* The write.                                                              *)

Has(rows, id) == \E i \in DOMAIN rows : Id[rows[i].msg] = id
TagsIn(rows, id) == \E i \in DOMAIN rows : Id[rows[i].msg] = id /\ rows[i].tags

\* here.get(id): the tags of the last entry of the batch with that id.
TaggedHere(batch, id) ==
    \E j \in DOMAIN batch : /\ Id[batch[j]] = id /\ batch[j] \in Tagged
                           /\ \A k \in DOMAIN batch : k > j => Id[batch[k]] # id

\* The entries whose tags the store is asked for: untagged outcomes of a
\* decision that has none in this batch.
Asking(batch) ==
    {i \in DOMAIN batch : /\ batch[i] \notin Tagged /\ Parent[batch[i]] # None
                         /\ ~ TaggedHere(batch, Parent[batch[i]])}

\* Mutant: the parent is looked for on disk only.
InheritFromStore(batch, rows, unread) ==
    [i \in DOMAIN batch |->
        [msg |-> batch[i], missed |-> i \in unread,
         tags |-> \/ batch[i] \in Tagged
                  \/ i \notin unread /\ TagsIn(rows, Parent[batch[i]])]]

\* _inherit: an untagged outcome takes the tags of its decision, from this
\* batch or else from the store.  A read that fails (of unread) gives none.
Inherit(batch, rows, unread) ==
    [i \in DOMAIN batch |->
        [msg |-> batch[i], missed |-> i \in unread,
         tags |-> \/ batch[i] \in Tagged
                  \/ Parent[batch[i]] # None /\ TaggedHere(batch, Parent[batch[i]])
                  \/ i \in Asking(batch) \ unread /\ TagsIn(rows, Parent[batch[i]])]]

\* INSERT OR IGNORE, row after row: of an id met before, nothing changes.
Insert(rows, row) == IF Has(rows, Id[row.msg]) THEN rows ELSE Append(rows, row)
InsertAll(rows, new) ==
    LET after[n \in 0 .. Len(new)] == IF n = 0 THEN rows ELSE Insert(after[n - 1], new[n])
    IN  after[Len(new)]

\* The append of a batch, in one transaction.
Appended(rows, batch, unread) == InsertAll(rows, Inherit(batch, rows, unread))
Takes(batch) ==
    \E unread \in SUBSET Asking(batch) : record' = Appended(record, batch, unread)

Failure == IF fails < DegradeAfter THEN fails + 1 ELSE fails

\* Under the lock: the store is open or can be opened, and takes the batch
\* whole; or the failure is counted and the batch is lost.
Stored(batch) == opened' = TRUE /\ Takes(batch)
Lost == opened' \in {opened, TRUE} /\ fails' = Failure /\ UNCHANGED record

WorkerWrites ==
    /\ worker = "idle" /\ queue # <<>>
    /\ \/ Stored(queue[1]) /\ worker' = "ok" /\ UNCHANGED fails
       \/ Lost /\ worker' = "failed"
    /\ queue' = Tail(queue)
    /\ UNCHANGED <<pending, writing, state, attached, arrived>>

\* Mutant: an early return that leaves the flag set.
ReturnsHolding ==
    /\ worker # "idle"
    /\ fails' = IF worker = "ok" THEN 0 ELSE fails
    /\ writing' = (worker = "failed") /\ worker' = "idle"

\* After the lock: a success clears the count, the finally clears the flag.
Returns ==
    /\ worker # "idle"
    /\ fails' = IF worker = "ok" THEN 0 ELSE fails
    /\ writing' = FALSE /\ worker' = "idle"

WorkerReturns == Returns /\ UNCHANGED <<pending, queue, record, opened, state, attached, arrived>>

\* _flush(direct=True), on the loop.
FlushDirect ==
    \/ pending = <<>> /\ UNCHANGED <<pending, writing, record, opened, fails>>
    \/ /\ pending # <<>> /\ pending' = <<>> /\ writing' = FALSE
       /\ \/ Stored(pending) /\ fails' = 0
          \/ Lost

---------------------------------------------------------------------------
(* The intake and the timer.                                               *)

\* Mutant: the cap is tested after the append would have passed it.
OnEntryLate(m) ==
    /\ attached /\ state \in {"running", "degraded"} /\ m \notin arrived
    /\ arrived' = arrived \cup {m}
    /\ pending' = IF m \in Unreadable \/ Len(pending) > MaxPending
                  THEN pending ELSE Append(pending, m)
    /\ UNCHANGED <<queue, worker, writing, record, opened, fails, state, attached>>

\* on_entry: what cannot be read is dropped, what finds the buffer full shed.
OnEntry(m) ==
    /\ attached /\ state \in {"running", "degraded"} /\ m \notin arrived
    /\ arrived' = arrived \cup {m}
    /\ pending' = IF m \in Unreadable \/ Len(pending) >= MaxPending
                  THEN pending ELSE Append(pending, m)
    /\ UNCHANGED <<queue, worker, writing, record, opened, fails, state, attached>>

\* _flush: one batch, unless one is being written.
Flush ==
    IF pending = <<>> \/ writing THEN UNCHANGED <<pending, queue, writing>>
    ELSE /\ queue' = Append(queue, pending)
         /\ pending' = <<>> /\ writing' = TRUE

\* Mutant: what has degraded never resumes.
ReconciledNever == IF fails >= DegradeAfter THEN "degraded" ELSE state

\* _reconcile_state: the component's state follows the writer's.
Reconciled ==
    IF fails >= DegradeAfter /\ state = "running" THEN "degraded"
    ELSE IF fails = 0 /\ state = "degraded" THEN "running" ELSE state

OnTimer ==
    /\ attached /\ state \in {"running", "degraded"}
    /\ Flush /\ state' = Reconciled
    /\ UNCHANGED <<worker, record, opened, fails, attached, arrived>>

---------------------------------------------------------------------------
(* The lifecycle (the component's state machine is the framework's).       *)

\* on_start: the store is opened, or will be at the first write.
OnStart ==
    /\ state = "ready" /\ state' = "running" /\ attached' = TRUE
    /\ opened' \in BOOLEAN
    /\ UNCHANGED <<pending, queue, worker, writing, record, fails, arrived>>

\* on_stop: only of an actor that is running; a degraded one misses it.
OnStop ==
    /\ state = "running" /\ state' = "stopped" /\ attached' = FALSE
    /\ FlushDirect
    /\ UNCHANGED <<queue, worker, arrived>>

\* on_resume, of a stopped actor: it runs, and hears and writes nothing.
OnResume ==
    /\ state = "stopped" /\ state' = "running"
    /\ UNCHANGED <<pending, queue, worker, writing, record, opened, fails, attached, arrived>>

OnSave ==
    /\ state # "disposed"
    /\ FlushDirect
    /\ UNCHANGED <<queue, worker, state, attached, arrived>>

\* Mutant: the file goes with the buffer.
ResetEmptying ==
    /\ state = "stopped" /\ state' = "ready"
    /\ pending' = <<>> /\ fails' = 0 /\ record' = <<>>
    /\ UNCHANGED <<queue, worker, writing, opened, attached, arrived>>

\* on_reset: the buffer and the tally go, the record and the flag stay.
OnReset ==
    /\ state = "stopped" /\ state' = "ready"
    /\ pending' = <<>> /\ fails' = 0
    /\ UNCHANGED <<queue, worker, writing, record, opened, attached, arrived>>

\* on_dispose: what is left is written and the connection is released.
OnDispose ==
    /\ state \in {"ready", "stopped", "degraded"} /\ state' = "disposed"
    /\ pending' = <<>>
    /\ \/ pending = <<>> /\ UNCHANGED <<writing, record, fails>>
       \/ /\ pending # <<>> /\ writing' = FALSE
          /\ \/ Takes(pending) /\ fails' = 0
             \/ fails' = Failure /\ UNCHANGED record
    /\ opened' = FALSE
    /\ UNCHANGED <<queue, worker, attached, arrived>>

---------------------------------------------------------------------------
Next ==
    \/ \E m \in Messages : OnEntry(m)
    \/ OnTimer \/ WorkerWrites \/ WorkerReturns
    \/ OnStart \/ OnStop \/ OnResume \/ OnSave \/ OnReset \/ OnDispose

Spec == Init /\ [][Next]_vars

\* The clock fires and the executor runs what it was handed.
LiveSpec == Spec /\ WF_vars(OnTimer) /\ WF_vars(WorkerWrites) /\ WF_vars(WorkerReturns)
---------------------------------------------------------------------------
(* Type invariant of the model (no code behaviour of its own).             *)
TypeOK ==
    /\ pending \in Seq(Messages) /\ Len(pending) <= MaxPending
    /\ queue \in Seq(Seq(Messages))
    /\ worker \in {"idle", "ok", "failed"} /\ writing \in BOOLEAN
    /\ record \in Seq(Row)
    /\ opened \in BOOLEAN /\ fails \in 0..DegradeAfter
    /\ state \in States /\ attached \in BOOLEAN /\ arrived \subseteq Messages

InFlight == UNION {Range(queue[i]) : i \in DOMAIN queue}

(* The journal keeps the promise of Record: through slow and failed writes, *)
(* direct flushes at a stop, a save or a dispose, and resets, every message *)
(* is in the buffer, in one batch, in the record or given up, a batch is   *)
(* written whole or not at all, and the record is only ever appended to.   *)
Promise == INSTANCE Record WITH
    taken <- arrived,
    waiting <- Range(pending) \cup InFlight,
    record <- [i \in DOMAIN record |-> record[i].msg]
KeepsPromise == Promise!Spec

(* An outcome written after its decision, or with it, carries its tags, so  *)
(* that a tag filter finds both (_inherit): unless the store could not be  *)
(* read for them, or the decision was also published without tags.  Such   *)
(* an entry has the same id; in the batch the last one counts, in the      *)
(* store the first.                                                        *)
OutcomeFound ==
    \A i, j \in DOMAIN record :
        /\ Parent[record[i].msg] = Id[record[j].msg] /\ j < i /\ record[j].tags
        /\ ~ record[i].missed
        /\ \A m \in arrived : Id[m] = Parent[record[i].msg] => m \in Tagged
        => record[i].tags

(* The writer never sticks: what is buffered leaves the buffer, whatever   *)
(* the store refuses, because the flag is cleared on every path of _write. *)
NothingSticks ==
    \A m \in Messages : m \in Range(pending) ~> m \notin Range(pending)

(* A journal whose last write went through does not stay degraded.         *)
Recovers == state = "degraded" /\ fails = 0 ~> state # "degraded" \/ fails # 0
=============================================================================
