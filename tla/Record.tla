------------------------------ MODULE Record ------------------------------
(***************************************************************************)
(* What the journal promises, without its buffer, its thread or its locks: *)
(* a message is taken once, waits, and is then kept with its whole batch   *)
(* or given up; the record only grows, and never holds an id twice.        *)
(***************************************************************************)
EXTENDS SequencesExt

CONSTANTS Messages, Id

VARIABLES taken, waiting, record

Init == taken = {} /\ waiting = {} /\ record = <<>>

Held(rows, m) == \E i \in DOMAIN rows : Id[rows[i]] = Id[m]
Distinct(rows) == \A i, j \in DOMAIN rows : Id[rows[i]] = Id[rows[j]] => i = j

Take == \E m \in Messages \ taken :
    /\ taken' = taken \cup {m}
    /\ waiting' \in {waiting, waiting \cup {m}}
    /\ UNCHANGED record

\* All of a batch ends in the record: as a row of its own, or as one already there.
Keep == \E batch \in SUBSET waiting :
    /\ waiting' = waiting \ batch
    /\ IsPrefix(record, record') /\ Distinct(record')
    /\ \A i \in DOMAIN record' \ DOMAIN record : record'[i] \in batch
    /\ \A m \in batch : Held(record', m)
    /\ UNCHANGED taken

GiveUp ==
    /\ waiting' \subseteq waiting
    /\ UNCHANGED <<taken, record>>

Next == Take \/ Keep \/ GiveUp

Spec == Init /\ [][Next]_<<taken, waiting, record>>
=============================================================================
