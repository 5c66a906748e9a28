----------------------------- MODULE MCJournal -----------------------------
(* Journal for TLC: a tagged decision, published again with no tags, its    *)
(* outcome, a note, and a message that cannot be read.                      *)
EXTENDS Journal

MCId == [d |-> "decision", again |-> "decision", o |-> "outcome", n |-> "note", x |-> "other"]
MCParent == [m \in Messages |-> IF m = "o" THEN "decision" ELSE None]
=============================================================================
