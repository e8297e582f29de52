---------------------------- MODULE AppendOnlyLog ----------------------------
(***************************************************************************)
(* What a reader of the audit log relies on: there is one history, and all *)
(* that ever happens to it is that events are added at its end.            *)
(***************************************************************************)
EXTENDS Naturals, Sequences

CONSTANT Events

VARIABLE history

Init == history = <<>>

\* One transaction adds the events of everything it did.
Add == \E events \in UNION {[1 .. n -> Events] : n \in 1 .. Len(history') - Len(history)} :
         history' = history \o events

Spec == Init /\ [][Add]_history
=============================================================================
