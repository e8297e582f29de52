----------------------------- MODULE AuditChain -----------------------------
(***************************************************************************)
(* The hash chain of audit/chain.py over rows of audit_log, and nothing of *)
(* who writes them.  A hash is taken to be free of collisions: the hash of *)
(* an entry is the sequence of all events up to it, which is what the      *)
(* sha256 of an entry over its own content and the previous hash pins.     *)
(***************************************************************************)
EXTENDS Naturals, Sequences, FiniteSets

\* GENESIS_HASH.
Genesis == <<>>

\* compute_entry_hash.
EntryHash(prev, event) == Append(prev, event)

\* A row as audit_writer.write makes it.
Entry(seq, prev, event) ==
  [seq |-> seq, event |-> event, prev |-> prev, hash |-> EntryHash(prev, event)]

Before(rows, seq) == {r \in rows : r.seq < seq}

\* get_last_hash: the hash of the row with the greatest seq.
TipHash(rows) ==
  IF rows = {} THEN Genesis
  ELSE (CHOOSE r \in rows : \A x \in rows : x.seq <= r.seq).hash

\* verify_chain's two tests of one row: that it follows the one before it, and that its
\* hash is that of its content.
Linked(rows, r) == r.prev = TipHash(Before(rows, r.seq))

\* Mutant: the hash is not computed again.
Intact_Unchecked(r) == r.hash # Genesis

Intact(r) == r.hash = EntryHash(r.prev, r.event)

\* The rows at which a walk in seq order could stop; the first is what is reported.
Breaks(rows) == {r \in rows : ~Linked(rows, r) \/ ~Intact(r)}

\* verify_chain's answer ok.
Verifies(rows) == \A r \in rows : Linked(rows, r) /\ Intact(r)
=============================================================================
