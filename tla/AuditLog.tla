------------------------------ MODULE AuditLog ------------------------------
(***************************************************************************)
(* Transactions that append to audit_log through audit_writer.write: each  *)
(* entry reads the tip of the chain and then inserts a row that hashes it, *)
(* in the transaction of whatever the entry is about.                      *)
(*                                                                         *)
(* Nothing but the database's own locking orders two writers.  On SQLite a *)
(* transaction that has written a row (the operation it moves) holds the   *)
(* one write lock until it ends; one whose first write is the audit entry  *)
(* itself takes it only with the insert, after the tip was read.  On       *)
(* PostgreSQL writers of different operations do not wait for each other.  *)
(***************************************************************************)
EXTENDS AuditChain

CONSTANTS
  Writers,        \* concurrent transactions
  None,
  SingleWriter,   \* TRUE: SQLite; FALSE: PostgreSQL
  AuditOnly,      \* do transactions occur that write nothing but audit entries?
  MaxEntries      \* bound on the entries ever inserted

ASSUME AuditLogAssumption ==
  /\ SingleWriter \in BOOLEAN /\ AuditOnly \in BOOLEAN
  /\ MaxEntries \in Nat
  /\ None \notin Writers

VARIABLES
  log,       \* the committed rows of audit_log
  pending,   \* the rows each open transaction has inserted
  tip,       \* the hash each transaction read last
  pc,        \* "idle", "open", or "read" between the tip and the insert
  lock,      \* SQLite's write lock
  written    \* entries inserted so far, rolled back or not

vars == <<log, pending, tip, pc, lock, written>>

Seqs == 1 .. MaxEntries

\* An event is named by the order of its insertion: the timestamps that are hashed
\* with every entry make all of them different.
Events == 1 .. MaxEntries

Rows == [seq : Seqs, event : Events, prev : Seq(Events), hash : Seq(Events)]

\* Besides the types: a transaction that has ended holds no rows and no lock.
TypeOK ==
  /\ log \subseteq Rows
  /\ pending \in [Writers -> SUBSET Rows]
  /\ tip \in [Writers -> Seq(Events)]
  /\ pc \in [Writers -> {"idle", "open", "read"}]
  /\ lock \in Writers \union {None}
  /\ written \in 0 .. MaxEntries
  /\ \A w \in Writers : pc[w] = "idle" => pending[w] = {} /\ lock # w

Init ==
  /\ log = {}
  /\ pending = [w \in Writers |-> {}]
  /\ tip = [w \in Writers |-> Genesis]
  /\ pc = [w \in Writers |-> "idle"]
  /\ lock = None
  /\ written = 0

\* What a transaction sees: what is committed, and its own rows.
Visible(w) == log \union pending[w]

\* Mutant: a transaction that changes its rows without the write lock.
Begin_Unlocked(w) ==
  /\ pc[w] = "idle"
  /\ pc' = [pc EXCEPT ![w] = "open"]
  /\ UNCHANGED <<log, pending, tip, lock, written>>

\* A use case writes a row of its own before the entry about it (the compare-and-set
\* of a transition, a new operation, a new snapshot), or nothing but entries (a denied
\* prepare, a reconciliation record, the reload of a registry that is already stored).
Begin(w) ==
  /\ pc[w] = "idle"
  /\ \E changesRows \in IF AuditOnly THEN BOOLEAN ELSE {TRUE} :
       /\ SingleWriter /\ changesRows => lock = None
       /\ lock' = IF SingleWriter /\ changesRows THEN w ELSE lock
  /\ pc' = [pc EXCEPT ![w] = "open"]
  /\ UNCHANGED <<log, pending, tip, written>>

\* audit_writer.write up to get_last_hash.
ReadTip(w) ==
  /\ pc[w] = "open"
  /\ tip' = [tip EXCEPT ![w] = TipHash(Visible(w))]
  /\ pc' = [pc EXCEPT ![w] = "read"]
  /\ UNCHANGED <<log, pending, lock, written>>

\* Mutant: identities that are never given out twice, on SQLite either.
NextSeq_Sequence(w, seq) == seq = written + 1

\* Mutant: identities that are only roughly in order of time, like a ULID.
NextSeq_Rough(w, seq) == \A r \in Visible(w) : r.seq # seq

\* The seq of a new row: on SQLite one more than the greatest there is, on
\* PostgreSQL the next value of a sequence that no rollback takes back.
NextSeq(w, seq) ==
  IF SingleWriter
  THEN /\ \A r \in Visible(w) : r.seq < seq
       /\ seq = 1 \/ \E r \in Visible(w) : r.seq + 1 = seq
  ELSE seq = written + 1

\* The rest of audit_writer.write: the entry hashes the tip that was read, and is
\* inserted where the table now ends.
Insert(w) ==
  /\ pc[w] = "read"
  /\ SingleWriter => lock \in {None, w}
  /\ lock' = IF SingleWriter THEN w ELSE lock
  /\ \E seq \in Seqs :
       /\ NextSeq(w, seq)
       /\ pending' = [pending EXCEPT ![w] = @ \union {Entry(seq, tip[w], written + 1)}]
  /\ written < MaxEntries
  /\ written' = written + 1
  /\ pc' = [pc EXCEPT ![w] = "open"]
  /\ UNCHANGED <<log, tip>>

End(w) ==
  /\ pending' = [pending EXCEPT ![w] = {}]
  /\ tip' = [tip EXCEPT ![w] = Genesis]
  /\ pc' = [pc EXCEPT ![w] = "idle"]
  /\ lock' = IF lock = w THEN None ELSE lock
  /\ UNCHANGED written

\* session_scope, which commits the entries with what they are about.
Commit(w) ==
  /\ pc[w] = "open"
  /\ pending[w] # {}
  /\ log' = log \union pending[w]
  /\ End(w)

\* An exception anywhere, or the end of the process.
Rollback(w) ==
  /\ pc[w] # "idle"
  /\ End(w)
  /\ UNCHANGED log

Next ==
  \E w \in Writers :
    \/ Begin(w)
    \/ ReadTip(w) \/ Insert(w)
    \/ Commit(w) \/ Rollback(w)

Spec == Init /\ [][Next]_vars

-----------------------------------------------------------------------------
(* Properties.                                                             *)

\* audit verify finds nothing wrong with a log that nobody has tampered with
\* (AC-22), whatever transactions interleave or roll back.
ChainVerifies == Verifies(log)

\* The sequence numbers of the log have no gap (AuditLogEntry's docstring): "the
\* first break" and "covers through seq" count on it.
SeqIsGapFree == {r.seq : r \in log} = 1 .. Cardinality(log)

\* The events of the log in seq order.
InOrder ==
  [i \in 1 .. Cardinality(log) |->
     (CHOOSE r \in log : Cardinality(Before(log, r.seq)) = i - 1).event]

History == INSTANCE AppendOnlyLog WITH history <- InOrder

\* A transaction that commits adds its entries behind everything committed before:
\* what has been read of the log in seq order never changes.
ImplementsAppendOnlyLog == History!Spec
=============================================================================
